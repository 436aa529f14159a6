----------------------------- MODULE GuardianLink -----------------------------
(***************************************************************************)
(* What a runner and its guardian share: the private IPC channel           *)
(* (src/src/guardian-protocol.ts), the guardian's process, whose exit the  *)
(* runner observes, and the wall clock of the job's deadline.              *)
(*                                                                         *)
(* The channel has two FIFO directions. What was sent before an end closed *)
(* is still delivered, then the other end sees the disconnect; what is     *)
(* sent to a closed end is lost.                                           *)
(***************************************************************************)
EXTENDS Sequences

VARIABLES
    toRunner,         \* messages on their way to the runner
    toGuardian,       \* messages on their way to the guardian
    runnerEnd,        \* the runner's end is open
    guardianEnd,      \* the guardian's end is open
    guardianProcess,  \* the guardian's operating-system process
    expired           \* the wall clock has reached deadlineAtMs

ends == <<runnerEnd, guardianEnd>>
link == <<toRunner, toGuardian, ends, guardianProcess, expired>>

ProcessStates == {"unborn", "booting", "running", "gone"}

\* sendGuardianMessage returns false on a closed channel and never throws.
SendToRunner(messages) ==
    toRunner' = IF runnerEnd /\ guardianEnd THEN toRunner \o messages ELSE toRunner

SendToGuardian(messages) ==
    toGuardian' = IF runnerEnd /\ guardianEnd THEN toGuardian \o messages
                                              ELSE toGuardian

\* An end learns that its peer is gone once it has read everything before it.
RunnerSeesDisconnect   == ~guardianEnd /\ runnerEnd /\ toRunner = << >>
GuardianSeesDisconnect == ~runnerEnd /\ guardianEnd /\ toGuardian = << >>
=============================================================================
