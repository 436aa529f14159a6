---------------------------- MODULE GuardianProofs ----------------------------
(***************************************************************************)
(* What the guardian keeps, whoever holds the other end of its channel:    *)
(* lemmas about its steps, for the specifications it is part of, and what  *)
(* follows for a guardian against any peer, for any number of messages,    *)
(* shell codes and signals.                                                *)
(***************************************************************************)
EXTENDS GuardianAlone, SequenceTheorems, FiniteSetTheorems, TLAPS

-----------------------------------------------------------------------------
(* The inductive invariant *)

\* TERM and the grace begin together, once, and the timer of KILL is gone when KILL
\* was signalled, or the guardian is. This holds whoever the peer is.
CleanupOnce ==
    /\ shell.terms = IF guardian.cleanupStarted THEN 1 ELSE 0
    /\ "kill" \in guardian.armed => guardian.cleanupStarted
    /\ shell.kills \in {0, 1}
    /\ shell.kills = 1 =>
           /\ guardian.cleanupStarted
           /\ "kill" \notin guardian.armed \/ guardianProcess = "gone"

\* The replies to its hello that are on their way.
Replies == {i \in DOMAIN toGuardian : toGuardian[i].type = "hello_reply"}

\* The peer answers the hello once, as the runner does. The rest of the guardian's
\* order rests on it: a second reply would begin a second verification, which makes
\* the guardian ready again after it has taken a grant.
RepliedOnce ==
    /\ toGuardian \in Seq([type : PeerMessages])
    /\ \A i, k \in Replies : i = k
    /\ guardian.helloReceived => Replies = {}

\* Before a grant is taken nothing was started; `granted' lasts until spawn() has
\* reported; and the one shell was started if, and only if, there is or was a process.
LaunchInOrder ==
    /\ guardian.state \in {"starting", "ready"} =>
           shell = NoShell /\ guardian.armed = {}
    /\ guardian.verifying \in {0, 1}
    /\ guardian.verifying = 1 => guardian.state = "starting" /\ guardian.helloReceived
    /\ guardian.older = 0 /\ shell.further = 0
    /\ shell.reporting # "no" <=> guardian.state = "granted"
    /\ shell.reporting = "spawn" => shell.process = "running"
    /\ shell.reporting = "error" => shell.process = "none"
    /\ shell.started = IF shell.process = "none" THEN 0 ELSE 1

\* A cleanup is final, and the timer of KILL is the tracked one.
CleanupInOrder ==
    /\ CleanupOnce
    /\ guardian.state = "cleaning" => guardian.cleanupStarted
    /\ guardian.cleanupStarted => guardian.state \in {"cleaning", "exited"}
    /\ "kill" \in guardian.armed => guardian.deadlineTimer = "kill"

GuardianInv ==
    /\ guardian \in GuardianType /\ shell \in ShellType
    /\ LaunchInOrder /\ CleanupInOrder

\* The guardian has acted on a grant (or has stopped since, having started a shell).
GrantTaken ==
    guardian.state \in {"granted", "shell_spawned", "cleaning"} \/ shell.started > 0

\* The messages that a guardian sends.
GuardianMessages ==
    [type : {"hello", "protocol_violation", "shell_spawned",
             "cleanup_kill_intent", "deadline"}]
    \cup [type : {"topology"}, ok : BOOLEAN]
    \cup [type : {"shell_error"}, reason : {"spawn", "expired_before_spawn"}]
    \cup [type : {"shell_exit"}, outcome : ShellOutcomes]
    \cup [type : {"cleanup_term"}, observation : SignalResults]

\* No shell was started, and none will be.
NeverStarts == guardian.state = "exited" /\ shell.started = 0

\* What a message says happened.
HoldsTrue(m) ==
    /\ m.type = "topology" => m.ok \/ NeverStarts
    /\ m.type = "shell_spawned" => shell.started = 1
    /\ m.type = "shell_error" =>
           NeverStarts /\ (m.reason = "expired_before_spawn" => expired)
    /\ m.type = "shell_exit" => shell.process = "exited" /\ shell.outcome = m.outcome
    /\ m.type = "cleanup_term" => shell.terms = 1
    /\ m.type = "cleanup_kill_intent" => shell.kills = 1
    /\ m.type = "deadline" => expired

TrueMessages == {m \in GuardianMessages : HoldsTrue(m)}

\* The channel carries nothing but what happened.
ChannelInv == toRunner \in Seq(TrueMessages)

-----------------------------------------------------------------------------
(* Its steps *)

\* Everything that happens to the guardian and its shell.
GuardianActs == GuardianStep \/ GuardianSigterm \/ GuardianCrash \/ DeadlinePasses

\* What has happened is not undone.
Advances ==
    /\ guardian.state \notin {"starting", "ready"} =>
           guardian'.state \notin {"starting", "ready"}
    /\ NeverStarts => NeverStarts'
    /\ shell.started = 1 => shell'.started = 1
    /\ shell.terms = 1 => shell'.terms = 1
    /\ shell.kills = 1 => shell'.kills = 1
    /\ shell.process = "exited" => shell'.process = "exited"
                                   /\ shell'.outcome = shell.outcome
    /\ expired => expired'

\* A shell that has not ended since.
Follows(sh) ==
    /\ sh \in ShellType
    /\ sh.started = shell.started /\ sh.terms = shell.terms /\ sh.kills = shell.kills
    /\ sh.further = shell.further /\ sh.reporting = shell.reporting
    /\ sh.process = "none" <=> shell.process = "none"
    /\ shell.process = "exited" => sh = shell

\* Stopping a guardian that has started nothing, or whose cleanup is over.
LEMMA StopKeeps ==
    ASSUME GuardianInv, guardian' = Stopped(guardian), shell' = shell,
           shell.reporting = "no", expired' = expired, guardianProcess' = guardianProcess
    PROVE  GuardianInv' /\ Advances
  <1>1. guardian' \in GuardianType /\ guardian'.state = "exited"
    BY DEF GuardianInv, GuardianType, GuardianStates, Stopped
  <1>2. LaunchInOrder'
    BY DEF GuardianInv, GuardianType, LaunchInOrder, Stopped
  <1>3. CleanupInOrder'
    BY DEF GuardianInv, GuardianType, CleanupInOrder, CleanupOnce, Stopped
  <1> QED
    BY <1>1, <1>2, <1>3 DEF GuardianInv, Advances, NeverStarts

\* cleanup(), after its caller has cleared the launch deadline or recorded the exit.
LEMMA CleanupKeeps ==
    ASSUME GuardianInv, shell.reporting = "no",
           guardian.state \notin {"starting", "ready"},
           NEW g, g \in {guardian, [guardian EXCEPT !.armed = @ \ {"deadline"}]},
           NEW sh, Follows(sh),
           NEW receipt, NEW cause, Cleanup(g, sh, receipt, cause),
           expired' = expired, guardianProcess' = guardianProcess
    PROVE  GuardianInv' /\ Advances
  <1>1. /\ g \in GuardianType /\ g.state = guardian.state
        /\ g.cleanupStarted = guardian.cleanupStarted /\ g.verifying = guardian.verifying
        /\ g.helloReceived = guardian.helloReceived /\ g.older = guardian.older
        /\ g.deadlineTimer = guardian.deadlineTimer /\ g.armed \subseteq guardian.armed
        /\ "kill" \in g.armed <=> "kill" \in guardian.armed
    BY DEF GuardianInv, GuardianType
  <1>2. CASE CleanupAllowed
    <2>1. guardian' = Grace(g) /\ shell' = [sh EXCEPT !.terms = @ + 1]
      BY <1>2 DEF Cleanup
    <2>2. guardian' \in GuardianType /\ shell' \in ShellType
      <3>1. sh.terms \in Nat /\ sh.terms + 1 \in Nat
        BY DEF Follows, ShellType
      <3>2. guardian' \in GuardianType
        BY <1>1, <2>1 DEF Grace, GuardianType, GuardianStates
      <3> QED
        BY <2>1, <3>1, <3>2 DEF Follows, ShellType
    <2>3. LaunchInOrder'
      BY <1>1, <1>2, <2>1 DEF GuardianInv, GuardianType, LaunchInOrder, Grace,
                              Follows, ShellType, CleanupAllowed
    <2>4. CleanupInOrder'
      BY <1>1, <1>2, <2>1 DEF GuardianInv, GuardianType, CleanupInOrder, CleanupOnce, Grace,
                              Follows, ShellType, CleanupAllowed
    <2>5. Advances
      BY <1>1, <1>2, <2>1 DEF GuardianInv, GuardianType, CleanupInOrder, CleanupOnce, Advances,
                              NeverStarts, Follows, Grace, ShellType, CleanupAllowed
    <2> QED
      BY <2>2, <2>3, <2>4, <2>5 DEF GuardianInv
  <1>3. CASE ~CleanupAllowed
    <2>1. guardian' = g /\ shell' = sh
      BY <1>3 DEF Cleanup
    <2>2. LaunchInOrder'
      BY <1>1, <2>1 DEF GuardianInv, LaunchInOrder, Follows
    <2>3. CleanupInOrder'
      BY <1>1, <2>1 DEF GuardianInv, CleanupInOrder, CleanupOnce, Follows
    <2>4. Advances
      BY <1>1, <2>1 DEF GuardianInv, Advances, NeverStarts, Follows
    <2> QED
      BY <1>1, <2>1, <2>2, <2>3, <2>4 DEF GuardianInv, Follows
  <1> QED
    BY <1>2, <1>3

\* The shell as it is.
LEMMA ShellFollowsItself == ASSUME GuardianInv PROVE Follows(shell)
  BY DEF Follows, GuardianInv

\* Every step of the guardian keeps its invariant and undoes nothing.
LEMMA GuardianKeeps ==
    ASSUME GuardianInv, RepliedOnce, GuardianActs
    PROVE  GuardianInv' /\ Advances
  <1>1. CASE \/ GuardianBoots \/ GrantRefused \/ GuardianExits \/ GuardianCrash
             \/ DeadlinePasses
    <2>1. /\ guardian' = guardian /\ shell' = shell
          /\ guardianProcess = "gone" => guardianProcess' = "gone"
          /\ expired => expired'
      BY <1>1 DEF GuardianBoots, GrantRefused, GuardianExits, GuardianCrash,
                  DeadlinePasses, guardianVars, Receive, Running
    <2> QED
      BY <2>1 DEF GuardianInv, LaunchInOrder, CleanupInOrder, CleanupOnce, Advances, NeverStarts
  <1>2. CASE GuardianHelloReply
    <2>1. /\ shell' = shell /\ expired' = expired /\ guardianProcess' = guardianProcess
          /\ guardian' = IF guardian.state = "starting"
                         THEN [guardian EXCEPT !.helloReceived = TRUE, !.verifying = @ + 1]
                         ELSE guardian
      BY <1>2 DEF GuardianHelloReply
    <2>2. guardian.verifying = 0
      <3>1. 1 \in Replies
        BY <1>2 DEF GuardianHelloReply, Receive, Replies, RepliedOnce
      <3> QED
        BY <3>1 DEF RepliedOnce, GuardianInv, LaunchInOrder
    <2>3. guardian' \in GuardianType
      <3>1. \/ guardian' = guardian
            \/ guardian' = [guardian EXCEPT !.helloReceived = TRUE, !.verifying = 1]
        BY <2>1, <2>2
      <3>2. guardian \in GuardianType /\ 1 \in Nat
        BY DEF GuardianInv
      <3> QED
        BY <3>1, <3>2 DEF GuardianType
    <2>4. /\ guardian'.state = guardian.state /\ guardian'.armed = guardian.armed
          /\ guardian'.cleanupStarted = guardian.cleanupStarted
          /\ guardian'.deadlineTimer = guardian.deadlineTimer
          /\ guardian'.older = guardian.older /\ guardian'.verifying \in {0, 1}
          /\ guardian'.verifying = 1 =>
                 guardian'.state = "starting" /\ guardian'.helloReceived
      BY <2>1, <2>2 DEF GuardianInv, GuardianType, LaunchInOrder
    <2> QED
      BY <2>1, <2>3, <2>4 DEF GuardianInv, LaunchInOrder, CleanupInOrder, CleanupOnce,
                              Advances, NeverStarts
  <1>3. CASE GuardianReadinessTimeout \/ GrantExpired
    BY <1>3, StopKeeps DEF GuardianReadinessTimeout, GrantExpired, Stop, Receive, Running
  <1>4. ASSUME NEW ok \in BOOLEAN, GuardianTopology(ok) PROVE GuardianInv' /\ Advances
    <2>1. CASE ok
      <3>1. /\ guardian' = [guardian EXCEPT !.verifying = @ - 1, !.state = "ready"]
            /\ shell' = shell /\ expired' = expired /\ guardianProcess' = guardianProcess
            /\ guardian.state = "starting" /\ guardian.verifying = 1
        BY <1>4, <2>1 DEF GuardianTopology, GuardianInv, LaunchInOrder
      <3>2. guardian' = [guardian EXCEPT !.verifying = 0, !.state = "ready"]
        BY <3>1
      <3>3. guardian' \in GuardianType
        BY <3>2 DEF GuardianInv, GuardianType, GuardianStates
      <3>4. LaunchInOrder' /\ CleanupInOrder'
        BY <3>1, <3>2
           DEF GuardianInv, GuardianType, LaunchInOrder, CleanupInOrder, CleanupOnce
      <3> QED
        BY <3>1, <3>3, <3>4 DEF GuardianInv, Advances, NeverStarts
    <2>2. CASE ~ok
      BY <1>4, <2>2, StopKeeps DEF GuardianTopology, Stop, Running
    <2> QED
      BY <2>1, <2>2
  <1>5. ASSUME NEW started \in BOOLEAN, GrantSpawns(started)
        PROVE  GuardianInv' /\ Advances
    <2>1. /\ guardian.state = "ready" /\ shell = NoShell /\ guardian.armed = {}
          /\ guardian' = Granted(guardian)
          /\ shell' = IF started THEN Spawned(shell)
                                 ELSE [shell EXCEPT !.reporting = "error"]
          /\ expired' = expired /\ guardianProcess' = guardianProcess
      BY <1>5 DEF GrantSpawns, GrantAccepted, GuardianInv, LaunchInOrder
    <2>2. guardian' \in GuardianType /\ shell' \in ShellType
      <3>1. guardian' \in GuardianType
        BY <2>1 DEF GuardianInv, GuardianType, GuardianStates, Granted
      <3> QED
        BY <2>1, <3>1 DEF GuardianInv, ShellType, Spawned, NoShell
    <2>3. LaunchInOrder' /\ CleanupInOrder'
      BY <2>1 DEF GuardianInv, GuardianType, NoShell, LaunchInOrder, CleanupInOrder, CleanupOnce,
                  Granted, Spawned
    <2> QED
      BY <2>1, <2>2, <2>3 DEF GuardianInv, Advances, NeverStarts, NoShell, Granted, Spawned
  <1>6. CASE ShellSpawnEvent
    <2>1. /\ shell.reporting = "spawn" /\ shell.process = "running"
          /\ guardian' = [guardian EXCEPT !.state = "shell_spawned"]
          /\ shell' = [shell EXCEPT !.reporting = "no"]
          /\ expired' = expired /\ guardianProcess' = guardianProcess
      BY <1>6 DEF ShellSpawnEvent, Reported, GuardianInv, LaunchInOrder
    <2>2. guardian' \in GuardianType /\ shell' \in ShellType
      BY <2>1 DEF GuardianInv, GuardianType, GuardianStates, ShellType
    <2>3. LaunchInOrder' /\ CleanupInOrder'
      BY <2>1 DEF GuardianInv, GuardianType, ShellType, LaunchInOrder, CleanupInOrder, CleanupOnce
    <2> QED
      BY <2>1, <2>2, <2>3 DEF GuardianInv, LaunchInOrder, Advances, NeverStarts, ShellType
  <1>7. CASE ShellErrorEvent
    <2>1. /\ shell.reporting = "error" /\ shell.process = "none"
          /\ guardian' = Stopped(guardian)
          /\ shell' = [shell EXCEPT !.reporting = "no"]
          /\ expired' = expired /\ guardianProcess' = guardianProcess
      BY <1>7 DEF ShellErrorEvent, Reported, Stop, GuardianInv, LaunchInOrder
    <2>2. guardian' \in GuardianType /\ shell' \in ShellType
      BY <2>1 DEF GuardianInv, GuardianType, GuardianStates, ShellType, Stopped
    <2>3. LaunchInOrder' /\ CleanupInOrder'
      BY <2>1 DEF GuardianInv, GuardianType, ShellType, LaunchInOrder, CleanupInOrder, CleanupOnce,
                  Stopped
    <2> QED
      <3>1. guardian.state = "granted" /\ guardian'.state = "exited"
        BY <2>1 DEF GuardianInv, GuardianType, LaunchInOrder, Stopped
      <3>2. /\ shell'.started = shell.started /\ shell'.terms = shell.terms
            /\ shell'.kills = shell.kills
        BY <2>1 DEF GuardianInv, ShellType
      <3> QED
        BY <2>1, <2>2, <2>3, <3>1, <3>2 DEF GuardianInv, Advances, NeverStarts
  <1>8. ASSUME NEW outcome \in ShellOutcomes, ShellExitEvent(outcome)
        PROVE  GuardianInv' /\ Advances
    <2>1. PICK sh : sh = [shell EXCEPT !.process = "exited", !.outcome = outcome]
      OBVIOUS
    <2>2. /\ shell.reporting = "no" /\ shell.process = "running"
          /\ Cleanup(guardian, sh, <<[type |-> "shell_exit", outcome |-> outcome]>>, << >>)
          /\ expired' = expired /\ guardianProcess' = guardianProcess
      BY <1>8, <2>1 DEF ShellExitEvent, Running, GuardianInv, LaunchInOrder
    <2>3. Follows(sh)
      BY <2>1, <2>2 DEF Follows, GuardianInv, ShellType
    <2>4. guardian.state \notin {"starting", "ready"}
      BY <2>2 DEF GuardianInv, LaunchInOrder, NoShell
    <2> QED
      BY <2>2, <2>3, <2>4, CleanupKeeps
  <1>9. CASE GuardianDeadline
    <2>1. PICK g : g = [guardian EXCEPT !.armed = @ \ {"deadline"}]
      OBVIOUS
    <2>2. /\ shell.reporting = "no" /\ "deadline" \in guardian.armed
          /\ Cleanup(g, shell, << >>, <<[type |-> "deadline"]>>)
          /\ expired' = expired /\ guardianProcess' = guardianProcess
      BY <1>9, <2>1 DEF GuardianDeadline, Running, GuardianInv, LaunchInOrder
    <2>3. guardian.state \notin {"starting", "ready"}
      BY <2>2 DEF GuardianInv, LaunchInOrder
    <2> QED
      BY <2>1, <2>2, <2>3, ShellFollowsItself, CleanupKeeps
  <1>10. CASE GuardianKill
    <2>1. /\ "kill" \in guardian.armed /\ guardianProcess = "running"
          /\ guardian.cleanupStarted /\ guardian.deadlineTimer = "kill"
          /\ shell.kills = 0 /\ shell.kills + 1 \in Nat /\ shell.reporting = "no"
      BY <1>10 DEF GuardianKill, Running, GuardianInv, CleanupInOrder, CleanupOnce
    <2>2. CASE /\ guardianProcess' = "gone" /\ guardian' = guardian
               /\ shell' = [shell EXCEPT !.kills = @ + 1, !.further = 0,
                               !.process = IF @ = "running" THEN "killed" ELSE @]
               /\ expired' = expired
      <3>1. shell' \in ShellType
        BY <2>1, <2>2 DEF GuardianInv, ShellType
      <3>2. LaunchInOrder' /\ CleanupInOrder'
        BY <2>1, <2>2 DEF GuardianInv, ShellType, LaunchInOrder, CleanupInOrder, CleanupOnce, NoShell
      <3> QED
        BY <2>1, <2>2, <3>1, <3>2 DEF GuardianInv, ShellType, Advances, NeverStarts
    <2>3. CASE /\ guardianProcess' = guardianProcess
               /\ guardian' = Stopped([guardian EXCEPT !.armed = @ \ {"kill"}])
               /\ shell' = [shell EXCEPT !.kills = @ + 1]
               /\ expired' = expired
      <3>1. guardian' \in GuardianType
        BY <2>3 DEF GuardianInv, GuardianType, GuardianStates, Stopped
      <3>2. shell' \in ShellType
        BY <2>1, <2>3 DEF GuardianInv, ShellType
      <3>3. LaunchInOrder' /\ CleanupInOrder'
        BY <2>1, <2>3 DEF GuardianInv, GuardianType, ShellType, LaunchInOrder,
                          CleanupInOrder, CleanupOnce, Stopped
      <3> QED
        BY <2>1, <2>3, <3>1, <3>2, <3>3 DEF GuardianInv, ShellType, GuardianType, Advances,
                                      NeverStarts, Stopped
    <2> QED
      BY <1>10, <2>2, <2>3 DEF GuardianKill
  <1>11. CASE GuardianSigterm
    BY <1>11, StopKeeps, ShellFollowsItself, CleanupKeeps
       DEF GuardianSigterm, Stop, Running
  <1>12. CASE GuardianDisconnect
    BY <1>12, StopKeeps, ShellFollowsItself, CleanupKeeps
       DEF GuardianDisconnect, DisconnectCleans, Running
  <1>13. ~ShellErrorIgnored
    BY DEF ShellErrorIgnored, ShellExited, Reported, GuardianInv, LaunchInOrder
  <1> QED
    BY <1>1, <1>2, <1>3, <1>4, <1>5, <1>6, <1>7, <1>8, <1>9, <1>10, <1>11, <1>12, <1>13
       DEF GuardianActs, GuardianStep, GuardianWorks

-----------------------------------------------------------------------------
(* Its channel *)

\* Sequences over a set are sequences over every larger one.
LEMMA SeqOfMore ==
    ASSUME NEW S, NEW T, S \subseteq T, NEW s \in Seq(S) PROVE s \in Seq(T)
  OBVIOUS

\* What was true stays true.
LEMMA TruthStays == Advances => TrueMessages \subseteq TrueMessages'
  BY DEF Advances, NeverStarts, TrueMessages, HoldsTrue

\* What is sent while it is true joins what was sent before, or is lost.
LEMMA SentTruthfully ==
    ASSUME ChannelInv, Advances,
           NEW ms, ms \in Seq(TrueMessages'), SendToRunner(ms)
    PROVE  ChannelInv'
  <1>1. toRunner \in Seq(TrueMessages')
    BY TruthStays, SeqOfMore DEF ChannelInv
  <1>2. toRunner \o ms \in Seq(TrueMessages')
    BY <1>1, ConcatProperties
  <1> QED
    BY <1>1, <1>2 DEF ChannelInv, SendToRunner

\* What is not touched stays, and so does what is left after a reading.
LEMMA NothingSent ==
    ASSUME ChannelInv, Advances,
           \/ toRunner' = toRunner
           \/ toRunner # << >> /\ toRunner' = Tail(toRunner)
    PROVE  ChannelInv'
  <1>1. toRunner \in Seq(TrueMessages')
    BY TruthStays, SeqOfMore DEF ChannelInv
  <1>2. toRunner # << >> => Tail(toRunner) \in Seq(TrueMessages')
    BY <1>1, HeadTailProperties
  <1> QED
    BY <1>1, <1>2 DEF ChannelInv

\* A sequence of one, two or three elements.
LEMMA ShortSequences ==
    ASSUME NEW S, NEW a \in S
    PROVE  /\ << >> \in Seq(S) /\ <<a>> \in Seq(S)
           /\ \A b \in S : <<a, b>> \in Seq(S)
  OBVIOUS

\* What a step may truly report. The hello is said by booting, and never again.
News == {m \in TrueMessages' : m.type # "hello"}

\* A step sends nothing, or news.
Reports == toRunner' = toRunner \/ \E ms \in Seq(News) : SendToRunner(ms)

\* Every step of the guardian sends nothing but what it has done or seen.
LEMMA GuardianReports ==
    ASSUME GuardianInv, RepliedOnce, GuardianActs, ~GuardianBoots
    PROVE  Reports
  <1>0. GuardianInv' /\ Advances
    BY GuardianKeeps
  <1> DEFINE Told(m) == m \in GuardianMessages /\ m.type # "hello" /\ HoldsTrue(m)'
  <1>1. ASSUME NEW m, Told(m), SendToRunner(<<m>>) PROVE Reports
    <2>1. m \in News
      BY <1>1 DEF News, TrueMessages
    <2> QED
      BY <1>1, <2>1, ShortSequences DEF Reports
  <1>2. ASSUME NEW m, NEW n, Told(m), Told(n), SendToRunner(<<m, n>>) PROVE Reports
    <2>1. m \in News /\ n \in News
      BY <1>2 DEF News, TrueMessages
    <2> QED
      BY <1>2, <2>1, ShortSequences DEF Reports
  <1>3. CASE toRunner' = toRunner
    BY <1>3 DEF Reports
  <1>4. CASE \/ GuardianHelloReply \/ GuardianReadinessTimeout \/ GuardianExits
             \/ GuardianCrash \/ DeadlinePasses
             \/ \E started \in BOOLEAN : GrantSpawns(started)
    BY <1>3, <1>4
       DEF GuardianHelloReply, GuardianReadinessTimeout, GuardianExits, GuardianCrash,
           DeadlinePasses, GrantSpawns
  <1>6. CASE GrantRefused
    <2>1. Told([type |-> "protocol_violation"])
      BY DEF GuardianMessages, HoldsTrue
    <2> QED
      BY <1>1, <1>6, <2>1 DEF GrantRefused
  <1>7. ASSUME NEW ok \in BOOLEAN, GuardianTopology(ok) PROVE Reports
    <2>1. CASE ok
      <3>1. Told([type |-> "topology", ok |-> ok])
        BY <2>1 DEF GuardianMessages, HoldsTrue
      <3> QED
        BY <1>1, <1>7, <3>1 DEF GuardianTopology
    <2>2. CASE ~ok
      <3>1. guardian.state = "starting" /\ guardian' = Stopped(guardian) /\ shell' = shell
        BY <1>7, <2>2 DEF GuardianTopology, Stop, GuardianInv, LaunchInOrder
      <3>2. NeverStarts'
        BY <3>1 DEF GuardianInv, GuardianType, LaunchInOrder, NoShell, NeverStarts, Stopped
      <3>3. Told([type |-> "topology", ok |-> ok])
        BY <3>2 DEF GuardianMessages, HoldsTrue
      <3> QED
        BY <1>1, <1>7, <3>3 DEF GuardianTopology
    <2> QED
      BY <2>1, <2>2
  <1>8. CASE GrantExpired
    <2>1. /\ guardian.state = "ready" /\ guardian' = Stopped(guardian) /\ shell' = shell
          /\ expired'
      BY <1>8 DEF GrantExpired, GrantAccepted, TooLateToSpawn, Stop
    <2>2. NeverStarts'
      BY <2>1 DEF GuardianInv, GuardianType, LaunchInOrder, NoShell, NeverStarts, Stopped
    <2>3. /\ Told([type |-> "deadline"])
          /\ Told([type |-> "shell_error", reason |-> "expired_before_spawn"])
      BY <2>1, <2>2 DEF GuardianMessages, HoldsTrue
    <2> QED
      BY <1>2, <1>8, <2>3 DEF GrantExpired
  <1>9. CASE ShellSpawnEvent
    <2>1. shell'.started = 1
      BY <1>9 DEF ShellSpawnEvent, Reported, GuardianInv, LaunchInOrder, ShellType
    <2>2. Told([type |-> "shell_spawned"])
      BY <2>1 DEF GuardianMessages, HoldsTrue
    <2> QED
      BY <1>1, <1>9, <2>2 DEF ShellSpawnEvent
  <1>10. CASE ShellErrorEvent
    <2>1. /\ shell.process = "none" /\ guardian' = Stopped(guardian)
          /\ shell' = [shell EXCEPT !.reporting = "no"]
      BY <1>10 DEF ShellErrorEvent, Reported, Stop, GuardianInv, LaunchInOrder
    <2>2. NeverStarts'
      BY <2>1 DEF GuardianInv, GuardianType, ShellType, LaunchInOrder, NeverStarts, Stopped
    <2>3. Told([type |-> "shell_error", reason |-> "spawn"])
      BY <2>2 DEF GuardianMessages, HoldsTrue
    <2> QED
      BY <1>1, <1>10, <2>3 DEF ShellErrorEvent
  <1>11. ASSUME NEW g, g \in {guardian, [guardian EXCEPT !.armed = @ \ {"deadline"}]},
                NEW observation \in SignalResults, guardian' = Grace(g)
         PROVE  Told([type |-> "cleanup_term", observation |-> observation])
    <2>1. guardian'.cleanupStarted
      BY <1>11 DEF Grace, GuardianInv, GuardianType
    <2>2. shell'.terms = 1
      BY <1>0, <2>1 DEF GuardianInv, CleanupInOrder, CleanupOnce
    <2> QED
      BY <2>2 DEF GuardianMessages, HoldsTrue
  <1>12. ASSUME NEW g, g \in {guardian, [guardian EXCEPT !.armed = @ \ {"deadline"}]},
                NEW sh, NEW receipt, receipt \in Seq(News),
                NEW cause, cause \in Seq(News), Cleanup(g, sh, receipt, cause)
         PROVE  Reports
    <2>1. CASE SendToRunner(receipt)
      BY <1>12, <2>1 DEF Reports
    <2>2. ASSUME NEW observation \in SignalResults, guardian' = Grace(g),
                 SendToRunner(receipt \o cause \o
                   <<[type |-> "cleanup_term", observation |-> observation]>>)
          PROVE  Reports
      <3>1. [type |-> "cleanup_term", observation |-> observation] \in News
        BY <1>11, <1>12, <2>2 DEF News, TrueMessages
      <3>2. PICK t : t = [type |-> "cleanup_term", observation |-> observation]
        OBVIOUS
      <3>3. <<t>> \in Seq(News)
        BY <3>1, <3>2, ShortSequences
      <3>4. receipt \o cause \in Seq(News)
        BY <1>12, ConcatProperties
      <3>5. receipt \o cause \o <<t>> \in Seq(News)
        BY <3>3, <3>4, ConcatProperties
      <3> QED
        BY <2>2, <3>2, <3>5 DEF Reports
    <2> QED
      BY <1>12, <2>1, <2>2 DEF Cleanup
  <1>13. << >> \in Seq(News)
    OBVIOUS
  <1>14. ASSUME NEW outcome \in ShellOutcomes, ShellExitEvent(outcome)
         PROVE  Reports
    <2>1. PICK sh : sh = [shell EXCEPT !.process = "exited", !.outcome = outcome]
      OBVIOUS
    <2>2. PICK receipt : receipt = <<[type |-> "shell_exit", outcome |-> outcome]>>
      OBVIOUS
    <2>3. Cleanup(guardian, sh, receipt, << >>)
      BY <1>14, <2>1, <2>2 DEF ShellExitEvent, GuardianInv, LaunchInOrder
    <2>4. shell'.process = "exited" /\ shell'.outcome = outcome
      BY <2>1, <2>3 DEF Cleanup, GuardianInv, ShellType
    <2>5. Told([type |-> "shell_exit", outcome |-> outcome])
      BY <2>4 DEF GuardianMessages, HoldsTrue
    <2>6. receipt \in Seq(News)
      BY <2>2, <2>5, ShortSequences DEF News, TrueMessages
    <2> QED
      BY <1>12, <1>13, <2>3, <2>6
  <1>15. CASE GuardianDeadline
    <2>1. PICK g : g = [guardian EXCEPT !.armed = @ \ {"deadline"}]
      OBVIOUS
    <2>2. PICK cause : cause = <<[type |-> "deadline"]>>
      OBVIOUS
    <2>3. Cleanup(g, shell, << >>, cause) /\ expired'
      BY <1>15, <2>1, <2>2 DEF GuardianDeadline, GuardianInv, LaunchInOrder
    <2>4. Told([type |-> "deadline"])
      BY <2>3 DEF GuardianMessages, HoldsTrue
    <2>5. cause \in Seq(News)
      BY <2>2, <2>4, ShortSequences DEF News, TrueMessages
    <2> QED
      BY <1>12, <1>13, <2>1, <2>3, <2>5
  <1>16. CASE GuardianKill
    <2>1. shell.kills = 0 /\ shell'.kills = 1
      <3>1. shell.kills = 0 /\ shell \in ShellType
        BY <1>16 DEF GuardianKill, Running, GuardianInv, CleanupInOrder, CleanupOnce
      <3>2. \/ shell' = [shell EXCEPT !.kills = @ + 1]
            \/ shell' = [shell EXCEPT !.kills = @ + 1, !.further = 0,
                             !.process = IF @ = "running" THEN "killed" ELSE @]
        BY <1>16 DEF GuardianKill
      <3>3. shell'.kills = shell.kills + 1
        BY <3>1, <3>2, Zenon DEF ShellType
      <3> QED
        BY <3>1, <3>3
    <2>2. Told([type |-> "cleanup_kill_intent"])
      BY <2>1 DEF GuardianMessages, HoldsTrue
    <2> QED
      BY <1>1, <1>3, <1>16, <2>2 DEF GuardianKill
  <1>17. CASE GuardianSigterm \/ GuardianDisconnect
    BY <1>3, <1>12, <1>13, <1>17 DEF GuardianSigterm, GuardianDisconnect
  <1>18. ~ShellErrorIgnored
    BY DEF ShellErrorIgnored, ShellExited, Reported, GuardianInv, LaunchInOrder
  <1> QED
    BY <1>4, <1>6, <1>7, <1>8, <1>9, <1>10, <1>14, <1>15, <1>16, <1>17, <1>18
       DEF GuardianActs, GuardianStep, GuardianWorks

\* So the channel carries nothing but what happened.
LEMMA GuardianTellsTheTruth ==
    ASSUME GuardianInv, RepliedOnce, ChannelInv, GuardianActs
    PROVE  ChannelInv'
  <1>1. Advances
    BY GuardianKeeps
  <1>2. CASE GuardianBoots
    <2>1. [type |-> "hello"] \in TrueMessages'
      BY DEF TrueMessages, GuardianMessages, HoldsTrue
    <2> QED
      BY <1>1, <1>2, <2>1, ShortSequences, SentTruthfully DEF GuardianBoots
  <1>3. CASE toRunner' = toRunner
    BY <1>1, <1>3, NothingSent
  <1>4. ASSUME NEW ms \in Seq(News), SendToRunner(ms) PROVE ChannelInv'
    <2>1. News \subseteq TrueMessages'
      BY DEF News
    <2> QED
      BY <1>1, <1>4, <2>1, SeqOfMore, SentTruthfully
  <1> QED
    BY <1>2, <1>3, <1>4, GuardianReports DEF Reports

-----------------------------------------------------------------------------
(* Its grant *)

\* A shell starts, and a grant is acted on, only by taking one from the channel.
LEMMA GuardianTakesGrants ==
    ASSUME GuardianInv, GuardianActs,
           \/ ~GrantTaken /\ GrantTaken'
           \/ shell'.started # shell.started
    PROVE  \E started \in BOOLEAN : GrantSpawns(started)
  <1> SUFFICES ASSUME \A started \in BOOLEAN : ~GrantSpawns(started)
               PROVE  (GrantTaken' => GrantTaken) /\ shell'.started = shell.started
    OBVIOUS
  <1>1. ASSUME shell'.started = shell.started,
               guardian'.state \in {"granted", "shell_spawned", "cleaning"} => GrantTaken
        PROVE  (GrantTaken' => GrantTaken) /\ shell'.started = shell.started
    BY <1>1 DEF GrantTaken
  <1>2. CASE \/ GuardianBoots \/ GuardianReadinessTimeout \/ GrantRefused \/ GrantExpired
             \/ GuardianExits \/ GuardianCrash \/ DeadlinePasses \/ GuardianHelloReply
             \/ \E ok \in BOOLEAN : GuardianTopology(ok)
    <2>1. /\ shell' = shell
          /\ \/ guardian' = guardian \/ guardian' = Stopped(guardian)
             \/ guardian'.state \in {guardian.state, "ready"}
      BY <1>2 DEF GuardianBoots, GuardianReadinessTimeout, GrantRefused, GrantExpired,
                  GuardianExits, GuardianCrash, DeadlinePasses, GuardianHelloReply,
                  GuardianTopology, Stop, guardianVars, GuardianInv, GuardianType
    <2>2. guardian'.state \in {guardian.state, "exited", "ready"}
      BY <2>1 DEF Stopped, GuardianInv, GuardianType
    <2> QED
      BY <1>1, <2>1, <2>2 DEF GrantTaken
  <1>3. CASE ShellSpawnEvent \/ ShellErrorEvent
    <2>1. guardian.state = "granted" /\ shell' = [shell EXCEPT !.reporting = "no"]
      BY <1>3 DEF ShellSpawnEvent, ShellErrorEvent, Reported, GuardianInv, LaunchInOrder
    <2> QED
      BY <1>1, <2>1 DEF GrantTaken, GuardianInv, ShellType
  <1>4. ASSUME NEW g, NEW sh, NEW receipt, NEW cause, Cleanup(g, sh, receipt, cause),
               g.state = guardian.state, sh.started = shell.started, sh \in ShellType,
               guardian.state \notin {"starting", "ready"}
        PROVE  (GrantTaken' => GrantTaken) /\ shell'.started = shell.started
    <2>1. shell' = sh \/ shell' = [sh EXCEPT !.terms = @ + 1]
      BY <1>4 DEF Cleanup
    <2>2. shell'.started = shell.started
      BY <1>4, <2>1, Zenon DEF ShellType
    <2>3. guardian' = g \/ CleanupAllowed
      BY <1>4 DEF Cleanup
    <2>4. GrantTaken \/ guardian'.state = "exited"
      BY <1>4, <2>3 DEF CleanupAllowed, GrantTaken, GuardianInv, GuardianType,
                        GuardianStates
    <2> QED
      BY <1>1, <2>2, <2>4 DEF GrantTaken
  <1>5. ASSUME NEW outcome \in ShellOutcomes, ShellExitEvent(outcome)
        PROVE  (GrantTaken' => GrantTaken) /\ shell'.started = shell.started
    <2>1. PICK sh : sh = [shell EXCEPT !.process = "exited", !.outcome = outcome]
      OBVIOUS
    <2>2. /\ shell.process = "running"
          /\ Cleanup(guardian, sh, <<[type |-> "shell_exit", outcome |-> outcome]>>, << >>)
      BY <1>5, <2>1 DEF ShellExitEvent, GuardianInv, LaunchInOrder
    <2>3. sh \in ShellType /\ sh.started = shell.started
      BY <2>1 DEF GuardianInv, ShellType
    <2>4. guardian.state \notin {"starting", "ready"}
      BY <2>2 DEF GuardianInv, LaunchInOrder, NoShell
    <2> QED
      BY <1>4, <2>2, <2>3, <2>4
  <1>6. CASE GuardianDeadline
    <2>1. PICK g : g = [guardian EXCEPT !.armed = @ \ {"deadline"}]
      OBVIOUS
    <2>2. /\ "deadline" \in guardian.armed
          /\ Cleanup(g, shell, << >>, <<[type |-> "deadline"]>>)
      BY <1>6, <2>1 DEF GuardianDeadline, GuardianInv, LaunchInOrder
    <2>3. g.state = guardian.state /\ guardian.state \notin {"starting", "ready"}
      BY <2>1, <2>2 DEF GuardianInv, GuardianType, LaunchInOrder
    <2> QED
      BY <1>4, <2>2, <2>3 DEF GuardianInv
  <1>7. CASE GuardianKill
    <2>1. shell'.started = shell.started
      BY <1>7, Zenon DEF GuardianKill, GuardianInv, ShellType
    <2>2. guardian' = guardian \/ guardian'.state = "exited"
      BY <1>7 DEF GuardianKill, Stop, Stopped, GuardianInv, GuardianType
    <2> QED
      BY <1>1, <2>1, <2>2 DEF GrantTaken
  <1>8. CASE GuardianSigterm \/ GuardianDisconnect
    <2>1. CASE guardian' = Stopped(guardian) /\ shell' = shell
      BY <1>1, <2>1 DEF Stopped, GuardianInv, GuardianType, GrantTaken
    <2> QED
      BY <1>4, <1>8, <2>1
         DEF GuardianSigterm, GuardianDisconnect, DisconnectCleans, Stop, GuardianInv
  <1>9. ~ShellErrorIgnored
    BY DEF ShellErrorIgnored, ShellExited, Reported, GuardianInv, LaunchInOrder
  <1> QED
    BY <1>2, <1>3, <1>5, <1>6, <1>7, <1>8, <1>9
       DEF GuardianActs, GuardianStep, GuardianWorks

\* The guardian reads its messages in order, and opens no end.
LEMMA GuardianUsesLink ==
    ASSUME GuardianActs
    PROVE  /\ \/ toGuardian' = toGuardian
              \/ toGuardian # << >> /\ toGuardian' = Tail(toGuardian)
           /\ runnerEnd' = runnerEnd
           /\ guardianEnd' = guardianEnd \/ guardianEnd' = FALSE
           /\ expired' = expired \/ expired' = TRUE
           /\ \/ guardianProcess' = guardianProcess
              \/ guardianProcess # "unborn" /\ guardianProcess' = "gone"
              \/ guardianProcess = "booting" /\ guardianProcess' = "running"
           /\ guardianProcess = "unborn" =>
                  UNCHANGED <<guardianVars, toRunner, toGuardian, ends, guardianProcess>>
  <1>1. CASE DeadlinePasses \/ GuardianCrash \/ GuardianBoots
    BY <1>1 DEF DeadlinePasses, GuardianCrash, GuardianBoots, ends
  <1>2. CASE \/ GuardianHelloReply \/ GuardianReadinessTimeout
             \/ \E ok \in BOOLEAN : GuardianTopology(ok)
             \/ GrantRefused \/ GrantExpired
             \/ \E started \in BOOLEAN : GrantSpawns(started)
             \/ ShellSpawnEvent \/ ShellErrorEvent \/ ShellErrorIgnored
             \/ \E outcome \in ShellOutcomes : ShellExitEvent(outcome)
    BY <1>2 DEF GuardianHelloReply, GuardianReadinessTimeout, GuardianTopology,
                GrantRefused, GrantExpired, GrantSpawns, ShellSpawnEvent, ShellErrorEvent,
                ShellErrorIgnored, ShellExitEvent, Receive, Running, Reported, Stop,
                link, ends
  <1>3. CASE \/ GuardianDeadline \/ GuardianKill \/ GuardianDisconnect \/ GuardianExits
             \/ GuardianSigterm
    BY <1>3 DEF GuardianDeadline, GuardianKill, GuardianDisconnect, GuardianExits,
                GuardianSigterm, Running, Stop, ends
  <1> QED
    BY <1>1, <1>2, <1>3 DEF GuardianActs, GuardianStep, GuardianWorks

-----------------------------------------------------------------------------
(* What holds whoever the peer is *)

\* What the hello_replies that were read have yielded: shells, pending
\* verifications, and the readiness to start a shell.
Debt == shell.started + guardian.verifying
        + (IF guardian.state = "ready" THEN 1 ELSE 0)

\* The guardian's types, and its cleanup.
PeerlessInv ==
    guardian \in GuardianType /\ shell \in ShellType /\ CleanupOnce

\* A step that is no reply costs nothing and forgets no hello.
Pays ==
    /\ guardian'.helloReceived = guardian.helloReceived
    /\ Debt' <= Debt

\* Stopping ends whatever was pending.
LEMMA StopPays ==
    ASSUME PeerlessInv, NEW g \in GuardianType, guardian' = Stopped(g),
           g.helloReceived = guardian.helloReceived,
           g.cleanupStarted = guardian.cleanupStarted,
           g.armed \subseteq guardian.armed, guardianProcess' = guardianProcess,
           shell' \in ShellType, shell'.started = shell.started,
           shell'.terms = shell.terms,
           \/ shell'.kills = shell.kills
           \/ /\ "kill" \in guardian.armed /\ "kill" \notin g.armed
              /\ guardianProcess = "running" /\ shell'.kills = shell.kills + 1
    PROVE  PeerlessInv' /\ Pays
  <1>1. /\ guardian' \in GuardianType /\ guardian'.state = "exited"
        /\ guardian'.verifying = 0 /\ guardian'.helloReceived = guardian.helloReceived
        /\ guardian'.cleanupStarted = guardian.cleanupStarted
        /\ guardian'.armed \subseteq g.armed
    BY DEF GuardianType, GuardianStates, Stopped
  <1>2. CleanupOnce'
    BY <1>1 DEF PeerlessInv, CleanupOnce
  <1>3. Pays
    BY <1>1 DEF PeerlessInv, GuardianType, ShellType, Pays, Debt
  <1> QED
    BY <1>1, <1>2, <1>3 DEF PeerlessInv

\* A cleanup starts nothing, and happens once.
LEMMA CleanupPays ==
    ASSUME PeerlessInv, NEW g \in GuardianType, NEW sh \in ShellType,
           NEW receipt, NEW cause, Cleanup(g, sh, receipt, cause),
           g.state = guardian.state, g.verifying = guardian.verifying,
           g.helloReceived = guardian.helloReceived,
           g.cleanupStarted = guardian.cleanupStarted,
           g.armed \subseteq guardian.armed, guardianProcess' = guardianProcess,
           sh.started = shell.started, sh.terms = shell.terms, sh.kills = shell.kills
    PROVE  PeerlessInv' /\ Pays
  <1>1. CASE CleanupAllowed
    <2>1. guardian' = Grace(g) /\ shell' = [sh EXCEPT !.terms = @ + 1]
      BY <1>1 DEF Cleanup
    <2>2. /\ guardian' \in GuardianType /\ guardian'.state = "cleaning"
          /\ guardian'.cleanupStarted /\ guardian'.verifying = guardian.verifying
          /\ guardian'.helloReceived = guardian.helloReceived
      BY <2>1 DEF GuardianType, GuardianStates, Grace
    <2>3. /\ shell' \in ShellType /\ shell'.terms = shell.terms + 1
          /\ shell'.started = shell.started /\ shell'.kills = shell.kills
      <3>1. sh.terms + 1 \in Nat
        BY DEF ShellType
      <3> QED
        BY <2>1, <3>1 DEF ShellType
    <2>4. CleanupOnce'
      BY <1>1, <2>2, <2>3 DEF PeerlessInv, CleanupOnce, CleanupAllowed
    <2>5. Pays
      BY <2>2, <2>3 DEF PeerlessInv, GuardianType, ShellType, Pays, Debt
    <2> QED
      BY <2>2, <2>3, <2>4, <2>5 DEF PeerlessInv
  <1>2. CASE ~CleanupAllowed
    <2>1. guardian' = g /\ shell' = sh
      BY <1>2 DEF Cleanup
    <2>2. CleanupOnce'
      BY <2>1 DEF PeerlessInv, CleanupOnce
    <2>3. Pays
      BY <2>1 DEF PeerlessInv, GuardianType, ShellType, Pays, Debt
    <2> QED
      BY <2>1, <2>2, <2>3 DEF PeerlessInv
  <1> QED
    BY <1>1, <1>2

\* A shell is paid for by the readiness to start it, the readiness by a verification,
\* and a verification by a reply.
LEMMA GuardianPays ==
    ASSUME PeerlessInv, GuardianActs
    PROVE  /\ PeerlessInv'
           /\ ~GuardianHelloReply => Pays
           /\ Debt' <= Debt + 1
  <1>0. guardian \in GuardianType /\ shell \in ShellType /\ CleanupOnce /\ Debt \in Nat
    BY DEF PeerlessInv, GuardianType, ShellType, Debt
  <1>1. ASSUME PeerlessInv', Pays
        PROVE  PeerlessInv' /\ (~GuardianHelloReply => Pays) /\ Debt' <= Debt + 1
    <2>1. Debt' \in Nat
      BY <1>1 DEF PeerlessInv, GuardianType, ShellType, Debt
    <2> QED
      BY <1>0, <1>1, <2>1 DEF Pays
  <1>2. CASE \/ GuardianBoots \/ GrantRefused \/ GuardianExits \/ GuardianCrash
             \/ DeadlinePasses
    <2>1. /\ guardian' = guardian /\ shell' = shell
          /\ guardianProcess = "gone" => guardianProcess' = "gone"
      BY <1>2 DEF GuardianBoots, GrantRefused, GuardianExits, GuardianCrash,
                  DeadlinePasses, guardianVars, Receive, Running
    <2> QED
      BY <1>0, <1>1, <2>1 DEF PeerlessInv, CleanupOnce, Pays, Debt
  <1>3. CASE GuardianHelloReply
    <2>1. /\ shell' = shell /\ guardianProcess' = guardianProcess
          /\ \/ guardian' = guardian
             \/ guardian' = [guardian EXCEPT !.helloReceived = TRUE, !.verifying = @ + 1]
      BY <1>3 DEF GuardianHelloReply
    <2>2. guardian.verifying + 1 \in Nat
      BY <1>0 DEF GuardianType
    <2>3. /\ guardian' \in GuardianType /\ guardian'.state = guardian.state
          /\ guardian'.armed = guardian.armed
          /\ guardian'.cleanupStarted = guardian.cleanupStarted
          /\ guardian'.verifying \in {guardian.verifying, guardian.verifying + 1}
      BY <1>0, <2>1, <2>2 DEF GuardianType
    <2>4. CleanupOnce'
      BY <1>0, <2>1, <2>3 DEF CleanupOnce
    <2>5. Debt' <= Debt + 1
      BY <1>0, <2>1, <2>3 DEF GuardianType, ShellType, Debt
    <2> QED
      BY <1>0, <1>3, <2>1, <2>3, <2>4, <2>5 DEF PeerlessInv
  <1>4. CASE GuardianReadinessTimeout \/ GrantExpired
    BY <1>0, <1>1, <1>4, StopPays DEF GuardianReadinessTimeout, GrantExpired, Stop
  <1>5. ASSUME NEW ok \in BOOLEAN, GuardianTopology(ok) PROVE PeerlessInv' /\ Pays
    <2>1. CASE ok
      <3>1. /\ guardian' = [guardian EXCEPT !.verifying = @ - 1, !.state = "ready"]
            /\ shell' = shell /\ guardianProcess' = guardianProcess
            /\ guardian.verifying - 1 \in Nat
        BY <1>0, <1>5, <2>1 DEF GuardianTopology, GuardianType
      <3>2. /\ guardian' \in GuardianType /\ guardian'.state = "ready"
            /\ guardian'.armed = guardian.armed
            /\ guardian'.cleanupStarted = guardian.cleanupStarted
            /\ guardian'.helloReceived = guardian.helloReceived
            /\ guardian'.verifying = guardian.verifying - 1
        BY <1>0, <3>1 DEF GuardianType, GuardianStates
      <3>3. CleanupOnce'
        BY <1>0, <3>1, <3>2 DEF CleanupOnce
      <3>4. Pays
        BY <1>0, <3>1, <3>2 DEF GuardianType, ShellType, Pays, Debt
      <3> QED
        BY <1>0, <3>1, <3>2, <3>3, <3>4 DEF PeerlessInv
    <2>2. CASE ~ok
      BY <1>0, <1>5, <2>2, StopPays DEF GuardianTopology, Stop
    <2> QED
      BY <2>1, <2>2
  <1>6. ASSUME NEW started \in BOOLEAN, GrantSpawns(started) PROVE PeerlessInv' /\ Pays
    <2>1. /\ guardian.state = "ready" /\ guardian' = Granted(guardian)
          /\ shell' = IF started THEN Spawned(shell)
                                 ELSE [shell EXCEPT !.reporting = "error"]
          /\ guardianProcess' = guardianProcess
      BY <1>6 DEF GrantSpawns, GrantAccepted
    <2>2. /\ guardian' \in GuardianType /\ guardian'.state = "granted"
          /\ guardian'.cleanupStarted = guardian.cleanupStarted
          /\ guardian'.helloReceived = guardian.helloReceived
          /\ guardian'.verifying = guardian.verifying
          /\ "kill" \in guardian'.armed <=> "kill" \in guardian.armed
      <3>1. guardian.older + 1 \in Nat
        BY <1>0 DEF GuardianType
      <3> QED
        BY <1>0, <2>1, <3>1 DEF GuardianType, GuardianStates, Granted
    <2>3. /\ shell' \in ShellType /\ shell'.started \in {shell.started, shell.started + 1}
          /\ shell'.terms = shell.terms /\ shell'.kills = shell.kills
      <3>1. /\ shell.started + 1 \in Nat /\ shell.further + 1 \in Nat
            /\ shell.started = 0 => shell.started + 1 = 1
        BY <1>0 DEF ShellType
      <3> QED
        BY <1>0, <2>1, <3>1 DEF ShellType, Spawned
    <2>4. CleanupOnce'
      BY <1>0, <2>1, <2>2, <2>3 DEF CleanupOnce
    <2>5. Pays
      BY <1>0, <2>1, <2>2, <2>3 DEF GuardianType, ShellType, Pays, Debt
    <2> QED
      BY <2>2, <2>3, <2>4, <2>5 DEF PeerlessInv
  <1>7. CASE ShellSpawnEvent \/ ShellErrorIgnored
    <2>1. /\ shell' = [shell EXCEPT !.reporting = "no"]
          /\ guardian' \in {guardian, [guardian EXCEPT !.state = "shell_spawned"]}
          /\ guardianProcess' = guardianProcess
      BY <1>7 DEF ShellSpawnEvent, ShellErrorIgnored, Reported, link
    <2>2. /\ guardian' \in GuardianType /\ guardian'.state \in {guardian.state, "shell_spawned"}
          /\ guardian'.armed = guardian.armed /\ guardian'.verifying = guardian.verifying
          /\ guardian'.cleanupStarted = guardian.cleanupStarted
          /\ guardian'.helloReceived = guardian.helloReceived
      BY <1>0, <2>1 DEF GuardianType, GuardianStates
    <2>3. /\ shell' \in ShellType /\ shell'.started = shell.started
          /\ shell'.terms = shell.terms /\ shell'.kills = shell.kills
      BY <1>0, <2>1 DEF ShellType
    <2>4. CleanupOnce'
      BY <1>0, <2>1, <2>2, <2>3 DEF CleanupOnce
    <2>5. Pays
      BY <1>0, <2>2, <2>3 DEF GuardianType, ShellType, Pays, Debt
    <2> QED
      BY <1>1, <2>2, <2>3, <2>4, <2>5 DEF PeerlessInv
  <1>8. CASE ShellErrorEvent
    <2>1. /\ shell' = [shell EXCEPT !.reporting = "no"] /\ guardian' = Stopped(guardian)
          /\ guardianProcess' = guardianProcess
      BY <1>8 DEF ShellErrorEvent, Reported, Stop
    <2>2. /\ shell' \in ShellType /\ shell'.started = shell.started
          /\ shell'.terms = shell.terms /\ shell'.kills = shell.kills
      BY <1>0, <2>1 DEF ShellType
    <2> QED
      BY <1>0, <1>1, <2>1, <2>2, StopPays
  <1>9. ASSUME NEW outcome \in ShellOutcomes, ShellExitEvent(outcome)
        PROVE  PeerlessInv' /\ Pays
    <2>1. PICK first, further :
              /\ first = [shell EXCEPT !.process = "exited", !.outcome = outcome]
              /\ further = [shell EXCEPT !.further = @ - 1]
      OBVIOUS
    <2>2. PICK sh, receipt :
              /\ Cleanup(guardian, sh, receipt, << >>)
              /\ sh = first \/ (sh = further /\ shell.further > 0)
      BY <1>9, <2>1 DEF ShellExitEvent
    <2>3. /\ sh \in ShellType /\ sh.started = shell.started
          /\ sh.terms = shell.terms /\ sh.kills = shell.kills
      <3>1. shell.further > 0 => shell.further - 1 \in Nat
        BY <1>0 DEF ShellType
      <3> QED
        BY <1>0, <2>1, <2>2, <3>1 DEF ShellType
    <2> QED
      BY <1>0, <1>9, <2>2, <2>3, CleanupPays DEF ShellExitEvent
  <1>10. CASE GuardianDeadline
    <2>1. PICK latest, earlier :
              /\ latest = [guardian EXCEPT !.armed = @ \ {"deadline"}]
              /\ earlier = [guardian EXCEPT !.older = @ - 1]
      OBVIOUS
    <2>2. PICK g, cause :
              /\ Cleanup(g, shell, << >>, cause)
              /\ g = latest \/ (g = earlier /\ guardian.older > 0)
      BY <1>10, <2>1 DEF GuardianDeadline
    <2>3. /\ g \in GuardianType /\ g.state = guardian.state
          /\ g.verifying = guardian.verifying /\ g.helloReceived = guardian.helloReceived
          /\ g.cleanupStarted = guardian.cleanupStarted /\ g.armed \subseteq guardian.armed
      <3>1. guardian.older > 0 => guardian.older - 1 \in Nat
        BY <1>0 DEF GuardianType
      <3> QED
        BY <1>0, <2>1, <2>2, <3>1 DEF GuardianType
    <2> QED
      BY <1>0, <1>1, <1>10, <2>2, <2>3, CleanupPays DEF GuardianDeadline
  <1>11. CASE GuardianKill
    <2>1. /\ "kill" \in guardian.armed /\ guardianProcess = "running"
          /\ shell.kills = 0 /\ shell.kills + 1 \in Nat /\ guardian.cleanupStarted
      BY <1>0, <1>11 DEF GuardianKill, Running, CleanupOnce
    <2>2. CASE /\ guardianProcess' = "gone" /\ guardian' = guardian
               /\ shell' = [shell EXCEPT !.kills = @ + 1, !.further = 0,
                               !.process = IF @ = "running" THEN "killed" ELSE @]
      <3>1. /\ shell' \in ShellType /\ shell'.started = shell.started
            /\ shell'.terms = shell.terms /\ shell'.kills = 1
        <4>1. PICK p \in {"none", "running", "exited", "killed"} :
                  shell' = [shell EXCEPT !.kills = 1, !.further = 0, !.process = p]
          <5>1. CASE shell.process = "running"
            BY <1>0, <2>1, <2>2, <5>1 DEF ShellType
          <5>2. ASSUME NEW q, q = shell.process, q # "running"
                PROVE  shell' = [shell EXCEPT !.kills = 1, !.further = 0, !.process = q]
            BY <1>0, <2>1, <2>2, <5>2 DEF ShellType
          <5>3. shell.process \in {"none", "running", "exited", "killed"}
            BY <1>0 DEF ShellType
          <5> QED
            BY <5>1, <5>2, <5>3
        <4> QED
          BY <1>0, <4>1 DEF ShellType
      <3>2. CleanupOnce'
        BY <1>0, <2>1, <2>2, <3>1 DEF CleanupOnce
      <3> QED
        BY <1>0, <1>1, <2>2, <3>1, <3>2 DEF PeerlessInv, GuardianType, ShellType, Pays, Debt
    <2>3. CASE /\ guardianProcess' = guardianProcess
               /\ guardian' = Stopped([guardian EXCEPT !.armed = @ \ {"kill"}])
               /\ shell' = [shell EXCEPT !.kills = @ + 1]
      <3>1. PICK g : g = [guardian EXCEPT !.armed = @ \ {"kill"}]
        OBVIOUS
      <3>2. /\ g \in GuardianType /\ g.helloReceived = guardian.helloReceived
            /\ g.cleanupStarted = guardian.cleanupStarted
            /\ g.armed \subseteq guardian.armed /\ "kill" \notin g.armed
        BY <1>0, <3>1 DEF GuardianType
      <3>3. /\ shell' \in ShellType /\ shell'.started = shell.started
            /\ shell'.terms = shell.terms /\ shell'.kills = shell.kills + 1
        BY <1>0, <2>1, <2>3 DEF ShellType
      <3> QED
        BY <1>1, <2>1, <2>3, <3>1, <3>2, <3>3, StopPays
    <2> QED
      BY <1>11, <2>2, <2>3 DEF GuardianKill
  <1>12. CASE GuardianSigterm \/ GuardianDisconnect
    BY <1>0, <1>1, <1>12, StopPays, CleanupPays
       DEF GuardianSigterm, GuardianDisconnect, Stop
  <1>13. CASE \/ \E ok \in BOOLEAN : GuardianTopology(ok)
              \/ \E started \in BOOLEAN : GrantSpawns(started)
              \/ \E outcome \in ShellOutcomes : ShellExitEvent(outcome)
    <2>1. PeerlessInv' /\ Pays
      BY <1>5, <1>6, <1>9, <1>13
    <2> QED
      BY <1>1, <2>1
  <1> QED
    BY <1>2, <1>3, <1>4, <1>7, <1>8, <1>10, <1>11, <1>12, <1>13
       DEF GuardianActs, GuardianStep, GuardianWorks

-----------------------------------------------------------------------------
(* The replies to its hello *)

\* Reading a reply leaves none behind, and nothing else that the guardian does
\* bears on the replies.
LEMMA RepliesAreRead ==
    ASSUME PeerlessInv, RepliedOnce, GuardianActs
    PROVE  RepliedOnce'
  <1>1. /\ toGuardian \in Seq([type : PeerMessages])
        /\ \A i, k \in Replies : i = k
        /\ guardian.helloReceived => Replies = {}
    BY DEF RepliedOnce
  <1>2. ASSUME toGuardian' = toGuardian,
               guardian'.helloReceived = guardian.helloReceived
        PROVE  RepliedOnce'
    BY <1>1, <1>2 DEF RepliedOnce, Replies
  <1>3. ASSUME toGuardian # << >>, toGuardian' = Tail(toGuardian)
        PROVE  /\ toGuardian' \in Seq([type : PeerMessages])
               /\ \A i \in Replies' : i \in Nat /\ i + 1 \in Replies \ {1}
    <2>1. toGuardian' \in Seq([type : PeerMessages])
      BY <1>1, <1>3, HeadTailProperties
    <2>2. DOMAIN toGuardian' = 1 .. Len(toGuardian) - 1
      BY <1>1, <1>3, HeadTailProperties
    <2>3. \A i \in DOMAIN toGuardian' : toGuardian'[i] = toGuardian[i + 1]
      BY <1>1, <1>3, <2>2, HeadTailProperties
    <2> QED
      BY <1>1, <2>1, <2>2, <2>3 DEF Replies
  <1>4. ASSUME toGuardian # << >>, toGuardian' = Tail(toGuardian),
               \/ guardian'.helloReceived = guardian.helloReceived
               \/ Head(toGuardian).type = "hello_reply"
        PROVE  RepliedOnce'
    <2>1. Replies' # {} => Replies # {}
      BY <1>3, <1>4
    <2>2. \A i, k \in Replies' : i = k
      BY <1>1, <1>3, <1>4
    <2>3. Head(toGuardian).type = "hello_reply" => Replies' = {}
      <3>1. Head(toGuardian).type = "hello_reply" => 1 \in Replies
        BY <1>1, <1>4 DEF Replies
      <3> QED
        BY <1>1, <1>3, <1>4, <3>1
    <2> QED
      BY <1>1, <1>3, <1>4, <2>1, <2>2, <2>3 DEF RepliedOnce
  <1>5. CASE GuardianHelloReply
    BY <1>4, <1>5 DEF GuardianHelloReply, Receive
  <1>6. CASE ~GuardianHelloReply
    <2>1. guardian'.helloReceived = guardian.helloReceived
      BY <1>6, GuardianPays DEF Pays
    <2> QED
      BY <1>2, <1>4, <2>1, GuardianUsesLink
  <1> QED
    BY <1>5, <1>6

-----------------------------------------------------------------------------
(* The guardian against any peer *)

\* How many replies are on their way.
LEMMA RepliesAreFinite ==
    ASSUME toGuardian \in Seq([type : PeerMessages])
    PROVE  IsFiniteSet(Replies) /\ Cardinality(Replies) \in Nat
  <1>1. Replies \subseteq 1 .. Len(toGuardian)
    BY DEF Replies
  <1>2. IsFiniteSet(1 .. Len(toGuardian))
    BY FS_Interval
  <1> QED
    BY <1>1, <1>2, FS_Subset, FS_CardinalityType

\* What the guardian reads is on its way no more.
LEMMA ReadingCounts ==
    ASSUME toGuardian \in Seq([type : PeerMessages]), toGuardian # << >>,
           toGuardian' = Tail(toGuardian)
    PROVE  /\ Cardinality(Replies') \in Nat
           /\ Cardinality(Replies') <= Cardinality(Replies)
           /\ Replies = {} => Replies' = {}
           /\ Head(toGuardian).type = "hello_reply" =>
                  Cardinality(Replies') <= Cardinality(Replies) - 1
  <1>1. IsFiniteSet(Replies) /\ Cardinality(Replies) \in Nat
    BY RepliesAreFinite
  <1>2. /\ toGuardian' \in Seq([type : PeerMessages])
        /\ DOMAIN toGuardian' = 1 .. Len(toGuardian) - 1
        /\ \A i \in 1 .. Len(toGuardian) - 1 : toGuardian'[i] = toGuardian[i + 1]
    BY HeadTailProperties
  <1>3. \A i \in Replies' : i \in Nat /\ i + 1 \in Replies \ {1}
    BY <1>2 DEF Replies
  <1>4. PICK f : f = [i \in Replies' |-> i + 1]
    OBVIOUS
  <1>5. f \in Injection(Replies', Replies \ {1})
    BY <1>3, <1>4 DEF Injection, IsInjective
  <1>6. /\ IsFiniteSet(Replies \ {1})
        /\ Cardinality(Replies \ {1}) =
               IF 1 \in Replies THEN Cardinality(Replies) - 1 ELSE Cardinality(Replies)
    BY <1>1, FS_RemoveElement
  <1>7. Cardinality(Replies') <= Cardinality(Replies \ {1})
    BY <1>5, <1>6, FS_Injection
  <1>8. Cardinality(Replies') \in Nat
    BY <1>5, <1>6, FS_Injection, FS_CardinalityType
  <1>9. Head(toGuardian).type = "hello_reply" => 1 \in Replies
    BY DEF Replies
  <1> QED
    BY <1>1, <1>3, <1>6, <1>7, <1>8, <1>9

\* What the peer sends is on its way, or lost.
LEMMA SendingCounts ==
    ASSUME toGuardian \in Seq([type : PeerMessages]), NEW type \in PeerMessages,
           SendToGuardian(<<[type |-> type]>>)
    PROVE  /\ toGuardian' \in Seq([type : PeerMessages])
           /\ Replies' \subseteq Replies \cup {Len(toGuardian) + 1}
           /\ type # "hello_reply" => Replies' = Replies
           /\ Cardinality(Replies') \in Nat
           /\ Cardinality(Replies') <= Cardinality(Replies)
                                      + (IF type = "hello_reply" THEN 1 ELSE 0)
  <1>1. IsFiniteSet(Replies) /\ Cardinality(Replies) \in Nat
    BY RepliesAreFinite
  <1>2. CASE toGuardian' = toGuardian
    <2>1. Replies' = Replies
      BY <1>2 DEF Replies
    <2> QED
      BY <1>1, <1>2, <2>1
  <1>3. CASE toGuardian' = toGuardian \o <<[type |-> type]>>
    <2>1. PICK m : m = [type |-> type]
      OBVIOUS
    <2>2. m \in [type : PeerMessages] /\ m.type = type
      BY <2>1
    <2>3. /\ toGuardian' \in Seq([type : PeerMessages])
          /\ Len(toGuardian') = Len(toGuardian) + 1
          /\ \A i \in 1 .. Len(toGuardian) : toGuardian'[i] = toGuardian[i]
          /\ toGuardian'[Len(toGuardian) + 1] = m
      BY <1>3, <2>1, <2>2
    <2>4. Replies' = IF type = "hello_reply" THEN Replies \cup {Len(toGuardian) + 1}
                                             ELSE Replies
      BY <2>2, <2>3 DEF Replies
    <2>5. Len(toGuardian) + 1 \notin Replies
      BY DEF Replies
    <2>6. Cardinality(Replies \cup {Len(toGuardian) + 1}) = Cardinality(Replies) + 1
      BY <1>1, <2>5, FS_AddElement
    <2> QED
      BY <1>1, <2>3, <2>4, <2>6
  <1> QED
    BY <1>2, <1>3 DEF SendToGuardian

\* Whoever the peer is: what its replies have yielded, and those still on their way,
\* are no more than it sent.
PeerInv ==
    /\ PeerlessInv
    /\ toGuardian \in Seq([type : PeerMessages])
    /\ sent \in [PeerMessages -> Nat]
    /\ Debt + Cardinality(Replies) <= sent["hello_reply"]

\* A peer that has replied at most once: all that holds in the composed system.
OncePeerInv ==
    /\ GuardianInv /\ ChannelInv /\ RepliedOnce
    /\ sent["hello_reply"] = 0 => Replies = {} /\ ~guardian.helloReceived

AloneInv == PeerInv /\ (sent["hello_reply"] <= 1 => OncePeerInv)

\* A new guardian has done nothing, and has said nothing.
LEMMA AloneStarts == AloneInit => AloneInv
  <1> SUFFICES ASSUME AloneInit PROVE AloneInv
    OBVIOUS
  <1>1. guardian \in GuardianType /\ shell \in ShellType
    BY DEF AloneInit, GuardianType, GuardianStates, NewGuardian, ShellType, NoShell
  <1>2. LaunchInOrder /\ CleanupInOrder
    BY DEF AloneInit, LaunchInOrder, CleanupInOrder, CleanupOnce, NewGuardian, NoShell
  <1>3. ChannelInv
    BY DEF AloneInit, ChannelInv
  <1>4. Replies = {} /\ toGuardian \in Seq([type : PeerMessages])
    BY DEF AloneInit, Replies
  <1>5. Debt = 0 /\ ~guardian.helloReceived
    BY DEF AloneInit, Debt, NewGuardian, NoShell
  <1>6. sent \in [PeerMessages -> Nat] /\ sent["hello_reply"] = 0
    BY DEF AloneInit, PeerMessages
  <1>7. Cardinality(Replies) = 0
    BY <1>4, FS_EmptySet
  <1> QED
    BY <1>1, <1>2, <1>3, <1>4, <1>5, <1>6, <1>7
       DEF AloneInv, PeerInv, PeerlessInv, OncePeerInv, GuardianInv, CleanupInOrder,
           RepliedOnce

\* The guardian's steps keep all of it.
LEMMA GuardianKeepsAlone ==
    ASSUME AloneInv, GuardianActs, UNCHANGED sent PROVE AloneInv'
  <1>1. /\ PeerlessInv /\ toGuardian \in Seq([type : PeerMessages])
        /\ sent["hello_reply"] \in Nat /\ Debt \in Nat
        /\ Debt + Cardinality(Replies) <= sent["hello_reply"]
    BY DEF AloneInv, PeerInv, PeerlessInv, GuardianType, ShellType, Debt, PeerMessages
  <1>2. /\ PeerlessInv' /\ Debt' <= Debt + 1 /\ (~GuardianHelloReply => Pays)
    BY <1>1, GuardianPays
  <1>3. Debt' \in Nat
    BY <1>2 DEF PeerlessInv, GuardianType, ShellType, Debt
  <1>4. /\ toGuardian' \in Seq([type : PeerMessages])
        /\ Cardinality(Replies) \in Nat /\ Cardinality(Replies') \in Nat
        /\ Cardinality(Replies') <= Cardinality(Replies)
        /\ Replies = {} => Replies' = {}
    <2>1. CASE toGuardian' = toGuardian
      <3>1. Replies' = Replies
        BY <2>1 DEF Replies
      <3> QED
        BY <1>1, <2>1, <3>1, RepliesAreFinite
    <2>2. CASE toGuardian # << >> /\ toGuardian' = Tail(toGuardian)
      BY <1>1, <2>2, ReadingCounts, RepliesAreFinite, HeadTailProperties
    <2> QED
      BY <2>1, <2>2, GuardianUsesLink
  <1>5. Debt' + Cardinality(Replies') <= Debt + Cardinality(Replies)
    <2>1. CASE GuardianHelloReply
      <3>1. Cardinality(Replies') <= Cardinality(Replies) - 1
        BY <1>1, <2>1, ReadingCounts DEF GuardianHelloReply, Receive
      <3> QED
        BY <1>1, <1>2, <1>3, <1>4, <3>1
    <2>2. CASE ~GuardianHelloReply
      BY <1>1, <1>2, <1>3, <1>4, <2>2 DEF Pays
    <2> QED
      BY <2>1, <2>2
  <1>6. PeerInv'
    BY <1>1, <1>2, <1>3, <1>4, <1>5 DEF AloneInv, PeerInv
  <1>7. ASSUME OncePeerInv PROVE OncePeerInv'
    <2>1. GuardianInv' /\ ChannelInv'
      BY <1>7, GuardianKeeps, GuardianTellsTheTruth DEF OncePeerInv
    <2>2. RepliedOnce'
      BY <1>1, <1>7, RepliesAreRead DEF OncePeerInv
    <2>3. ASSUME sent["hello_reply"] = 0 PROVE Replies' = {} /\ ~guardian'.helloReceived
      <3>1. Replies = {} /\ ~guardian.helloReceived
        BY <1>7, <2>3 DEF OncePeerInv
      <3>2. ~GuardianHelloReply
        BY <1>1, <3>1 DEF GuardianHelloReply, Receive, Replies
      <3>3. ~guardian'.helloReceived
        BY <1>2, <3>1, <3>2 DEF Pays
      <3> QED
        BY <1>4, <3>1, <3>3
    <2> QED
      BY <2>1, <2>2, <2>3 DEF OncePeerInv
  <1> QED
    BY <1>6, <1>7 DEF AloneInv

\* What leaves the guardian and its inbox alone keeps it too.
LEMMA PeerKeepsAlone ==
    ASSUME AloneInv, UNCHANGED <<guardianVars, toGuardian, guardianProcess, expired, sent>>,
           \/ toRunner' = toRunner
           \/ toRunner # << >> /\ toRunner' = Tail(toRunner)
    PROVE  AloneInv'
  <1>1. PeerInv' /\ (RepliedOnce => RepliedOnce') /\ Replies' = Replies
    BY DEF AloneInv, PeerInv, PeerlessInv, CleanupOnce, Debt, Replies, RepliedOnce,
           guardianVars
  <1>2. GuardianInv => GuardianInv' /\ Advances
    BY DEF guardianVars, GuardianInv, LaunchInOrder, CleanupInOrder, CleanupOnce,
           Advances, NeverStarts
  <1>3. OncePeerInv => OncePeerInv'
    BY <1>1, <1>2, NothingSent DEF OncePeerInv, guardianVars
  <1> QED
    BY <1>1, <1>3 DEF AloneInv

\* A message more, of either kind.
LEMMA SendingKeepsAlone ==
    ASSUME AloneInv, NEW type \in PeerMessages, PeerSends(type) PROVE AloneInv'
  <1>1. /\ PeerlessInv /\ toGuardian \in Seq([type : PeerMessages])
        /\ sent \in [PeerMessages -> Nat]
        /\ sent["hello_reply"] \in Nat /\ Debt \in Nat
        /\ Debt + Cardinality(Replies) <= sent["hello_reply"]
    BY DEF AloneInv, PeerInv, PeerlessInv, GuardianType, ShellType, Debt, PeerMessages
  <1>2. /\ UNCHANGED <<guardianVars, toRunner, guardianProcess, expired>>
        /\ SendToGuardian(<<[type |-> type]>>)
        /\ sent' = [sent EXCEPT ![type] = @ + 1]
    BY DEF PeerSends
  <1>3. /\ sent' \in [PeerMessages -> Nat]
        /\ sent'["hello_reply"] = sent["hello_reply"]
                                  + (IF type = "hello_reply" THEN 1 ELSE 0)
    BY <1>1, <1>2 DEF PeerMessages
  <1>4. PeerlessInv' /\ Debt' = Debt
    BY <1>1, <1>2 DEF PeerlessInv, CleanupOnce, Debt, guardianVars
  <1>5. /\ toGuardian' \in Seq([type : PeerMessages])
        /\ Replies' \subseteq Replies \cup {Len(toGuardian) + 1}
        /\ type # "hello_reply" => Replies' = Replies
        /\ Cardinality(Replies') \in Nat
        /\ Cardinality(Replies') <= Cardinality(Replies)
                                   + (IF type = "hello_reply" THEN 1 ELSE 0)
    BY <1>1, <1>2, SendingCounts
  <1>6. Cardinality(Replies) \in Nat
    BY <1>1, RepliesAreFinite
  <1>7. PeerInv'
    BY <1>1, <1>3, <1>4, <1>5, <1>6 DEF PeerInv
  <1>8. ASSUME sent'["hello_reply"] <= 1 PROVE OncePeerInv'
    <2>1. OncePeerInv /\ (type = "hello_reply" => sent["hello_reply"] = 0)
      BY <1>1, <1>3, <1>8 DEF AloneInv
    <2>2. GuardianInv' /\ Advances
      BY <1>2, <2>1
         DEF guardianVars, OncePeerInv, GuardianInv, LaunchInOrder, CleanupInOrder,
             CleanupOnce, Advances, NeverStarts
    <2>3. ChannelInv'
      BY <1>2, <2>1, <2>2, NothingSent DEF OncePeerInv
    <2>4. guardian'.helloReceived = guardian.helloReceived
      BY <1>2 DEF guardianVars
    <2>5. RepliedOnce'
      BY <1>5, <2>1, <2>4 DEF OncePeerInv, RepliedOnce
    <2>6. sent'["hello_reply"] = 0 => Replies' = {} /\ ~guardian'.helloReceived
      BY <1>1, <1>3, <1>5, <2>1, <2>4 DEF OncePeerInv
    <2> QED
      BY <2>2, <2>3, <2>5, <2>6 DEF OncePeerInv
  <1> QED
    BY <1>7, <1>8 DEF AloneInv

\* No step of the peer, and none of the guardian's, breaks what the guardian keeps.
LEMMA AloneStep == AloneInv /\ [AloneNext]_aloneVars => AloneInv'
  <1> SUFFICES ASSUME AloneInv, [AloneNext]_aloneVars PROVE AloneInv'
    OBVIOUS
  <1>1. CASE GuardianActs /\ UNCHANGED sent
    BY <1>1, GuardianKeepsAlone
  <1>2. ASSUME NEW type \in PeerMessages, PeerSends(type) PROVE AloneInv'
    BY <1>2, SendingKeepsAlone
  <1>3. CASE PeerReads \/ PeerDisconnects \/ UNCHANGED aloneVars
    BY <1>3, PeerKeepsAlone DEF PeerReads, PeerDisconnects, aloneVars, link
  <1> QED
    BY <1>1, <1>2, <1>3 DEF AloneNext, GuardianRunsAlone, TimePassesAlone, GuardianActs

\* The guardian's invariant holds whatever its peer does.
LEMMA AloneInvariant == AloneSpec => []AloneInv
  BY AloneStarts, AloneStep, PTL DEF AloneSpec

\* Whatever is repeated, reordered, not read or cut off: the guardian signals its
\* group at most once with TERM and once with KILL, and starts no more shells than
\* the peer sent hello_replies; for a peer that replies once, like the runner, that
\* is one shell, and never both a started shell and a failed start are reported.
THEOREM OneShellOneCleanupAlways == AloneSpec => []OneShellOneCleanup
  <1>1. AloneInv => OneShellOneCleanup
    <2> SUFFICES ASSUME AloneInv PROVE OneShellOneCleanup
      OBVIOUS
    <2>1. shell.terms <= 1 /\ shell.kills <= 1
      BY DEF AloneInv, PeerInv, PeerlessInv, CleanupOnce
    <2>2. shell.started <= sent["hello_reply"]
      <3>1. Cardinality(Replies) \in Nat
        BY RepliesAreFinite DEF AloneInv, PeerInv
      <3>2. /\ shell.started \in Nat /\ Debt \in Nat /\ shell.started <= Debt
            /\ sent["hello_reply"] \in Nat
            /\ Debt + Cardinality(Replies) <= sent["hello_reply"]
        BY DEF AloneInv, PeerInv, PeerlessInv, GuardianType, ShellType, Debt, PeerMessages
      <3> QED
        BY <3>1, <3>2
    <2>3. ASSUME sent["hello_reply"] <= 1
          PROVE  \A i \in DOMAIN toRunner :
                     /\ toRunner[i].type = "shell_error" => shell.started = 0
                     /\ toRunner[i].type = "shell_spawned" => shell.started = 1
      <3>1. \A i \in DOMAIN toRunner : HoldsTrue(toRunner[i])
        BY <2>3 DEF AloneInv, OncePeerInv, ChannelInv, TrueMessages
      <3> QED
        BY <3>1 DEF HoldsTrue, NeverStarts
    <2> QED
      BY <2>1, <2>2, <2>3 DEF OneShellOneCleanup
  <1> QED
    BY <1>1, AloneInvariant, PTL
=============================================================================
