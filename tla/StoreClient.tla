------------------------------ MODULE StoreClient ------------------------------
(***************************************************************************)
(* The store client (src/src/store-client.ts) and the worker thread that   *)
(* serves it (src/src/store-worker.ts): the startup race of readiness,     *)
(* failure and timeout, requests and their answers over the message port,  *)
(* and the loss of the worker at any point. The store behind the worker is *)
(* abstracted to what the client can tell apart: whether a transaction is  *)
(* durable and how its end is reported (inTransaction of job-store.ts).    *)
(***************************************************************************)
EXTENDS StoreCalls

CONSTANT MaxCalls  \* bound: how many calls the client is asked to make

ASSUME CallsAreBounded == MaxCalls \in Nat

VARIABLES
    startup,       \* openStoreClient: how far it has come
    workerFailed,  \* the client knows that its worker is lost
    worker,        \* the worker thread
    terminating,   \* worker.terminate() was called
    serving,       \* the answer to the transaction that just ended, or none
    toWorker,      \* requests that the worker has not taken, by call
    toClient       \* events of the worker that the client has not handled

clientVars == <<startup, workerFailed, terminating>>
threadVars == <<worker, serving, toWorker, toClient>>
storeClientVars == <<calls, durable, clientVars, threadVars>>

\* waiting: startupSettled is false. ready: resolved, and the layout is to be
\* prepared. cleaning: terminateFailedStartup awaits the termination. failed and
\* unconfirmed: rejected, the second with `cleanup was not confirmed'.
StartupStates ==
    {"waiting", "ready", "open", "refused", "cleaning", "failed", "unconfirmed"}

\* A worker whose store did not open has no listener left: idle.
WorkerStates == {"starting", "serving", "idle", "gone"}

Nothing == [id |-> 0, kind |-> "none"]

AnswerKinds == {"resolved", "failed", "unknown", "committed"}
Notices == {"ready", "init-error", "error", "exit"}
Events == [id : {0}, kind : Notices] \cup [id : 1..MaxCalls, kind : AnswerKinds]

Event(kind) == [id |-> 0, kind |-> kind]

StoreClientInit ==
    /\ CallsInit
    /\ startup = "waiting" /\ workerFailed = FALSE /\ terminating = FALSE
    /\ worker = "starting" /\ serving = Nothing
    /\ toWorker = << >> /\ toClient = << >>

Pending == {i \in Ids : calls[i].outcome = "none"}

-----------------------------------------------------------------------------
(* The worker thread *)

WorkerStarts ==
    /\ worker = "starting"
    /\ \/ /\ worker' = "serving"
          /\ toClient' = Append(toClient, Event("ready"))
       \/ /\ worker' = "idle"
          /\ toClient' = Append(toClient, Event("init-error"))
    /\ UNCHANGED <<calls, durable, clientVars, serving, toWorker>>

\* How the transaction of call i may end: it commits, is refused or rolled back,
\* COMMIT throws (durable or not), or what follows a successful COMMIT throws.
MayEnd(i, kind, committed) ==
    IF calls[i].op = "read" THEN kind \in {"resolved", "failed"} /\ ~committed
    ELSE CASE kind \in {"resolved", "committed"} -> committed
           [] kind = "failed" -> ~committed
           [] kind = "unknown" -> TRUE

\* onMessage of the worker: the handler runs, the answer is not posted yet.
WorkerHandles ==
    /\ worker = "serving" /\ serving = Nothing /\ toWorker # << >>
    /\ \E kind \in AnswerKinds, committed \in BOOLEAN :
          /\ MayEnd(Head(toWorker), kind, committed)
          /\ serving' = [id |-> Head(toWorker), kind |-> kind]
          /\ durable' = IF committed THEN durable \cup {Head(toWorker)} ELSE durable
    /\ toWorker' = Tail(toWorker)
    /\ UNCHANGED <<calls, clientVars, worker, toClient>>

WorkerAnswers ==
    /\ worker = "serving" /\ serving # Nothing
    /\ toClient' = Append(toClient, serving)
    /\ serving' = Nothing
    /\ UNCHANGED <<calls, durable, clientVars, worker, toWorker>>

\* The thread ends: it was terminated, has nothing left to do, or crashed, and a
\* crash raises `error' first. What it was about to answer is lost; what it had
\* posted is delivered before the exit event.
WorkerEnds ==
    /\ worker # "gone"
    /\ worker' = "gone" /\ serving' = Nothing
    /\ \/ toClient' = Append(toClient, Event("exit"))
       \/ toClient' = toClient \o <<Event("error"), Event("exit")>>
    /\ UNCHANGED <<calls, durable, clientVars, toWorker>>

-----------------------------------------------------------------------------
(* Startup *)

\* Mutated: the loss is passed on to the pending calls and forgotten.
FailAllForgotten ==
    /\ UNCHANGED workerFailed
    /\ calls' = [i \in Ids |->
          IF i \notin Pending THEN calls[i]
          ELSE [calls[i] EXCEPT !.outcome =
                  IF calls[i].op \in {"reserve", "decide"} THEN "unknown"
                  ELSE "unavailable"]]

\* Mutated: only reservations keep the uncertainty.
FailAllDecided ==
    /\ workerFailed' = TRUE
    /\ calls' = [i \in Ids |->
          IF i \notin Pending THEN calls[i]
          ELSE [calls[i] EXCEPT !.outcome =
                  IF calls[i].op = "reserve" THEN "unknown" ELSE "unavailable"]]

FailAll ==
    /\ workerFailed' = TRUE
    /\ calls' = [i \in Ids |->
          IF i \notin Pending THEN calls[i]
          ELSE [calls[i] EXCEPT !.outcome =
                  IF calls[i].op \in {"reserve", "decide"} THEN "unknown"
                  ELSE "unavailable"]]

FailStartup ==
    /\ startup' = "cleaning"
    /\ terminating' = TRUE

\* Mutated: the timeout waits for the worker to report something.
StartupTimesOutOnEvent ==
    /\ startup = "waiting" /\ toClient # << >>
    /\ FailStartup
    /\ UNCHANGED <<calls, durable, workerFailed, threadVars>>

StartupTimesOut ==
    /\ startup = "waiting"
    /\ FailStartup
    /\ UNCHANGED <<calls, durable, workerFailed, threadVars>>

TerminationConfirmed ==
    /\ startup = "cleaning" /\ worker = "gone"
    /\ startup' = "failed"
    /\ UNCHANGED <<calls, durable, workerFailed, terminating, threadVars>>

\* Mutated: the cleanup timer settles the race as a termination would.
TerminationUnconfirmedAsFailed ==
    /\ startup = "cleaning"
    /\ startup' = "failed"
    /\ UNCHANGED <<calls, durable, workerFailed, terminating, threadVars>>

\* The cleanup timer fires first, or terminate() rejects.
TerminationUnconfirmed ==
    /\ startup = "cleaning"
    /\ startup' = "unconfirmed"
    /\ UNCHANGED <<calls, durable, workerFailed, terminating, threadVars>>

\* prepareFixedLayout: its failure terminates the worker and is thrown.
LayoutPrepared ==
    /\ startup = "ready"
    /\ \/ startup' = "open" /\ UNCHANGED terminating
       \/ startup' = "refused" /\ terminating' = TRUE
    /\ UNCHANGED <<calls, durable, workerFailed, threadVars>>

-----------------------------------------------------------------------------
(* Events of the worker *)

\* Before startup has settled, only the four notices are understood.
StartupEvent(event) ==
    /\ startup = "waiting"
    /\ IF event.kind = "ready"
       THEN startup' = "ready" /\ UNCHANGED terminating
       ELSE FailStartup
    /\ UNCHANGED <<calls, workerFailed>>

WorkerLost(event) ==
    /\ startup # "waiting" /\ event.kind \in {"error", "exit"}
    /\ FailAll
    /\ UNCHANGED <<startup, terminating>>

AnswerArrives(event) ==
    /\ event.id \in Pending
    /\ calls' = [calls EXCEPT ![event.id].outcome = event.kind]
    /\ UNCHANGED clientVars

\* A readiness or failure notice that lost the startup race, and the answer to
\* a call that was already failed.
EventIgnored(event) ==
    /\ startup # "waiting"
    /\ event.kind \notin {"error", "exit"} /\ event.id \notin Pending
    /\ UNCHANGED <<calls, clientVars>>

ClientHandles ==
    /\ toClient # << >>
    /\ LET event == Head(toClient)
       IN  \/ StartupEvent(event)
           \/ WorkerLost(event)
           \/ AnswerArrives(event)
           \/ EventIgnored(event)
    /\ toClient' = Tail(toClient)
    /\ UNCHANGED <<durable, worker, serving, toWorker>>

-----------------------------------------------------------------------------
(* The client's callers *)

\* Mutated: the request carries the id of the call before it.
RequestStaleId(op) ==
    /\ startup = "open" /\ Len(calls) < MaxCalls /\ ~workerFailed
    /\ calls' = Append(calls, [op |-> op, outcome |-> "none"])
    /\ toWorker' = Append(toWorker, Len(calls))
    /\ UNCHANGED <<durable, clientVars, worker, serving, toClient>>

\* request(): refused at once when the worker is known to be lost, or when the
\* payload cannot be posted; a message to a worker that is gone is dropped.
Request(op) ==
    /\ startup = "open" /\ Len(calls) < MaxCalls
    /\ \/ /\ workerFailed
          /\ calls' = Append(calls, [op |-> op, outcome |-> "unavailable"])
          /\ UNCHANGED toWorker
       \/ /\ ~workerFailed
          /\ calls' = Append(calls, [op |-> op, outcome |-> "failed"])
          /\ UNCHANGED toWorker
       \/ /\ ~workerFailed
          /\ calls' = Append(calls, [op |-> op, outcome |-> "none"])
          /\ toWorker' = Append(toWorker, Len(calls) + 1)
    /\ UNCHANGED <<durable, clientVars, worker, serving, toClient>>

\* close(): pending calls are failed while the worker may still be serving them.
Close ==
    /\ startup = "open"
    /\ FailAll
    /\ terminating' = TRUE
    /\ UNCHANGED <<durable, startup, threadVars>>

\* terminateWorker(): the exit event fails what is pending.
TerminateWorker ==
    /\ startup = "open"
    /\ terminating' = TRUE
    /\ UNCHANGED <<calls, durable, startup, workerFailed, threadVars>>

-----------------------------------------------------------------------------
StoreClientNext ==
    \/ WorkerStarts \/ WorkerHandles \/ WorkerAnswers \/ WorkerEnds
    \/ StartupTimesOut \/ TerminationConfirmed \/ TerminationUnconfirmed
    \/ LayoutPrepared \/ ClientHandles
    \/ \E op \in Ops : Request(op)
    \/ Close \/ TerminateWorker

StoreClientSafety == StoreClientInit /\ [][StoreClientNext]_storeClientVars

\* Node runs pending callbacks and expired timers; a worker that is up takes
\* its messages (SQLite's lock wait is bounded) and a terminated one ends. That
\* a starting worker ever reports anything is not assumed.
StoreClientFairness ==
    /\ WF_storeClientVars(ClientHandles)
    /\ WF_storeClientVars(WorkerHandles \/ WorkerAnswers)
    /\ WF_storeClientVars(terminating /\ WorkerEnds)
    /\ WF_storeClientVars(StartupTimesOut)
    /\ WF_storeClientVars(TerminationConfirmed \/ TerminationUnconfirmed)
    /\ WF_storeClientVars(LayoutPrepared)

StoreClientSpec == StoreClientSafety /\ StoreClientFairness

-----------------------------------------------------------------------------
(* Properties *)

\* The client's state is well-formed.
StoreClientTypeOK ==
    /\ calls \in Seq([op : Ops, outcome : Outcomes \cup {"none"}])
    /\ Len(calls) <= MaxCalls /\ durable \subseteq Ids
    /\ startup \in StartupStates /\ worker \in WorkerStates
    /\ workerFailed \in BOOLEAN /\ terminating \in BOOLEAN
    /\ serving \in Events \cup {Nothing}
    /\ toWorker \in Seq(1..MaxCalls) /\ toClient \in Seq(Events)

\* A call is answered once and its answer is true, also when close() or the loss
\* of the worker fails a call whose transaction is running or already durable
\* (failAll, store-client.ts:179-191; AmbiguousAcceptanceError, StoreWriteError).
KeepsItsPromises == CallsSpec

\* A startup failure that does not say `cleanup was not confirmed' leaves no
\* worker behind that could hold the database open (store-client.ts:234-262).
FailedStartupIsCleanedUp == startup = "failed" => worker = "gone"

\* However readiness, init errors, crashes and the timeouts race, the promise of
\* openStoreClient settles (store-client.ts:214-365).
StartupSettles == <>(startup \notin {"waiting", "ready", "cleaning"})

\* No call hangs: it is answered by the worker, failed with the worker, or
\* refused because the worker is known to be lost (store-client.ts:378-409).
CallsSettle ==
    \A i \in 1..MaxCalls : [](i \in Pending => <>(i \notin Pending))
=============================================================================
