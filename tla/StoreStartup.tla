------------------------------ MODULE StoreStartup ------------------------------
(***************************************************************************)
(* createJobStore (src/src/job-store.ts) in several processes at once, on  *)
(* one path: each prepares the directory and the file, and then tries a    *)
(* handoff from a read-only probe to a writer that converts the database   *)
(* to WAL and creates its schema.                                          *)
(*                                                                         *)
(* SQLite is external: a probe holds a SHARED lock or a WAL snapshot, a    *)
(* writer the one RESERVED or WAL write lock. Under locking_mode =         *)
(* EXCLUSIVE that lock outlives a ROLLBACK. The conversion to WAL waits    *)
(* for every reader and lets no new one in meanwhile. What does not get    *)
(* its lock waits for a second, and then fails as STORE_BUSY.              *)
(***************************************************************************)
EXTENDS Naturals, FiniteSets

CONSTANTS
    Openers,      \* the processes
    MaxAttempts,  \* 5 in the code
    Faults,       \* what may fail: a subset of FaultKinds
    Null

FaultKinds == {"io", "commit", "maintenance", "close"}

ASSUME NullIsNoOpener == Null \notin Openers
ASSUME AttemptsArePositive == MaxAttempts \in Nat \ {0}
ASSUME FaultsAreKnown == Faults \subseteq FaultKinds

VARIABLES
    content, journal,  \* the database: see StoreOpening
    disk,              \* the directory, the file and its sidecars
    readers,           \* probes with an open read transaction
    writer,            \* who holds the write lock, or Null
    opener,            \* each opener's place in createJobStore
    faulted            \* the faults that have hit each opener

database == <<content, journal>>
locks == <<readers, writer>>
vars == <<content, journal, disk, readers, writer, opener, faulted>>

Contents == {"empty", "current", "newer", "foreign"}

\* inspectSchema with allowEmpty.
Recognised == {"empty", "current"}

Journals == {"delete", "wal"}

PathPhases == {"lookup", "mkdir", "chmod", "file"}
AttemptPhases == {"probe", "reserve", "inspect", "convert", "begin", "bootstrap"}
StorePhases == {"open", "writing"}
Phases == PathPhases \cup AttemptPhases \cup StorePhases \cup {"ended"}

\* What createJobStore throws; "unknown" and "committed" are the outcomes that a
\* StoreWriteError carries.
Refusals == {"PATH_UNSAFE", "SCHEMA_TOO_NEW", "STORE_CORRUPT", "STORE_BUSY",
             "STORE_UNAVAILABLE", "unknown", "committed"}

\* "fresh" is a directory between mkdir and chmod: below a setgid directory its
\* mode is not 0700 yet.
Directories == {"missing", "fresh", "private", "unsafe"}
Files == {"missing", "private", "unsafe"}

Disks == [directory : Directories, file : Files, sidecars : {"private", "unsafe"},
          setgid : BOOLEAN]

\* initialize() begins every attempt anew, with its number.
Places == [phase : Phases, attempt : 1..MaxAttempts, mode : Journals,
           outcome : Refusals \cup {Null}]

NewOpener == [phase |-> "lookup", attempt |-> 1, mode |-> "delete", outcome |-> Null]

Init ==
    /\ content \in Contents /\ journal \in Journals
    /\ disk \in {d \in Disks :
           /\ d.directory # "private" => d.file = "missing"
           /\ d.directory # "fresh"}
    /\ disk.file # "private" =>
           content = "empty" /\ journal = "delete" /\ disk.sidecars = "private"
    /\ readers = {} /\ writer = Null
    /\ opener = [p \in Openers |-> NewOpener]
    /\ faulted = [p \in Openers |-> {}]

Enter(p, phase) == opener' = [opener EXCEPT ![p].phase = phase]

Refuse(p, refusal) ==
    opener' = [opener EXCEPT ![p] = [NewOpener EXCEPT !.phase = "ended",
                                                      !.outcome = refusal]]

Hits(p, faults) == faulted' = [faulted EXCEPT ![p] = @ \cup faults]

-----------------------------------------------------------------------------
(* The path: prepareDatabasePath(), ensurePrivateDatabaseFile() *)

DirectoryIsPrivate ==
    \/ disk.directory = "private"
    \/ disk.directory = "fresh" /\ ~disk.setgid

FindDirectory(p) ==
    /\ opener[p].phase = "lookup"
    /\ \/ disk.directory = "missing" /\ Enter(p, "mkdir")
       \/ disk.directory # "missing" /\ DirectoryIsPrivate /\ Enter(p, "file")
       \/ /\ disk.directory # "missing" /\ ~DirectoryIsPrivate
          /\ Refuse(p, "PATH_UNSAFE")
    /\ UNCHANGED <<database, disk, locks, faulted>>

\* Mutated: a directory that another process made meanwhile is refused.
MakeDirectoryRefusing(p) ==
    /\ opener[p].phase = "mkdir"
    /\ IF disk.directory = "missing"
       THEN disk' = [disk EXCEPT !.directory = "fresh"] /\ Enter(p, "chmod")
       ELSE UNCHANGED disk /\ Refuse(p, "PATH_UNSAFE")
    /\ UNCHANGED <<database, locks, faulted>>

\* EEXIST: another opener was first, and its directory is looked at like any other.
MakeDirectory(p) ==
    /\ opener[p].phase = "mkdir"
    /\ IF disk.directory = "missing"
       THEN disk' = [disk EXCEPT !.directory = "fresh"] /\ Enter(p, "chmod")
       ELSE UNCHANGED disk /\ Enter(p, "lookup")
    /\ UNCHANGED <<database, locks, faulted>>

SetDirectoryMode(p) ==
    /\ opener[p].phase = "chmod"
    /\ disk' = [disk EXCEPT !.directory = "private"]
    /\ Enter(p, "file")
    /\ UNCHANGED <<database, locks, faulted>>

\* The last lstat of prepareDatabasePath, an exclusive create, or else the type
\* and the mode of what exists: a file only ever comes into being meanwhile.
CreateFile(p) ==
    /\ opener[p].phase = "file"
    /\ \/ /\ disk.file = "missing"
          /\ disk' = [disk EXCEPT !.file = "private"]
          /\ \/ Enter(p, "probe") /\ UNCHANGED faulted
             \/ /\ "close" \in Faults
                /\ Refuse(p, "STORE_UNAVAILABLE") /\ Hits(p, {"close"})
       \/ disk.file = "private" /\ Enter(p, "probe") /\ UNCHANGED <<disk, faulted>>
       \/ disk.file = "unsafe" /\ Refuse(p, "PATH_UNSAFE") /\ UNCHANGED <<disk, faulted>>
    /\ UNCHANGED <<database, locks>>

Prepares(p) ==
    FindDirectory(p) \/ MakeDirectory(p) \/ SetDirectoryMode(p) \/ CreateFile(p)

-----------------------------------------------------------------------------
(* The handles: releaseStartupHandle(), and the catch of initialize() *)

Releases(p) ==
    /\ readers' = readers \ {p}
    /\ writer' = IF writer = p THEN Null ELSE writer

\* A failed rollback or close: the handle keeps its lock, or does not. The
\* outcome of a write stays what it was; any other error becomes this one, and
\* a busy opener does not try again.
ReleaseFails(p, refusal) ==
    /\ "close" \in Faults
    /\ readers' \in {readers, readers \ {p}}
    /\ writer' \in {writer, IF writer = p THEN Null ELSE writer}
    /\ Refuse(p, IF refusal \in {"unknown", "committed"}
                 THEN refusal ELSE "STORE_UNAVAILABLE")

Fails(p, refusal, faults) ==
    \/ Releases(p) /\ Refuse(p, refusal) /\ Hits(p, faults)
    \/ ReleaseFails(p, refusal) /\ Hits(p, faults \cup {"close"})

\* Mutated: a busy opener keeps its probe.
RetriesReading(p) ==
    /\ opener[p].attempt < MaxAttempts
    /\ writer' = IF writer = p THEN Null ELSE writer
    /\ opener' = [opener EXCEPT ![p] = [NewOpener EXCEPT !.phase = "probe",
                                            !.attempt = opener[p].attempt + 1]]
    /\ UNCHANGED <<readers, faulted>>

\* Mutated: the attempts are not counted.
RetriesForever(p) ==
    /\ Releases(p) /\ Enter(p, "probe")
    /\ UNCHANGED faulted

\* STORE_BUSY: everything is released, and after a pause comes the next attempt.
Retries(p) ==
    /\ opener[p].attempt < MaxAttempts
    /\ Releases(p)
    /\ opener' = [opener EXCEPT ![p] = [NewOpener EXCEPT !.phase = "probe",
                                            !.attempt = opener[p].attempt + 1]]
    /\ UNCHANGED faulted

Busy(p) ==
    \/ Retries(p)
    \/ opener[p].attempt = MaxAttempts /\ Fails(p, "STORE_BUSY", {})
    \/ ReleaseFails(p, "STORE_BUSY") /\ Hits(p, {"close"})

Refused == IF content = "newer" THEN "SCHEMA_TOO_NEW" ELSE "STORE_CORRUPT"

-----------------------------------------------------------------------------
(* One attempt of initialize() *)

\* A converter that waits for the readers to leave.
Converting(q) == opener[q].phase = "convert"

Probe(p) ==
    /\ opener[p].phase = "probe"
    /\ \/ /\ disk.sidecars = "unsafe" /\ Refuse(p, "PATH_UNSAFE")
          /\ UNCHANGED <<locks, faulted>>
       \/ /\ disk.sidecars = "private" /\ content \notin Recognised
          /\ Fails(p, Refused, {})
       \/ /\ disk.sidecars = "private" /\ content \in Recognised
          /\ readers' = readers \cup {p}
          /\ opener' = [opener EXCEPT ![p].phase = "reserve", ![p].mode = journal]
          /\ UNCHANGED <<writer, faulted>>
       \/ (\E q \in Openers : Converting(q)) /\ Busy(p)
    /\ UNCHANGED <<database, disk>>

\* BEGIN IMMEDIATE while the probe still reads.
Reserve(p) ==
    /\ opener[p].phase = "reserve"
    /\ \/ /\ writer = Null
          /\ writer' = p /\ Enter(p, "inspect")
          /\ UNCHANGED <<readers, faulted>>
       \/ writer # Null /\ Busy(p)
    /\ UNCHANGED <<database, disk>>

\* Mutated: without locking_mode = EXCLUSIVE the ROLLBACK gives the lock up.
ReinspectUnlocking(p) ==
    /\ opener[p].phase = "inspect" /\ content \in Recognised
    /\ readers' = readers \ {p}
    /\ IF opener[p].mode = "wal"
       THEN Enter(p, "bootstrap") /\ UNCHANGED writer
       ELSE Enter(p, "convert") /\ writer' = Null
    /\ UNCHANGED <<database, disk, faulted>>

\* The database is inspected again under the write lock, and the probe released.
Reinspect(p) ==
    /\ opener[p].phase = "inspect"
    /\ \/ content \notin Recognised /\ Fails(p, Refused, {})
       \/ /\ content \in Recognised
          /\ readers' = readers \ {p}
          /\ Enter(p, IF opener[p].mode = "wal" THEN "bootstrap" ELSE "convert")
          /\ UNCHANGED <<writer, faulted>>
       \/ /\ content \in Recognised
          /\ ReleaseFails(p, "STORE_UNAVAILABLE") /\ Hits(p, {"close"})
    /\ UNCHANGED <<database, disk>>

\* ROLLBACK, locking_mode = NORMAL, journal_mode = WAL.
Convert(p) ==
    /\ opener[p].phase = "convert"
    /\ \/ /\ readers = {}
          /\ journal' = "wal" /\ writer' = Null /\ Enter(p, "begin")
          /\ UNCHANGED <<readers, faulted>>
       \/ readers # {} /\ UNCHANGED journal /\ Busy(p)
    /\ UNCHANGED <<content, disk>>

\* bootstrap(false): the conversion has given the lock up.
Begin(p) ==
    /\ opener[p].phase = "begin"
    /\ \/ /\ writer = Null
          /\ writer' = p /\ Enter(p, "bootstrap")
          /\ UNCHANGED <<readers, faulted>>
       \/ writer # Null /\ Busy(p)
    /\ UNCHANGED <<database, disk>>

Bootstrap(p) ==
    /\ opener[p].phase = "bootstrap"
    /\ \/ content \notin Recognised /\ UNCHANGED content /\ Fails(p, Refused, {})
       \/ /\ content \in Recognised
          /\ content' = "current" /\ writer' = Null
          /\ opener' = [opener EXCEPT ![p] = [NewOpener EXCEPT !.phase = "open"]]
          /\ UNCHANGED <<readers, faulted>>
       \/ /\ content \in Recognised /\ "commit" \in Faults
          /\ content' \in {content, "current"} /\ Fails(p, "unknown", {"commit"})
       \/ /\ content \in Recognised /\ "maintenance" \in Faults
          /\ content' = "current" /\ Fails(p, "committed", {"maintenance"})
    /\ UNCHANGED <<journal, disk>>

\* Any other failure of the file system or of SQLite, at any of these steps. The
\* sidecars, which a probe looks at first, are part of the path.
OperationFails(p) ==
    /\ "io" \in Faults
    /\ \/ /\ opener[p].phase \in PathPhases \cup {"probe"}
          /\ Refuse(p, "PATH_UNSAFE")
          /\ Hits(p, {"io"}) /\ UNCHANGED locks
       \/ opener[p].phase \in AttemptPhases /\ Fails(p, "STORE_UNAVAILABLE", {"io"})
    /\ UNCHANGED <<database, disk>>

Attempts(p) ==
    Probe(p) \/ Reserve(p) \/ Reinspect(p) \/ Convert(p) \/ Begin(p) \/ Bootstrap(p)

Opens(p) == Prepares(p) \/ Attempts(p)

-----------------------------------------------------------------------------
(* Around it: the open store, the process, and a newer pi-watch *)

BeginsWrite(p) ==
    /\ opener[p].phase = "open" /\ writer = Null
    /\ writer' = p /\ Enter(p, "writing")
    /\ UNCHANGED <<database, disk, readers, faulted>>

EndsWrite(p) ==
    /\ opener[p].phase = "writing"
    /\ writer' = Null /\ Enter(p, "open")
    /\ UNCHANGED <<database, disk, readers, faulted>>

\* The store is closed, or the process dies, wherever it is: SQLite drops its locks.
Leaves(p) ==
    /\ opener[p].phase # "ended" \/ p \in readers \/ writer = p
    /\ Releases(p) /\ Refuse(p, opener[p].outcome)
    /\ UNCHANGED <<database, disk, faulted>>

\* Its writer needs what every writer needs.
Upgrade ==
    /\ disk.file = "private" /\ content \in Recognised
    /\ writer = Null
    /\ journal = "delete" => readers = {}
    /\ content' = "newer" /\ journal' \in {journal, "wal"}
    /\ UNCHANGED <<disk, locks, opener, faulted>>

Next ==
    \/ \E p \in Openers :
          \/ Opens(p) \/ OperationFails(p)
          \/ BeginsWrite(p) \/ EndsWrite(p) \/ Leaves(p)
    \/ Upgrade

Spec == Init /\ [][Next]_vars

\* createJobStore is synchronous: nothing in its process runs before it returns.
\* Each lock is waited for with a timeout. Nobody has to write, or to leave.
Fairness == \A p \in Openers : WF_vars(Opens(p)) /\ WF_vars(EndsWrite(p))

FairSpec == Spec /\ Fairness

-----------------------------------------------------------------------------
(* Properties *)

StartupTypeOK ==
    /\ content \in Contents /\ journal \in Journals /\ disk \in Disks
    /\ readers \subseteq Openers /\ writer \in Openers \cup {Null}
    /\ opener \in [Openers -> Places]
    /\ faulted \in [Openers -> SUBSET FaultKinds]

\* Another opener's lock, or one that it has kept.
OthersHoldLocks(p) == (readers \cup {writer}) \ {p, Null} # {}

UnsafeOnDisk ==
    \/ disk.directory = "unsafe" \/ disk.file = "unsafe"
    \/ disk.sidecars = "unsafe"
    \/ disk.directory = "fresh" /\ disk.setgid

Justified(p, refusal) ==
    CASE refusal = "SCHEMA_TOO_NEW" -> content = "newer"
      [] refusal = "STORE_CORRUPT" -> content = "foreign"
      [] refusal = "STORE_BUSY" -> OthersHoldLocks(p)
      [] refusal = "PATH_UNSAFE" -> UnsafeOnDisk \/ "io" \in faulted'[p]
      [] refusal = "committed" -> content' = "current"
      [] OTHER -> faulted'[p] # {}

HonestlyRefused(p) ==
    opener'[p].outcome \notin {opener[p].outcome, Null} =>
       Justified(p, opener'[p].outcome)

\* Nobody is turned away for something that is not so: an opener never waits for
\* a lock of its own, a directory that another opener has just made is not taken
\* for an unsafe one (but for the moment between mkdir and chmod below a setgid
\* directory: private-path.ts:177), and a newer store is never called corrupt.
RefusalsAreHonest == [][\A p \in Openers : HonestlyRefused(p)]_vars

\* An opener that has given up holds no lock that others wait for, unless
\* SQLite failed to close its handle ("retries must never leave a reader holding
\* the lock that the next writer is waiting for", job-store.ts:910-912).
NothingLeftBehind ==
    \A p \in Openers :
       opener[p].phase \in PathPhases \cup {"probe", "open", "ended"}
          /\ "close" \notin faulted[p] =>
             p \notin readers /\ writer # p

\* However the openers compete, createJobStore returns or throws: prober and
\* converter wait for each other only until one of them times out, and there is
\* a last attempt.
StartupEnds ==
    \A p \in Openers : <>(opener[p].phase \in StorePhases \cup {"ended"})

\* Only recognised databases are converted or given a schema, and only a current
\* one in WAL mode is handed out, whatever runs between the inspections.
Opened == {p \in Openers : opener[p].phase \in StorePhases}

Opening == INSTANCE StoreOpening WITH opened <- Opened

ImplementsStoreOpening == Opening!Spec
=============================================================================
