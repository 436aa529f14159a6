------------------------------ MODULE StoreProofs ------------------------------
(***************************************************************************)
(* Proofs about the two ends of the store worker: the opening of the       *)
(* database, for any number of openers and any faults, and the store       *)
(* client, for any number of calls.                                        *)
(***************************************************************************)
EXTENDS StoreStartup, StoreClient, SequenceTheorems, TLAPS

-----------------------------------------------------------------------------
(***************************************************************************)
(* Opening: only recognised databases are opened or changed, and no opener *)
(* stands in the way of another.                                           *)
(***************************************************************************)

Held == {"inspect", "convert", "bootstrap", "writing"}

\* What one opener's phase says of the locks and of the database: while a phase
\* needs the write lock, the opener has it; otherwise it has no lock; a handle
\* that failed to close ends the attempts; and what the probe and the second
\* inspection found still holds.
StartupInv(p) ==
    /\ opener[p].phase \in Held => writer = p
    /\ "close" \notin faulted[p] =>
          /\ p \in readers => opener[p].phase \in {"reserve", "inspect"}
          /\ writer = p => opener[p].phase \in Held
    /\ "close" \in faulted[p] => opener[p].phase = "ended"
    /\ opener[p].mode = "wal" => journal = "wal"
    /\ opener[p].phase \in {"begin", "bootstrap"} => journal = "wal"
    /\ opener[p].phase = "convert" => content \in Recognised

IInv == StartupTypeOK /\ \A p \in Openers : StartupInv(p)

\* An opener that starts, ends or tries again is one of the places.
LEMMA NewPlaces ==
    /\ NewOpener \in Places
    /\ \A r \in Refusals \cup {Null} :
          [NewOpener EXCEPT !.phase = "ended", !.outcome = r] \in Places
    /\ \A n \in 1..MaxAttempts :
          [NewOpener EXCEPT !.phase = "probe", !.attempt = n] \in Places
    /\ [NewOpener EXCEPT !.phase = "open"] \in Places
  <1>1. 1 \in 1..MaxAttempts
    BY AttemptsArePositive
  <1>2. {"lookup", "ended", "probe", "open"} \subseteq Phases
    BY DEF Phases, PathPhases, AttemptPhases, StorePhases
  <1> QED
    BY <1>1, <1>2 DEF NewOpener, Places, Journals

\* Initially nobody has a lock, and nobody knows anything.
LEMMA StartupInit == Init => IInv
  <1> SUFFICES ASSUME Init PROVE IInv
    OBVIOUS
  <1>1. StartupTypeOK
    BY NewPlaces DEF Init, StartupTypeOK, Disks
  <1>2. ASSUME NEW p \in Openers PROVE StartupInv(p)
    BY NullIsNoOpener DEF Init, StartupInv, NewOpener, Held
  <1> QED
    BY <1>1, <1>2 DEF IInv

\* The ways a failed step leaves the handles and the openers.
LEMMA FailsType ==
    ASSUME StartupTypeOK, NEW p \in Openers, NEW r \in Refusals,
           NEW fs \in SUBSET FaultKinds, Fails(p, r, fs)
    PROVE  /\ readers' \subseteq Openers /\ writer' \in Openers \cup {Null}
           /\ opener' \in [Openers -> Places]
           /\ faulted' \in [Openers -> SUBSET FaultKinds]
  <1>1. readers' \subseteq Openers /\ writer' \in Openers \cup {Null}
    BY DEF StartupTypeOK, Fails, Releases, ReleaseFails
  <1>2. opener' \in [Openers -> Places]
    <2>1. PICK q \in Refusals : Refuse(p, q)
      BY DEF Fails, ReleaseFails, Refusals
    <2> QED
      BY <2>1, NewPlaces DEF Refuse, StartupTypeOK
  <1>3. faulted' \in [Openers -> SUBSET FaultKinds]
    <2>1. PICK more \in SUBSET FaultKinds : Hits(p, more)
      BY DEF Fails, FaultKinds
    <2> QED
      BY <2>1 DEF Hits, StartupTypeOK
  <1> QED
    BY <1>1, <1>2, <1>3

\* The same for an attempt that ends busy.
LEMMA BusyType ==
    ASSUME StartupTypeOK, NEW p \in Openers, Busy(p)
    PROVE  /\ readers' \subseteq Openers /\ writer' \in Openers \cup {Null}
           /\ opener' \in [Openers -> Places]
           /\ faulted' \in [Openers -> SUBSET FaultKinds]
  <1>1. CASE Retries(p)
    <2>1. opener[p].attempt + 1 \in 1..MaxAttempts
      BY <1>1, AttemptsArePositive DEF Retries, StartupTypeOK, Places
    <2>2. opener' \in [Openers -> Places]
      BY <1>1, <2>1, NewPlaces DEF Retries, StartupTypeOK
    <2> QED
      BY <1>1, <2>2 DEF Retries, Releases, StartupTypeOK
  <1>2. CASE Fails(p, "STORE_BUSY", {})
    BY <1>2, FailsType DEF Refusals
  <1>3. CASE ReleaseFails(p, "STORE_BUSY") /\ Hits(p, {"close"})
    <2>1. Fails(p, "STORE_BUSY", {})
      BY <1>3 DEF Fails
    <2> QED
      BY <2>1, FailsType DEF Refusals
  <1> QED
    BY <1>1, <1>2, <1>3 DEF Busy

\* Every step of an opener, as one disjunction.
OpenerSteps(p) ==
    \/ FindDirectory(p) \/ MakeDirectory(p) \/ SetDirectoryMode(p) \/ CreateFile(p)
    \/ Probe(p) \/ Reserve(p) \/ Reinspect(p) \/ Convert(p) \/ Begin(p) \/ Bootstrap(p)
    \/ OperationFails(p) \/ BeginsWrite(p) \/ EndsWrite(p) \/ Leaves(p)

\* The phases and refusals that the steps enter.
LEMMA EnterType ==
    ASSUME StartupTypeOK, NEW p \in Openers, NEW phase \in Phases,
           Enter(p, phase)
    PROVE  opener' \in [Openers -> Places]
  BY DEF Enter, StartupTypeOK, Places

\* An opener that ends is in a place.
LEMMA RefuseType ==
    ASSUME StartupTypeOK, NEW p \in Openers, NEW r \in Refusals \cup {Null},
           Refuse(p, r)
    PROVE  opener' \in [Openers -> Places]
  BY NewPlaces DEF Refuse, StartupTypeOK

\* A fault is recorded among the known ones.
LEMMA HitsType ==
    ASSUME StartupTypeOK, NEW p \in Openers, NEW fs \in SUBSET FaultKinds,
           Hits(p, fs)
    PROVE  faulted' \in [Openers -> SUBSET FaultKinds]
  BY DEF Hits, StartupTypeOK

\* Every step keeps the types.
LEMMA TypeStep ==
    ASSUME StartupTypeOK, NEW p \in Openers, OpenerSteps(p)
    PROVE  StartupTypeOK'
  <1> USE DEF StartupTypeOK
  <1>0. /\ Phases = {"lookup", "mkdir", "chmod", "file", "probe", "reserve",
                     "inspect", "convert", "begin", "bootstrap", "open", "writing",
                     "ended"}
        /\ {"io"} \in SUBSET FaultKinds /\ {"close"} \in SUBSET FaultKinds
        /\ {"commit"} \in SUBSET FaultKinds /\ {"maintenance"} \in SUBSET FaultKinds
        /\ {} \in SUBSET FaultKinds
        /\ "PATH_UNSAFE" \in Refusals /\ "STORE_UNAVAILABLE" \in Refusals
        /\ "unknown" \in Refusals /\ "committed" \in Refusals
        /\ Refused \in Refusals
    BY DEF Phases, PathPhases, AttemptPhases, StorePhases, FaultKinds, Refusals, Refused
  <1>1. CASE FindDirectory(p)
    BY <1>1, <1>0, EnterType, RefuseType DEF FindDirectory, database, locks
  <1>2. CASE MakeDirectory(p)
    BY <1>2, <1>0, EnterType DEF MakeDirectory, database, locks, Disks, Directories
  <1>3. CASE SetDirectoryMode(p)
    BY <1>3, <1>0, EnterType DEF SetDirectoryMode, database, locks, Disks, Directories
  <1>4. CASE CreateFile(p)
    BY <1>4, <1>0, EnterType, RefuseType, HitsType
       DEF CreateFile, database, locks, Disks, Files
  <1>5. CASE Probe(p)
    <2>1. ASSUME opener' = [opener EXCEPT ![p].phase = "reserve", ![p].mode = journal]
          PROVE  opener' \in [Openers -> Places]
      BY <2>1, <1>0 DEF Places
    <2> QED
      BY <1>5, <2>1, <1>0, FailsType, BusyType, RefuseType DEF Probe, database, locks
  <1>6. CASE Reserve(p)
    BY <1>6, <1>0, EnterType, BusyType DEF Reserve, database
  <1>7. CASE Reinspect(p)
    <2>1. ASSUME ReleaseFails(p, "STORE_UNAVAILABLE"), Hits(p, {"close"})
          PROVE  Fails(p, "STORE_UNAVAILABLE", {})
      BY <2>1 DEF Fails
    <2> QED
      BY <1>7, <2>1, <1>0, EnterType, FailsType DEF Reinspect, database
  <1>8. CASE Convert(p)
    BY <1>8, <1>0, EnterType, BusyType DEF Convert, Journals
  <1>9. CASE Begin(p)
    BY <1>9, <1>0, EnterType, BusyType DEF Begin, database
  <1>10. CASE Bootstrap(p)
    <2>1. content' \in Contents /\ journal' \in Journals /\ disk' \in Disks
      BY <1>10 DEF Bootstrap, Contents
    <2>2. ASSUME opener' = [opener EXCEPT ![p] = [NewOpener EXCEPT !.phase = "open"]]
          PROVE  opener' \in [Openers -> Places]
      BY <2>2, NewPlaces
    <2> QED
      BY <1>10, <2>1, <2>2, <1>0, FailsType DEF Bootstrap
  <1>11. CASE OperationFails(p)
    BY <1>11, <1>0, RefuseType, HitsType, FailsType
       DEF OperationFails, database, locks
  <1>12. CASE BeginsWrite(p)
    BY <1>12, <1>0, EnterType DEF BeginsWrite, database
  <1>13. CASE EndsWrite(p)
    BY <1>13, <1>0, EnterType DEF EndsWrite, database
  <1>14. CASE Leaves(p)
    <2>1. opener[p].outcome \in Refusals \cup {Null}
      BY DEF Places
    <2> QED
      BY <1>14, <2>1, RefuseType DEF Leaves, Releases, database
  <1> QED
    BY <1>1, <1>2, <1>3, <1>4, <1>5, <1>6, <1>7, <1>8, <1>9, <1>10, <1>11, <1>12,
       <1>13, <1>14 DEF OpenerSteps

\* What a step of p leaves alone: other openers and their locks.
Local(p) ==
    /\ \A q \in Openers \ {p} :
          /\ opener'[q] = opener[q] /\ faulted'[q] = faulted[q]
          /\ q \in readers' <=> q \in readers
    /\ writer' = writer \/ {writer, writer'} \subseteq {p, Null}
    /\ journal' \in {journal, "wal"}
    /\ content' = content \/ content' = "current"

\* An opener that ends, and a fault, concern nobody else.
LEMMA RefuseEffect ==
    ASSUME StartupTypeOK, NEW p \in Openers, NEW r, Refuse(p, r)
    PROVE  /\ \A q \in Openers \ {p} : opener'[q] = opener[q]
           /\ opener'[p].phase = "ended" /\ opener'[p].mode = "delete"
  BY DEF StartupTypeOK, Refuse, NewOpener

\* What a recorded fault changes.
LEMMA HitsEffect ==
    ASSUME StartupTypeOK, NEW p \in Openers, NEW fs, Hits(p, fs)
    PROVE  /\ \A q \in Openers \ {p} : faulted'[q] = faulted[q]
           /\ faulted'[p] = faulted[p] \cup fs
  BY DEF StartupTypeOK, Hits

\* A failed step is local, and leaves its opener without locks or with the fault.
LEMMA FailsLocal ==
    ASSUME IInv, NEW p \in Openers, NEW r, NEW fs, Fails(p, r, fs)
    PROVE  /\ \A q \in Openers \ {p} :
                 /\ opener'[q] = opener[q] /\ faulted'[q] = faulted[q]
                 /\ q \in readers' <=> q \in readers
           /\ writer' = writer \/ {writer, writer'} \subseteq {p, Null}
           /\ opener'[p].phase = "ended" /\ opener'[p].mode = "delete"
           /\ "close" \notin faulted'[p] => p \notin readers' /\ writer' # p
  <1>0. StartupTypeOK
    BY DEF IInv
  <1>1. CASE Releases(p) /\ Refuse(p, r) /\ Hits(p, fs)
    BY <1>0, <1>1, RefuseEffect, HitsEffect, NullIsNoOpener DEF Releases
  <1>2. CASE ReleaseFails(p, r) /\ Hits(p, fs \cup {"close"})
    <2>1. PICK q : Refuse(p, q)
      BY <1>2 DEF ReleaseFails
    <2>2. /\ readers' = readers \/ readers' = readers \ {p}
          /\ writer' = writer \/ (writer = p /\ writer' = Null)
      BY <1>2 DEF ReleaseFails
    <2> QED
      BY <1>0, <1>2, <2>1, <2>2, RefuseEffect, HitsEffect
  <1> QED
    BY <1>1, <1>2 DEF Fails

\* So is an attempt that ends busy.
LEMMA BusyLocal ==
    ASSUME IInv, NEW p \in Openers, opener[p].phase # "ended", Busy(p)
    PROVE  /\ \A q \in Openers \ {p} :
                 /\ opener'[q] = opener[q] /\ faulted'[q] = faulted[q]
                 /\ q \in readers' <=> q \in readers
           /\ writer' = writer \/ {writer, writer'} \subseteq {p, Null}
           /\ opener'[p].phase \in {"ended", "probe"} /\ opener'[p].mode = "delete"
           /\ "close" \notin faulted'[p] => p \notin readers' /\ writer' # p
           /\ "close" \in faulted'[p] => opener'[p].phase = "ended"
  <1>1. CASE Retries(p)
    BY <1>1, NullIsNoOpener
       DEF IInv, StartupInv, StartupTypeOK, Retries, Releases, NewOpener
  <1>2. CASE Fails(p, "STORE_BUSY", {})
    BY <1>2, FailsLocal
  <1>3. CASE ReleaseFails(p, "STORE_BUSY") /\ Hits(p, {"close"})
    <2>1. Fails(p, "STORE_BUSY", {})
      BY <1>3 DEF Fails
    <2> QED
      BY <2>1, FailsLocal
  <1> QED
    BY <1>1, <1>2, <1>3 DEF Busy

\* A step of p keeps what p's place says, and is local.
LEMMA OwnStep ==
    ASSUME IInv, NEW p \in Openers, OpenerSteps(p)
    PROVE  Local(p) /\ StartupInv(p)'
  <1>0. StartupTypeOK /\ StartupInv(p)
    BY DEF IInv
  <1> USE DEF StartupTypeOK, Local, StartupInv, Held
  <1>1. CASE FindDirectory(p)
    BY <1>1, <1>0, RefuseEffect DEF FindDirectory, Enter, database, locks, Places
  <1>2. CASE MakeDirectory(p)
    BY <1>2, <1>0 DEF MakeDirectory, Enter, database, locks, Places
  <1>3. CASE SetDirectoryMode(p)
    BY <1>3, <1>0 DEF SetDirectoryMode, Enter, database, locks, Places
  <1>4. CASE CreateFile(p)
    BY <1>4, <1>0, RefuseEffect, HitsEffect DEF CreateFile, Enter, database, locks, Places
  <1>5. CASE Probe(p)
    BY <1>5, <1>0, FailsLocal, BusyLocal, RefuseEffect
       DEF Probe, database, locks, Places
  <1>6. CASE Reserve(p)
    BY <1>6, <1>0, BusyLocal DEF Reserve, Enter, database, Places
  <1>7. CASE Reinspect(p)
    <2>1. ASSUME ReleaseFails(p, "STORE_UNAVAILABLE"), Hits(p, {"close"})
          PROVE  Fails(p, "STORE_UNAVAILABLE", {})
      BY <2>1 DEF Fails
    <2> QED
      BY <1>7, <2>1, <1>0, FailsLocal DEF Reinspect, Enter, database, Places, Journals
  <1>8. CASE Convert(p)
    BY <1>8, <1>0, BusyLocal, NullIsNoOpener DEF Convert, Enter, Places
  <1>9. CASE Begin(p)
    BY <1>9, <1>0, BusyLocal DEF Begin, Enter, database, Places
  <1>10. CASE Bootstrap(p)
    BY <1>10, <1>0, FailsLocal, NullIsNoOpener
       DEF Bootstrap, NewOpener, Places, FaultKinds
  <1>11. CASE OperationFails(p)
    BY <1>11, <1>0, FailsLocal, RefuseEffect, HitsEffect
       DEF OperationFails, database, locks, Places, PathPhases
  <1>12. CASE BeginsWrite(p)
    BY <1>12, <1>0 DEF BeginsWrite, Enter, database, Places
  <1>13. CASE EndsWrite(p)
    BY <1>13, <1>0, NullIsNoOpener DEF EndsWrite, Enter, database, Places
  <1>14. CASE Leaves(p)
    BY <1>14, <1>0, NullIsNoOpener
       DEF Leaves, Releases, Refuse, NewOpener, database, Places
  <1> QED
    BY <1>1, <1>2, <1>3, <1>4, <1>5, <1>6, <1>7, <1>8, <1>9, <1>10, <1>11, <1>12,
       <1>13, <1>14 DEF OpenerSteps

\* A local step of p keeps what q's place says: p has no lock that q needs.
LEMMA OthersStep ==
    ASSUME IInv, NEW p \in Openers, Local(p), NEW q \in Openers, q # p
    PROVE  StartupInv(q)'
  BY NullIsNoOpener DEF IInv, StartupTypeOK, StartupInv, Local, Held, Recognised

\* A newer pi-watch writes only while nobody holds the write lock.
LEMMA UpgradeStep ==
    ASSUME IInv, Upgrade PROVE IInv'
  <1>1. StartupTypeOK'
    BY DEF IInv, StartupTypeOK, Upgrade, locks, Contents, Journals
  <1>2. ASSUME NEW q \in Openers PROVE StartupInv(q)'
    BY NullIsNoOpener DEF IInv, StartupInv, Upgrade, locks, Held
  <1> QED
    BY <1>1, <1>2 DEF IInv

\* The invariant is inductive.
LEMMA StartupStep == IInv /\ [Next]_vars => IInv'
  <1> SUFFICES ASSUME IInv, [Next]_vars PROVE IInv'
    OBVIOUS
  <1>1. ASSUME NEW p \in Openers, OpenerSteps(p) PROVE IInv'
    <2>1. StartupTypeOK'
      BY <1>1, TypeStep DEF IInv
    <2>2. Local(p) /\ StartupInv(p)'
      BY <1>1, OwnStep
    <2>3. ASSUME NEW q \in Openers PROVE StartupInv(q)'
      BY <2>2, OthersStep
    <2> QED
      BY <2>1, <2>3 DEF IInv
  <1>2. CASE Upgrade
    BY <1>2, UpgradeStep
  <1>3. CASE UNCHANGED vars
    BY <1>3 DEF IInv, StartupTypeOK, StartupInv, vars
  <1> QED
    BY <1>1, <1>2, <1>3 DEF Next, Opens, Prepares, Attempts, OpenerSteps

\* What every state of createJobStore keeps.
LEMMA StartupAlways == Spec => []IInv
  BY StartupInit, StartupStep, PTL DEF Spec

\* The types of the startup, in every state.
THEOREM StartupTypeOKAlways == Spec => []StartupTypeOK
  <1>1. IInv => StartupTypeOK
    BY DEF IInv
  <1> QED
    BY <1>1, StartupAlways, PTL

\* An opener that has given up holds no lock, unless its handle failed to close.
THEOREM NothingLeftBehindAlways == Spec => []NothingLeftBehind
  <1>1. IInv => NothingLeftBehind
    BY DEF IInv, StartupInv, NothingLeftBehind, Held, PathPhases
  <1> QED
    BY <1>1, StartupAlways, PTL

\* What justifies each refusal, one by one.
LEMMA Justifications ==
    ASSUME NEW p \in Openers
    PROVE  /\ Justified(p, "SCHEMA_TOO_NEW") <=> content = "newer"
           /\ Justified(p, "STORE_CORRUPT") <=> content = "foreign"
           /\ Justified(p, "STORE_BUSY") <=> OthersHoldLocks(p)
           /\ Justified(p, "PATH_UNSAFE") <=> UnsafeOnDisk \/ "io" \in faulted'[p]
           /\ Justified(p, "committed") <=> content' = "current"
           /\ Justified(p, "unknown") <=> faulted'[p] # {}
           /\ Justified(p, "STORE_UNAVAILABLE") <=> faulted'[p] # {}
  BY DEF Justified

\* What a failed step reports.
LEMMA FailsOutcome ==
    ASSUME IInv, NEW p \in Openers, NEW r, NEW fs, Fails(p, r, fs)
    PROVE  /\ fs \subseteq faulted'[p]
           /\ \/ opener'[p].outcome = r
              \/ opener'[p].outcome = "STORE_UNAVAILABLE" /\ "close" \in faulted'[p]
  <1>1. StartupTypeOK
    BY DEF IInv
  <1>2. ASSUME NEW q, Refuse(p, q) PROVE opener'[p].outcome = q
    BY <1>1, <1>2 DEF StartupTypeOK, Refuse, NewOpener
  <1> QED
    BY <1>1, <1>2, HitsEffect DEF Fails, ReleaseFails

\* What a busy attempt reports, if it is the last one.
LEMMA BusyOutcome ==
    ASSUME IInv, NEW p \in Openers, opener[p].phase # "ended", Busy(p)
    PROVE  \/ opener'[p].outcome = Null
           \/ opener'[p].outcome = "STORE_BUSY"
           \/ opener'[p].outcome = "STORE_UNAVAILABLE" /\ "close" \in faulted'[p]
  <1>1. CASE Retries(p)
    BY <1>1 DEF IInv, StartupTypeOK, Retries, NewOpener
  <1>2. CASE Fails(p, "STORE_BUSY", {})
    BY <1>2, FailsOutcome
  <1>3. CASE ReleaseFails(p, "STORE_BUSY") /\ Hits(p, {"close"})
    <2>1. Fails(p, "STORE_BUSY", {})
      BY <1>3 DEF Fails
    <2> QED
      BY <2>1, FailsOutcome
  <1> QED
    BY <1>1, <1>2, <1>3 DEF Busy

\* A step that does not end its opener refuses nothing.
LEMMA EnterOutcome ==
    ASSUME IInv, NEW p \in Openers, NEW phase, Enter(p, phase)
    PROVE  opener'[p].outcome = opener[p].outcome
  BY DEF IInv, StartupTypeOK, Enter, Places

\* What a refusal reports.
LEMMA RefuseOutcome ==
    ASSUME IInv, NEW p \in Openers, NEW r, Refuse(p, r)
    PROVE  opener'[p].outcome = r
  BY DEF IInv, StartupTypeOK, Refuse, NewOpener

\* A database that is not recognised is refused for what it is.
LEMMA RefusedJustified ==
    ASSUME IInv, NEW p \in Openers, content \notin Recognised, Fails(p, Refused, {})
    PROVE  HonestlyRefused(p)
  BY FailsOutcome, Justifications
     DEF IInv, StartupTypeOK, Contents, Recognised, Refused, HonestlyRefused

\* A step of p refuses p honestly.
LEMMA HonestOwnStep ==
    ASSUME IInv, NEW p \in Openers, OpenerSteps(p)
    PROVE  HonestlyRefused(p)
  <1>0. StartupTypeOK /\ StartupInv(p)
    BY DEF IInv
  <1>b. ASSUME Busy(p), opener[p].phase # "ended", OthersHoldLocks(p)
        PROVE  HonestlyRefused(p)
    BY <1>b, BusyOutcome, Justifications DEF HonestlyRefused
  <1>1. CASE FindDirectory(p)
    BY <1>1, <1>0, EnterOutcome, RefuseOutcome, Justifications
       DEF FindDirectory, HonestlyRefused, UnsafeOnDisk, DirectoryIsPrivate,
           StartupTypeOK, Disks, Directories
  <1>2. CASE MakeDirectory(p)
    BY <1>2, EnterOutcome DEF MakeDirectory, HonestlyRefused
  <1>3. CASE SetDirectoryMode(p)
    BY <1>3, EnterOutcome DEF SetDirectoryMode, HonestlyRefused
  <1>4. CASE CreateFile(p)
    BY <1>4, <1>0, EnterOutcome, RefuseOutcome, HitsEffect, Justifications
       DEF CreateFile, HonestlyRefused, UnsafeOnDisk
  <1>5. CASE Probe(p)
    <2>1. CASE disk.sidecars = "unsafe" /\ Refuse(p, "PATH_UNSAFE")
      BY <2>1, RefuseOutcome, Justifications DEF HonestlyRefused, UnsafeOnDisk
    <2>2. CASE content \notin Recognised /\ Fails(p, Refused, {})
      BY <2>2, RefusedJustified
    <2>3. ASSUME opener' = [opener EXCEPT ![p].phase = "reserve", ![p].mode = journal]
          PROVE  HonestlyRefused(p)
      BY <2>3, <1>0 DEF HonestlyRefused, StartupTypeOK, Places
    <2>4. ASSUME NEW q \in Openers, Converting(q), Busy(p) PROVE HonestlyRefused(p)
      <3>1. writer = q /\ q # p /\ opener[p].phase # "ended"
        BY <1>5, <2>4 DEF Probe, Converting, IInv, StartupInv, Held
      <3> QED
        BY <2>4, <3>1, <1>b, NullIsNoOpener DEF OthersHoldLocks
    <2> QED
      BY <1>5, <2>1, <2>2, <2>3, <2>4 DEF Probe
  <1>6. CASE Reserve(p)
    <2>1. ASSUME writer # Null, Busy(p) PROVE HonestlyRefused(p)
      <3>1. writer # p /\ opener[p].phase # "ended"
        BY <1>6, <1>0 DEF Reserve, StartupInv, Held
      <3> QED
        BY <2>1, <3>1, <1>b DEF OthersHoldLocks
    <2> QED
      BY <1>6, <2>1, EnterOutcome DEF Reserve, HonestlyRefused
  <1>7. CASE Reinspect(p)
    <2>1. ASSUME ReleaseFails(p, "STORE_UNAVAILABLE"), Hits(p, {"close"})
          PROVE  HonestlyRefused(p)
      <3>1. Fails(p, "STORE_UNAVAILABLE", {})
        BY <2>1 DEF Fails
      <3> QED
        BY <2>1, <3>1, <1>0, FailsOutcome, HitsEffect, Justifications
           DEF HonestlyRefused
    <2> QED
      BY <1>7, <2>1, RefusedJustified, EnterOutcome DEF Reinspect, HonestlyRefused
  <1>8. CASE Convert(p)
    <2>1. ASSUME readers # {}, Busy(p) PROVE HonestlyRefused(p)
      <3>1. p \notin readers /\ Null \notin readers /\ opener[p].phase # "ended"
        BY <1>8, <1>0, NullIsNoOpener DEF Convert, StartupInv, StartupTypeOK
      <3> QED
        BY <2>1, <3>1, <1>b DEF OthersHoldLocks
    <2> QED
      BY <1>8, <2>1, EnterOutcome DEF Convert, HonestlyRefused
  <1>9. CASE Begin(p)
    <2>1. ASSUME writer # Null, Busy(p) PROVE HonestlyRefused(p)
      <3>1. writer # p /\ opener[p].phase # "ended"
        BY <1>9, <1>0 DEF Begin, StartupInv, Held
      <3> QED
        BY <2>1, <3>1, <1>b DEF OthersHoldLocks
    <2> QED
      BY <1>9, <2>1, EnterOutcome DEF Begin, HonestlyRefused
  <1>10. CASE Bootstrap(p)
    <2>1. ASSUME opener' = [opener EXCEPT ![p] = [NewOpener EXCEPT !.phase = "open"]]
          PROVE  HonestlyRefused(p)
      BY <2>1, <1>0 DEF HonestlyRefused, StartupTypeOK, NewOpener
    <2>2. ASSUME Fails(p, "unknown", {"commit"}) PROVE HonestlyRefused(p)
      BY <2>2, FailsOutcome, Justifications DEF HonestlyRefused
    <2>3. ASSUME content' = "current", Fails(p, "committed", {"maintenance"})
          PROVE  HonestlyRefused(p)
      BY <2>3, FailsOutcome, Justifications DEF HonestlyRefused
    <2> QED
      BY <1>10, <2>1, <2>2, <2>3, RefusedJustified DEF Bootstrap
  <1>11. CASE OperationFails(p)
    BY <1>11, <1>0, FailsOutcome, RefuseOutcome, HitsEffect, Justifications
       DEF OperationFails, HonestlyRefused
  <1>12. CASE BeginsWrite(p)
    BY <1>12, EnterOutcome DEF BeginsWrite, HonestlyRefused
  <1>13. CASE EndsWrite(p)
    BY <1>13, EnterOutcome DEF EndsWrite, HonestlyRefused
  <1>14. CASE Leaves(p)
    BY <1>14, RefuseOutcome DEF Leaves, HonestlyRefused
  <1> QED
    BY <1>1, <1>2, <1>3, <1>4, <1>5, <1>6, <1>7, <1>8, <1>9, <1>10, <1>11, <1>12,
       <1>13, <1>14 DEF OpenerSteps

\* Every step refuses honestly: the others' refusals stay what they were.
LEMMA HonestStep == IInv /\ [Next]_vars => \A p \in Openers : HonestlyRefused(p)
  <1> SUFFICES ASSUME IInv, [Next]_vars, NEW p \in Openers PROVE HonestlyRefused(p)
    OBVIOUS
  <1>1. ASSUME NEW q \in Openers, OpenerSteps(q) PROVE HonestlyRefused(p)
    BY <1>1, HonestOwnStep, OwnStep DEF Local, HonestlyRefused
  <1>2. CASE Upgrade \/ UNCHANGED vars
    BY <1>2 DEF Upgrade, vars, HonestlyRefused
  <1> QED
    BY <1>1, <1>2 DEF Next, Opens, Prepares, Attempts, OpenerSteps

\* Nobody is turned away for something that is not so.
THEOREM RefusalsAreAlwaysHonest == Spec => RefusalsAreHonest
  BY StartupAlways, HonestStep, PTL DEF Spec, RefusalsAreHonest

\* The initial states open no store.
LEMMA OpeningInit == Init => Opening!Init
  BY DEF Init, Opening!Init, Opened, NewOpener, StorePhases, Contents, Journals,
         Opening!Contents, Opening!Journals

\* A step that neither hands a store out nor takes one back.
LEMMA SameOpened ==
    ASSUME NEW p \in Openers, Local(p),
           opener[p].phase \notin StorePhases, opener'[p].phase \notin StorePhases
    PROVE  Opened' = Opened
  BY DEF Local, Opened

\* A step that moves its opener on to another phase.
LEMMA EnterPhase ==
    ASSUME IInv, NEW p \in Openers, NEW phase, Enter(p, phase)
    PROVE  opener'[p].phase = phase
  BY DEF IInv, StartupTypeOK, Enter, Places

\* Only conversions, bootstraps and departures are seen by the abstract store.
LEMMA OpeningOwnStep ==
    ASSUME IInv, NEW p \in Openers, OpenerSteps(p)
    PROVE  Opening!Next \/ UNCHANGED Opening!vars
  <1>0. StartupTypeOK /\ StartupInv(p) /\ Local(p)
    BY OwnStep DEF IInv
  <1>s. ASSUME UNCHANGED database, opener[p].phase \notin StorePhases,
               opener'[p].phase \notin StorePhases
        PROVE  UNCHANGED Opening!vars
    BY <1>s, <1>0, SameOpened DEF Opening!vars, database
  <1>f. ASSUME NEW r, NEW fs, Fails(p, r, fs) PROVE opener'[p].phase \notin StorePhases
    BY <1>f, FailsLocal DEF StorePhases
  <1>b. ASSUME Busy(p), opener[p].phase # "ended"
        PROVE  opener'[p].phase \notin StorePhases
    BY <1>b, BusyLocal DEF StorePhases
  <1>r. ASSUME NEW r, Refuse(p, r) PROVE opener'[p].phase \notin StorePhases
    BY <1>r, <1>0, RefuseEffect DEF StorePhases
  <1>1. CASE FindDirectory(p)
    BY <1>1, <1>s, <1>r, EnterPhase DEF FindDirectory, StorePhases
  <1>2. CASE MakeDirectory(p)
    BY <1>2, <1>s, EnterPhase DEF MakeDirectory, StorePhases
  <1>3. CASE SetDirectoryMode(p)
    BY <1>3, <1>s, EnterPhase DEF SetDirectoryMode, StorePhases
  <1>4. CASE CreateFile(p)
    BY <1>4, <1>s, <1>r, EnterPhase DEF CreateFile, StorePhases
  <1>5. CASE Probe(p)
    <2>1. ASSUME opener' = [opener EXCEPT ![p].phase = "reserve", ![p].mode = journal]
          PROVE  opener'[p].phase \notin StorePhases
      BY <2>1, <1>0 DEF StartupTypeOK, Places, StorePhases
    <2> QED
      BY <1>5, <2>1, <1>s, <1>f, <1>b, <1>r DEF Probe, StorePhases
  <1>6. CASE Reserve(p)
    BY <1>6, <1>s, <1>b, EnterPhase DEF Reserve, StorePhases
  <1>7. CASE Reinspect(p)
    <2>1. ASSUME ReleaseFails(p, "STORE_UNAVAILABLE"), Hits(p, {"close"})
          PROVE  Fails(p, "STORE_UNAVAILABLE", {})
      BY <2>1 DEF Fails
    <2> QED
      BY <1>7, <2>1, <1>s, <1>f, EnterPhase DEF Reinspect, StorePhases
  <1>8. CASE Convert(p)
    <2>1. CASE journal' = "wal" /\ Enter(p, "begin")
      <3>1. opener'[p].phase = "begin" /\ opener[p].phase = "convert"
        BY <1>8, <2>1, EnterPhase DEF Convert
      <3>2. Opened' = Opened
        BY <1>0, <3>1, SameOpened DEF StorePhases
      <3>3. content \in Recognised
        BY <1>0, <3>1 DEF StartupInv
      <3> QED
        BY <1>8, <2>1, <3>2, <3>3
           DEF Convert, Opening!Next, Opening!Convert, Recognised, Opening!Recognised
    <2>2. CASE UNCHANGED journal /\ Busy(p)
      BY <1>8, <2>2, <1>s, <1>b DEF Convert, database, StorePhases
    <2> QED
      BY <1>8, <2>1, <2>2 DEF Convert
  <1>9. CASE Begin(p)
    BY <1>9, <1>s, <1>b, EnterPhase DEF Begin, StorePhases
  <1>10. CASE Bootstrap(p)
    <2>1. journal = "wal" /\ opener[p].phase = "bootstrap" /\ journal' = journal
      BY <1>10, <1>0 DEF Bootstrap, StartupInv
    <2>2. CASE UNCHANGED content /\ Fails(p, Refused, {})
      BY <2>1, <2>2, <1>s, <1>f DEF database, StorePhases
    <2>3. CASE /\ content \in Recognised /\ content' = "current"
               /\ opener' = [opener EXCEPT ![p] = [NewOpener EXCEPT !.phase = "open"]]
      <3>1. opener'[p].phase \in StorePhases
        BY <2>3, <1>0 DEF StartupTypeOK, NewOpener, StorePhases
      <3>2. Opened' = Opened \cup {p}
        BY <3>1, <1>0 DEF Opened, Local
      <3> QED
        BY <2>1, <2>3, <3>2
           DEF Opening!Next, Opening!HandOut, Recognised, Opening!Recognised
    <2>4. ASSUME content \in Recognised, content' \in {content, "current"},
                 NEW r, NEW fs, Fails(p, r, fs)
          PROVE  Opening!Next \/ UNCHANGED Opening!vars
      <3>1. Opened' = Opened
        BY <1>0, <1>f, <2>1, <2>4, SameOpened DEF StorePhases
      <3> QED
        BY <2>1, <2>4, <3>1
           DEF Opening!Next, Opening!Create, Opening!vars, Recognised,
               Opening!Recognised
    <2> QED
      BY <1>10, <2>2, <2>3, <2>4 DEF Bootstrap
  <1>11. CASE OperationFails(p)
    <2>1. opener[p].phase \in PathPhases \cup AttemptPhases
      BY <1>11 DEF OperationFails, AttemptPhases
    <2>2. opener[p].phase \notin StorePhases
      BY <2>1 DEF PathPhases, AttemptPhases, StorePhases
    <2> QED
      BY <1>11, <2>2, <1>s, <1>f, <1>r DEF OperationFails
  <1>12. ASSUME UNCHANGED database, opener[p].phase \in StorePhases,
                opener'[p].phase \in StorePhases
         PROVE  UNCHANGED Opening!vars
    <2>1. Opened' = Opened
      BY <1>12, <1>0 DEF Opened, Local
    <2> QED
      BY <1>12, <2>1 DEF Opening!vars, database
  <1>13. CASE BeginsWrite(p) \/ EndsWrite(p)
    BY <1>13, <1>12, EnterPhase DEF BeginsWrite, EndsWrite, StorePhases
  <1>14. CASE Leaves(p)
    <2>1. Opened' = Opened \ {p}
      BY <1>14, <1>0, <1>r DEF Leaves, Opened, Local
    <2> QED
      BY <1>14, <2>1 DEF Leaves, database, Opening!Next, Opening!Leave
  <1> QED
    BY <1>1, <1>2, <1>3, <1>4, <1>5, <1>6, <1>7, <1>8, <1>9, <1>10, <1>11, <1>13,
       <1>14 DEF OpenerSteps

\* Every step of createJobStore is one of the abstract store, or a stutter.
LEMMA OpeningStep == IInv /\ [Next]_vars => [Opening!Next]_Opening!vars
  <1> SUFFICES ASSUME IInv, [Next]_vars PROVE Opening!Next \/ UNCHANGED Opening!vars
    OBVIOUS
  <1>1. ASSUME NEW p \in Openers, OpenerSteps(p)
        PROVE  Opening!Next \/ UNCHANGED Opening!vars
    BY <1>1, OpeningOwnStep
  <1>2. CASE Upgrade
    BY <1>2 DEF Upgrade, Opening!Next, Opening!Upgrade, Opened, Recognised,
                Opening!Recognised
  <1>3. CASE UNCHANGED vars
    BY <1>3 DEF vars, Opening!vars, Opened
  <1> QED
    BY <1>1, <1>2, <1>3 DEF Next, Opens, Prepares, Attempts, OpenerSteps

\* Only recognised databases are converted or given a schema, and only a current
\* one in WAL mode is handed out.
THEOREM StartupImplementsStoreOpening == Spec => ImplementsStoreOpening
  BY OpeningInit, StartupAlways, OpeningStep, PTL
     DEF Spec, ImplementsStoreOpening, Opening!Spec

-----------------------------------------------------------------------------
(***************************************************************************)
(* The client: what it tells its callers is true, whatever becomes of the  *)
(* worker.                                                                 *)
(***************************************************************************)

(* Sequences as sets of elements *)

Elements(s) == {s[k] : k \in DOMAIN s}

Distinct(s) == \A k, l \in DOMAIN s : s[k] = s[l] => k = l

\* Appending adds one element, and keeps the elements distinct if it is new.
LEMMA AppendElements ==
    ASSUME NEW S, NEW s \in Seq(S), NEW x \in S
    PROVE  /\ Append(s, x) \in Seq(S)
           /\ Elements(Append(s, x)) = Elements(s) \cup {x}
           /\ Distinct(s) /\ x \notin Elements(s) => Distinct(Append(s, x))
  <1>1. /\ Append(s, x) \in Seq(S) /\ Len(Append(s, x)) = Len(s) + 1
        /\ \A i \in 1 .. Len(s) : Append(s, x)[i] = s[i]
        /\ Append(s, x)[Len(s) + 1] = x
    BY AppendProperties
  <1>2. /\ DOMAIN s = 1 .. Len(s) /\ Len(s) \in Nat
        /\ DOMAIN Append(s, x) = 1 .. Len(s) + 1
    BY <1>1, LenProperties
  <1> QED
    BY <1>1, <1>2 DEF Elements, Distinct

\* The head is an element, and the tail has no other elements than the sequence;
\* of distinct elements it has all but the head.
LEMMA TailElements ==
    ASSUME NEW S, NEW s \in Seq(S), s # << >>
    PROVE  /\ Head(s) \in S /\ Tail(s) \in Seq(S)
           /\ Head(s) \in Elements(s) /\ Elements(Tail(s)) \subseteq Elements(s)
           /\ Distinct(s) => Distinct(Tail(s)) /\ Head(s) \notin Elements(Tail(s))
  <1>1. /\ Head(s) \in S /\ Tail(s) \in Seq(S) /\ Len(Tail(s)) = Len(s) - 1
        /\ \A i \in 1 .. Len(Tail(s)) : Tail(s)[i] = s[i + 1]
    BY HeadTailProperties
  <1>2. /\ DOMAIN s = 1 .. Len(s) /\ Len(s) \in Nat \ {0}
        /\ DOMAIN Tail(s) = 1 .. Len(s) - 1
    BY <1>1, LenProperties, EmptySeq
  <1>3. Head(s) = s[1]
    OBVIOUS
  <1> QED
    BY <1>1, <1>2, <1>3 DEF Elements, Distinct

\* Events posted one after the other are the events posted.
LEMMA ConcatElements ==
    ASSUME NEW S, NEW s \in Seq(S), NEW x \in S, NEW y \in S
    PROVE  /\ s \o <<x, y>> \in Seq(S)
           /\ Elements(s \o <<x, y>>) \subseteq Elements(s) \cup {x, y}
  <1>1. <<x, y>> \in Seq(S) /\ Len(<<x, y>>) = 2 /\ <<x, y>>[1] = x /\ <<x, y>>[2] = y
    OBVIOUS
  <1>2. /\ s \o <<x, y>> \in Seq(S) /\ Len(s \o <<x, y>>) = Len(s) + 2
        /\ \A i \in 1 .. Len(s) + 2 :
              (s \o <<x, y>>)[i] = IF i <= Len(s) THEN s[i] ELSE <<x, y>>[i - Len(s)]
    BY <1>1, ConcatProperties
  <1>3. /\ DOMAIN s = 1 .. Len(s) /\ Len(s) \in Nat
        /\ DOMAIN (s \o <<x, y>>) = 1 .. Len(s) + 2
    BY <1>2, LenProperties
  <1>4. ASSUME NEW i \in 1 .. Len(s) + 2
        PROVE  (s \o <<x, y>>)[i] \in Elements(s) \cup {x, y}
    <2>1. CASE i <= Len(s)
      BY <1>2, <1>3, <2>1 DEF Elements
    <2>2. CASE i = Len(s) + 1
      BY <1>1, <1>2, <1>3, <2>2
    <2>3. CASE i = Len(s) + 2
      BY <1>1, <1>2, <1>3, <2>3
    <2> QED
      BY <1>3, <2>1, <2>2, <2>3
  <1> QED
    BY <1>2, <1>3, <1>4 DEF Elements

-----------------------------------------------------------------------------
(* Type correctness *)

CallRow == [op : Ops, outcome : Outcomes \cup {"none"}]

\* What the types say of the sequences.
LEMMA TypedSequences ==
    ASSUME StoreClientTypeOK
    PROVE  /\ calls \in Seq(CallRow) /\ Len(calls) \in 0 .. MaxCalls
           /\ Ids = DOMAIN calls /\ Ids \subseteq 1 .. MaxCalls
           /\ \A i \in Ids : calls[i] \in CallRow
  <1>1. calls \in Seq(CallRow) /\ Len(calls) <= MaxCalls
    BY DEF StoreClientTypeOK, CallRow
  <1>2. Len(calls) \in Nat /\ DOMAIN calls = 1 .. Len(calls)
    BY <1>1, LenProperties
  <1> QED
    BY <1>1, <1>2, CallsAreBounded DEF Ids

\* Calls whose outcomes change, and nothing else, are still typed.
LEMMA OutcomesType ==
    ASSUME StoreClientTypeOK, calls' \in [Ids -> CallRow]
    PROVE  calls' \in Seq(CallRow) /\ Len(calls') = Len(calls) /\ Ids' = Ids
  <1>1. Len(calls) \in Nat /\ Ids = 1 .. Len(calls)
    BY TypedSequences DEF Ids
  <1>2. calls' \in Seq(CallRow)
    BY <1>1, SeqDef
  <1>3. DOMAIN calls' = 1 .. Len(calls') /\ DOMAIN calls' = 1 .. Len(calls) /\ Len(calls') \in Nat
    BY <1>1, <1>2, LenProperties
  <1>4. Len(calls') = Len(calls)
    BY <1>1, <1>3
  <1> QED
    BY <1>2, <1>4 DEF Ids

\* Failing every pending call tells nobody that a reservation or a decision did not
\* take effect.
LEMMA FailAllCalls ==
    ASSUME StoreClientTypeOK, FailAll
    PROVE  /\ calls' \in [Ids -> CallRow]
           /\ \A i \in Ids :
                 \/ calls'[i] = calls[i]
                 \/ /\ calls[i].outcome = "none"
                    /\ \E outcome \in {"unknown", "unavailable"} :
                          /\ calls'[i] = [calls[i] EXCEPT !.outcome = outcome]
                          /\ ~ProofOfAbsence(calls[i].op, outcome)
  <1>1. \A i \in Ids : calls[i] \in CallRow
    BY TypedSequences
  <1>2. ASSUME NEW i \in Ids
        PROVE  /\ calls'[i] \in CallRow
               /\ \/ calls'[i] = calls[i]
                  \/ /\ calls[i].outcome = "none"
                     /\ \E outcome \in {"unknown", "unavailable"} :
                           /\ calls'[i] = [calls[i] EXCEPT !.outcome = outcome]
                           /\ ~ProofOfAbsence(calls[i].op, outcome)
    <2>1. CASE i \notin Pending
      BY <1>1, <2>1 DEF FailAll
    <2>2. CASE i \in Pending /\ calls[i].op \in {"reserve", "decide"}
      <3>1. calls'[i] = [calls[i] EXCEPT !.outcome = "unknown"]
        BY <2>2 DEF FailAll
      <3> QED
        BY <1>1, <2>2, <3>1 DEF Pending, ProofOfAbsence, CallRow, Outcomes
    <2>3. CASE i \in Pending /\ calls[i].op \notin {"reserve", "decide"}
      <3>1. calls'[i] = [calls[i] EXCEPT !.outcome = "unavailable"]
        BY <2>3 DEF FailAll
      <3> QED
        BY <1>1, <2>3, <3>1 DEF Pending, ProofOfAbsence, CallRow, Outcomes
    <2> QED
      BY <2>1, <2>2, <2>3
  <1>3. calls' = [i \in Ids |-> calls'[i]]
    BY DEF FailAll
  <1> QED
    BY <1>2, <1>3

\* To fail all calls is an answer that the promise allows, and leaves the calls that
\* are not failed as they were.
LEMMA FailAllTold ==
    ASSUME StoreClientTypeOK, FailAll
    PROVE  /\ Ids' = Ids
           /\ \A i \in Ids : calls'[i].op = calls[i].op
           /\ \A i \in Ids :
                 calls'[i] = calls[i] \/ ~ProofOfAbsence(calls'[i].op, calls'[i].outcome)
           /\ UNCHANGED durable => AnswerSome
  <1>1. /\ calls' \in [Ids -> CallRow] /\ Ids' = Ids /\ DOMAIN calls = Ids
        /\ \A i \in Ids : calls[i] \in CallRow
    BY FailAllCalls, OutcomesType, TypedSequences
  <1>2. ASSUME NEW i \in Ids
        PROVE  /\ calls'[i].op = calls[i].op
               /\ \/ calls'[i] = calls[i]
                  \/ /\ calls[i].outcome = "none"
                     /\ ~ProofOfAbsence(calls'[i].op, calls'[i].outcome)
                     /\ \E outcome \in Outcomes :
                           /\ calls'[i] = [calls[i] EXCEPT !.outcome = outcome]
                           /\ ~ProofOfAbsence(calls[i].op, outcome)
                           /\ ~ProofOfEffect(calls[i].op, outcome)
    <2>1. CASE calls'[i] = calls[i]
      BY <2>1
    <2>2. ASSUME NEW outcome \in {"unknown", "unavailable"},
                 calls[i].outcome = "none",
                 calls'[i] = [calls[i] EXCEPT !.outcome = outcome],
                 ~ProofOfAbsence(calls[i].op, outcome)
          PROVE  /\ calls'[i].op = calls[i].op /\ calls'[i].outcome = outcome
                 /\ outcome \in Outcomes /\ ~ProofOfEffect(calls[i].op, outcome)
      BY <1>1, <2>2 DEF CallRow, Outcomes, ProofOfEffect
    <2> QED
      BY <2>1, <2>2, FailAllCalls
  <1>3. UNCHANGED durable => AnswerSome
    BY <1>1, <1>2 DEF AnswerSome
  <1> QED
    BY <1>1, <1>2, <1>3

\* The answer to one pending call changes its outcome.
LEMMA AnswerCalls ==
    ASSUME StoreClientTypeOK, NEW event \in Events, AnswerArrives(event)
    PROVE  /\ calls' \in [Ids -> CallRow]
           /\ event.id \in Ids /\ calls[event.id].outcome = "none"
           /\ event.kind \in AnswerKinds
           /\ calls'[event.id] = [calls[event.id] EXCEPT !.outcome = event.kind]
           /\ \A i \in Ids \ {event.id} : calls'[i] = calls[i]
  <1>1. event.id \in Ids /\ calls[event.id].outcome = "none"
    BY DEF AnswerArrives, Pending
  <1>2. event.kind \in AnswerKinds
    BY <1>1 DEF Events, Ids
  <1>3. calls \in [Ids -> CallRow]
    BY TypedSequences, LenProperties DEF Ids
  <1>4. calls' = [calls EXCEPT ![event.id].outcome = event.kind]
    BY DEF AnswerArrives
  <1>5. [calls[event.id] EXCEPT !.outcome = event.kind] \in CallRow
    BY <1>1, <1>2, <1>3 DEF CallRow, AnswerKinds, Outcomes
  <1> QED
    BY <1>1, <1>2, <1>3, <1>4, <1>5

\* A new call comes after the others.
LEMMA RequestCalls ==
    ASSUME StoreClientTypeOK, NEW op \in Ops, Request(op)
    PROVE  \E outcome \in {"none", "failed", "unavailable"} :
              /\ calls' = Append(calls, [op |-> op, outcome |-> outcome])
              /\ calls' \in Seq(CallRow) /\ Len(calls') = Len(calls) + 1
              /\ Len(calls') \in 1 .. MaxCalls
              /\ \A i \in Ids : calls'[i] = calls[i]
              /\ calls'[Len(calls) + 1] = [op |-> op, outcome |-> outcome]
              /\ \/ UNCHANGED toWorker
                 \/ outcome = "none" /\ toWorker' = Append(toWorker, Len(calls) + 1)
  <1>1. PICK outcome \in {"none", "failed", "unavailable"} :
             /\ calls' = Append(calls, [op |-> op, outcome |-> outcome])
             /\ \/ UNCHANGED toWorker
                \/ outcome = "none" /\ toWorker' = Append(toWorker, Len(calls) + 1)
    BY DEF Request
  <1>2. [op |-> op, outcome |-> outcome] \in CallRow
    BY DEF CallRow, Outcomes
  <1>3. Len(calls) \in 0 .. MaxCalls /\ Len(calls) < MaxCalls /\ calls \in Seq(CallRow)
    BY TypedSequences DEF Request
  <1> QED
    BY <1>1, <1>2, <1>3, AppendProperties, CallsAreBounded DEF Ids

\* Each step of the client, of its worker and of its callers keeps the types, as
\* long as the worker is sent nothing but calls.
LEMMA ClientTypeStep ==
    ASSUME StoreClientTypeOK, Elements(toWorker) \subseteq Ids,
           [StoreClientNext]_storeClientVars
    PROVE  StoreClientTypeOK'
  <1> USE DEF clientVars, threadVars
  <1>0. /\ toClient \in Seq(Events) /\ toWorker \in Seq(1 .. MaxCalls)
        /\ \A kind \in Notices : Event(kind) \in Events
    BY DEF StoreClientTypeOK, Event, Events
  <1>1. CASE WorkerStarts
    <2>1. toClient' \in Seq(Events)
      <3>1. PICK kind \in Notices : toClient' = Append(toClient, Event(kind))
        BY <1>1 DEF WorkerStarts, Notices
      <3> QED
        BY <1>0, <3>1, AppendProperties
    <2> QED
      BY <1>1, <2>1 DEF WorkerStarts, StoreClientTypeOK, WorkerStates, Ids
  <1>2. CASE WorkerHandles
    <2>1. /\ Head(toWorker) \in 1 .. MaxCalls /\ Tail(toWorker) \in Seq(1 .. MaxCalls)
          /\ Head(toWorker) \in Elements(toWorker)
      BY <1>0, <1>2, TailElements DEF WorkerHandles
    <2>2. serving' \in Events
      BY <1>2, <2>1 DEF WorkerHandles, Events
    <2> QED
      BY <1>2, <2>1, <2>2 DEF WorkerHandles, StoreClientTypeOK, Ids
  <1>3. CASE WorkerAnswers
    <2>1. serving \in Events
      BY <1>3 DEF WorkerAnswers, StoreClientTypeOK
    <2> QED
      BY <1>0, <1>3, <2>1, AppendProperties DEF WorkerAnswers, StoreClientTypeOK, Ids
  <1>4. CASE WorkerEnds
    <2>1. <<Event("error"), Event("exit")>> \in Seq(Events)
      BY <1>0 DEF Notices
    <2>2. toClient' \in Seq(Events)
      <3>1. CASE toClient' = Append(toClient, Event("exit"))
        BY <1>0, <3>1, AppendProperties DEF Notices
      <3>2. CASE toClient' = toClient \o <<Event("error"), Event("exit")>>
        BY <1>0, <2>1, <3>2, ConcatProperties
      <3> QED
        BY <1>4, <3>1, <3>2 DEF WorkerEnds
    <2> QED
      BY <1>4, <2>2 DEF WorkerEnds, StoreClientTypeOK, WorkerStates, Ids
  <1>5. CASE StartupTimesOut \/ TerminationConfirmed \/ TerminationUnconfirmed \/ LayoutPrepared
    BY <1>5 DEF StartupTimesOut, TerminationConfirmed, TerminationUnconfirmed,
                LayoutPrepared, FailStartup, StoreClientTypeOK, StartupStates, Ids
  <1>6. CASE ClientHandles
    <2> DEFINE event == Head(toClient)
    <2>1. event \in Events /\ toClient' \in Seq(Events)
      BY <1>0, <1>6, HeadTailProperties DEF ClientHandles
    <2>2. calls' \in Seq(CallRow) /\ Len(calls') = Len(calls) /\ Ids' = Ids
      <3>1. CASE StartupEvent(event) \/ EventIgnored(event)
        BY <3>1, TypedSequences DEF StartupEvent, EventIgnored, Ids
      <3>2. CASE WorkerLost(event)
        BY <3>2, FailAllCalls, OutcomesType DEF WorkerLost
      <3>3. CASE AnswerArrives(event)
        BY <2>1, <3>3, AnswerCalls, OutcomesType
      <3> QED
        BY <1>6, <3>1, <3>2, <3>3 DEF ClientHandles
    <2>3. /\ startup' \in StartupStates /\ workerFailed' \in BOOLEAN
          /\ terminating' \in BOOLEAN
      BY <1>6 DEF ClientHandles, StartupEvent, WorkerLost, AnswerArrives,
                  EventIgnored, FailStartup, FailAll, StoreClientTypeOK, StartupStates
    <2> QED
      BY <1>6, <2>1, <2>2, <2>3, CallsAreBounded
         DEF ClientHandles, StoreClientTypeOK, CallRow
  <1>7. ASSUME NEW op \in Ops, Request(op) PROVE StoreClientTypeOK'
    <2>1. /\ calls' \in Seq(CallRow) /\ Len(calls') \in 1 .. MaxCalls
          /\ Len(calls') = Len(calls) + 1
          /\ toWorker' = toWorker \/ toWorker' = Append(toWorker, Len(calls) + 1)
      BY <1>7, RequestCalls
    <2>2. toWorker' \in Seq(1 .. MaxCalls)
      <3>1. Len(calls) + 1 \in 1 .. MaxCalls
        BY <2>1
      <3>2. Append(toWorker, Len(calls) + 1) \in Seq(1 .. MaxCalls)
        BY <1>0, <3>1, AppendProperties
      <3> QED
        BY <1>0, <2>1, <3>2
    <2>3. Ids \subseteq Ids'
      BY <2>1, TypedSequences, CallsAreBounded DEF Ids
    <2> QED
      BY <1>7, <2>1, <2>2, <2>3, CallsAreBounded DEF Request, StoreClientTypeOK, CallRow
  <1>8. CASE Close
    <2>1. calls' \in Seq(CallRow) /\ Len(calls') = Len(calls) /\ Ids' = Ids
      BY <1>8, FailAllCalls, OutcomesType DEF Close
    <2> QED
      BY <1>8, <2>1 DEF Close, FailAll, StoreClientTypeOK, CallRow
  <1>9. CASE TerminateWorker
    BY <1>9 DEF TerminateWorker, StoreClientTypeOK, Ids
  <1>10. CASE UNCHANGED storeClientVars
    BY <1>10 DEF storeClientVars, StoreClientTypeOK, Ids
  <1> QED
    BY <1>1, <1>2, <1>3, <1>4, <1>5, <1>6, <1>7, <1>8, <1>9, <1>10
       DEF StoreClientNext

\* A client that has just been asked to open its store is typed.
LEMMA ClientTypeInit == StoreClientInit => StoreClientTypeOK
  <1> SUFFICES ASSUME StoreClientInit PROVE StoreClientTypeOK
    OBVIOUS
  <1>1. calls \in Seq([op : Ops, outcome : Outcomes \cup {"none"}]) /\ Len(calls) = 0
    BY EmptySeq DEF StoreClientInit, CallsInit
  <1>2. Len(calls) <= MaxCalls /\ durable \subseteq Ids
    BY <1>1, CallsAreBounded DEF StoreClientInit, CallsInit
  <1>3. /\ startup \in StartupStates /\ worker \in WorkerStates
        /\ workerFailed \in BOOLEAN /\ terminating \in BOOLEAN
    BY DEF StoreClientInit, StartupStates, WorkerStates
  <1>4. serving \in Events \cup {Nothing}
    BY DEF StoreClientInit
  <1>5. toWorker \in Seq(1..MaxCalls) /\ toClient \in Seq(Events)
    BY EmptySeq DEF StoreClientInit
  <1> QED
    BY <1>1, <1>2, <1>3, <1>4, <1>5 DEF StoreClientTypeOK

\* A startup that fails without the words `cleanup was not confirmed' has seen its
\* worker end, and a worker that has ended never comes back.
THEOREM FailedStartupIsAlwaysCleanedUp ==
    StoreClientSafety => []FailedStartupIsCleanedUp
  <1>1. StoreClientInit => FailedStartupIsCleanedUp
    BY DEF StoreClientInit, FailedStartupIsCleanedUp
  <1>2. FailedStartupIsCleanedUp /\ [StoreClientNext]_storeClientVars
            => FailedStartupIsCleanedUp'
    BY DEF FailedStartupIsCleanedUp, StoreClientNext, storeClientVars, clientVars,
           threadVars, WorkerStarts, WorkerHandles, WorkerAnswers, WorkerEnds,
           StartupTimesOut, TerminationConfirmed, TerminationUnconfirmed,
           LayoutPrepared, ClientHandles, StartupEvent, WorkerLost, AnswerArrives,
           EventIgnored, FailStartup, Request, Close, TerminateWorker
  <1> QED
    BY <1>1, <1>2, PTL DEF StoreClientSafety

-----------------------------------------------------------------------------
(* The invariant. An answer is true when it is given, so it has to be true    *)
(* from the end of its transaction on, in the worker's hands and on its way;  *)
(* and it stays true because no request is taken twice.                       *)

\* A request that the worker has not taken: nothing is durable, and the caller has
\* not been told that nothing ever will be.
Untaken(i) ==
    /\ i \in Ids /\ i \notin durable
    /\ ~ProofOfAbsence(calls[i].op, calls[i].outcome)
    /\ serving.id # i
    /\ \A event \in Elements(toClient) : event.id # i

\* An answer says no more than is so.
Truthful(event) ==
    event.id # 0 =>
        /\ event.id \in Ids
        /\ event.kind = "failed" => event.id \notin durable
        /\ ProofOfEffect(calls[event.id].op, event.kind) => event.id \in durable

AnswersInv ==
    /\ StoreClientTypeOK
    /\ Distinct(toWorker)
    /\ \A i \in Elements(toWorker) : Untaken(i)
    /\ Truthful(serving)
    /\ \A event \in Elements(toClient) : Truthful(event)

\* Before the first call there is nothing to answer.
LEMMA AnswersInit == StoreClientInit => AnswersInv
  <1> SUFFICES ASSUME StoreClientInit PROVE AnswersInv
    OBVIOUS
  <1>1. toWorker = << >> /\ toClient = << >> /\ serving.id = 0
    BY DEF StoreClientInit, Nothing
  <1>2. Elements(toWorker) = {} /\ Elements(toClient) = {} /\ Distinct(toWorker)
    BY <1>1, EmptySeq DEF Elements, Distinct
  <1> QED
    BY <1>1, <1>2, ClientTypeInit DEF AnswersInv, Truthful

\* An answer stays true when calls are made or answered.
LEMMA StillTruthful ==
    ASSUME NEW event, Truthful(event), UNCHANGED durable,
           \A i \in Ids : i \in Ids' /\ calls'[i].op = calls[i].op
    PROVE  Truthful(event)'
  BY DEF Truthful, ProofOfEffect

\* A call is still untaken when nobody takes it, answers it or rules it out.
LEMMA StillUntaken ==
    ASSUME NEW i, Untaken(i), UNCHANGED durable, i \in Ids',
           ~ProofOfAbsence(calls'[i].op, calls'[i].outcome), serving'.id # i,
           \A event \in Elements(toClient)' : event.id # i
    PROVE  Untaken(i)'
  BY DEF Untaken, ProofOfAbsence

\* Steps of the worker other than a transaction.
LEMMA WorkerKeepsAnswers ==
    ASSUME AnswersInv, UNCHANGED <<calls, durable, toWorker>>,
           serving' \in {serving, Nothing},
           \A event \in Elements(toClient)' :
              event \in Elements(toClient) \/ event = serving \/ event.id = 0
    PROVE  /\ Distinct(toWorker)'
           /\ \A i \in Elements(toWorker)' : Untaken(i)'
           /\ Truthful(serving)'
           /\ \A event \in Elements(toClient)' : Truthful(event)'
  <1>1. Ids' = Ids /\ Elements(toWorker)' = Elements(toWorker) /\ Distinct(toWorker)'
    BY DEF AnswersInv, Ids, Elements, Distinct
  <1>2. ASSUME NEW event, Truthful(event) \/ event.id = 0 PROVE Truthful(event)'
    BY <1>1, <1>2 DEF Truthful, ProofOfEffect
  <1>3. \A i \in Elements(toWorker) : i # 0
    BY DEF AnswersInv, Untaken, Ids
  <1>4. \A i \in Elements(toWorker)' : Untaken(i)'
    BY <1>1, <1>3 DEF AnswersInv, Untaken, ProofOfAbsence, Nothing
  <1>5. Truthful(serving)'
    BY <1>1 DEF AnswersInv, Truthful, ProofOfEffect, Nothing
  <1> QED
    BY <1>1, <1>2, <1>4, <1>5 DEF AnswersInv

\* The transaction of a call that was not taken before makes its answer true, and
\* leaves all other answers and calls as they are.
LEMMA TransactionKeepsAnswers ==
    ASSUME AnswersInv, WorkerHandles
    PROVE  /\ Distinct(toWorker)'
           /\ \A i \in Elements(toWorker)' : Untaken(i)'
           /\ Truthful(serving)'
           /\ \A event \in Elements(toClient)' : Truthful(event)'
  <1> DEFINE h == Head(toWorker)
  <1>1. /\ h \in Elements(toWorker)
        /\ toWorker' = Tail(toWorker)
        /\ Distinct(Tail(toWorker))
        /\ Elements(Tail(toWorker)) \subseteq Elements(toWorker) \ {h}
    BY TailElements DEF WorkerHandles, AnswersInv, StoreClientTypeOK
  <1>2. PICK kind \in AnswerKinds, committed \in BOOLEAN :
          /\ MayEnd(h, kind, committed)
          /\ serving' = [id |-> h, kind |-> kind]
          /\ durable' = IF committed THEN durable \cup {h} ELSE durable
    BY DEF WorkerHandles
  <1>3. Untaken(h) /\ UNCHANGED <<calls, toClient>>
    BY <1>1 DEF AnswersInv, WorkerHandles
  <1>4. /\ Elements(toWorker)' = Elements(Tail(toWorker)) /\ Distinct(toWorker)'
        /\ Elements(toClient)' = Elements(toClient) /\ Ids' = Ids
    BY <1>1, <1>3 DEF Elements, Distinct, Ids
  <1>5. ASSUME NEW i \in Elements(toWorker)' PROVE Untaken(i)'
    <2>1. Untaken(i) /\ i # h
      BY <1>1, <1>4 DEF AnswersInv
    <2> QED
      BY <1>2, <1>3, <1>4, <2>1 DEF Untaken, ProofOfAbsence
  <1>6. Truthful(serving)'
    <2>1. /\ kind = "failed" => ~committed
          /\ ProofOfEffect(calls[h].op, kind) => committed
      BY <1>2 DEF MayEnd, ProofOfEffect
    <2> QED
      BY <1>2, <1>3, <1>4, <2>1 DEF Truthful, Untaken, ProofOfEffect
  <1>7. ASSUME NEW event \in Elements(toClient)' PROVE Truthful(event)'
    <2>1. Truthful(event) /\ event.id # h
      BY <1>3, <1>4 DEF AnswersInv, Untaken
    <2> QED
      BY <1>2, <1>3, <1>4, <2>1 DEF Truthful, ProofOfEffect
  <1> QED
    BY <1>4, <1>5, <1>6, <1>7

\* Outcomes given to pending calls rule out no call that the worker may still take.
LEMMA OutcomesKeepAnswers ==
    ASSUME AnswersInv, UNCHANGED <<durable, serving, toWorker>>, Ids' = Ids,
           Elements(toClient)' \subseteq Elements(toClient),
           \A i \in Ids : calls'[i].op = calls[i].op,
           \A i \in Elements(toWorker) :
              \/ calls'[i] = calls[i]
              \/ ~ProofOfAbsence(calls'[i].op, calls'[i].outcome)
    PROVE  /\ Distinct(toWorker)'
           /\ \A i \in Elements(toWorker)' : Untaken(i)'
           /\ Truthful(serving)'
           /\ \A event \in Elements(toClient)' : Truthful(event)'
  <1>1. Elements(toWorker)' = Elements(toWorker) /\ Distinct(toWorker)'
    BY DEF AnswersInv, Elements, Distinct
  <1>2. ASSUME NEW i \in Elements(toWorker)' PROVE Untaken(i)'
    <2>1. Untaken(i) /\ (calls'[i] = calls[i] \/ ~ProofOfAbsence(calls'[i].op, calls'[i].outcome))
      BY <1>1 DEF AnswersInv
    <2> QED
      BY <2>1 DEF Untaken, ProofOfAbsence
  <1>3. Truthful(serving)'
    BY DEF AnswersInv, Truthful, ProofOfEffect
  <1>4. ASSUME NEW event \in Elements(toClient)' PROVE Truthful(event)'
    BY StillTruthful DEF AnswersInv
  <1> QED
    BY <1>1, <1>2, <1>3, <1>4

\* A new call has no answer yet.
LEMMA RequestKeepsAnswers ==
    ASSUME AnswersInv, NEW op \in Ops, Request(op)
    PROVE  /\ Distinct(toWorker)'
           /\ \A i \in Elements(toWorker)' : Untaken(i)'
           /\ Truthful(serving)'
           /\ \A event \in Elements(toClient)' : Truthful(event)'
  <1>0. PICK n : n = Len(calls) + 1
    OBVIOUS
  <1>1. StoreClientTypeOK
    BY DEF AnswersInv
  <1>2. PICK outcome \in {"none", "failed", "unavailable"} :
              /\ calls' \in Seq(CallRow) /\ Len(calls') = n
              /\ n \in 1 .. MaxCalls
              /\ \A i \in Ids : calls'[i] = calls[i]
              /\ calls'[n] = [op |-> op, outcome |-> outcome]
              /\ \/ UNCHANGED toWorker
                 \/ outcome = "none" /\ toWorker' = Append(toWorker, n)
    BY <1>0, <1>1, RequestCalls
  <1>3. Ids \subseteq Ids' /\ n \in Ids' /\ n \notin Ids /\ 0 \notin Ids /\ n # 0
    BY <1>0, <1>1, <1>2, TypedSequences, CallsAreBounded DEF Ids
  <1>4. UNCHANGED <<durable, serving, toClient>> /\ durable \subseteq Ids
    BY <1>1 DEF Request, StoreClientTypeOK
  <1>5. Elements(toClient)' = Elements(toClient)
    BY <1>4 DEF Elements
  <1>6. Truthful(serving)' /\ \A event \in Elements(toClient)' : Truthful(event)'
    BY <1>2, <1>3, <1>4, <1>5 DEF AnswersInv, Truthful, ProofOfEffect
  <1>7. ASSUME NEW i \in Elements(toWorker) PROVE Untaken(i)'
    BY <1>2, <1>3, <1>4, <1>5 DEF AnswersInv, Untaken, ProofOfAbsence
  <1>8. CASE UNCHANGED toWorker
    <2>1. Elements(toWorker)' = Elements(toWorker) /\ Distinct(toWorker)'
      BY <1>8 DEF AnswersInv, Elements, Distinct
    <2> QED
      BY <1>6, <1>7, <2>1
  <1>9. CASE outcome = "none" /\ toWorker' = Append(toWorker, n)
    <2>1. n \notin Elements(toWorker)
      BY <1>3 DEF AnswersInv, Untaken
    <2>2. toWorker \in Seq(1 .. MaxCalls) /\ Distinct(toWorker)
      BY DEF AnswersInv, StoreClientTypeOK
    <2>3. /\ Elements(Append(toWorker, n)) = Elements(toWorker) \cup {n}
          /\ Distinct(Append(toWorker, n))
      BY <1>2, <2>1, <2>2, AppendElements
    <2>4. Elements(toWorker)' = Elements(toWorker) \cup {n} /\ Distinct(toWorker)'
      BY <1>9, <2>3 DEF Elements, Distinct
    <2>5. /\ serving.id # n
          /\ \A event \in Elements(toClient) : event.id # n
      BY <1>3 DEF AnswersInv, Truthful
    <2>6. ~ProofOfAbsence(calls'[n].op, calls'[n].outcome)
      BY <1>2, <1>9 DEF ProofOfAbsence
    <2>7. Untaken(n)'
      BY <1>3, <1>4, <1>5, <2>5, <2>6 DEF Untaken, ProofOfAbsence
    <2> QED
      BY <1>6, <1>7, <2>4, <2>7
  <1> QED
    BY <1>2, <1>8, <1>9

\* Each step of the client, of its worker and of its callers keeps the answers true.
LEMMA AnswersStep ==
    ASSUME AnswersInv, [StoreClientNext]_storeClientVars
    PROVE  AnswersInv'
  <1> USE DEF clientVars, threadVars
  <1>1. /\ StoreClientTypeOK /\ toClient \in Seq(Events)
        /\ Elements(toWorker) \subseteq Ids
        /\ \A kind \in Notices : Event(kind) \in Events /\ Event(kind).id = 0
    BY DEF AnswersInv, Untaken, StoreClientTypeOK, Event, Events
  <1>2. StoreClientTypeOK'
    BY <1>1, ClientTypeStep
  <1> DEFINE Kept == /\ Distinct(toWorker)'
                     /\ \A i \in Elements(toWorker)' : Untaken(i)'
                     /\ Truthful(serving)'
                     /\ \A event \in Elements(toClient)' : Truthful(event)'
  <1>3. SUFFICES Kept
    BY <1>2 DEF AnswersInv
  <1>4. CASE WorkerStarts
    <2>1. PICK kind \in Notices : toClient' = Append(toClient, Event(kind))
      BY <1>4 DEF WorkerStarts, Notices
    <2>2. Elements(Append(toClient, Event(kind))) = Elements(toClient) \cup {Event(kind)}
      BY <1>1, AppendElements
    <2>3. Elements(toClient)' = Elements(toClient) \cup {Event(kind)}
      BY <2>1, <2>2 DEF Elements
    <2> QED
      BY <1>1, <1>4, <2>3, WorkerKeepsAnswers DEF WorkerStarts
  <1>5. CASE WorkerHandles
    BY <1>5, TransactionKeepsAnswers
  <1>6. CASE WorkerAnswers
    <2>1. serving \in Events
      BY <1>1, <1>6 DEF WorkerAnswers, StoreClientTypeOK
    <2>2. Elements(Append(toClient, serving)) = Elements(toClient) \cup {serving}
      BY <1>1, <2>1, AppendElements
    <2>3. Elements(toClient)' = Elements(toClient) \cup {serving}
      BY <1>6, <2>2 DEF WorkerAnswers, Elements
    <2> QED
      BY <1>6, <2>3, WorkerKeepsAnswers DEF WorkerAnswers
  <1>7. CASE WorkerEnds
    <2>1. "exit" \in Notices /\ "error" \in Notices
      BY DEF Notices
    <2>2. Elements(toClient)' \subseteq Elements(toClient) \cup {Event("error"), Event("exit")}
      <3>1. CASE toClient' = Append(toClient, Event("exit"))
        <4>1. Elements(Append(toClient, Event("exit"))) = Elements(toClient) \cup {Event("exit")}
          BY <1>1, <2>1, AppendElements
        <4> QED
          BY <3>1, <4>1 DEF Elements
      <3>2. CASE toClient' = toClient \o <<Event("error"), Event("exit")>>
        <4>1. Elements(toClient \o <<Event("error"), Event("exit")>>)
                  \subseteq Elements(toClient) \cup {Event("error"), Event("exit")}
          BY <1>1, <2>1, ConcatElements
        <4> QED
          BY <3>2, <4>1 DEF Elements
      <3> QED
        BY <1>7, <3>1, <3>2 DEF WorkerEnds
    <2> QED
      BY <1>1, <1>7, <2>1, <2>2, WorkerKeepsAnswers DEF WorkerEnds
  <1>8. CASE \/ StartupTimesOut \/ TerminationConfirmed \/ TerminationUnconfirmed
             \/ LayoutPrepared \/ TerminateWorker \/ UNCHANGED storeClientVars
    <2>1. UNCHANGED <<calls, durable, toWorker, serving, toClient>>
      BY <1>8 DEF StartupTimesOut, TerminationConfirmed, TerminationUnconfirmed,
                  LayoutPrepared, TerminateWorker, storeClientVars
    <2>2. Elements(toClient)' = Elements(toClient)
      BY <2>1 DEF Elements
    <2> QED
      BY <2>1, <2>2, WorkerKeepsAnswers
  <1>9. CASE ClientHandles
    <2>1. /\ Head(toClient) \in Events /\ Head(toClient) \in Elements(toClient)
          /\ Elements(Tail(toClient)) \subseteq Elements(toClient)
      BY <1>1, <1>9, TailElements DEF ClientHandles
    <2>2. Elements(toClient)' \subseteq Elements(toClient)
      BY <1>9, <2>1 DEF ClientHandles, Elements
    <2>3. UNCHANGED <<durable, serving, toWorker>>
      BY <1>9 DEF ClientHandles
    <2>4. /\ Ids' = Ids
          /\ \A i \in Ids : calls'[i].op = calls[i].op
          /\ \A i \in Elements(toWorker) :
                calls'[i] = calls[i] \/ ~ProofOfAbsence(calls'[i].op, calls'[i].outcome)
      <3>1. CASE StartupEvent(Head(toClient)) \/ EventIgnored(Head(toClient))
        BY <3>1 DEF StartupEvent, EventIgnored, Ids
      <3>2. CASE WorkerLost(Head(toClient))
        BY <1>1, <3>2, FailAllTold DEF WorkerLost
      <3>3. CASE AnswerArrives(Head(toClient))
        <4>1. \A i \in Elements(toWorker) : i # Head(toClient).id
          BY <2>1 DEF AnswersInv, Untaken
        <4>2. \A i \in Ids : calls[i] \in CallRow
          BY <1>1, TypedSequences
        <4> QED
          BY <1>1, <2>1, <3>3, <4>1, <4>2, AnswerCalls, OutcomesType DEF CallRow
      <3> QED
        BY <1>9, <3>1, <3>2, <3>3 DEF ClientHandles
    <2> QED
      BY <2>2, <2>3, <2>4, OutcomesKeepAnswers
  <1>10. ASSUME NEW op \in Ops, Request(op) PROVE Kept
    BY <1>10, RequestKeepsAnswers
  <1>11. CASE Close
    <2>1. UNCHANGED <<durable, serving, toWorker, toClient>>
      BY <1>11 DEF Close
    <2>2. Elements(toClient)' = Elements(toClient)
      BY <2>1 DEF Elements
    <2> QED
      BY <1>1, <1>11, <2>1, <2>2, FailAllTold, OutcomesKeepAnswers DEF Close
  <1> QED
    BY <1>4, <1>5, <1>6, <1>7, <1>8, <1>9, <1>10, <1>11 DEF StoreClientNext

\* The store client is typed, and each answer on its way is true.
LEMMA AnswersAreTrue == StoreClientSafety => []AnswersInv
  BY AnswersInit, AnswersStep, PTL DEF StoreClientSafety

\* Whatever becomes of the worker, the client's state is well-formed.
THEOREM ClientTypeCorrect == StoreClientSafety => []StoreClientTypeOK
  <1>1. AnswersInv => StoreClientTypeOK
    BY DEF AnswersInv
  <1> QED
    BY <1>1, AnswersAreTrue, PTL

-----------------------------------------------------------------------------
(* The promise *)

\* Each step of the client, of its worker and of its callers is a step that the
\* promise allows, or none that a caller could tell.
LEMMA PromiseStep ==
    ASSUME AnswersInv, [StoreClientNext]_storeClientVars
    PROVE  [CallsNext]_callVars
  <1> USE DEF clientVars, threadVars
  <1>1. StoreClientTypeOK /\ calls \in [Ids -> CallRow] /\ DOMAIN calls = Ids
    BY TypedSequences, LenProperties DEF AnswersInv, Ids
  <1>2. CASE WorkerHandles
    <2> DEFINE h == Head(toWorker)
    <2>1. Untaken(h)
      BY <1>2, TailElements DEF WorkerHandles, AnswersInv, StoreClientTypeOK
    <2>2. PICK kind \in AnswerKinds, committed \in BOOLEAN :
            /\ MayEnd(h, kind, committed)
            /\ durable' = IF committed THEN durable \cup {h} ELSE durable
            /\ UNCHANGED calls
      BY <1>2 DEF WorkerHandles
    <2>3. CASE ~committed
      BY <2>2, <2>3 DEF callVars
    <2>4. CASE committed
      <3>1. calls[h].op # "read"
        BY <2>2, <2>4 DEF MayEnd
      <3>2. TakeEffect
        BY <2>1, <2>2, <2>4, <3>1 DEF TakeEffect, Untaken
      <3> QED
        BY <3>2 DEF CallsNext
    <2> QED
      BY <2>3, <2>4
  <1>3. CASE ClientHandles
    <2> DEFINE event == Head(toClient)
    <2>1. event \in Events /\ Truthful(event)
      BY <1>1, <1>3, TailElements DEF ClientHandles, AnswersInv, StoreClientTypeOK
    <2>2. CASE StartupEvent(event) \/ EventIgnored(event)
      BY <1>3, <2>2 DEF ClientHandles, StartupEvent, EventIgnored, callVars
    <2>3. CASE WorkerLost(event)
      <3>1. AnswerSome
        BY <1>1, <1>3, <2>3, FailAllTold DEF ClientHandles, WorkerLost
      <3> QED
        BY <3>1 DEF CallsNext
    <2>4. CASE AnswerArrives(event)
      <3>1. /\ calls' \in [Ids -> CallRow]
            /\ event.id \in Ids /\ calls[event.id].outcome = "none"
            /\ event.kind \in AnswerKinds
            /\ calls'[event.id] = [calls[event.id] EXCEPT !.outcome = event.kind]
            /\ \A i \in Ids \ {event.id} : calls'[i] = calls[i]
        BY <1>1, <2>1, <2>4, AnswerCalls
      <3>2. event.kind \in Outcomes
        BY <3>1 DEF AnswerKinds, Outcomes
      <3>3. /\ ProofOfAbsence(calls[event.id].op, event.kind) => event.id \notin durable
            /\ ProofOfEffect(calls[event.id].op, event.kind) => event.id \in durable
        BY <1>1, <2>1, <3>1, TypedSequences
           DEF Truthful, ProofOfAbsence, AnswerKinds, Ids
      <3>4. UNCHANGED durable /\ DOMAIN calls' = DOMAIN calls
        BY <1>1, <1>3, <3>1 DEF ClientHandles
      <3>5. AnswerSome
        BY <3>1, <3>2, <3>3, <3>4 DEF AnswerSome
      <3> QED
        BY <3>5 DEF CallsNext
    <2> QED
      BY <1>3, <2>2, <2>3, <2>4 DEF ClientHandles
  <1>4. ASSUME NEW op \in Ops, Request(op) PROVE CallsNext
    <2>1. Ask
      BY <1>1, <1>4 DEF Request, Ask
    <2> QED
      BY <2>1 DEF CallsNext
  <1>5. CASE Close
    <2>1. AnswerSome
      BY <1>1, <1>5, FailAllTold DEF Close
    <2> QED
      BY <2>1 DEF CallsNext
  <1>6. CASE \/ WorkerStarts \/ WorkerAnswers \/ WorkerEnds \/ StartupTimesOut
             \/ TerminationConfirmed \/ TerminationUnconfirmed \/ LayoutPrepared
             \/ TerminateWorker \/ UNCHANGED storeClientVars
    BY <1>6 DEF WorkerStarts, WorkerAnswers, WorkerEnds, StartupTimesOut,
                TerminationConfirmed, TerminationUnconfirmed, LayoutPrepared,
                TerminateWorker, storeClientVars, callVars
  <1> QED
    BY <1>2, <1>3, <1>4, <1>5, <1>6 DEF StoreClientNext

\* A call is answered once and its answer is true for good: an acknowledged write is
\* durable, and a reservation or decision reported as not written never becomes so,
\* whether the worker answers, crashes, is terminated or is closed under it.
THEOREM ClientKeepsItsPromises == StoreClientSafety => KeepsItsPromises
  <1>1. StoreClientInit => CallsInit
    BY DEF StoreClientInit
  <1>2. AnswersInv /\ [StoreClientNext]_storeClientVars => [CallsNext]_callVars
    BY PromiseStep
  <1> QED
    BY <1>1, <1>2, AnswersAreTrue, PTL DEF StoreClientSafety, KeepsItsPromises, CallsSpec
================================================================================
