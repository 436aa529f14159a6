------------------------------ MODULE StoreOpening ------------------------------
(***************************************************************************)
(* What opening a job store promises (src/docs/u1-storage.md): a database  *)
(* is converted to WAL, or given its schema, only while it is empty or of  *)
(* the current version, and a store is handed out only over a database     *)
(* that has both. One that a newer pi-watch wrote, or that is not          *)
(* recognised at all, is never changed.                                    *)
(***************************************************************************)
CONSTANT Openers

VARIABLES
    content,  \* what the database holds
    journal,  \* its journal mode, for as long as the file exists
    opened    \* the openers that hold a store

vars == <<content, journal, opened>>

Contents == {"empty", "current", "newer", "foreign"}

Recognised == {"empty", "current"}

Journals == {"delete", "wal"}

Init ==
    /\ content \in Contents /\ journal \in Journals
    /\ opened = {}

Convert ==
    /\ content \in Recognised
    /\ journal' = "wal"
    /\ UNCHANGED <<content, opened>>

\* The schema is committed, but the opener reports a failure.
Create ==
    /\ content \in Recognised /\ journal = "wal"
    /\ content' = "current"
    /\ UNCHANGED <<journal, opened>>

HandOut(p) ==
    /\ content \in Recognised /\ journal = "wal"
    /\ content' = "current"
    /\ opened' = opened \cup {p}
    /\ UNCHANGED journal

\* A store is closed, or its process dies.
Leave(p) ==
    /\ opened' = opened \ {p}
    /\ UNCHANGED <<content, journal>>

\* A newer pi-watch migrates the database: nothing this version does.
Upgrade ==
    /\ content \in Recognised
    /\ content' = "newer" /\ journal' \in {journal, "wal"}
    /\ UNCHANGED opened

Next ==
    \/ Convert \/ Create \/ Upgrade
    \/ \E p \in Openers : HandOut(p) \/ Leave(p)

Spec == Init /\ [][Next]_vars
=============================================================================
