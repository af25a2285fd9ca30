----------------------------- MODULE GeoDatabase -----------------------------
(***************************************************************************)
(* GeoIPManager (geoip.go) with a token: one reader over a database file   *)
(* serves all look-ups.  The first look-up or the engine's start opens it, *)
(* from a copy other workers left in Redis or after a download; Refresh    *)
(* downloads again and swaps readers, Close closes the one in use.  A      *)
(* database is good or bad: a bad one cannot be opened and is removed.     *)
(* Hosts refresh and close a manager after its first use.                  *)
(***************************************************************************)
EXTENDS Integers

CONSTANTS
    Lookers, Refreshers,  \* goroutines
    UseRedis,
    MaxReaders            \* bound on the readers opened

VARIABLES
    disk,     \* the database file: "none", "good" or "bad"
    copy,     \* the copy in Redis, the same
    geo,      \* initOnce, reader (0: nil), failed, the readers opened and closed
    look      \* look[c]: the progress of goroutine c

vars == <<disk, copy, geo, look>>

Content == {"good", "bad"}

----------------------------------------------------------------------------
Idle == [pc |-> "idle", reader |-> 0]
At(c, step) == look[c].pc = step
Goto(c, step) == look' = [look EXCEPT ![c].pc = step]

Init ==
    /\ disk \in {"none"} \cup Content /\ copy \in {"none"} \cup Content
    /\ geo = [once |-> "fresh", reader |-> 0, failed |-> FALSE, opened |-> 0, closed |-> {}]
    /\ look = [c \in Lookers \cup Refreshers |-> Idle]

\* openLocked on file f: what becomes of manager g and of the file.
Opened(g, f) == IF f = "good"
                THEN [g EXCEPT !.reader = g.opened + 1, !.opened = @ + 1, !.failed = FALSE]
                ELSE [g EXCEPT !.failed = TRUE]
Kept(f) == IF f = "good" THEN f ELSE "none"

\* A download that succeeds: the file is replaced, and the copy if Redis answers.
Downloaded == \E content \in Content :
                  /\ disk' = content
                  /\ copy' \in {copy} \cup (IF UseRedis THEN {content} ELSE {})

----------------------------------------------------------------------------
(* GetCountry and Initialize.                                              *)

\* ensureLoaded: the first look-up initialises, others wait for it.
Look(c) ==
    /\ c \in Lookers /\ At(c, "idle")
    /\ Goto(c, IF geo.once = "fresh" THEN "init" ELSE "wait")
    /\ geo' = IF geo.once = "fresh" THEN [geo EXCEPT !.once = "running"] ELSE geo
    /\ UNCHANGED <<disk, copy>>

\* Initialize opens the copy in Redis if it can be read and written to the file.
InitFromCopy(c) ==
    /\ At(c, "init") /\ UseRedis /\ copy # "none" /\ geo.opened < MaxReaders
    /\ disk' = Kept(copy)
    /\ geo' = [Opened(geo, copy) EXCEPT !.once = "done"]
    /\ Goto(c, "wait")
    /\ UNCHANGED copy

\* Otherwise an outdated or missing file is downloaded.
InitByDownload(c) ==
    /\ At(c, "init")
    /\ \/ Downloaded /\ Goto(c, "open") /\ UNCHANGED geo
       \/ /\ geo' = [geo EXCEPT !.once = "done"]
          /\ Goto(c, "wait")
          /\ UNCHANGED <<disk, copy>>

InitByFile(c) ==
    /\ At(c, "init") /\ disk # "none"
    /\ Goto(c, "open")
    /\ UNCHANGED <<disk, copy, geo>>

InitOpen(c) ==
    /\ At(c, "open") /\ geo.opened < MaxReaders
    /\ geo' = [(IF disk = "none" THEN geo ELSE Opened(geo, disk)) EXCEPT !.once = "done"]
    /\ disk' = Kept(disk)
    /\ Goto(c, "wait")
    /\ UNCHANGED copy

\* The reader is read under the lock and used after it.
TakeReader(c) ==
    /\ At(c, "wait") /\ geo.once = "done"
    /\ look' = [look EXCEPT ![c] = [pc |-> IF geo.reader = 0 THEN "idle" ELSE "lookup",
                                    reader |-> geo.reader]]
    /\ UNCHANGED <<disk, copy, geo>>

\* A closed reader answers with an error, which counts as no country.
Answer(c) ==
    /\ At(c, "lookup")
    /\ look' = [look EXCEPT ![c] = Idle]
    /\ UNCHANGED <<disk, copy, geo>>

----------------------------------------------------------------------------
(* Refresh and Close.                                                      *)

Refresh(c) ==
    /\ c \in Refreshers /\ At(c, "idle") /\ geo.once = "done"
    /\ \/ Downloaded /\ Goto(c, "swap") /\ UNCHANGED geo
       \/ UNCHANGED <<disk, copy, geo, look>>

\* Mutation of Swap: the old reader stays open.
SwapOpen(c) ==
    /\ At(c, "swap") /\ geo.opened < MaxReaders
    /\ geo' = IF disk = "none" THEN geo ELSE Opened(geo, disk)
    /\ disk' = Kept(disk)
    /\ look' = [look EXCEPT ![c] = Idle]
    /\ UNCHANGED copy

\* The new reader is opened and the old one closed, even if the new database
\* cannot be opened.
Swap(c) ==
    /\ At(c, "swap") /\ geo.opened < MaxReaders
    /\ geo' = IF disk = "none" THEN geo
              ELSE [Opened(geo, disk) EXCEPT
                       !.closed = @ \cup ({geo.reader} \ {0})]
    /\ disk' = Kept(disk)
    /\ look' = [look EXCEPT ![c] = Idle]
    /\ UNCHANGED copy

Close ==
    /\ geo.once = "done" /\ geo.reader # 0
    /\ geo' = [geo EXCEPT !.closed = @ \cup {geo.reader}, !.reader = 0]
    /\ UNCHANGED <<disk, copy, look>>

\* Another worker shares its download, or the copy's TTL ends.
ChangeCopy == /\ UseRedis
              /\ copy' \in {"none"} \cup Content
              /\ UNCHANGED <<disk, geo, look>>

Next == \/ \E c \in Lookers \cup Refreshers :
              \/ Look(c) \/ InitFromCopy(c) \/ InitByDownload(c) \/ InitByFile(c)
              \/ InitOpen(c) \/ TakeReader(c) \/ Answer(c) \/ Refresh(c) \/ Swap(c)
        \/ Close \/ ChangeCopy

Spec == Init /\ [][Next]_vars

----------------------------------------------------------------------------
(* Properties.                                                             *)

TypeOK ==
    /\ disk \in {"none"} \cup Content /\ copy \in {"none"} \cup Content
    /\ geo.once \in {"fresh", "running", "done"} /\ geo.failed \in BOOLEAN
    /\ geo.reader \in 0..geo.opened /\ geo.closed \subseteq 1..geo.opened
    /\ \A c \in Lookers \cup Refreshers :
          /\ look[c].reader \in 0..geo.opened
          /\ look[c].pc \in {"idle", "init", "open", "wait", "lookup", "swap"}

\* No reader is lost: each that was opened is in use or closed, whatever
\* refreshes, failures to open and Close interleave.
NoReaderLost == \A r \in 1..geo.opened : r = geo.reader \/ r \in geo.closed

\* The manager holds a closed reader only after a refresh whose database could
\* not be opened.
ClosedOnlyByFailure == geo.reader \in geo.closed => geo.failed

=============================================================================
