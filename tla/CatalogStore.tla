------------------------------ MODULE CatalogStore ------------------------------
(***************************************************************************)
(* createFileCatalogStore (packages/server/src/catalogs-fs.ts): the file   *)
(* system a CatalogStore keeps published catalogs on, as operators on the  *)
(* contents of its files.                                                  *)
(*                                                                         *)
(* A key stands for a catalog kind ("capability" or "ui") with a catalog   *)
(* id; a body stands for one publish body, which names the key it          *)
(* publishes.  Two contents are kept: `live`, one file per catalog, and    *)
(* `history`, the retained publishes of that file, one per stamp.  A write *)
(* that does not complete leaves a torn file, which no reader can parse.   *)
(*                                                                         *)
(* The operators Remove..., Unparsed... and Register... that nothing uses  *)
(* are slips a change of the code could make; the checks show that the     *)
(* properties tell them from the code.                                     *)
(***************************************************************************)
EXTENDS Naturals

CONSTANTS
    Keys,           \* catalogs: a kind with a catalog id
    Bodies,         \* publish bodies
    BodyKey,        \* [Bodies -> Keys]: the catalog a body publishes
    Files,          \* sanitised file names, per kind
    SafeFileName,   \* [Keys -> Files]: safeFileName of the id, in its kind's directory
    MaxClock,       \* bound: the last millisecond a publish may carry
    Absent,         \* no file
    Torn,           \* a file that is not valid JSON
    NoBody          \* no body

Stamps == 0 .. MaxClock
Record == [body : Bodies, at : Stamps]
Content == Record \cup {Absent, Torn}

ASSUME StoreAssumption ==
    /\ BodyKey \in [Bodies -> Keys]
    /\ SafeFileName \in [Keys -> Files]
    /\ MaxClock \in Nat
    /\ Absent \notin Record /\ Torn \notin Record /\ Absent # Torn
    /\ NoBody \notin Bodies

(* No two catalogs share a file: what holds unless two ids differ only in
   characters that safeFileName replaces. *)
NoCollision == \A k, l \in Keys : SafeFileName[k] = SafeFileName[l] => k = l

-----------------------------------------------------------------------------
FileOf(r) == SafeFileName[BodyKey[r.body]]

(* stampFor: the record's own publishedAt, with the characters a file name
   cannot carry replaced; a fixed-width UTC instant loses nothing by it. *)
StampFor(r) == r.at

Readable(c) == c \in Record
BodyIn(c) == IF Readable(c) THEN c.body ELSE NoBody

(* What is stored under each key, as a restore would replay it: the body in the
   key's file, if it publishes that key. *)
StoredIn(live) ==
    [k \in Keys |-> LET b == BodyIn(live[SafeFileName[k]])
                    IN IF b # NoBody /\ BodyKey[b] = k THEN b ELSE NoBody]

(* put: the live file first, then the snapshot beside it. *)
PutLive(live, r) == [live EXCEPT ![FileOf(r)] = r]
PutHistory(history, r) == [history EXCEPT ![FileOf(r)][StampFor(r)] = r]

(* A writeFileSync that stops half way, whether it throws or the process is
   killed in it, leaves the file torn. *)
TearLive(live, r) == [live EXCEPT ![FileOf(r)] = Torn]
TearHistory(history, r) == [history EXCEPT ![FileOf(r)][StampFor(r)] = Torn]

(* remove: the live file only; retained publishes stay. *)
RemoveNothing(live, k) == live
RemoveDirectory(live, k) == [f \in Files |-> Absent]
RemoveLive(live, k) == [live EXCEPT ![SafeFileName[k]] = Absent]

RemoveHistoryToo(history, k) ==
    [history EXCEPT ![SafeFileName[k]] = [s \in Stamps |-> Absent]]
RemoveHistory(history, k) == history

(* history and readSnapshot: the snapshots of one catalog that can be parsed. *)
UnparsedStamps(history, k) == {s \in Stamps : history[SafeFileName[k]][s] # Absent}
SnapshotStamps(history, k) == {s \in Stamps : Readable(history[SafeFileName[k]][s])}
ReadSnapshot(history, k, s) == history[SafeFileName[k]][s]

(* list: every live file that parses; a torn one is skipped. *)
ListRecords(live) == {live[f] : f \in {g \in Files : Readable(live[g])}}
=============================================================================
