---------------------------- MODULE DatabaseFile ----------------------------
(***************************************************************************)
(* The SQLite file: where src/config.rs puts it, how init_db of            *)
(* src/database.rs brings an old schema up to date, and what the raw       *)
(* download of src/controllers/backup_controller.rs gets to read.          *)
(*                                                                         *)
(* init_db adds the columns of each group when the group's first column is *)
(* missing, one autocommitted ALTER TABLE at a time, errors ignored.  In   *)
(* WAL mode a commit goes to the log; a checkpoint copies the changed      *)
(* pages to the main file, under the connection's lock.  The download      *)
(* checkpoints under the lock, ignores the result, and then reads the main *)
(* file without the lock.                                                  *)
(*                                                                         *)
(* Names that ConfigStore has too begin with File: StorageProofs proves    *)
(* about both modules.                                                     *)
(***************************************************************************)
EXTENDS Integers, Sequences, FiniteSets

CONSTANTS
  Groups,       \* the columns added after the first release, in groups
  Pages,        \* 1..n: pages of the file, in the order of a read
  MaxCommits,   \* bound: transactions
  MaxFaults,    \* bound: crashes, failing ALTERs and failing checkpoints
  Paths,        \* file names
  DefaultPath,  \* "uptime.db"
  NoPath        \* flag or environment variable not given

ASSUME FileAssumption ==
  /\ Groups \in Seq(Seq(STRING) \ {<<>>})
  /\ \A g, h \in DOMAIN Groups : \A c \in DOMAIN Groups[g], d \in DOMAIN Groups[h] :
        Groups[g][c] = Groups[h][d] => g = h /\ c = d
  /\ IsFiniteSet(Pages) /\ Pages # {} /\ Pages = 1..Cardinality(Pages)
  /\ DefaultPath \in Paths /\ NoPath \notin Paths
  /\ MaxCommits \in Nat /\ MaxFaults \in Nat

VARIABLES
  flag, env,   \* --db and UPTIME_DB_PATH
  columns,     \* columns of table monitors beyond the first release's
  at,          \* init_db's place: <<group, column>>; Serving; or Down
  live,        \* committed version of every page
  main,        \* version of every page in the main file
  copying,     \* pages a running checkpoint still has to copy
  download,    \* the download in progress
  clean,       \* history: no ALTER of the latest start has failed
  hurt,        \* history: groups a fault left with their first column only
  faults

fileVars == <<flag, env, columns, at, live, main, copying, download, clean, hurt, faults>>
schema == <<columns, at, clean, hurt, faults>>

Serving == <<0, 0>>
Down == <<0, 1>>
Version == 0..MaxCommits
ColumnsOf(g) == {Groups[g][c] : c \in DOMAIN Groups[g]}
AllColumns == UNION {ColumnsOf(g) : g \in DOMAIN Groups}

(* What a release before group g + 1 was added has created. *)
Release(g) == UNION {ColumnsOf(h) : h \in 1..g}

Stages == {"none", "flushing", "flushed", "read", "done"}
NoDownload == [stage |-> "none", page |-> 0, copy |-> <<>>, since |-> {},
               torn |-> FALSE, stale |-> FALSE]
Foreign == -1    \* what a page of another file holds

(* AppConfig::parse, and download_database, which asks the environment. *)
ServerPath == IF flag # NoPath THEN flag ELSE IF env # NoPath THEN env ELSE DefaultPath
DownloadPath == IF env # NoPath THEN env ELSE DefaultPath

-----------------------------------------------------------------------------
FileInit ==
  /\ flag \in Paths \cup {NoPath} /\ env \in Paths \cup {NoPath}
  /\ \E g \in 0..Len(Groups) : columns = Release(g)
  /\ at = Down
  /\ live = [p \in Pages |-> 0] /\ main = live
  /\ copying = {}
  /\ download = NoDownload
  /\ clean = TRUE /\ hurt = {} /\ faults = MaxFaults

Place(g) == IF g > Len(Groups) THEN Serving ELSE <<g, 1>>

Start ==
  /\ at = Down
  /\ at' = Place(1)
  /\ clean' = TRUE
  /\ UNCHANGED <<flag, env, columns, live, main, copying, download, hurt, faults>>

(* Mutant: the first group that is there ends the migration. *)
SkipGroup_All(g) ==
  /\ at = <<g, 1>> /\ Groups[g][1] \in columns
  /\ at' = Serving
  /\ UNCHANGED <<flag, env, columns, live, main, copying, download, clean, hurt, faults>>
SkipGroup(g) ==
  /\ at = <<g, 1>> /\ Groups[g][1] \in columns
  /\ at' = Place(g + 1)
  /\ UNCHANGED <<flag, env, columns, live, main, copying, download, clean, hurt, faults>>

(* ALTER TABLE monitors ADD COLUMN; an error is ignored.  (The UPDATE after *)
(* sort_order changes nothing that is shown: equal rows are shown by id.)  *)
AddColumn(g, c) ==
  /\ at = <<g, c>> /\ (c > 1 \/ Groups[g][1] \notin columns)
  /\ at' = IF c < Len(Groups[g]) THEN <<g, c + 1>> ELSE Place(g + 1)
  /\ \/ /\ columns' = columns \cup {Groups[g][c]}
        /\ UNCHANGED <<clean, hurt, faults>>
     \/ /\ faults > 0 /\ faults' = faults - 1
        /\ clean' = FALSE
        /\ hurt' = hurt \cup {h \in {g} : c > 1 /\ Groups[g][1] \in columns}
        /\ UNCHANGED columns
  /\ UNCHANGED <<flag, env, live, main, copying, download>>

(* The process ends.  What is committed is recovered from the log. *)
Crash ==
  /\ at # Down /\ faults > 0 /\ faults' = faults - 1
  /\ at' = Down
  /\ hurt' = hurt \cup {g \in DOMAIN Groups : /\ at[1] = g /\ at[2] > 1
                                              /\ Groups[g][1] \in columns}
  /\ copying' = {} /\ download' = NoDownload
  /\ UNCHANGED <<flag, env, columns, live, main, clean>>

-----------------------------------------------------------------------------
Locked == copying # {}    \* a checkpoint holds the lock
Dirty == {p \in Pages : live[p] # main[p]}
NewVersion == 1 + (CHOOSE v \in Version : /\ \E p \in Pages : live[p] = v
                                          /\ \A p \in Pages : live[p] <= v)

(* A transaction of any handler or task changes some pages; those a        *)
(* download has not seen yet are noted.                                    *)
Commit(S) ==
  /\ at = Serving /\ ~Locked /\ S # {}
  /\ NewVersion <= MaxCommits
  /\ live' = [p \in Pages |-> IF p \in S THEN NewVersion ELSE live[p]]
  /\ download' = [download EXCEPT !.since = IF download.stage = "none" THEN @
                                            ELSE @ \cup {live'}]
  /\ UNCHANGED <<flag, env, main, copying, schema>>

(* SQLite's own checkpoint when the log has grown, and prune's: the pages  *)
(* are copied one at a time.                                               *)
Checkpoint ==
  /\ at = Serving /\ ~Locked /\ Dirty # {}
  /\ copying' = Dirty
  /\ UNCHANGED <<flag, env, live, main, download, schema>>

CopyPage(p) ==
  /\ at = Serving /\ p \in copying
  /\ main' = [main EXCEPT ![p] = live[p]]
  /\ copying' = copying \ {p}
  /\ download' = [download EXCEPT !.torn = @ \/ download.stage = "read",
                                  !.stage = IF @ = "flushing" /\ copying = {p}
                                            THEN "flushed" ELSE @]
  /\ UNCHANGED <<flag, env, live, schema>>

(* A checkpoint fails, at once or with some of its pages copied.  The       *)
(* download drops the result (let _ =) and goes on to the read.             *)
CheckpointFails ==
  /\ at = Serving /\ Locked /\ faults > 0 /\ faults' = faults - 1
  /\ copying' = {}
  /\ download' = [download EXCEPT !.stale = @ \/ download.stage \in {"flushing", "flushed"},
                                  !.stage = IF @ = "flushing" THEN "flushed" ELSE @]
  /\ UNCHANGED <<flag, env, columns, at, live, main, clean, hurt>>

(* download_database checkpoints the log first.  Mutant: it does not. *)
Download_NoFlush ==
  /\ at = Serving /\ ~Locked /\ download.stage = "none"
  /\ download' = [NoDownload EXCEPT !.stage = "flushed", !.since = {live}]
  /\ UNCHANGED <<flag, env, live, main, copying, schema>>
Download ==
  /\ at = Serving /\ ~Locked /\ download.stage = "none"
  /\ download' = [NoDownload EXCEPT !.stage = IF Dirty = {} THEN "flushed" ELSE "flushing",
                                    !.since = {live}]
  /\ copying' = Dirty
  /\ UNCHANGED <<flag, env, live, main, schema>>

(* The read starts when the lock has been given back; another file may not *)
(* exist, which is an error answer.                                        *)
OpenFile ==
  /\ at = Serving /\ download.stage = "flushed"
  /\ \/ download' = [download EXCEPT !.stage = "read", !.page = 1, !.torn = Locked]
     \/ DownloadPath # ServerPath /\ download' = NoDownload
  /\ UNCHANGED <<flag, env, live, main, copying, schema>>

ReadPage ==
  /\ at = Serving /\ download.stage = "read"
  /\ download' =
       [download EXCEPT !.copy = Append(@, IF DownloadPath = ServerPath
                                               THEN main[download.page] ELSE Foreign),
                        !.page = @ + 1,
                        !.stage = IF download.page = Cardinality(Pages) THEN "done" ELSE @]
  /\ UNCHANGED <<flag, env, live, main, copying, schema>>

Answer ==
  /\ at = Serving /\ download.stage = "done"
  /\ download' = NoDownload
  /\ UNCHANGED <<flag, env, live, main, copying, schema>>

FileNext ==
  \/ Start
  \/ \E g \in DOMAIN Groups : SkipGroup(g)
  \/ \E g \in DOMAIN Groups : \E c \in DOMAIN Groups[g] : AddColumn(g, c)
  \/ Crash
  \/ \E S \in SUBSET Pages : Commit(S)
  \/ Checkpoint
  \/ \E p \in Pages : CopyPage(p)
  \/ CheckpointFails
  \/ Download \/ OpenFile \/ ReadPage \/ Answer

FileSpec == FileInit /\ [][FileNext]_fileVars

-----------------------------------------------------------------------------
(* The variables have their types; a checkpoint copies pages that changed.  *)
FileTypeOK ==
  /\ flag \in Paths \cup {NoPath} /\ env \in Paths \cup {NoPath}
  /\ columns \subseteq AllColumns
  /\ \/ at \in {Serving, Down}
     \/ at[1] \in DOMAIN Groups /\ at[2] \in DOMAIN Groups[at[1]]
  /\ live \in [Pages -> Version] /\ main \in [Pages -> Version]
  /\ copying \subseteq Dirty
  /\ download.stage \in Stages /\ download.torn \in BOOLEAN /\ download.stale \in BOOLEAN
  /\ download.page \in 0..Cardinality(Pages) + 1
  /\ Len(download.copy) <= Cardinality(Pages)
  /\ download.since \subseteq [Pages -> Version]
  /\ clean \in BOOLEAN /\ hurt \subseteq DOMAIN Groups /\ faults \in 0..MaxFaults

(* Whatever release created the file, a start whose ALTERs all succeed ends *)
(* with every column of this release, except in a group that an earlier     *)
(* fault left with its first column only: the first column stands for the   *)
(* whole group when init_db looks, so such a group is never completed.      *)
SchemaComplete ==
  at = Serving /\ clean =>
    \A g \in DOMAIN Groups \ hurt : ColumnsOf(g) \subseteq columns

(* A download answers with a committed state of the whole file that is no   *)
(* older than the request, on three conditions the code does not ensure:    *)
(* the checkpoint before the read went through (its result is dropped, and  *)
(* without it the copy is old: HANDOVER.md says that copying the .db alone  *)
(* gives a stale backup), none wrote to the file during the read, and the   *)
(* file is the server's own (--db not given, or naming the environment's    *)
(* path).  What others commit meanwhile goes to the log and does no harm.   *)
CopyConsistent ==
  download.stage = "done" /\ flag \in {NoPath, DownloadPath} /\ ~download.stale /\ ~download.torn
    => download.copy \in download.since
=============================================================================
