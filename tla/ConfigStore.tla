----------------------------- MODULE ConfigStore -----------------------------
(***************************************************************************)
(* The configuration the admin edits, saves to a backup file and restores: *)
(* the tables monitors and settings, src/models/monitor.rs and the JSON    *)
(* export and restore of src/controllers/backup_controller.rs.  Each       *)
(* operation runs under one lock, except the export, which takes the lock  *)
(* once for the monitors and once for the settings.                        *)
(*                                                                         *)
(* A row keeps the fields an operation computes or compares; name stands   *)
(* for all those copied as they are.  Status and counters are              *)
(* ProbePipeline's subject.                                                *)
(***************************************************************************)
EXTENDS Integers, Sequences, FiniteSets

CONSTANTS
  MaxId,      \* bound: rowids; they are never used twice
  MaxEdits,   \* bound: operations that change a table
  Names,      \* the admin's texts
  Intervals,  \* interval_sec a request or a file may hold
  Keys,       \* keys of settings
  Values,     \* their values
  Files,      \* backup files that this program did not write
  Unset,      \* a key with no row
  NoOrder,    \* sort_order missing in a file
  NoRow,      \* no row with this id
  NoBackup    \* nothing exported

MinInterval == 5    \* interval_sec.max(5)

Row == [name: Names, interval: Int, order: Int]
FileRow == [name: Names, interval: Int, order: Int \cup {NoOrder}]
Setting == [Keys -> Values \cup {Unset}]

ASSUME ConfigAssumption ==
  /\ MaxId \in Nat /\ MaxEdits \in Nat /\ Intervals \subseteq Int
  /\ Files \subseteq [rows: Seq(FileRow), values: Setting]
  /\ Unset \notin Values /\ NoOrder \notin Int /\ NoRow \notin Row

VARIABLES
  monitors,  \* id -> row
  nextId,    \* AUTOINCREMENT
  settings,  \* key -> value
  export,    \* the export in progress: the monitors it has read, or NoBackup
  backup,    \* the latest exported file
  drift,     \* history: what committed during the export
  past,      \* history: contents of both tables since the export began
  edits      \* edits left

vars == <<monitors, nextId, settings, export, backup, drift, past, edits>>

Ids == 1..MaxId
Present == {i \in Ids : monitors[i] # NoRow}

(* ORDER BY sort_order ASC, id ASC *)
Before(t, i, j) == t[i].order < t[j].order \/ (t[i].order = t[j].order /\ i < j)

(* Monitor::all of a table. *)
Shown(t) ==
  LET ids == {i \in Ids : t[i] # NoRow}
      place(i) == 1 + Cardinality({j \in ids : Before(t, j, i)})
  IN  [p \in 1..Cardinality(ids) |-> CHOOSE i \in ids : place(i) = p]
All(t) == LET ids == Shown(t) IN [p \in DOMAIN ids |-> t[ids[p]]]

Highest(S) == CHOOSE x \in S : \A y \in S : x >= y

(* COALESCE(MAX(sort_order), 0) + 1.                                       *)
NextOrder == IF Present = {} THEN 1 ELSE Highest({monitors[i].order : i \in Present}) + 1

AtLeast(n, low) == IF n < low THEN low ELSE n

-----------------------------------------------------------------------------
Init ==
  /\ monitors = [i \in Ids |-> NoRow]
  /\ nextId = 1
  /\ settings \in Setting
  /\ export = NoBackup /\ backup = NoBackup
  /\ drift = {} /\ past = {}
  /\ edits = MaxEdits

(* Every change of a table, as the history sees it. *)
Both == [rows |-> All(monitors), values |-> settings]
Changed ==
  /\ edits > 0 /\ edits' = edits - 1
  /\ IF export = NoBackup THEN UNCHANGED <<drift, past>>
     ELSE
       /\ past' = past \cup {Both'}
       /\ drift' = drift \cup (IF All(monitors') # All(monitors) THEN {"rows"} ELSE {})
                         \cup (IF settings' # settings
                                  /\ ("rows" \in drift \/ All(monitors') # All(monitors))
                               THEN {"mixed"} ELSE {})

(* Mutant: the id of the last row is free again once that row is deleted.  *)
Create_Reuse(n, i) ==
  /\ nextId <= MaxId
  /\ monitors' = [monitors EXCEPT ![nextId] =
                     [name |-> n, interval |-> i, order |-> NextOrder]]
  /\ nextId' = Highest({nextId} \cup Present)
  /\ UNCHANGED <<settings, export, backup>>
  /\ Changed
Create(n, i) ==
  /\ nextId <= MaxId
  /\ monitors' = [monitors EXCEPT ![nextId] =
                     [name |-> n, interval |-> i, order |-> NextOrder]]
  /\ nextId' = nextId + 1
  /\ UNCHANGED <<settings, export, backup>>
  /\ Changed

Update(m, n, i) ==
  /\ m \in Present
  /\ monitors' = [monitors EXCEPT ![m].name = n, ![m].interval = AtLeast(i, MinInterval)]
  /\ UNCHANGED <<nextId, settings, export, backup>>
  /\ Changed

Delete(m) ==
  /\ m \in Present
  /\ monitors' = [monitors EXCEPT ![m] = NoRow]
  /\ UNCHANGED <<nextId, settings, export, backup>>
  /\ Changed

(* Places 0, 1, ... for the listed ids that still exist, in a transaction; *)
(* the list is what the admin's page showed and may be out of date.        *)
Reorder(ids) ==
  /\ ids # <<>>
  /\ monitors' = [m \in Ids |->
       IF m \in Present /\ \E p \in DOMAIN ids : ids[p] = m
       THEN [monitors[m] EXCEPT !.order = Highest({p \in DOMAIN ids : ids[p] = m}) - 1]
       ELSE monitors[m]]
  /\ UNCHANGED <<nextId, settings, export, backup>>
  /\ Changed

(* The saves of branding, Telegram and time zone are upserts of one key    *)
(* after the other.                                                        *)
SaveSetting(k, v) ==
  /\ settings' = [settings EXCEPT ![k] = v]
  /\ UNCHANGED <<monitors, nextId, export, backup>>
  /\ Changed

ExportMonitors ==
  /\ export = NoBackup
  /\ export' = All(monitors)
  /\ drift' = {} /\ past' = {Both}
  /\ backup' = NoBackup
  /\ UNCHANGED <<monitors, nextId, settings, edits>>

(* Mutant: the settings are read first and the monitors now.               *)
ExportSettings_First ==
  /\ export # NoBackup
  /\ \E s \in past :
       s.rows = export /\ backup' = [rows |-> All(monitors), values |-> s.values]
  /\ export' = NoBackup
  /\ drift' = {} /\ past' = {}
  /\ UNCHANGED <<monitors, nextId, settings, edits>>
ExportSettings ==
  /\ export # NoBackup
  /\ backup' = [rows |-> export, values |-> settings]
  /\ export' = NoBackup
  /\ drift' = {} /\ past' = {}
  /\ UNCHANGED <<monitors, nextId, settings, edits>>

(* A statement fails or the client goes away. *)
ExportAbandoned ==
  /\ export # NoBackup
  /\ export' = NoBackup /\ drift' = {} /\ past' = {}
  /\ UNCHANGED <<monitors, nextId, settings, backup, edits>>

(* What the row of a file becomes. *)
Imported(r, place) ==
  [r EXCEPT !.interval = AtLeast(@, MinInterval),
            !.order = IF @ = NoOrder THEN place ELSE @]

Restored(f, kept) ==
  [m \in Ids |-> IF m \in nextId..(nextId + Len(f.rows) - 1)
                 THEN Imported(f.rows[m - nextId + 1], m - nextId)
                 ELSE IF kept THEN monitors[m] ELSE NoRow]

(* One transaction; an error in it rolls everything back.  Settings are    *)
(* written over, never deleted; an empty file is refused.                  *)
(* Mutant: no transaction, so an error leaves what was done so far.        *)
Restore_Partial(f, mode) ==
  /\ f.rows # <<>>
  /\ nextId <= MaxId
  /\ monitors' = Restored([f EXCEPT !.rows = <<Head(@)>>], mode # "replace")
  /\ nextId' = nextId + 1
  /\ UNCHANGED <<settings, export, backup>>
  /\ Changed
Restore(f, mode) ==
  /\ f.rows # <<>> \/ \E k \in Keys : f.values[k] # Unset
  /\ nextId + Len(f.rows) - 1 <= MaxId
  /\ monitors' = Restored(f, mode # "replace")
  /\ nextId' = nextId + Len(f.rows)
  /\ settings' = [k \in Keys |-> IF f.values[k] = Unset THEN settings[k] ELSE f.values[k]]
  /\ UNCHANGED <<export, backup>>
  /\ Changed

Importable == Files \cup (IF backup = NoBackup THEN {} ELSE {backup})
Modes == {"replace", "merge"}

Next ==
  \/ \E n \in Names, i \in Intervals : Create(n, i)
  \/ \E m \in Ids, n \in Names, i \in Intervals : Update(m, n, i)
  \/ \E m \in Ids : Delete(m)
  \/ \E a, b \in Ids : Reorder(<<a, b>>)
  \/ \E k \in Keys, v \in Values : SaveSetting(k, v)
  \/ ExportMonitors
  \/ ExportSettings
  \/ ExportAbandoned
  \/ \E f \in Importable, mode \in Modes : Restore(f, mode)

Spec == Init /\ [][Next]_vars

-----------------------------------------------------------------------------
(* Properties. *)

(* The variables have their types, and no row has an id still to be given. *)
TypeOK ==
  /\ monitors \in [Ids -> Row \cup {NoRow}]
  /\ \A i \in Present : i < nextId
  /\ nextId \in 1..MaxId + 1
  /\ settings \in Setting
  /\ export = NoBackup \/ export \in Seq(Row)
  /\ backup = NoBackup \/ backup \in [rows: Seq(Row), values: Setting]
  /\ drift \subseteq {"rows", "mixed"}
  /\ edits \in 0..MaxEdits

(* A backup brings the configuration back: restoring the exported file in  *)
(* replace mode shows the same monitors in the same order, whatever was    *)
(* done meanwhile and whatever ids they had, with intervals below 5 s      *)
(* raised, and every setting that had a value has it again.                *)
RoundTrip ==
  [][backup # NoBackup /\ Restore(backup, "replace") =>
       /\ [p \in DOMAIN All(monitors') |-> All(monitors')[p].name]
            = [p \in DOMAIN backup.rows |-> backup.rows[p].name]
       /\ \A p \in DOMAIN backup.rows :
            All(monitors')[p].interval = AtLeast(backup.rows[p].interval, MinInterval)
       /\ \A k \in Keys : backup.values[k] # Unset => settings'[k] = backup.values[k]]_vars

(* Although the export takes the lock twice, its file is what both tables  *)
(* held at one moment, unless the settings were changed after the monitors *)
(* had been, or together with them, while it ran.                          *)
ExportIsSnapshot ==
  [][backup' \notin {backup, NoBackup} /\ "mixed" \notin drift => backup' \in past]_vars

=============================================================================
