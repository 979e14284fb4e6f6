---------------------------- MODULE AlertDelivery ----------------------------
(***************************************************************************)
(* From a changed incident to a Telegram message and a line of the alert   *)
(* log: notify_down, notify_recovery and send_message of                   *)
(* src/models/setting.rs, the settings they read, and src/alert_log.rs.    *)
(* Every alert has the task that noticed the change; tasks run on several  *)
(* threads, take the database lock twice, wait up to ten seconds for       *)
(* Telegram, and write the log with plain file operations and no lock.     *)
(*                                                                         *)
(* Most failures on the way are ignored by the code and happen here too: a *)
(* setting that cannot be read counts as missing, a file operation of the  *)
(* log that fails is passed over, and a task may be lost with its request  *)
(* or with the process.                                                    *)
(*                                                                         *)
(* writeln! on an unbuffered file is several writes.  A line is two of     *)
(* them here, its text and its end, and a file is the sequence of what was *)
(* written to it; its size is their number.  Offsets from UTC are numbers; *)
(* an abbreviation stored for a zone is the offset it names.               *)
(***************************************************************************)
EXTENDS Integers, Sequences, FiniteSets

CONSTANTS
  MaxAlerts,  \* bound: alerts and test messages
  Configs,    \* Telegram settings the admin may save or test
  Zones,      \* time-zone snapshots the browser may send
  OsOffset,   \* offset of the operating system's zone
  Restored,   \* sets of settings a backup may hold
  MaxSize,    \* size beyond which the log is rotated; 512 KiB in the code
  MaxEvents,  \* bound: alerts, tests, saves, restores, reads of the log, faults
  NoText,     \* an empty or missing setting
  NoFile      \* the file does not exist

ASSUME DeliveryAssumption ==
  /\ MaxAlerts \in Nat
  /\ \A c \in Configs : /\ c = [enabled |-> c.enabled, token |-> c.token,
                                chat |-> c.chat, thread |-> c.thread]
                         /\ c.enabled \in BOOLEAN
  (* The browser sends the offset and the label of one zone. *)
  /\ \A z \in Zones : /\ z = [offset |-> z.offset, abbr |-> z.abbr]
                      /\ z.offset \in Int /\ z.abbr \in {z.offset, NoText}
  /\ OsOffset \in Int /\ MaxSize \in Nat /\ MaxEvents \in Nat
  /\ NoText \notin Int

VARIABLES
  telegram,  \* settings telegram_*, as TelegramSettings::load reads them
  zone,      \* settings branding_utc_offset_minutes and branding_timezone_abbr
  torn,      \* history: groups a save or a backup has written in part
  task,      \* the task of every alert
  wire,      \* messages handed to the network and not arrived
  inbox,     \* messages in the order Telegram received them
  active,    \* alerts.log
  old,       \* alerts.log.1
  written,   \* history: every write in order
  crowded,   \* history: two tasks were inside alert_log::log at once
  reader,    \* alert_log::tail between its two reads
  events     \* events left

vars == <<telegram, zone, torn, task, wire, inbox, active, old, written, crowded, reader,
          events>>
settings == <<telegram, zone, torn>>
files == <<active, old, written, crowded, reader>>

Alerts == 1..MaxAlerts    \* in the order they come up
ConfigKeys == <<"enabled", "token", "chat", "thread">>
ZoneKeys == <<"offset", "abbr">>
First(keys, k) == {keys[i] : i \in 1..k}
AllOf(keys) == First(keys, Len(keys))
Levels == {"OK", "ERROR", "SKIP"}
Stages == {"idle", "load", "zone", "send", "flying", "stat", "remove", "rename",
           "open", "write", "end", "done", "lost"}
Early == {"idle", "load", "zone", "send"}
InLog == {"stat", "remove", "rename", "open", "write", "end"}
Over == {"done", "lost"}   \* lost: its log entry may be missing or cut
Piece == [alert: Alerts \cup {0}, part: Levels \cup {"end"}]

ASSUME FileAssumption == NoFile \notin Seq(Piece)

(* What earlier runs may have left in a file, or no file. *)
Earlier(n) == [i \in 1..n |-> [alert |-> 0, part |-> "OK"]]
Content(file) == IF file = NoFile THEN <<>> ELSE file
NoReader == [on |-> FALSE, first |-> <<>>, moved |-> FALSE]

NoConfig == [enabled |-> FALSE, token |-> NoText, chat |-> NoText, thread |-> NoText]
NoZone == [offset |-> NoText, abbr |-> NoText]
NewTask == [stage |-> "idle", cfg |-> NoConfig, shown |-> NoZone, level |-> "SKIP",
            file |-> "none", whole |-> TRUE]
Offsets == {z.offset : z \in Zones} \cup {OsOffset}

Texts == (UNION {{c.token, c.chat, c.thread} : c \in Configs}) \cup {NoText}
Config == [enabled: BOOLEAN, token: Texts, chat: Texts, thread: Texts]
Label == [offset: Offsets \cup {NoText}, abbr: Offsets \cup {NoText}]
Stamp == {NoZone} \cup [offset: Offsets, abbr: Offsets]
Task == [stage: Stages, cfg: Config, shown: Stamp, level: Levels,
         file: {"none", "active", "old", "gone"}, whole: BOOLEAN]

(* TimezoneSnapshot::offset_or_os and abbr_or_derived: the offset a stamp  *)
(* is shifted by, and the one its label names.                             *)
(* Mutant: a snapshot without an abbreviation gets no label.               *)
OffsetOrOs(z) == IF z.offset = NoText THEN OsOffset ELSE z.offset
AbbrOrDerived_None(z) == z.abbr
AbbrOrDerived(z) == IF z.abbr # NoText THEN z.abbr ELSE OffsetOrOs(z)

-----------------------------------------------------------------------------
Init ==
  /\ telegram \in Configs \cup {NoConfig}
  /\ zone \in Zones \cup {NoZone}
  /\ torn = {}
  /\ task = [a \in Alerts |-> NewTask]
  /\ wire = {} /\ inbox = <<>>
  /\ old \in {NoFile, Earlier(MaxSize + 1)}
  /\ active \in {NoFile} \cup {Earlier(n) : n \in 1..MaxSize + 1}
  /\ written = Content(old) \o Content(active)
  /\ crowded = FALSE
  /\ reader = NoReader
  /\ events = MaxEvents

(* What comes from outside a task, and the faults that stop it.            *)
Event == events > 0 /\ events' = events - 1

(* The given keys are replaced and the others keep their value. *)
Written(stored, given, keys) ==
  [f \in DOMAIN stored |-> IF f \in keys THEN given[f] ELSE stored[f]]

(* A group written as a whole belongs together again, and one not written  *)
(* at all is as it was.                                                    *)
Tear(t, group, all, keys) ==
  IF all \subseteq keys THEN t \ {group}
  ELSE IF all \cap keys = {} THEN t ELSE t \cup {group}

(* The first k keys of a save are written; all of them when no statement   *)
(* fails.  One lock is held over the whole save.                           *)
(* Mutant: every key takes a lock of its own, and readers come between.    *)
SaveTelegram_KeyByKey(c, k) ==
  /\ Event
  /\ telegram' = Written(telegram, c, First(ConfigKeys, k))
  /\ UNCHANGED <<torn, zone, task, wire, inbox, files>>
SaveTelegram(c, k) ==
  /\ Event
  /\ telegram' = Written(telegram, c, First(ConfigKeys, k))
  /\ torn' = Tear(torn, "telegram", AllOf(ConfigKeys), First(ConfigKeys, k))
  /\ UNCHANGED <<zone, task, wire, inbox, files>>

SyncTimezone(z, k) ==
  /\ Event
  /\ zone' = Written(zone, z, First(ZoneKeys, k))
  /\ torn' = Tear(torn, "zone", AllOf(ZoneKeys), First(ZoneKeys, k))
  /\ UNCHANGED <<telegram, task, wire, inbox, files>>

(* restore_json writes whatever settings the backup holds, in one          *)
(* transaction.                                                            *)
Restore(c, z, keys) ==
  /\ Event
  /\ telegram' = Written(telegram, c, keys)
  /\ zone' = Written(zone, z, keys)
  /\ torn' = Tear(Tear(torn, "telegram", AllOf(ConfigKeys), keys),
                  "zone", AllOf(ZoneKeys), keys)
  /\ UNCHANGED <<task, wire, inbox, files>>

-----------------------------------------------------------------------------
(* A task. *)

Goto(a, stage) == task' = [task EXCEPT ![a].stage = stage]

(* Tasks end without what they had still to do. *)
Abandon(S) == task' = [b \in Alerts |-> IF b \in S
                                        THEN [NewTask EXCEPT !.stage = "lost"]
                                        ELSE task[b]]

(* process_probe calls notify_down or notify_recovery. *)
Notify(a) ==
  /\ task[a].stage = "idle"
  /\ a > 1 => task[a - 1].stage # "idle"
  /\ Event /\ Goto(a, "load")
  /\ UNCHANGED <<settings, wire, inbox, files>>

(* A task goes to the log with a line of this level. *)
Report(a, level, t) ==
  /\ task' = [t EXCEPT ![a] = [NewTask EXCEPT !.stage = "stat", !.level = level,
                                              !.cfg.enabled = TRUE]]
  /\ crowded' = (crowded \/ \E b \in Alerts \ {a} : task[b].stage \in InLog)
  /\ UNCHANGED <<active, old, written, reader>>

(* The test endpoint sends with the settings of the request, refuses an    *)
(* empty token or chat with a line of its own, and has no stamp.           *)
Test(a, c) ==
  /\ task[a].stage = "idle"
  /\ a > 1 => task[a - 1].stage # "idle"
  /\ Event
  /\ LET t == [task EXCEPT ![a].cfg = [c EXCEPT !.enabled = TRUE],
                           ![a].whole = c.enabled]
     IN  IF c.token = NoText \/ c.chat = NoText
         THEN Report(a, "ERROR", t)
         ELSE task' = [t EXCEPT ![a].stage = "send"] /\ UNCHANGED files
  /\ UNCHANGED <<settings, wire, inbox>>

(* get_val: an error while a key is read makes its value a missing one. *)
Reading(miss) == IF miss = {} THEN UNCHANGED events ELSE Event

(* TelegramSettings::load; off means that no alert is sent and none logged. *)
Load(a, miss) ==
  /\ task[a].stage = "load"
  /\ Reading(miss)
  /\ LET cfg == Written(telegram, NoConfig, miss)
     IN  task' = [task EXCEPT ![a] =
                    IF cfg.enabled
                    THEN [@ EXCEPT !.cfg = cfg, !.stage = "zone",
                                   !.whole = "telegram" \notin torn /\ miss = {}]
                    ELSE [NewTask EXCEPT !.stage = "done"]]
  /\ UNCHANGED <<settings, wire, inbox, files>>

LoadZone(a, miss) ==
  /\ task[a].stage = "zone"
  /\ Reading(miss)
  /\ LET z == Written(zone, NoZone, miss)
     IN  task' = [task EXCEPT ![a].stage = "send",
                              ![a].whole = @ /\ "zone" \notin torn /\ miss = {},
                              ![a].shown = [offset |-> OffsetOrOs(z),
                                            abbr |-> AbbrOrDerived(z)]]
  /\ UNCHANGED <<settings, wire, inbox, files>>

(* An empty token or chat is logged; a client that cannot be built is not. *)
Send(a) ==
  /\ task[a].stage = "send"
  /\ IF task[a].cfg.token = NoText \/ task[a].cfg.chat = NoText
     THEN Report(a, "SKIP", task) /\ UNCHANGED <<wire, events>>
     ELSE /\ UNCHANGED files
          /\ \/ Goto(a, "flying") /\ wire' = wire \cup {a} /\ UNCHANGED events
             \/ Event /\ Abandon({a}) /\ UNCHANGED wire
  /\ UNCHANGED <<settings, inbox>>

(* The network delivers in any order, also after the sender gave up, or    *)
(* never.                                                                  *)
Arrive(a) ==
  /\ a \in wire
  /\ wire' = wire \ {a}
  /\ inbox' = Append(inbox, a)
  /\ UNCHANGED <<settings, task, files, events>>
Lose(a) ==
  /\ a \in wire
  /\ wire' = wire \ {a}
  /\ UNCHANGED <<settings, task, inbox, files, events>>

(* Telegram's answer, or an error or a timeout whether it arrived or not.  *)
(* There is no retry.                                                      *)
(* Mutants: an answer is not looked at; an error is retried.               *)
Answer_Unread(a) ==
  /\ task[a].stage = "flying"
  /\ Report(a, "OK", task)
  /\ UNCHANGED <<settings, wire, inbox, events>>
Answer_Retry(a) ==
  /\ task[a].stage = "flying"
  /\ \/ (\E i \in DOMAIN inbox : inbox[i] = a) /\ Report(a, "OK", task)
     \/ Goto(a, "send") /\ UNCHANGED files
  /\ UNCHANGED <<settings, wire, inbox, events>>
Answer(a) ==
  /\ task[a].stage = "flying"
  /\ \/ (\E i \in DOMAIN inbox : inbox[i] = a) /\ Report(a, "OK", task)
     \/ Report(a, "ERROR", task)
  /\ UNCHANGED <<settings, wire, inbox, events>>

(* The request a task runs in is dropped while it waits for the database   *)
(* lock or for Telegram.                                                   *)
Drop(a) ==
  /\ task[a].stage \in {"load", "zone", "flying"}
  /\ Event /\ Abandon({a})
  /\ UNCHANGED <<settings, wire, inbox, files>>

(* The process ends and starts again: every task is lost on its way, and   *)
(* what was sent, stored or written stays.                                 *)
Restart ==
  /\ Event
  /\ Abandon({a \in Alerts : task[a].stage \notin Over \cup {"idle"}})
  /\ reader' = NoReader
  /\ UNCHANGED <<settings, wire, inbox, active, old, written, crowded>>

-----------------------------------------------------------------------------
(* alert_log::log, one action per file operation.  What is written goes to *)
(* the file that was opened, wherever it has been moved meanwhile.         *)

Follow(t, from, to) ==
  [b \in Alerts |-> IF t[b].file = from THEN [t[b] EXCEPT !.file = to] ELSE t[b]]

Stat(a) ==
  /\ task[a].stage = "stat"
  /\ Goto(a, IF active # NoFile /\ Len(active) > MaxSize THEN "remove" ELSE "open")
  /\ UNCHANGED <<settings, wire, inbox, files, events>>

Remove(a) ==
  /\ task[a].stage = "remove"
  /\ old' = NoFile
  /\ task' = [Follow(task, "old", "gone") EXCEPT ![a].stage = "rename"]
  /\ UNCHANGED <<settings, wire, inbox, active, written, crowded, reader, events>>

(* rename replaces its target, and does nothing when there is no source.   *)
(* Mutant: the log is deleted instead of moved.                            *)
Rename_Delete(a) ==
  /\ task[a].stage = "rename"
  /\ active' = NoFile
  /\ task' = [Follow(task, "active", "gone") EXCEPT ![a].stage = "open"]
  /\ UNCHANGED <<settings, wire, inbox, old, written, crowded, reader, events>>
Rename(a) ==
  /\ task[a].stage = "rename"
  /\ IF active = NoFile
     THEN Goto(a, "open") /\ UNCHANGED <<active, old, reader>>
     ELSE /\ old' = active /\ active' = NoFile
          /\ task' = [Follow(Follow(task, "old", "gone"), "active", "old")
                        EXCEPT ![a].stage = "open"]
          /\ reader' = [reader EXCEPT !.moved = TRUE]
  /\ UNCHANGED <<settings, wire, inbox, written, crowded, events>>

Open(a) ==
  /\ task[a].stage = "open"
  /\ active' = IF active = NoFile THEN <<>> ELSE active
  /\ task' = [task EXCEPT ![a].stage = "write", ![a].file = "active"]
  /\ UNCHANGED <<settings, wire, inbox, old, written, crowded, reader, events>>

(* One write of a line, to the file the task has open. *)
Put(a, part) ==
  LET piece == [alert |-> a, part |-> part]
  IN  /\ active' = IF task[a].file = "active" THEN Append(active, piece) ELSE active
      /\ old' = IF task[a].file = "old" THEN Append(old, piece) ELSE old
      /\ written' = Append(written, piece)
      /\ UNCHANGED <<settings, wire, inbox, crowded, reader, events>>

Write(a) ==
  /\ task[a].stage = "write"
  /\ Put(a, task[a].level)
  /\ Goto(a, "end")
WriteEnd(a) ==
  /\ task[a].stage = "end"
  /\ Put(a, "end")
  /\ task' = [task EXCEPT ![a].stage = "done", ![a].file = "none"]

(* A file operation that fails: without a size the log is not rotated, a   *)
(* failed removal or renaming is ignored, and after a failed opening or    *)
(* writing the rest of the line is left out.                               *)
FileFails(a) ==
  /\ Event
  /\ \/ task[a].stage \in {"stat", "rename"} /\ Goto(a, "open")
     \/ task[a].stage = "remove" /\ Goto(a, "rename")
     \/ task[a].stage \in {"open", "write", "end"} /\ Abandon({a})
  /\ UNCHANGED <<settings, wire, inbox, files>>

(* alert_log::tail reads the rotated file and then the active one, with no *)
(* lock, and shows the last n of what it read.                             *)
TailOld ==
  /\ ~reader.on /\ Event
  /\ reader' = [on |-> TRUE, first |-> Content(old), moved |-> FALSE]
  /\ UNCHANGED <<settings, task, wire, inbox, active, old, written, crowded>>
TailActive ==
  /\ reader.on
  /\ reader' = NoReader
  /\ UNCHANGED <<settings, task, wire, inbox, active, old, written, crowded, events>>
Shown(first, n) == LET all == first \o Content(active)
                   IN  IF Len(all) > n THEN SubSeq(all, Len(all) - n + 1, Len(all)) ELSE all

TaskStep(a) ==
  \/ \E miss \in SUBSET AllOf(ConfigKeys) : Load(a, miss)
  \/ \E miss \in SUBSET AllOf(ZoneKeys) : LoadZone(a, miss)
  \/ Send(a) \/ Answer(a) \/ Drop(a)
  \/ Stat(a) \/ Remove(a) \/ Rename(a) \/ Open(a) \/ Write(a) \/ WriteEnd(a) \/ FileFails(a)

Saving ==
  \/ \E c \in Configs, k \in 0..Len(ConfigKeys) : SaveTelegram(c, k)
  \/ \E z \in Zones, k \in 0..Len(ZoneKeys) : SyncTimezone(z, k)
  \/ \E c \in Configs, z \in Zones, keys \in Restored : Restore(c, z, keys)

Next ==
  \/ Saving
  \/ \E a \in Alerts : Notify(a) \/ Arrive(a) \/ Lose(a) \/ TaskStep(a)
  \/ \E a \in Alerts, c \in Configs : Test(a, c)
  \/ Restart \/ TailOld \/ TailActive

Spec == Init /\ [][Next]_vars

-----------------------------------------------------------------------------
(* Properties. *)

(* The variables have their types. *)
TypeOK ==
  /\ telegram \in Config /\ zone \in Label
  /\ torn \subseteq {"telegram", "zone"} /\ crowded \in BOOLEAN
  /\ task \in [Alerts -> Task]
  /\ wire \subseteq Alerts
  /\ inbox \in Seq(Alerts)
  /\ active = NoFile \/ active \in Seq(Piece)
  /\ old = NoFile \/ old \in Seq(Piece)
  /\ written \in Seq(Piece)
  /\ reader \in [on: BOOLEAN, first: Seq(Piece), moved: BOOLEAN]
  /\ events \in 0..MaxEvents
  /\ \A a \in Alerts : task[a].file = "active" => active # NoFile
  /\ \A a \in Alerts : task[a].file = "old" => old # NoFile

(* The log never lies, and is silent only for a reason.  An alert has at   *)
(* most one entry in it, which says OK only if Telegram got the message    *)
(* and SKIP only if it did not and will not; Telegram gets it at most      *)
(* once, whatever is lost, late or timed out.  A task that was attempted   *)
(* and ran through has its entry, text and end.  Logging is best-effort:   *)
(* none, or one without its end, may be there if the client could not be   *)
(* built, the file not be opened or written, or the task was lost with its *)
(* request or the process.                                                 *)
LogTruthful ==
  \A a \in Alerts :
    LET heads == {i \in DOMAIN written : written[i].alert = a /\ written[i].part # "end"}
        ends == {i \in DOMAIN written : written[i].alert = a /\ written[i].part = "end"}
        copies == {i \in DOMAIN inbox : inbox[i] = a}
    IN  /\ Cardinality(ends) <= Cardinality(heads) /\ Cardinality(heads) <= 1
        /\ task[a].stage = "done" =>
             Cardinality(ends) = IF task[a].cfg.enabled THEN 1 ELSE 0
        /\ Cardinality(copies) <= 1
        /\ \A i \in heads : written[i].part = "OK" => copies # {}
        /\ \A i \in heads : written[i].part = "SKIP" => copies = {} /\ a \notin wire

(* A message goes out with settings that belong together: enabled flag,    *)
(* token, chat and topic of one save, and a label that names the zone its  *)
(* stamp is in, although they are stored key by key and read while others  *)
(* save.  What breaks this is a save that failed half-way, a backup that   *)
(* held only some of the keys, until the group is next written as a whole, *)
(* and a key whose own reading failed; nothing else does.                  *)
SettingsBelongTogether ==
  \A a \in Alerts : task[a].stage = "flying" /\ task[a].whole =>
    /\ task[a].cfg \in Configs
    /\ task[a].shown.abbr = task[a].shown.offset

(* Rotation keeps the end of the log.  As long as no two tasks log at the  *)
(* same time, the last writes, up to one full file of them, can be read at *)
(* every moment, also while the log is rotated and when operations on it   *)
(* fail; a reader between its two reads will still see them unless the log *)
(* was moved in between; and the end of a line stands behind its text.     *)
TailComplete ==
  ~crowded =>
    LET n == IF Len(written) < MaxSize + 1 THEN Len(written) ELSE MaxSize + 1
        last == SubSeq(written, Len(written) - n + 1, Len(written))
    IN  /\ Shown(Content(old), n) = last
        /\ reader.on /\ ~reader.moved => Shown(reader.first, n) = last
        /\ \A i \in DOMAIN written : written[i].part = "end" =>
             /\ i > 1
             /\ written[i - 1].alert = written[i].alert /\ written[i - 1].part # "end"

(* What has become of an alert, whatever its task is doing about it.       *)
FateOf(t) == CASE t.stage \in Early -> "waiting"
               [] t.stage = "flying" -> "trying"
               [] t.stage = "end" -> "begun"
               [] t.stage \in InLog \ {"end"} -> t.level
               [] t.stage \in Over -> "through"
Fate == [a \in Alerts |-> FateOf(task[a])]
Promise == INSTANCE DeliveryPromise WITH
  fate <- Fate, transit <- wire, received <- inbox, log <- written

(* Whatever is saved, lost, timed out, rotated or restarted meanwhile,     *)
(* every alert is handed to Telegram at most once, is called OK only after *)
(* it arrived, and gets no other entry than the one its verdict calls for: *)
(* notify_down, notify_recovery, send_message and alert_log::log keep the  *)
(* promise.                                                                *)
DeliveryImplemented == Promise!Spec

=============================================================================
