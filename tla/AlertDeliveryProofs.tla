------------------------- MODULE AlertDeliveryProofs -------------------------
(* Theorems about AlertDelivery for every value of its constants: any       *)
(* number of alerts, settings, zones and events, and any size of the log.   *)
EXTENDS AlertDelivery, FiniteSetTheorems, SequenceTheorems, TLAPS

-----------------------------------------------------------------------------
(* Type correctness. *)

LEMMA ConstantsTyped ==
  /\ Configs \subseteq Config /\ NoConfig \in Config
  /\ Zones \subseteq Label /\ NoZone \in Label
  /\ NewTask \in Task
  /\ MaxSize \in Nat /\ MaxEvents \in Nat /\ Alerts \subseteq Nat
<1>1. NoConfig \in Config
  <2>1. NoText \in Texts
    BY DEF Texts
  <2> QED BY <2>1 DEF NoConfig, Config
<1>2. NoZone \in Label
  BY DEF NoZone, Label
<1>3. ASSUME NEW c \in Configs PROVE c \in Config
  <2>1. c = [enabled |-> c.enabled, token |-> c.token, chat |-> c.chat, thread |-> c.thread]
        /\ c.enabled \in BOOLEAN
    BY DeliveryAssumption
  <2>2. c.token \in Texts /\ c.chat \in Texts /\ c.thread \in Texts
    BY DEF Texts
  <2>3. [enabled |-> c.enabled, token |-> c.token, chat |-> c.chat, thread |-> c.thread]
          \in Config
    BY <2>1, <2>2 DEF Config
  <2> QED BY <2>1, <2>3
<1>4. ASSUME NEW z \in Zones PROVE z \in Label
  <2>1. z = [offset |-> z.offset, abbr |-> z.abbr] /\ z.abbr \in {z.offset, NoText}
    BY DeliveryAssumption
  <2>2. z.offset \in Offsets
    BY DEF Offsets
  <2>3. [offset |-> z.offset, abbr |-> z.abbr] \in Label
    BY <2>1, <2>2 DEF Label
  <2> QED BY <2>1, <2>3
<1>5. NewTask \in Task
  BY <1>1, <1>2 DEF NewTask, Task, Stages, Levels, Stamp
<1> QED BY <1>1, <1>2, <1>3, <1>4, <1>5, DeliveryAssumption DEF Alerts

LEMMA TaskFields ==
  ASSUME NEW t \in Task
  PROVE  /\ t.stage \in Stages /\ t.cfg \in Config /\ t.shown \in Stamp /\ t.level \in Levels
         /\ t.file \in {"none", "active", "old", "gone"} /\ t.whole \in BOOLEAN
         /\ t.cfg.enabled \in BOOLEAN
  BY DEF Task, Config

LEMMA NewTaskFields ==
  /\ NewTask.stage = "idle" /\ NewTask.cfg = NoConfig /\ NewTask.shown = NoZone
  /\ NewTask.file = "none" /\ NewTask.whole = TRUE
  BY DEF NewTask

(* What the actions do to the tasks. *)
Others(a) == \A b \in Alerts : b # a => task'[b] = task[b]
SameFields(s, t) == s.cfg = t.cfg /\ s.shown = t.shown /\ s.level = t.level /\ s.whole = t.whole

LEMMA GotoIs ==
  ASSUME task \in [Alerts -> Task], NEW a \in Alerts, NEW stage \in Stages, Goto(a, stage)
  PROVE  /\ task' \in [Alerts -> Task] /\ Others(a)
         /\ SameFields(task'[a], task[a]) /\ task'[a].stage = stage
         /\ task'[a].file = task[a].file
<1> DEFINE t == [task[a] EXCEPT !.stage = stage]
<1>1. t \in Task /\ t.stage = stage /\ SameFields(t, task[a]) /\ t.file = task[a].file
  BY DEF Task, SameFields
<1>2. task' = [task EXCEPT ![a] = t]
  BY DEF Goto
<1> HIDE DEF t
<1> QED BY <1>1, <1>2 DEF Others

LEMMA ReportIs ==
  ASSUME NEW t \in [Alerts -> Task], task \in [Alerts -> Task], NEW a \in Alerts,
         \A b \in Alerts : b # a => t[b] = task[b],
         NEW level \in Levels, Report(a, level, t)
  PROVE  /\ task' \in [Alerts -> Task] /\ Others(a)
         /\ task'[a].stage = "stat" /\ task'[a].level = level
         /\ task'[a].cfg.enabled = TRUE /\ task'[a].file = "none"
         /\ crowded' = (crowded \/ \E b \in Alerts \ {a} : task[b].stage \in InLog)
         /\ active' = active /\ old' = old /\ written' = written /\ reader' = reader
<1> DEFINE n == [NewTask EXCEPT !.stage = "stat", !.level = level, !.cfg.enabled = TRUE]
           c == [NoConfig EXCEPT !.enabled = TRUE]
<1>1. c \in Config /\ c.enabled = TRUE
  BY ConstantsTyped DEF Config
<1>2. n = [NewTask EXCEPT !.stage = "stat", !.level = level, !.cfg = c]
  BY NewTaskFields
<1> HIDE DEF c
<1>3. n \in Task /\ n.stage = "stat" /\ n.level = level /\ n.cfg = c /\ n.file = "none"
  BY <1>1, <1>2, ConstantsTyped, NewTaskFields DEF Task, Stages
<1>4. task' = [t EXCEPT ![a] = n]
  BY DEF Report
<1> HIDE DEF n
<1>5. task' \in [Alerts -> Task] /\ Others(a) /\ task'[a] = n
  BY <1>3, <1>4 DEF Others
<1> QED BY <1>1, <1>3, <1>5 DEF Report

(* What is written in part is made of what was stored and what was given. *)
LEMMA WrittenTyped ==
  ASSUME NEW keys
  PROVE  /\ \A s, c \in Config : Written(s, c, keys) \in Config
         /\ \A s, z \in Label : Written(s, z, keys) \in Label
<1>1. ASSUME NEW s \in Config, NEW c \in Config PROVE Written(s, c, keys) \in Config
  <2>1. DOMAIN s = {"enabled", "token", "chat", "thread"}
    BY DEF Config
  <2> DEFINE w == Written(s, c, keys)
  <2>2. w = [f \in {"enabled", "token", "chat", "thread"} |-> w[f]]
    BY <2>1 DEF Written
  <2>3. \A f \in {"enabled", "token", "chat", "thread"} : w[f] \in {s[f], c[f]}
    BY <2>1 DEF Written
  <2> HIDE DEF w
  <2>4. w = [enabled |-> w.enabled, token |-> w.token, chat |-> w.chat, thread |-> w.thread]
    BY <2>2
  <2>5. w.enabled \in BOOLEAN /\ w.token \in Texts /\ w.chat \in Texts /\ w.thread \in Texts
    BY <2>3 DEF Config
  <2>6. w \in Config
    BY <2>4, <2>5 DEF Config
  <2> QED BY <2>6 DEF w
<1>2. ASSUME NEW s \in Label, NEW z \in Label PROVE Written(s, z, keys) \in Label
  <2>1. DOMAIN s = {"offset", "abbr"}
    BY DEF Label
  <2> DEFINE w == Written(s, z, keys)
  <2>2. w = [f \in {"offset", "abbr"} |-> w[f]]
    BY <2>1 DEF Written
  <2>3. \A f \in {"offset", "abbr"} : w[f] \in {s[f], z[f]}
    BY <2>1 DEF Written
  <2> HIDE DEF w
  <2>4. w = [offset |-> w.offset, abbr |-> w.abbr]
    BY <2>2
  <2>5. w.offset \in Offsets \cup {NoText} /\ w.abbr \in Offsets \cup {NoText}
    BY <2>3 DEF Label
  <2>6. w \in Label
    BY <2>4, <2>5 DEF Label
  <2> QED BY <2>6 DEF w
<1> QED BY <1>1, <1>2

(* Loading with some keys unread; what is off ends the task. *)
LEMMA LoadIs ==
  ASSUME task \in [Alerts -> Task], telegram \in Config, NEW a \in Alerts, NEW miss,
         Load(a, miss)
  PROVE  LET cfg == Written(telegram, NoConfig, miss)
         IN  /\ task' \in [Alerts -> Task] /\ Others(a)
             /\ cfg.enabled => /\ task'[a].stage = "zone" /\ task'[a].cfg = cfg
                               /\ task'[a].whole = ("telegram" \notin torn /\ miss = {})
                               /\ task'[a].shown = task[a].shown
                               /\ task'[a].file = task[a].file
             /\ ~cfg.enabled => /\ task'[a].stage = "done" /\ task'[a].file = "none"
                                /\ task'[a].cfg.enabled = FALSE
<1> DEFINE cfg == Written(telegram, NoConfig, miss)
           whole == "telegram" \notin torn /\ miss = {}
           on == [task[a] EXCEPT !.cfg = cfg, !.stage = "zone", !.whole = whole]
           off == [NewTask EXCEPT !.stage = "done"]
<1>1. cfg \in Config /\ whole \in BOOLEAN
  BY ConstantsTyped, WrittenTyped
<1>2. task' = [task EXCEPT ![a] = IF cfg.enabled THEN on ELSE off]
  BY DEF Load
<1> HIDE DEF cfg, whole
<1>3. /\ on \in Task /\ on.stage = "zone" /\ on.cfg = cfg /\ on.whole = whole
      /\ on.shown = task[a].shown /\ on.file = task[a].file
  BY <1>1 DEF Task, Stages
<1>4. off \in Task /\ off.stage = "done" /\ off.file = "none" /\ off.cfg.enabled = FALSE
  BY ConstantsTyped, NewTaskFields DEF Task, Stages, NoConfig
<1> HIDE DEF on, off
<1>5. /\ task' \in [Alerts -> Task] /\ Others(a)
      /\ cfg.enabled => task'[a] = on
      /\ ~cfg.enabled => task'[a] = off
  BY <1>2, <1>3, <1>4 DEF Others
<1> QED BY <1>3, <1>4, <1>5 DEF cfg, whole

LEMMA LoadZoneIs ==
  ASSUME task \in [Alerts -> Task], zone \in Label, NEW a \in Alerts, NEW miss,
         LoadZone(a, miss)
  PROVE  LET z == Written(zone, NoZone, miss)
         IN  /\ task' \in [Alerts -> Task] /\ Others(a)
             /\ task'[a].stage = "send" /\ task'[a].cfg = task[a].cfg
             /\ task'[a].whole = (task[a].whole /\ "zone" \notin torn /\ miss = {})
             /\ task'[a].shown.offset = OffsetOrOs(z)
             /\ task'[a].shown.abbr = AbbrOrDerived(z)
             /\ task'[a].file = task[a].file
<1> DEFINE z == Written(zone, NoZone, miss)
           whole == task[a].whole /\ "zone" \notin torn /\ miss = {}
           shown == [offset |-> OffsetOrOs(z), abbr |-> AbbrOrDerived(z)]
           t == [task[a] EXCEPT !.stage = "send", !.whole = whole, !.shown = shown]
<1>1. whole \in BOOLEAN /\ z \in Label
  BY ConstantsTyped, WrittenTyped
<1>2. task' = [task EXCEPT ![a] = t]
  BY DEF LoadZone
<1> HIDE DEF z
<1>3. OffsetOrOs(z) \in Offsets /\ AbbrOrDerived(z) \in Offsets
  BY <1>1 DEF OffsetOrOs, AbbrOrDerived, Offsets, Label
<1>4. shown \in Stamp /\ shown.offset = OffsetOrOs(z) /\ shown.abbr = AbbrOrDerived(z)
  BY <1>3 DEF Stamp
<1> HIDE DEF whole, shown
<1>5. /\ t \in Task /\ t.stage = "send" /\ t.cfg = task[a].cfg /\ t.whole = whole
      /\ t.shown = shown /\ t.file = task[a].file
  BY <1>1, <1>4 DEF Task, Stages
<1> HIDE DEF t
<1>6. task' \in [Alerts -> Task] /\ Others(a) /\ task'[a] = t
  BY <1>2, <1>5 DEF Others
<1> QED BY <1>4, <1>5, <1>6 DEF whole, z

(* Abandoned tasks keep nothing. *)
LEMMA AbandonIs ==
  ASSUME task \in [Alerts -> Task], NEW S, Abandon(S)
  PROVE  /\ task' \in [Alerts -> Task]
         /\ \A b \in Alerts : IF b \in S
                              THEN task'[b].stage = "lost" /\ task'[b].file = "none"
                              ELSE task'[b] = task[b]
<1> DEFINE lost == [NewTask EXCEPT !.stage = "lost"]
<1>1. lost \in Task /\ lost.stage = "lost" /\ lost.file = "none"
  BY ConstantsTyped, NewTaskFields DEF Task, Stages
<1>2. task' = [b \in Alerts |-> IF b \in S THEN lost ELSE task[b]]
  BY DEF Abandon
<1> HIDE DEF lost
<1> QED BY <1>1, <1>2

(* A test either is refused, with a line of its own, or is sent. *)
LEMMA TestIs ==
  ASSUME task \in [Alerts -> Task], NEW a \in Alerts, NEW c \in Configs, Test(a, c)
  PROVE  /\ task' \in [Alerts -> Task] /\ Others(a)
         /\ task'[a].cfg.enabled = TRUE
         /\ active' = active /\ old' = old /\ written' = written /\ reader' = reader
         /\ \/ /\ task'[a].stage = "send" /\ task'[a].shown = task[a].shown
               /\ task'[a].whole => task'[a].cfg = c
               /\ task'[a].file = task[a].file /\ crowded' = crowded
            \/ /\ task'[a].stage = "stat" /\ task'[a].level = "ERROR"
               /\ task'[a].file = "none"
               /\ crowded' = (crowded \/ \E b \in Alerts \ {a} : task[b].stage \in InLog)
<1> DEFINE on == [c EXCEPT !.enabled = TRUE]
           t1 == [task[a] EXCEPT !.cfg = on, !.whole = c.enabled]
           t == [task EXCEPT ![a].cfg = on, ![a].whole = c.enabled]
<1>1. c \in Config /\ c.enabled \in BOOLEAN
  BY ConstantsTyped, DeliveryAssumption
<1>2. on \in Config /\ on.enabled = TRUE /\ (c.enabled => on = c)
  BY <1>1 DEF Config
<1>3. t = [task EXCEPT ![a] = t1]
  OBVIOUS
<1> HIDE DEF on
<1>4. /\ t1 \in Task /\ t1.cfg = on /\ t1.whole = c.enabled
      /\ t1.shown = task[a].shown /\ t1.file = task[a].file
  BY <1>1, <1>2 DEF Task
<1> HIDE DEF t1
<1>5. t \in [Alerts -> Task] /\ t[a] = t1 /\ \A b \in Alerts : b # a => t[b] = task[b]
  BY <1>3, <1>4
<1>6. CASE c.token = NoText \/ c.chat = NoText
  <2>1. Report(a, "ERROR", t)
    BY <1>6 DEF Test, on
  <2>2. "ERROR" \in Levels
    BY DEF Levels
  <2> HIDE DEF t
  <2> QED BY <1>5, <2>1, <2>2, ReportIs
<1>7. CASE ~(c.token = NoText \/ c.chat = NoText)
  <2>1. task' = [t EXCEPT ![a].stage = "send"] /\ files' = files
    BY <1>7 DEF Test, on
  <2> DEFINE t2 == [t1 EXCEPT !.stage = "send"]
  <2>2. /\ t2 \in Task /\ t2.stage = "send" /\ t2.cfg = on /\ t2.whole = c.enabled
        /\ t2.shown = task[a].shown /\ t2.file = task[a].file
    BY <1>4 DEF Task, Stages
  <2> HIDE DEF t
  <2>3. task' = [t EXCEPT ![a] = t2]
    BY <1>5, <2>1
  <2> HIDE DEF t2
  <2>4. task' \in [Alerts -> Task] /\ Others(a) /\ task'[a] = t2
    BY <1>5, <2>2, <2>3 DEF Others
  <2>5. task'[a].whole => task'[a].cfg = c
    BY <1>2, <2>2, <2>4
  <2> QED BY <1>2, <2>1, <2>2, <2>4, <2>5 DEF files
<1> QED BY <1>6, <1>7

LEMMA FollowIs ==
  ASSUME NEW t \in [Alerts -> Task], NEW from, NEW to \in {"old", "gone"}
  PROVE  /\ Follow(t, from, to) \in [Alerts -> Task]
         /\ \A b \in Alerts :
              /\ Follow(t, from, to)[b].stage = t[b].stage
              /\ SameFields(Follow(t, from, to)[b], t[b])
              /\ Follow(t, from, to)[b].file = IF t[b].file = from THEN to ELSE t[b].file
<1>1. ASSUME NEW b \in Alerts
      PROVE  LET u == [t[b] EXCEPT !.file = to]
             IN  u \in Task /\ u.stage = t[b].stage /\ SameFields(u, t[b]) /\ u.file = to
  BY DEF Task, SameFields
<1>2. \A b \in Alerts : Follow(t, from, to)[b] = IF t[b].file = from
                                                THEN [t[b] EXCEPT !.file = to] ELSE t[b]
  BY DEF Follow
<1>3. \A b \in Alerts : Follow(t, from, to)[b] \in Task
  BY <1>1, <1>2
<1>4. Follow(t, from, to) \in [Alerts -> Task]
  BY <1>2, <1>3 DEF Follow
<1>5. \A b \in Alerts : SameFields(t[b], t[b])
  BY DEF SameFields
<1> QED BY <1>1, <1>2, <1>4, <1>5

LEMMA RemoveIs ==
  ASSUME task \in [Alerts -> Task], NEW a \in Alerts, Remove(a)
  PROVE  /\ task' \in [Alerts -> Task] /\ task'[a].stage = "rename"
         /\ \A b \in Alerts :
              /\ b # a => task'[b].stage = task[b].stage
              /\ SameFields(task'[b], task[b])
              /\ task'[b].file = IF task[b].file = "old" THEN "gone" ELSE task[b].file
<1> DEFINE t == Follow(task, "old", "gone")
           n == [t[a] EXCEPT !.stage = "rename"]
<1>1. t \in [Alerts -> Task]
      /\ \A b \in Alerts : /\ t[b].stage = task[b].stage /\ SameFields(t[b], task[b])
                           /\ t[b].file = IF task[b].file = "old" THEN "gone" ELSE task[b].file
  BY FollowIs
<1>2. task' = [t EXCEPT ![a] = n]
  BY <1>1 DEF Remove
<1> HIDE DEF t
<1>3. n \in Task /\ n.stage = "rename" /\ SameFields(n, t[a]) /\ n.file = t[a].file
  BY <1>1 DEF Task, Stages, SameFields
<1> HIDE DEF n
<1>4. task' \in [Alerts -> Task] /\ task'[a] = n /\ \A b \in Alerts : b # a => task'[b] = t[b]
  BY <1>1, <1>2, <1>3
<1>5. SameFields(n, task[a])
  BY <1>1, <1>3 DEF SameFields
<1> QED BY <1>1, <1>3, <1>4, <1>5

LEMMA RenameIs ==
  ASSUME task \in [Alerts -> Task], NEW a \in Alerts, Rename(a)
  PROVE  /\ task' \in [Alerts -> Task] /\ task'[a].stage = "open"
         /\ \A b \in Alerts :
              /\ b # a => task'[b].stage = task[b].stage
              /\ SameFields(task'[b], task[b])
              /\ task'[b].file = IF active = NoFile THEN task[b].file
                                 ELSE IF task[b].file = "old" THEN "gone"
                                 ELSE IF task[b].file = "active" THEN "old"
                                 ELSE task[b].file
<1>1. CASE active = NoFile
  <2>1. Goto(a, "open") /\ "open" \in Stages
    BY <1>1 DEF Rename, Stages
  <2>2. \A b \in Alerts : SameFields(task[b], task[b])
    BY DEF SameFields
  <2> QED BY <1>1, <2>1, <2>2, GotoIs DEF Others
<1>2. CASE active # NoFile
  <2> DEFINE s == Follow(task, "old", "gone")
             t == Follow(s, "active", "old")
             n == [t[a] EXCEPT !.stage = "open"]
  <2>1. s \in [Alerts -> Task]
        /\ \A b \in Alerts : /\ s[b].stage = task[b].stage /\ SameFields(s[b], task[b])
                             /\ s[b].file = IF task[b].file = "old" THEN "gone" ELSE task[b].file
    BY FollowIs
  <2> HIDE DEF s
  <2>2. t \in [Alerts -> Task]
        /\ \A b \in Alerts : /\ t[b].stage = s[b].stage /\ SameFields(t[b], s[b])
                             /\ t[b].file = IF s[b].file = "active" THEN "old" ELSE s[b].file
    BY <2>1, FollowIs
  <2>3. task' = [t EXCEPT ![a] = n]
    BY <1>2, <2>2 DEF Rename, s
  <2> HIDE DEF t
  <2>4. n \in Task /\ n.stage = "open" /\ SameFields(n, t[a]) /\ n.file = t[a].file
    BY <2>2 DEF Task, Stages, SameFields
  <2> HIDE DEF n
  <2>5. task' \in [Alerts -> Task] /\ task'[a] = n /\ \A b \in Alerts : b # a => task'[b] = t[b]
    BY <2>2, <2>3, <2>4
  <2>6. \A b \in Alerts : SameFields(task'[b], task[b])
    BY <2>1, <2>2, <2>4, <2>5 DEF SameFields
  <2>7. ASSUME NEW b \in Alerts
        PROVE  task'[b].file = IF task[b].file = "old" THEN "gone"
                               ELSE IF task[b].file = "active" THEN "old" ELSE task[b].file
    BY <2>1, <2>2, <2>4, <2>5
  <2> QED BY <1>2, <2>1, <2>2, <2>4, <2>5, <2>6, <2>7
<1> QED BY <1>1, <1>2

LEMMA OpenIs ==
  ASSUME task \in [Alerts -> Task], NEW a \in Alerts, Open(a)
  PROVE  /\ task' \in [Alerts -> Task] /\ Others(a)
         /\ SameFields(task'[a], task[a]) /\ task'[a].stage = "write"
         /\ task'[a].file = "active"
<1> DEFINE t == [task[a] EXCEPT !.stage = "write", !.file = "active"]
<1>1. t \in Task /\ t.stage = "write" /\ SameFields(t, task[a]) /\ t.file = "active"
  BY DEF Task, Stages, SameFields
<1>2. task' = [task EXCEPT ![a] = t]
  BY DEF Open
<1> HIDE DEF t
<1> QED BY <1>1, <1>2 DEF Others

LEMMA WriteIs ==
  ASSUME task \in [Alerts -> Task], NEW a \in Alerts, Write(a) \/ WriteEnd(a)
  PROVE  /\ task' \in [Alerts -> Task] /\ Others(a) /\ SameFields(task'[a], task[a])
         /\ Write(a) => task'[a].stage = "end" /\ task'[a].file = task[a].file
         /\ WriteEnd(a) => task'[a].stage = "done" /\ task'[a].file = "none"
<1>1. ASSUME Write(a)
      PROVE  /\ task' \in [Alerts -> Task] /\ Others(a) /\ SameFields(task'[a], task[a])
             /\ task'[a].stage = "end" /\ task'[a].file = task[a].file
  <2>1. Goto(a, "end") /\ "end" \in Stages
    BY <1>1 DEF Write, Stages
  <2> QED BY <2>1, GotoIs
<1>2. ASSUME WriteEnd(a)
      PROVE  /\ task' \in [Alerts -> Task] /\ Others(a) /\ SameFields(task'[a], task[a])
             /\ task'[a].stage = "done" /\ task'[a].file = "none"
  <2> DEFINE t == [task[a] EXCEPT !.stage = "done", !.file = "none"]
  <2>1. t \in Task /\ t.stage = "done" /\ SameFields(t, task[a]) /\ t.file = "none"
    BY DEF Task, Stages, SameFields
  <2>2. task' = [task EXCEPT ![a] = t]
    BY <1>2 DEF WriteEnd
  <2> HIDE DEF t
  <2> QED BY <2>1, <2>2 DEF Others
<1> QED BY <1>1, <1>2

(* What is put into a file is a piece of the task's line. *)
PieceOf(a) == [alert |-> a, part |-> IF task[a].stage = "end" THEN "end" ELSE task[a].level]

LEMMA PutIs ==
  ASSUME task \in [Alerts -> Task], NEW a \in Alerts, Write(a) \/ WriteEnd(a)
  PROVE  /\ PieceOf(a) \in Piece /\ Put(a, PieceOf(a).part)
         /\ PieceOf(a).alert = a
         /\ Write(a) => task[a].stage = "write" /\ PieceOf(a).part = task[a].level
         /\ WriteEnd(a) => task[a].stage = "end" /\ PieceOf(a).part = "end"
         /\ active' = IF task[a].file = "active" THEN Append(active, PieceOf(a)) ELSE active
         /\ old' = IF task[a].file = "old" THEN Append(old, PieceOf(a)) ELSE old
         /\ written' = Append(written, PieceOf(a))
         /\ UNCHANGED <<settings, wire, inbox, crowded, reader, events>>
<1>1. PieceOf(a) \in Piece
  BY TaskFields DEF PieceOf, Piece
<1>2. /\ Put(a, PieceOf(a).part) /\ PieceOf(a).alert = a
      /\ Write(a) => task[a].stage = "write" /\ PieceOf(a).part = task[a].level
      /\ WriteEnd(a) => task[a].stage = "end" /\ PieceOf(a).part = "end"
  BY DEF PieceOf, Write, WriteEnd
<1>3. [alert |-> a, part |-> PieceOf(a).part] = PieceOf(a)
  BY DEF PieceOf
<1> QED BY <1>1, <1>2, <1>3 DEF Put

(* The steps that take nothing from the task but its stage: file           *)
(* operations that fail and are passed over.                               *)
LEMMA FileFailsIs ==
  ASSUME task \in [Alerts -> Task], NEW a \in Alerts, FileFails(a)
  PROVE  /\ UNCHANGED <<settings, wire, inbox, files>> /\ Event
         /\ \/ /\ task[a].stage \in {"stat", "remove", "rename"}
               /\ task' \in [Alerts -> Task] /\ Others(a) /\ SameFields(task'[a], task[a])
               /\ task'[a].stage \in {"rename", "open"} /\ task'[a].file = task[a].file
               /\ task'[a].stage = "rename" => task[a].stage = "remove"
            \/ task[a].stage \in {"open", "write", "end"} /\ Abandon({a})
<1>1. "open" \in Stages /\ "rename" \in Stages
  BY DEF Stages
<1>2. CASE task[a].stage \in {"stat", "rename"} /\ Goto(a, "open")
  BY <1>1, <1>2, GotoIs DEF FileFails
<1>3. CASE task[a].stage = "remove" /\ Goto(a, "rename")
  BY <1>1, <1>3, GotoIs DEF FileFails
<1> QED BY <1>2, <1>3 DEF FileFails

LEMMA EarlierTyped ==
  ASSUME NEW n \in Nat
  PROVE  Earlier(n) \in Seq(Piece) /\ Len(Earlier(n)) = n
  BY DEF Earlier, Piece, Levels

LEMMA ContentTyped ==
  ASSUME NEW file, file = NoFile \/ file \in Seq(Piece)
  PROVE  Content(file) \in Seq(Piece)
  BY DEF Content

LEMMA NoFileIs == \A s \in Seq(Piece) : s # NoFile
  BY Zenon, FileAssumption

LEMMA NoReaderTyped == NoReader \in [on: BOOLEAN, first: Seq(Piece), moved: BOOLEAN]
  BY EmptySeq DEF NoReader

LEMMA EventTyped == events \in 0..MaxEvents /\ Event => events' \in 0..MaxEvents
  BY ConstantsTyped DEF Event

LEMMA InitTyped == Init => TypeOK
<1> SUFFICES ASSUME Init PROVE TypeOK
    OBVIOUS
<1>1. old = NoFile \/ old \in Seq(Piece)
  <2>1. MaxSize + 1 \in Nat
    BY ConstantsTyped
  <2> QED BY <2>1, EarlierTyped DEF Init
<1>2. active = NoFile \/ active \in Seq(Piece)
  BY EarlierTyped, ConstantsTyped DEF Init
<1>3. written \in Seq(Piece)
  BY <1>1, <1>2, ContentTyped DEF Init
<1>4. task \in [Alerts -> Task] /\ \A a \in Alerts : task[a].file = "none"
  BY ConstantsTyped, NewTaskFields DEF Init
<1>5. inbox \in Seq(Alerts) /\ wire \subseteq Alerts
  BY DEF Init
<1>6. telegram \in Config /\ zone \in Label /\ events \in 0..MaxEvents
  BY ConstantsTyped DEF Init
<1>7. torn \subseteq {"telegram", "zone"} /\ crowded \in BOOLEAN
      /\ reader \in [on: BOOLEAN, first: Seq(Piece), moved: BOOLEAN]
  BY NoReaderTyped DEF Init
<1> QED BY <1>1, <1>2, <1>3, <1>4, <1>5, <1>6, <1>7 DEF TypeOK

LEMMA SaveTyped ==
  ASSUME TypeOK, Saving
  PROVE  TypeOK'
<1>1. events' \in 0..MaxEvents
  BY EventTyped DEF TypeOK, Saving, SaveTelegram, SyncTimezone, Restore
<1>2. \A t, all, keys : \A g \in {"telegram", "zone"} :
        t \subseteq {"telegram", "zone"} => Tear(t, g, all, keys) \subseteq {"telegram", "zone"}
  BY DEF Tear
<1>3. torn \subseteq {"telegram", "zone"} /\ telegram \in Config /\ zone \in Label
  BY DEF TypeOK
<1>4. torn' \subseteq {"telegram", "zone"}
  BY <1>2, <1>3 DEF Saving, SaveTelegram, SyncTimezone, Restore
<1>5. \A c \in Configs : c \in Config
  BY ConstantsTyped
<1>6. \A z \in Zones : z \in Label
  BY ConstantsTyped
<1>7. telegram' \in Config /\ zone' \in Label
  BY <1>3, <1>5, <1>6, WrittenTyped DEF Saving, SaveTelegram, SyncTimezone, Restore
<1>8. UNCHANGED <<task, wire, inbox, files>>
  BY DEF Saving, SaveTelegram, SyncTimezone, Restore
<1> QED BY <1>1, <1>4, <1>7, <1>8 DEF TypeOK, files

LEMMA NextTyped == TypeOK /\ [Next]_vars => TypeOK'
<1> SUFFICES ASSUME TypeOK, [Next]_vars PROVE TypeOK'
    OBVIOUS
<1>1. /\ telegram \in Config /\ zone \in Label
      /\ torn \subseteq {"telegram", "zone"} /\ crowded \in BOOLEAN
      /\ task \in [Alerts -> Task] /\ wire \subseteq Alerts /\ inbox \in Seq(Alerts)
      /\ (active = NoFile \/ active \in Seq(Piece)) /\ (old = NoFile \/ old \in Seq(Piece))
      /\ written \in Seq(Piece) /\ events \in 0..MaxEvents
      /\ reader \in [on: BOOLEAN, first: Seq(Piece), moved: BOOLEAN]
      /\ \A a \in Alerts : task[a].file = "active" => active # NoFile
      /\ \A a \in Alerts : task[a].file = "old" => old # NoFile
  BY DEF TypeOK
<1>2. \A a \in Alerts : (crowded \/ \E b \in Alerts \ {a} : task[b].stage \in InLog) \in BOOLEAN
  OBVIOUS
(* A step that leaves the files alone and opens none. *)
<1>3. ASSUME task' \in [Alerts -> Task],
             \A b \in Alerts : task'[b].file \in {task[b].file, "none"},
             UNCHANGED <<settings, active, old, written, reader>>,
             events' = events \/ Event,
             wire' \subseteq Alerts, inbox' \in Seq(Alerts), crowded' \in BOOLEAN
      PROVE  TypeOK'
  BY <1>1, <1>3, EventTyped DEF TypeOK, settings
<1>4. ASSUME NEW a \in Alerts, Notify(a) PROVE TypeOK'
  <2>1. Goto(a, "load") /\ "load" \in Stages
    BY <1>4 DEF Notify, Stages
  <2> QED BY <1>1, <1>3, <1>4, <2>1, GotoIs DEF Notify, Others, files
<1>5. ASSUME NEW a \in Alerts, Arrive(a) \/ Lose(a) PROVE TypeOK'
  <2>1. Append(inbox, a) \in Seq(Alerts)
    BY <1>1
  <2>2. inbox' \in Seq(Alerts)
    BY <1>1, <1>5, <2>1 DEF Arrive, Lose
  <2> QED BY <1>1, <1>3, <1>5, <2>2 DEF Arrive, Lose, files
<1>6. ASSUME NEW a \in Alerts, NEW c \in Configs, Test(a, c) PROVE TypeOK'
  <2>1. settings' = settings /\ wire' = wire /\ inbox' = inbox /\ Event
    BY <1>6 DEF Test
  <2>2. /\ task' \in [Alerts -> Task] /\ Others(a)
        /\ active' = active /\ old' = old /\ written' = written /\ reader' = reader
        /\ task'[a].file \in {task[a].file, "none"}
        /\ \/ crowded' = crowded
           \/ crowded' = (crowded \/ \E b \in Alerts \ {a} : task[b].stage \in InLog)
    BY <1>1, <1>6, TestIs
  <2>3. \A b \in Alerts : task'[b].file \in {task[b].file, "none"}
    BY <2>2 DEF Others
  <2> QED BY <1>1, <1>2, <1>3, <2>1, <2>2, <2>3
<1>7. ASSUME NEW a \in Alerts, NEW miss, Load(a, miss) \/ LoadZone(a, miss) PROVE TypeOK'
  <2>1. task' \in [Alerts -> Task] /\ Others(a) /\ task'[a].file \in {task[a].file, "none"}
    BY <1>1, <1>7, LoadIs, LoadZoneIs
  <2>2. UNCHANGED <<settings, wire, inbox, files>> /\ (events' = events \/ Event)
    BY <1>7 DEF Load, LoadZone, Reading
  <2> QED BY <1>1, <1>3, <2>1, <2>2 DEF Others, files
<1>8. ASSUME NEW a \in Alerts, NEW level \in Levels, Report(a, level, task)
      PROVE  /\ task' \in [Alerts -> Task]
             /\ \A b \in Alerts : task'[b].file \in {task[b].file, "none"}
             /\ crowded' \in BOOLEAN
             /\ UNCHANGED <<active, old, written, reader>>
  BY <1>1, <1>2, <1>8, ReportIs DEF Others
(* Tasks are abandoned, and the files left alone. *)
<1>19. ASSUME NEW S, Abandon(S), UNCHANGED <<settings, wire, inbox, files>>, Event
       PROVE  TypeOK'
  <2>1. task' \in [Alerts -> Task] /\ \A b \in Alerts : task'[b].file \in {task[b].file, "none"}
    BY <1>1, <1>19, AbandonIs
  <2> QED BY <1>1, <1>3, <1>19, <2>1 DEF files
<1>9. "OK" \in Levels /\ "ERROR" \in Levels /\ "SKIP" \in Levels
  BY DEF Levels
<1>10. ASSUME NEW a \in Alerts, Send(a) PROVE TypeOK'
  <2>1. CASE task[a].cfg.token = NoText \/ task[a].cfg.chat = NoText
    BY <1>1, <1>3, <1>8, <1>9, <1>10, <2>1 DEF Send
  <2>2. CASE ~(task[a].cfg.token = NoText \/ task[a].cfg.chat = NoText)
    <3>1. /\ UNCHANGED <<settings, inbox, files>> /\ "flying" \in Stages
          /\ \/ Goto(a, "flying") /\ wire' = wire \cup {a} /\ UNCHANGED events
             \/ Event /\ Abandon({a}) /\ UNCHANGED wire
      BY <1>10, <2>2 DEF Send, Stages
    <3>2. CASE Goto(a, "flying") /\ wire' = wire \cup {a} /\ UNCHANGED events
      BY <1>1, <1>3, <3>1, <3>2, GotoIs DEF Others, files
    <3>3. CASE Event /\ Abandon({a}) /\ UNCHANGED wire
      BY <1>19, <3>1, <3>3
    <3> QED BY <3>1, <3>2, <3>3
  <2> QED BY <2>1, <2>2
<1>11. ASSUME NEW a \in Alerts, Answer(a) PROVE TypeOK'
  BY <1>1, <1>3, <1>8, <1>9, <1>11 DEF Answer
<1>12. ASSUME NEW a \in Alerts, Stat(a) PROVE TypeOK'
  <2>1. PICK stage \in {"remove", "open"} : Goto(a, stage)
    BY <1>12 DEF Stat
  <2>2. stage \in Stages
    BY DEF Stages
  <2> QED BY <1>1, <1>3, <1>12, <2>1, <2>2, GotoIs DEF Stat, Others, files
<1>13. ASSUME NEW a \in Alerts, Remove(a) PROVE TypeOK'
  <2>1. task' \in [Alerts -> Task]
        /\ \A b \in Alerts : task'[b].file = IF task[b].file = "old" THEN "gone" ELSE task[b].file
    BY <1>1, <1>13, RemoveIs
  <2>2. old' = NoFile /\ UNCHANGED <<settings, wire, inbox, active, written, crowded, reader, events>>
    BY <1>13 DEF Remove
  <2>3. \A b \in Alerts : task'[b].file # "old"
                           /\ (task'[b].file = "active" => task[b].file = "active")
    BY <2>1
  <2> QED BY <1>1, <2>1, <2>2, <2>3 DEF TypeOK, settings
<1>14. ASSUME NEW a \in Alerts, Rename(a) PROVE TypeOK'
  <2>1. /\ task' \in [Alerts -> Task]
        /\ \A b \in Alerts : task'[b].file = IF active = NoFile THEN task[b].file
                                             ELSE IF task[b].file = "old" THEN "gone"
                                             ELSE IF task[b].file = "active" THEN "old"
                                             ELSE task[b].file
    BY <1>1, <1>14, RenameIs
  <2>2. IF active = NoFile THEN active' = active /\ old' = old
                           ELSE old' = active /\ active' = NoFile
    BY <1>14 DEF Rename
  <2>3. /\ UNCHANGED <<settings, wire, inbox, written, crowded, events>>
        /\ reader' \in [on: BOOLEAN, first: Seq(Piece), moved: BOOLEAN]
    BY <1>1, <1>14 DEF Rename
  <2> QED BY <1>1, <2>1, <2>2, <2>3 DEF TypeOK, settings
<1>15. ASSUME NEW a \in Alerts, Open(a) PROVE TypeOK'
  <2>1. task' \in [Alerts -> Task] /\ Others(a) /\ task'[a].file = "active"
    BY <1>1, <1>15, OpenIs
  <2>2. active' \in Seq(Piece) /\ active' # NoFile
    BY <1>1, <1>15, NoFileIs, EmptySeq DEF Open
  <2>3. UNCHANGED <<settings, wire, inbox, old, written, crowded, reader, events>>
    BY <1>15 DEF Open
  <2> QED BY <1>1, <2>1, <2>2, <2>3 DEF TypeOK, settings, Others
<1>16. ASSUME NEW a \in Alerts, Write(a) \/ WriteEnd(a) PROVE TypeOK'
  <2>1. task' \in [Alerts -> Task] /\ Others(a) /\ task'[a].file \in {task[a].file, "none"}
    BY <1>1, <1>16, WriteIs
  <2> DEFINE piece == PieceOf(a)
  <2>2. piece \in Piece
    BY <1>1, <1>16, PutIs
  <2>3. /\ active' = IF task[a].file = "active" THEN Append(active, piece) ELSE active
        /\ old' = IF task[a].file = "old" THEN Append(old, piece) ELSE old
        /\ written' = Append(written, piece)
        /\ UNCHANGED <<settings, wire, inbox, crowded, reader, events>>
    BY <1>1, <1>16, PutIs
  <2> HIDE DEF piece
  <2>4. written' \in Seq(Piece)
    BY <1>1, <2>2, <2>3
  <2>5. active = NoFile => active' = NoFile
    BY <1>1, <2>3
  <2>6. active # NoFile => active' \in Seq(Piece) /\ active' # NoFile
    <3>1. active # NoFile => active' \in Seq(Piece)
      BY <1>1, <2>2, <2>3
    <3> QED BY <3>1, NoFileIs
  <2>7. old = NoFile => old' = NoFile
    BY <1>1, <2>3
  <2>8. old # NoFile => old' \in Seq(Piece) /\ old' # NoFile
    <3>1. old # NoFile => old' \in Seq(Piece)
      BY <1>1, <2>2, <2>3
    <3> QED BY <3>1, NoFileIs
  <2> QED BY <1>1, <2>1, <2>3, <2>4, <2>5, <2>6, <2>7, <2>8 DEF TypeOK, settings, Others
<1>17. CASE UNCHANGED vars
  BY <1>1, <1>3, <1>17 DEF vars, settings
<1>18. ASSUME NEW a \in Alerts, FileFails(a) PROVE TypeOK'
  <2>1. UNCHANGED <<settings, wire, inbox, files>> /\ Event
    BY <1>1, <1>18, FileFailsIs
  <2>2. CASE Abandon({a})
    BY <1>19, <2>1, <2>2
  <2>3. CASE /\ task' \in [Alerts -> Task] /\ Others(a) /\ task'[a].file = task[a].file
    BY <1>1, <1>3, <2>1, <2>3 DEF Others, files
  <2> QED BY <1>1, <1>18, <2>2, <2>3, FileFailsIs
<1>20. ASSUME NEW a \in Alerts, Drop(a) PROVE TypeOK'
  BY <1>19, <1>20 DEF Drop
<1>21. CASE Restart
  <2> DEFINE S == {a \in Alerts : task[a].stage \notin Over \cup {"idle"}}
  <2>1. Abandon(S) /\ Event /\ reader' = NoReader
        /\ UNCHANGED <<settings, wire, inbox, active, old, written, crowded>>
    BY <1>21 DEF Restart
  <2> HIDE DEF S
  <2>2. task' \in [Alerts -> Task] /\ \A b \in Alerts : task'[b].file \in {task[b].file, "none"}
    BY <1>1, <2>1, AbandonIs
  <2> QED BY <1>1, <2>1, <2>2, EventTyped, NoReaderTyped DEF TypeOK, settings
<1>22. CASE TailOld \/ TailActive
  <2>1. reader' \in [on: BOOLEAN, first: Seq(Piece), moved: BOOLEAN]
    <3>1. Content(old) \in Seq(Piece)
      BY <1>1, ContentTyped
    <3>2. reader' = NoReader \/ reader' = [on |-> TRUE, first |-> Content(old), moved |-> FALSE]
      BY <1>22 DEF TailOld, TailActive
    <3>3. [on |-> TRUE, first |-> Content(old), moved |-> FALSE]
            \in [on: BOOLEAN, first: Seq(Piece), moved: BOOLEAN]
      BY <3>1
    <3> QED BY <3>2, <3>3, NoReaderTyped
  <2>2. UNCHANGED <<settings, task, wire, inbox, active, old, written, crowded>>
        /\ (events' = events \/ Event)
    BY <1>22 DEF TailOld, TailActive
  <2> QED BY <1>1, <2>1, <2>2, EventTyped DEF TypeOK, settings
<1>23. ASSUME NEW a \in Alerts, TaskStep(a) PROVE TypeOK'
  BY <1>7, <1>10, <1>11, <1>12, <1>13, <1>14, <1>15, <1>16, <1>18, <1>20, <1>23 DEF TaskStep
<1> QED BY <1>4, <1>5, <1>6, <1>17, <1>21, <1>22, <1>23, SaveTyped DEF Next

(* The variables keep their types; a task that has the log open has one of *)
(* the files that exist, or one that was removed under it.                 *)
THEOREM TypeCorrect == Spec => []TypeOK
<1> QED BY InitTyped, NextTyped, PTL DEF Spec

-----------------------------------------------------------------------------
(* Settings that belong together.  What is stored belongs together unless  *)
(* a save or a backup has written it in part since it was last written as  *)
(* a whole, and a task carries on what it read together with whether it    *)
(* was whole.                                                              *)
Whole(a) ==
  /\ task[a].stage \in {"idle", "load"} => task[a].shown = NoZone
  /\ task[a].stage = "zone" => task[a].cfg.enabled
  /\ task[a].stage \in {"zone", "send", "flying"} /\ task[a].whole => task[a].cfg \in Configs
  /\ task[a].stage \in {"send", "flying"} /\ task[a].whole =>
        task[a].shown.abbr = task[a].shown.offset

Stored ==
  /\ "telegram" \notin torn => telegram \in Configs \cup {NoConfig}
  /\ "zone" \notin torn => zone \in Zones \cup {NoZone}

TogetherInv == TypeOK /\ Stored /\ \A a \in Alerts : Whole(a)

LEMMA KeysAre ==
  /\ AllOf(ConfigKeys) = {"enabled", "token", "chat", "thread"}
  /\ AllOf(ZoneKeys) = {"offset", "abbr"}
<1>1. Len(ConfigKeys) = 4 /\ ConfigKeys[1] = "enabled" /\ ConfigKeys[2] = "token"
      /\ ConfigKeys[3] = "chat" /\ ConfigKeys[4] = "thread"
  BY DEF ConfigKeys
<1>2. Len(ZoneKeys) = 2 /\ ZoneKeys[1] = "offset" /\ ZoneKeys[2] = "abbr"
  BY DEF ZoneKeys
<1>3. 1..4 = {1, 2, 3, 4} /\ 1..2 = {1, 2}
  OBVIOUS
<1> QED BY <1>1, <1>2, <1>3 DEF AllOf, First

(* Writing all keys stores what was given, and writing none stores nothing. *)
LEMMA WrittenWhole ==
  ASSUME NEW keys
  PROVE  /\ \A s, c \in Config :
              /\ AllOf(ConfigKeys) \subseteq keys => Written(s, c, keys) = c
              /\ AllOf(ConfigKeys) \cap keys = {} => Written(s, c, keys) = s
         /\ \A s, z \in Label :
              /\ AllOf(ZoneKeys) \subseteq keys => Written(s, z, keys) = z
              /\ AllOf(ZoneKeys) \cap keys = {} => Written(s, z, keys) = s
<1> DEFINE C == {"enabled", "token", "chat", "thread"}
           Z == {"offset", "abbr"}
<1>1. ASSUME NEW s \in Config, NEW c \in Config
      PROVE  /\ C \subseteq keys => Written(s, c, keys) = c
             /\ C \cap keys = {} => Written(s, c, keys) = s
  <2>1. DOMAIN s = C /\ s = [f \in C |-> s[f]] /\ c = [f \in C |-> c[f]]
    BY DEF Config
  <2> HIDE DEF C
  <2> QED BY <2>1 DEF Written
<1>2. ASSUME NEW s \in Label, NEW z \in Label
      PROVE  /\ Z \subseteq keys => Written(s, z, keys) = z
             /\ Z \cap keys = {} => Written(s, z, keys) = s
  <2>1. DOMAIN s = Z /\ s = [f \in Z |-> s[f]] /\ z = [f \in Z |-> z[f]]
    BY DEF Label
  <2> HIDE DEF Z
  <2> QED BY <2>1 DEF Written
<1> QED BY <1>1, <1>2, KeysAre

LEMMA SaveStored ==
  ASSUME TypeOK, Stored, Saving
  PROVE  Stored'
<1>1. telegram \in Config /\ zone \in Label
  BY DEF TypeOK
<1>2. ASSUME NEW c \in Configs, NEW keys, telegram' = Written(telegram, c, keys),
             "telegram" \notin Tear(torn, "telegram", AllOf(ConfigKeys), keys)
      PROVE  telegram' \in Configs \cup {NoConfig}
  <2>1. c \in Config
    BY ConstantsTyped
  <2>2. CASE AllOf(ConfigKeys) \subseteq keys
    BY <1>1, <1>2, <2>1, <2>2, WrittenWhole
  <2>3. CASE AllOf(ConfigKeys) \cap keys = {} /\ ~(AllOf(ConfigKeys) \subseteq keys)
    <3>1. telegram' = telegram
      BY <1>1, <1>2, <2>1, <2>3, WrittenWhole
    <3>2. "telegram" \notin torn
      BY <1>2, <2>3 DEF Tear
    <3> QED BY <3>1, <3>2 DEF Stored
  <2> QED BY <1>2, <2>2, <2>3 DEF Tear
<1>3. ASSUME NEW z \in Zones, NEW keys, NEW t, zone' = Written(zone, z, keys),
             "zone" \in torn => "zone" \in t,
             "zone" \notin Tear(t, "zone", AllOf(ZoneKeys), keys)
      PROVE  zone' \in Zones \cup {NoZone}
  <2>1. z \in Label
    BY ConstantsTyped
  <2>2. CASE AllOf(ZoneKeys) \subseteq keys
    BY <1>1, <1>3, <2>1, <2>2, WrittenWhole
  <2>3. CASE AllOf(ZoneKeys) \cap keys = {} /\ ~(AllOf(ZoneKeys) \subseteq keys)
    <3>1. zone' = zone
      BY <1>1, <1>3, <2>1, <2>3, WrittenWhole
    <3>2. "zone" \notin torn
      BY <1>3, <2>3 DEF Tear
    <3> QED BY <3>1, <3>2 DEF Stored
  <2> QED BY <1>3, <2>2, <2>3 DEF Tear
<1>4. \A t, all, keys :
        /\ "zone" \in Tear(t, "telegram", all, keys) <=> "zone" \in t
        /\ "telegram" \in Tear(t, "zone", all, keys) <=> "telegram" \in t
  BY DEF Tear
<1>5. ASSUME NEW c \in Configs, NEW k, SaveTelegram(c, k) PROVE Stored'
  <2>1. /\ telegram' = Written(telegram, c, First(ConfigKeys, k)) /\ zone' = zone
        /\ torn' = Tear(torn, "telegram", AllOf(ConfigKeys), First(ConfigKeys, k))
    BY <1>5 DEF SaveTelegram
  <2> QED BY <1>2, <1>4, <2>1 DEF Stored
<1>6. ASSUME NEW z \in Zones, NEW k, SyncTimezone(z, k) PROVE Stored'
  <2>1. /\ zone' = Written(zone, z, First(ZoneKeys, k)) /\ telegram' = telegram
        /\ torn' = Tear(torn, "zone", AllOf(ZoneKeys), First(ZoneKeys, k))
    BY <1>6 DEF SyncTimezone
  <2> QED BY <1>3, <1>4, <2>1 DEF Stored
<1>7. ASSUME NEW c \in Configs, NEW z \in Zones, NEW keys, Restore(c, z, keys) PROVE Stored'
  <2> DEFINE t == Tear(torn, "telegram", AllOf(ConfigKeys), keys)
  <2>1. /\ telegram' = Written(telegram, c, keys) /\ zone' = Written(zone, z, keys)
        /\ torn' = Tear(t, "zone", AllOf(ZoneKeys), keys)
    BY <1>7 DEF Restore
  <2>2. "zone" \in t <=> "zone" \in torn
    BY <1>4
  <2>3. "telegram" \in torn' <=> "telegram" \in t
    BY <1>4, <2>1
  <2>4. "telegram" \notin torn' => telegram' \in Configs \cup {NoConfig}
    BY <1>2, <2>1, <2>3
  <2> HIDE DEF t
  <2>5. "zone" \notin torn' => zone' \in Zones \cup {NoZone}
    BY <1>3, <2>1, <2>2
  <2> QED BY <2>4, <2>5 DEF Stored
<1> QED BY <1>5, <1>6, <1>7 DEF Saving

(* offset_or_os and abbr_or_derived of settings that belong together. *)
LEMMA LabelNamesOffset ==
  ASSUME zone \in Zones \cup {NoZone}
  PROVE  AbbrOrDerived(zone) = OffsetOrOs(zone)
  BY DeliveryAssumption DEF AbbrOrDerived, OffsetOrOs, NoZone

LEMMA NextTogether == TogetherInv /\ [Next]_vars => TogetherInv'
<1> SUFFICES ASSUME TogetherInv, [Next]_vars PROVE TogetherInv'
    OBVIOUS
<1>1. /\ TypeOK /\ TypeOK' /\ Stored /\ \A b \in Alerts : Whole(b)
      /\ task \in [Alerts -> Task] /\ telegram \in Config /\ zone \in Label
  BY NextTyped DEF TogetherInv, TypeOK
<1>2. ASSUME NEW a \in Alerts, Others(a), Whole(a)', UNCHANGED settings PROVE TogetherInv'
  <2>1. \A b \in Alerts : Whole(b)'
    BY <1>1, <1>2 DEF Others, Whole
  <2> QED BY <1>1, <1>2, <2>1 DEF TogetherInv, Stored, settings
(* Beyond the sending nothing is asked of a task's settings. *)
<1>3. ASSUME \A b \in Alerts : /\ SameFields(task'[b], task[b])
                               /\ \/ task'[b].stage = task[b].stage
                                  \/ task'[b].stage \in InLog \cup Over,
             UNCHANGED settings
      PROVE  TogetherInv'
  <2>1. \A b \in Alerts : Whole(b)'
    BY <1>1, <1>3 DEF Whole, SameFields, InLog, Over
  <2> QED BY <1>1, <1>3, <2>1 DEF TogetherInv, Stored, settings
(* Nor is anything asked of those of an abandoned task. *)
<1>18. ASSUME NEW S, Abandon(S), UNCHANGED settings PROVE TogetherInv'
  <2>1. \A b \in Alerts : task'[b].stage = "lost" \/ task'[b] = task[b]
    BY <1>1, <1>18, AbandonIs
  <2>2. \A b \in Alerts : Whole(b)'
    BY <1>1, <2>1 DEF Whole
  <2> QED BY <1>1, <1>18, <2>2 DEF TogetherInv, Stored, settings
<1>4. ASSUME NEW a \in Alerts, Others(a), task'[a].stage = "stat", UNCHANGED settings
      PROVE  TogetherInv'
  BY <1>2, <1>4 DEF Whole
<1>5. ASSUME NEW a \in Alerts, Notify(a) PROVE TogetherInv'
  <2>1. Goto(a, "load") /\ "load" \in Stages /\ task[a].stage = "idle" /\ UNCHANGED settings
    BY <1>5 DEF Notify, Stages
  <2>2. Others(a) /\ SameFields(task'[a], task[a]) /\ task'[a].stage = "load"
    BY <1>1, <2>1, GotoIs
  <2> QED BY <1>1, <1>2, <2>1, <2>2 DEF Whole, SameFields
<1>6. ASSUME NEW a \in Alerts, NEW c \in Configs, Test(a, c) PROVE TogetherInv'
  <2>1. UNCHANGED settings /\ task[a].stage = "idle"
    BY <1>6 DEF Test
  <2>2. Others(a)
        /\ \/ /\ task'[a].stage = "send" /\ task'[a].shown = task[a].shown
              /\ task'[a].whole => task'[a].cfg = c
           \/ task'[a].stage = "stat"
    BY <1>1, <1>6, TestIs
  <2>3. task[a].shown = NoZone /\ NoZone.abbr = NoZone.offset
    BY <1>1, <2>1 DEF Whole, NoZone
  <2>4. CASE task'[a].stage = "send"
    <3>1. Whole(a)'
      BY <2>2, <2>3, <2>4 DEF Whole
    <3> QED BY <1>2, <2>1, <2>2, <3>1
  <2> QED BY <1>4, <2>1, <2>2, <2>4
<1>7. ASSUME NEW a \in Alerts, NEW miss, Load(a, miss) PROVE TogetherInv'
  <2> DEFINE cfg == Written(telegram, NoConfig, miss)
  <2>1. UNCHANGED settings /\ task[a].stage = "load"
    BY <1>7 DEF Load
  <2>2. /\ Others(a)
        /\ cfg.enabled => /\ task'[a].stage = "zone" /\ task'[a].cfg = cfg
                          /\ task'[a].whole = ("telegram" \notin torn /\ miss = {})
        /\ ~cfg.enabled => task'[a].stage = "done"
    BY <1>1, <1>7, LoadIs
  <2>3. miss = {} => cfg = telegram
    BY <1>1, ConstantsTyped, WrittenWhole
  <2> HIDE DEF cfg
  <2>4. telegram.enabled /\ "telegram" \notin torn => telegram \in Configs
    BY <1>1 DEF Stored, NoConfig
  <2>5. Whole(a)'
    BY <2>2, <2>3, <2>4 DEF Whole
  <2> QED BY <1>2, <2>1, <2>2, <2>5
<1>8. ASSUME NEW a \in Alerts, NEW miss, LoadZone(a, miss) PROVE TogetherInv'
  <2> DEFINE z == Written(zone, NoZone, miss)
  <2>1. UNCHANGED settings /\ task[a].stage = "zone"
    BY <1>8 DEF LoadZone
  <2>2. /\ Others(a) /\ task'[a].stage = "send" /\ task'[a].cfg = task[a].cfg
        /\ task'[a].whole = (task[a].whole /\ "zone" \notin torn /\ miss = {})
        /\ task'[a].shown.offset = OffsetOrOs(z) /\ task'[a].shown.abbr = AbbrOrDerived(z)
    BY <1>1, <1>8, LoadZoneIs
  <2>3. miss = {} => z = zone
    BY <1>1, ConstantsTyped, WrittenWhole
  <2> HIDE DEF z
  <2>4. "zone" \notin torn => AbbrOrDerived(zone) = OffsetOrOs(zone)
    BY <1>1, LabelNamesOffset DEF Stored
  <2>5. Whole(a)'
    BY <1>1, <2>1, <2>2, <2>3, <2>4 DEF Whole
  <2> QED BY <1>2, <2>1, <2>2, <2>5
<1>9. ASSUME NEW a \in Alerts, NEW level \in Levels, Report(a, level, task), UNCHANGED settings
      PROVE  TogetherInv'
  BY <1>1, <1>4, <1>9, ReportIs
<1>10. ASSUME NEW a \in Alerts, Send(a) PROVE TogetherInv'
  <2>1. UNCHANGED settings /\ task[a].stage = "send"
    BY <1>10 DEF Send
  <2>2. CASE task[a].cfg.token = NoText \/ task[a].cfg.chat = NoText
    BY <1>9, <1>10, <2>1, <2>2 DEF Send, Levels
  <2>3. CASE ~(task[a].cfg.token = NoText \/ task[a].cfg.chat = NoText)
    <3>3. CASE Abandon({a})
      BY <1>18, <2>1, <3>3
    <3>4. CASE Goto(a, "flying")
      <4>2. Others(a) /\ SameFields(task'[a], task[a]) /\ task'[a].stage = "flying"
        BY <1>1, <3>4, GotoIs DEF Stages
      <4> QED BY <1>1, <1>2, <2>1, <4>2 DEF Whole, SameFields
    <3> QED BY <1>10, <2>3, <3>3, <3>4 DEF Send
  <2> QED BY <2>2, <2>3
<1>11. ASSUME NEW a \in Alerts, Answer(a) PROVE TogetherInv'
  BY <1>9, <1>11 DEF Answer, Levels
<1>12. ASSUME NEW a \in Alerts,
              Stat(a) \/ Remove(a) \/ Rename(a) \/ Open(a) \/ Write(a) \/ WriteEnd(a)
       PROVE  TogetherInv'
  <2>1. UNCHANGED settings
    BY <1>12 DEF Stat, Remove, Rename, Open, Write, WriteEnd, Put
  <2>2. \A b \in Alerts : SameFields(task[b], task[b])
    BY DEF SameFields
  <2>3. CASE Stat(a)
    <3>1. PICK stage \in {"remove", "open"} : Goto(a, stage)
      BY <2>3 DEF Stat
    <3>2. stage \in Stages /\ stage \in InLog
      BY DEF Stages, InLog
    <3>3. Others(a) /\ SameFields(task'[a], task[a]) /\ task'[a].stage = stage
      BY <1>1, <3>1, <3>2, GotoIs
    <3> QED BY <1>3, <2>1, <2>2, <3>2, <3>3 DEF Others
  <2>4. CASE Remove(a)
    BY <1>1, <1>3, <2>1, <2>4, RemoveIs DEF InLog
  <2>5. CASE Rename(a)
    BY <1>1, <1>3, <2>1, <2>5, RenameIs DEF InLog
  <2>6. CASE Open(a) \/ Write(a) \/ WriteEnd(a)
    <3>1. Others(a) /\ SameFields(task'[a], task[a]) /\ task'[a].stage \in InLog \cup Over
      BY <1>1, <2>6, OpenIs, WriteIs DEF InLog, Over
    <3> QED BY <1>3, <2>1, <2>2, <3>1 DEF Others
  <2> QED BY <1>12, <2>3, <2>4, <2>5, <2>6
<1>13. ASSUME task' = task, Stored' PROVE TogetherInv'
  BY <1>1, <1>13 DEF TogetherInv, Whole
<1>14. ASSUME task' = task, UNCHANGED settings PROVE TogetherInv'
  BY <1>1, <1>13, <1>14 DEF Stored, settings
<1>15. CASE Saving
  <2>1. task' = task
    BY <1>15 DEF Saving, SaveTelegram, SyncTimezone, Restore
  <2> QED BY <1>1, <1>13, <1>15, <2>1, SaveStored
<1>16. ASSUME NEW a \in Alerts, Arrive(a) \/ Lose(a) PROVE TogetherInv'
  BY <1>14, <1>16 DEF Arrive, Lose
<1>17. CASE TailOld \/ TailActive \/ UNCHANGED vars
  BY <1>14, <1>17 DEF TailOld, TailActive, vars, settings
<1>19. ASSUME NEW a \in Alerts, FileFails(a) PROVE TogetherInv'
  <2>1. UNCHANGED settings
    BY <1>1, <1>19, FileFailsIs
  <2>2. CASE Abandon({a})
    BY <1>18, <2>1, <2>2
  <2>3. CASE Others(a) /\ SameFields(task'[a], task[a]) /\ task'[a].stage \in {"rename", "open"}
    <3>1. \A b \in Alerts : SameFields(task[b], task[b])
      BY DEF SameFields
    <3> QED BY <1>3, <2>1, <2>3, <3>1 DEF Others, InLog
  <2> QED BY <1>1, <1>19, <2>2, <2>3, FileFailsIs
<1>20. ASSUME NEW a \in Alerts, Drop(a) PROVE TogetherInv'
  BY <1>18, <1>20 DEF Drop
<1>21. CASE Restart
  BY <1>18, <1>21 DEF Restart
<1> QED BY <1>5, <1>6, <1>7, <1>8, <1>10, <1>11, <1>12, <1>15, <1>16, <1>17, <1>19, <1>20, <1>21
        DEF Next, TaskStep

LEMMA InitTogether == Init => TogetherInv
<1> SUFFICES ASSUME Init PROVE TogetherInv
    OBVIOUS
<1>1. TypeOK
  BY InitTyped
<1>2. \A a \in Alerts : Whole(a)
  BY NewTaskFields DEF Init, Whole
<1> QED BY <1>1, <1>2 DEF Init, TogetherInv, Stored

(* notify_down and notify_recovery send with the settings of one save and  *)
(* a label that names the zone of the stamp, although the settings are     *)
(* stored key by key and read under two locks.  They are seen in part only *)
(* after a save that failed half-way or a backup that held some of them,   *)
(* and changed only by a key whose own reading failed.                     *)
THEOREM SettingsStayTogether == Spec => []SettingsBelongTogether
<1>1. TogetherInv => SettingsBelongTogether
  BY DEF TogetherInv, Whole, SettingsBelongTogether
<1> QED BY InitTogether, NextTogether, <1>1, PTL DEF Spec

-----------------------------------------------------------------------------
(* The log tells the truth.  Where a task is says what the network, the    *)
(* inbox and the log may hold of its alert.                                *)
Heads(a) == {i \in DOMAIN written : written[i].alert = a /\ written[i].part # "end"}
Ends(a) == {i \in DOMAIN written : written[i].alert = a /\ written[i].part = "end"}
Copies(a) == {i \in DOMAIN inbox : inbox[i] = a}

Sent(a) ==
  /\ task[a].stage \in Early => Copies(a) = {} /\ a \notin wire
  /\ a \in wire => Copies(a) = {}
  /\ \A i, j \in Copies(a) : i = j

Told(a) ==
  /\ task[a].stage \in {"zone", "send", "flying"} \cup InLog => task[a].cfg.enabled
  /\ task[a].stage \in InLog /\ task[a].level = "OK" => Copies(a) # {}
  /\ task[a].stage \in InLog /\ task[a].level = "SKIP" => Copies(a) = {} /\ a \notin wire

Logged(a) ==
  /\ task[a].stage \notin {"end"} \cup Over => Heads(a) = {}
  /\ task[a].stage = "end" => Heads(a) # {}
  /\ Ends(a) # {} => Heads(a) # {}
  /\ task[a].stage \notin Over => Ends(a) = {}
  /\ task[a].stage = "done" => (Ends(a) # {} <=> task[a].cfg.enabled)
  /\ \A i, j \in Heads(a) : i = j
  /\ \A i, j \in Ends(a) : i = j
  /\ \A i \in Heads(a) : /\ written[i].part = "OK" => Copies(a) # {}
                         /\ written[i].part = "SKIP" => Copies(a) = {} /\ a \notin wire

TruthInv == TypeOK /\ \A a \in Alerts : Sent(a) /\ Told(a) /\ Logged(a)

(* At most one of a kind. *)
LEMMA AtMostOne ==
  ASSUME NEW S, \A x, y \in S : x = y
  PROVE  /\ Cardinality(S) <= 1
         /\ S = {} => Cardinality(S) = 0
         /\ S # {} => Cardinality(S) = 1
<1>1. CASE S = {}
  BY <1>1, FS_EmptySet
<1>2. CASE S # {}
  <2>1. PICK x : S = {x}
    BY <1>2
  <2>2. Cardinality({x}) = 1
    BY FS_Singleton
  <2> QED BY <1>2, <2>1, <2>2
<1> QED BY <1>1, <1>2

LEMMA TruthIsTruthful == TruthInv => LogTruthful
<1> SUFFICES ASSUME TruthInv, NEW a \in Alerts
             PROVE  /\ Cardinality(Ends(a)) <= Cardinality(Heads(a))
                    /\ Cardinality(Heads(a)) <= 1
                    /\ task[a].stage = "done" =>
                         Cardinality(Ends(a)) = IF task[a].cfg.enabled THEN 1 ELSE 0
                    /\ Cardinality(Copies(a)) <= 1
                    /\ \A i \in Heads(a) : written[i].part = "OK" => Copies(a) # {}
                    /\ \A i \in Heads(a) : written[i].part = "SKIP" => Copies(a) = {} /\ a \notin wire
    BY DEF LogTruthful, Heads, Ends, Copies
<1>1. Sent(a) /\ Logged(a)
  BY DEF TruthInv
<1>2. Cardinality(Copies(a)) <= 1
  BY <1>1, AtMostOne DEF Sent
<1>3. /\ Heads(a) = {} => Cardinality(Heads(a)) = 0
      /\ Heads(a) # {} => Cardinality(Heads(a)) = 1
      /\ Ends(a) = {} => Cardinality(Ends(a)) = 0
      /\ Ends(a) # {} => Cardinality(Ends(a)) = 1
  BY <1>1, AtMostOne DEF Logged
<1>4. Cardinality(Ends(a)) <= Cardinality(Heads(a)) /\ Cardinality(Heads(a)) <= 1
  BY <1>1, <1>3 DEF Logged
<1>5. task[a].stage = "done" => Cardinality(Ends(a)) = IF task[a].cfg.enabled THEN 1 ELSE 0
  BY <1>1, <1>3 DEF Logged
<1> QED BY <1>1, <1>2, <1>4, <1>5 DEF Logged

LEMMA InitWritten ==
  Init => /\ written \in Seq(Piece)
          /\ \A i \in DOMAIN written : written[i].alert = 0 /\ written[i].part = "OK"
<1> SUFFICES ASSUME Init
             PROVE  /\ written \in Seq(Piece)
                    /\ \A i \in DOMAIN written : written[i].alert = 0 /\ written[i].part = "OK"
    OBVIOUS
<1> DEFINE Old(q) == q \in Seq(Piece)
                     /\ \A i \in 1..Len(q) : q[i].alert = 0 /\ q[i].part = "OK"
<1>1. ASSUME NEW n \in Nat PROVE Old(Earlier(n))
  <2>1. Earlier(n) \in Seq(Piece) /\ Len(Earlier(n)) = n
    BY EarlierTyped
  <2> QED BY <2>1 DEF Earlier
<1>2. MaxSize + 1 \in Nat /\ 1..MaxSize + 1 \subseteq Nat
  BY ConstantsTyped
<1>3. Old(<<>>)
  BY EmptySeq
<1>4. Old(Content(old)) /\ Old(Content(active))
  <2> HIDE DEF Old
  <2> QED BY <1>1, <1>2, <1>3 DEF Init, Content
<1> DEFINE o == Content(old)
           n == Content(active)
<1>5. written = o \o n
  BY DEF Init
<1> HIDE DEF o, n
<1>6. Old(o) /\ Old(n)
  BY <1>4 DEF o, n
<1> QED BY <1>5, <1>6

LEMMA InitTruth == Init => TruthInv
<1> SUFFICES ASSUME Init PROVE TruthInv
    OBVIOUS
<1>1. TypeOK
  BY InitTyped
<1>2. \A a \in Alerts : task[a].stage = "idle"
  BY NewTaskFields DEF Init
<1>3. \A a \in Alerts : Copies(a) = {} /\ a \notin wire
  BY DEF Init, Copies
<1>4. ASSUME NEW a \in Alerts PROVE Heads(a) = {} /\ Ends(a) = {}
  <2>1. a # 0
    BY DeliveryAssumption DEF Alerts
  <2> QED BY <2>1, InitWritten DEF Heads, Ends
<1> QED BY <1>1, <1>2, <1>3, <1>4 DEF TruthInv, Sent, Told, Logged, Early, InLog, Over

LEMMA NextTruth == TruthInv /\ [Next]_vars => TruthInv'
<1> SUFFICES ASSUME TruthInv, [Next]_vars PROVE TruthInv'
    OBVIOUS
<1>1. /\ TypeOK /\ TypeOK' /\ task \in [Alerts -> Task] /\ task' \in [Alerts -> Task]
      /\ telegram \in Config /\ zone \in Label
      /\ inbox \in Seq(Alerts) /\ written \in Seq(Piece)
      /\ \A b \in Alerts : Sent(b) /\ Told(b) /\ Logged(b)
  BY NextTyped DEF TruthInv, TypeOK
<1>2. UNCHANGED inbox => \A b \in Alerts : Copies(b)' = Copies(b)
  BY DEF Copies
<1>3. UNCHANGED written => \A b \in Alerts : Heads(b)' = Heads(b) /\ Ends(b)' = Ends(b)
  BY DEF Heads, Ends
(* One task moves; network, inbox and log are left alone. *)
<1>4. ASSUME NEW a \in Alerts, Others(a), UNCHANGED <<wire, inbox, written>>,
             Sent(a)', Told(a)', Logged(a)'
      PROVE  TruthInv'
  <2>1. \A b \in Alerts : b # a => Sent(b)' /\ Told(b)' /\ Logged(b)'
    BY <1>1, <1>2, <1>3, <1>4 DEF Sent, Told, Logged, Others
  <2> QED BY <1>1, <1>4, <2>1 DEF TruthInv
(* A task stays on its side of the sending. *)
<1>5. ASSUME UNCHANGED <<wire, inbox, written>>,
             \A b \in Alerts : /\ task'[b].cfg.enabled = task[b].cfg.enabled
                               /\ task'[b].level = task[b].level
                               /\ \/ task'[b].stage = task[b].stage
                                  \/ task[b].stage \in {"idle"} /\ task'[b].stage = "load"
                                  \/ task[b].stage = "zone" /\ task'[b].stage = "send"
                                  \/ /\ task[b].stage \in InLog \ {"end"}
                                     /\ task'[b].stage \in InLog \ {"end"}
      PROVE  TruthInv'
  <2>1. \A b \in Alerts : Sent(b)' /\ Told(b)' /\ Logged(b)'
    BY <1>1, <1>2, <1>3, <1>5 DEF Sent, Told, Logged, Early, InLog, Over
  <2> QED BY <1>1, <2>1 DEF TruthInv
<1>6. ASSUME NEW a \in Alerts, Notify(a) PROVE TruthInv'
  <2>1. Goto(a, "load") /\ "load" \in Stages /\ task[a].stage = "idle"
        /\ UNCHANGED <<wire, inbox, written>>
    BY <1>6 DEF Notify, Stages, files
  <2>2. Others(a) /\ SameFields(task'[a], task[a]) /\ task'[a].stage = "load"
    BY <1>1, <2>1, GotoIs
  <2>3. \A b \in Alerts : SameFields(task'[b], task[b])
    BY <2>2 DEF Others, SameFields
  <2> QED BY <1>5, <2>1, <2>2, <2>3 DEF Others, SameFields
<1>7. ASSUME NEW a \in Alerts, NEW level \in Levels, Others(a),
             task'[a].stage = "stat", task'[a].level = level, task'[a].cfg.enabled = TRUE,
             task[a].stage \in Early \cup {"flying"},
             level = "OK" => Copies(a) # {},
             level = "SKIP" => Copies(a) = {} /\ a \notin wire,
             UNCHANGED <<wire, inbox, written>>
      PROVE  TruthInv'
  <2>1. Copies(a)' = Copies(a) /\ Heads(a)' = Heads(a) /\ Ends(a)' = Ends(a) /\ task[a].stage \notin {"end"} \cup Over
    BY <1>2, <1>3, <1>7 DEF Early, Over
  <2>2. Sent(a)' /\ Told(a)' /\ Logged(a)'
    BY <1>1, <1>7, <2>1 DEF Sent, Told, Logged, Early, InLog, Over
  <2> QED BY <1>4, <1>7, <2>2
<1>8. ASSUME NEW a \in Alerts, NEW c \in Configs, Test(a, c) PROVE TruthInv'
  <2>1. UNCHANGED <<wire, inbox>> /\ task[a].stage = "idle"
    BY <1>8 DEF Test
  <2>2. /\ Others(a) /\ task'[a].cfg.enabled = TRUE /\ written' = written
        /\ \/ task'[a].stage = "send"
           \/ task'[a].stage = "stat" /\ task'[a].level = "ERROR"
    BY <1>1, <1>8, TestIs
  <2>3. CASE task'[a].stage = "send"
    <3>1. Copies(a)' = Copies(a) /\ Heads(a)' = Heads(a) /\ Ends(a)' = Ends(a)
      BY <1>2, <1>3, <2>1, <2>2
    <3>2. Sent(a)' /\ Told(a)' /\ Logged(a)'
      BY <1>1, <2>1, <2>2, <2>3, <3>1 DEF Sent, Told, Logged, Early, InLog, Over
    <3> QED BY <1>4, <2>1, <2>2, <3>2
  <2>4. CASE task'[a].stage = "stat" /\ task'[a].level = "ERROR"
    <3>1. "ERROR" \in Levels /\ task[a].stage \in Early
      BY <2>1 DEF Levels, Early
    <3> QED BY <1>7, <2>1, <2>2, <2>4, <3>1
  <2> QED BY <2>2, <2>3, <2>4
<1>9. ASSUME NEW a \in Alerts, NEW miss, Load(a, miss) PROVE TruthInv'
  <2> DEFINE cfg == Written(telegram, NoConfig, miss)
  <2>1. UNCHANGED <<wire, inbox, written>> /\ task[a].stage = "load"
    BY <1>9 DEF Load, files
  <2>2. /\ Others(a)
        /\ cfg.enabled => task'[a].stage = "zone" /\ task'[a].cfg = cfg
        /\ ~cfg.enabled => task'[a].stage = "done" /\ task'[a].cfg.enabled = FALSE
    BY <1>1, <1>9, LoadIs
  <2>3. cfg.enabled \in BOOLEAN
    <3>1. cfg \in Config
      BY <1>1, ConstantsTyped, WrittenTyped
    <3> HIDE DEF cfg
    <3> QED BY <3>1 DEF Config
  <2> HIDE DEF cfg
  <2>4. Copies(a)' = Copies(a) /\ Heads(a)' = Heads(a) /\ Ends(a)' = Ends(a)
    BY <1>2, <1>3, <2>1
  <2>5. Sent(a)' /\ Told(a)' /\ Logged(a)'
    BY <1>1, <2>1, <2>2, <2>3, <2>4 DEF Sent, Told, Logged, Early, InLog, Over
  <2> QED BY <1>4, <2>1, <2>2, <2>5
<1>10. ASSUME NEW a \in Alerts, NEW miss, LoadZone(a, miss) PROVE TruthInv'
  <2>1. UNCHANGED <<wire, inbox, written>> /\ task[a].stage = "zone"
    BY <1>10 DEF LoadZone, files
  <2>2. Others(a) /\ task'[a].stage = "send" /\ task'[a].cfg = task[a].cfg
    BY <1>1, <1>10, LoadZoneIs
  <2>3. Copies(a)' = Copies(a) /\ Heads(a)' = Heads(a) /\ Ends(a)' = Ends(a)
    BY <1>2, <1>3, <2>1
  <2>4. Sent(a)' /\ Told(a)' /\ Logged(a)'
    BY <1>1, <2>1, <2>2, <2>3 DEF Sent, Told, Logged, Early, InLog, Over
  <2> QED BY <1>4, <2>1, <2>2, <2>4
(* An abandoned task leaves the network, the inbox and the log as they are. *)
<1>19. ASSUME NEW S, Abandon(S), UNCHANGED <<wire, inbox, written>> PROVE TruthInv'
  <2>1. \A b \in Alerts : task'[b].stage = "lost" \/ task'[b] = task[b]
    BY <1>1, <1>19, AbandonIs
  <2>2. \A b \in Alerts : /\ Copies(b)' = Copies(b)
                          /\ Heads(b)' = Heads(b) /\ Ends(b)' = Ends(b)
    BY <1>2, <1>3, <1>19
  <2>3. \A b \in Alerts : Sent(b)' /\ Told(b)' /\ Logged(b)'
    BY <1>1, <1>19, <2>1, <2>2 DEF Sent, Told, Logged, Early, InLog, Over
  <2> QED BY <1>1, <2>3 DEF TruthInv
<1>11. ASSUME NEW a \in Alerts, NEW level \in Levels, Report(a, level, task)
       PROVE  /\ Others(a) /\ task'[a].stage = "stat" /\ task'[a].level = level
              /\ task'[a].cfg.enabled = TRUE /\ written' = written
  BY <1>1, <1>11, ReportIs
<1>12. ASSUME NEW a \in Alerts, Send(a) PROVE TruthInv'
  <2>1. task[a].stage = "send" /\ UNCHANGED inbox
    BY <1>12 DEF Send
  <2>2. CASE task[a].cfg.token = NoText \/ task[a].cfg.chat = NoText
    <3>1. Report(a, "SKIP", task) /\ UNCHANGED wire /\ "SKIP" \in Levels
      BY <1>12, <2>2 DEF Send, Levels
    <3>2. task[a].stage \in Early /\ Copies(a) = {} /\ a \notin wire
      BY <1>1, <2>1 DEF Sent, Early
    <3> QED BY <1>7, <1>11, <2>1, <3>1, <3>2
  <2>4. CASE Abandon({a}) /\ UNCHANGED <<wire, files>>
    BY <1>19, <2>1, <2>4 DEF files
  <2>3. CASE Goto(a, "flying") /\ wire' = wire \cup {a} /\ UNCHANGED files
    <3>1. Goto(a, "flying") /\ "flying" \in Stages /\ wire' = wire \cup {a} /\ UNCHANGED written
      BY <2>3 DEF Stages, files
    <3>2. Others(a) /\ SameFields(task'[a], task[a]) /\ task'[a].stage = "flying"
      BY <1>1, <3>1, GotoIs
    <3>3. \A b \in Alerts : Copies(b)' = Copies(b) /\ Heads(b)' = Heads(b) /\ Ends(b)' = Ends(b)
      BY <1>2, <1>3, <2>1, <3>1
    <3>4. Sent(a)' /\ Told(a)' /\ Logged(a)'
      BY <1>1, <2>1, <3>1, <3>2, <3>3 DEF Sent, Told, Logged, Early, InLog, Over, SameFields
    <3>5. ASSUME NEW b \in Alerts, b # a PROVE Sent(b)' /\ Told(b)' /\ Logged(b)'
      <4>1. task'[b] = task[b] /\ Copies(b)' = Copies(b) /\ Heads(b)' = Heads(b) /\ Ends(b)' = Ends(b)
            /\ (b \in wire' <=> b \in wire) /\ written' = written
        BY <3>1, <3>2, <3>3, <3>5 DEF Others
      <4> QED BY <1>1, <4>1 DEF Sent, Told, Logged
    <3> QED BY <1>1, <3>4, <3>5 DEF TruthInv
  <2> QED BY <1>12, <2>2, <2>3, <2>4 DEF Send
<1>13. ASSUME NEW a \in Alerts, Answer(a) PROVE TruthInv'
  <2>1. task[a].stage = "flying" /\ UNCHANGED <<wire, inbox>> /\ "OK" \in Levels /\ "ERROR" \in Levels
    BY <1>13 DEF Answer, Levels
  <2>2. \/ Copies(a) # {} /\ Report(a, "OK", task)
        \/ Report(a, "ERROR", task)
    BY <1>13 DEF Answer, Copies
  <2> QED BY <1>7, <1>11, <2>1, <2>2
<1>14. ASSUME NEW a \in Alerts, Arrive(a) \/ Lose(a) PROVE TruthInv'
  <2>1. /\ a \in wire /\ wire' = wire \ {a} /\ task' = task /\ written' = written
        /\ inbox' = Append(inbox, a) \/ inbox' = inbox
    BY <1>14 DEF Arrive, Lose, files
  <2>2. Copies(a) = {} /\ task[a].stage \notin Early
        /\ ~(task[a].stage \in InLog /\ task[a].level = "SKIP")
        /\ \A i \in Heads(a) : written[i].part # "SKIP"
    BY <1>1, <2>1 DEF Sent, Told, Logged
  <2>3. \A b \in Alerts : b # a => Copies(b)' = Copies(b)
    BY <1>1, <2>1 DEF Copies
  <2>4. \A i, j \in Copies(a)' : i = j
    BY <1>1, <2>1, <2>2 DEF Copies
  <2>5. \A b \in Alerts : Heads(b)' = Heads(b) /\ Ends(b)' = Ends(b)
    BY <1>3, <2>1
  <2>6. Copies(a) \subseteq Copies(a)'
    BY <2>2
  <2>7. Sent(a)' /\ Told(a)' /\ Logged(a)'
    BY <1>1, <2>1, <2>2, <2>4, <2>5, <2>6 DEF Sent, Told, Logged
  <2>8. ASSUME NEW b \in Alerts, b # a PROVE Sent(b)' /\ Told(b)' /\ Logged(b)'
    BY <1>1, <2>1, <2>3, <2>5, <2>8 DEF Sent, Told, Logged
  <2> QED BY <1>1, <2>7, <2>8 DEF TruthInv
<1>15. ASSUME NEW a \in Alerts, Stat(a) \/ Remove(a) \/ Rename(a) \/ Open(a) PROVE TruthInv'
  <2>1. UNCHANGED <<wire, inbox, written>> /\ task[a].stage \in InLog \ {"end"}
    BY <1>15 DEF Stat, Remove, Rename, Open, files, InLog
  <2>2. \A b \in Alerts : SameFields(task[b], task[b])
    BY DEF SameFields
  <2>3. /\ \A b \in Alerts : SameFields(task'[b], task[b])
        /\ \A b \in Alerts : b # a => task'[b].stage = task[b].stage
        /\ task'[a].stage \in InLog \ {"end"}
    <3>1. CASE Stat(a)
      <4>1. PICK stage \in {"remove", "open"} : Goto(a, stage)
        BY <3>1 DEF Stat
      <4>2. stage \in Stages /\ stage \in InLog \ {"end"}
        BY DEF Stages, InLog
      <4> QED BY <1>1, <2>2, <4>1, <4>2, GotoIs DEF Others
    <3>2. CASE Remove(a)
      BY <1>1, <3>2, RemoveIs DEF InLog
    <3>3. CASE Rename(a)
      BY <1>1, <3>3, RenameIs DEF InLog
    <3>4. CASE Open(a)
      <4>1. Others(a) /\ SameFields(task'[a], task[a]) /\ task'[a].stage = "write"
        BY <1>1, <3>4, OpenIs
      <4> QED BY <2>2, <4>1 DEF Others, InLog
    <3> QED BY <1>15, <3>1, <3>2, <3>3, <3>4
  <2> QED BY <1>5, <2>1, <2>3 DEF SameFields
<1>16. ASSUME NEW a \in Alerts, Write(a) \/ WriteEnd(a) PROVE TruthInv'
  <2> DEFINE piece == PieceOf(a)
             n == Len(written) + 1
  <2>1. /\ piece \in Piece /\ piece.alert = a
        /\ written' = Append(written, piece) /\ UNCHANGED <<wire, inbox>>
        /\ Write(a) => task[a].stage = "write" /\ piece.part = task[a].level
        /\ WriteEnd(a) => task[a].stage = "end" /\ piece.part = "end"
    BY <1>1, <1>16, PutIs
  <2> HIDE DEF piece
  <2>2. /\ Others(a) /\ SameFields(task'[a], task[a])
        /\ Write(a) => task'[a].stage = "end"
        /\ WriteEnd(a) => task'[a].stage = "done"
    BY <1>1, <1>16, WriteIs
  <2>3. \A b \in Alerts : Copies(b)' = Copies(b)
    BY <1>2, <2>1
  <2>4. /\ DOMAIN written' = DOMAIN written \cup {n}
        /\ written'[n] = piece /\ n \notin DOMAIN written
        /\ \A i \in DOMAIN written : written'[i] = written[i]
    BY <1>1, <2>1
  <2> HIDE DEF n
  <2>5. \A b \in Alerts : b # a => Heads(b)' = Heads(b) /\ Ends(b)' = Ends(b)
    BY <2>1, <2>4 DEF Heads, Ends
  <2>6. task[a].cfg.enabled /\ Ends(a) = {}
    BY <1>1, <1>16, <2>1 DEF Told, Logged, InLog, Over
  <2>7. ASSUME Write(a) PROVE Sent(a)' /\ Told(a)' /\ Logged(a)'
    <3>1. /\ Heads(a) = {} /\ task[a].stage = "write"
          /\ task[a].level = "OK" => Copies(a) # {}
          /\ task[a].level = "SKIP" => Copies(a) = {} /\ a \notin wire
      BY <1>1, <2>1, <2>7 DEF Told, Logged, InLog, Over
    <3>2. piece.part = task[a].level /\ piece.part # "end"
      BY <1>1, <2>1, <2>7, TaskFields DEF Levels
    <3>3. Heads(a)' = {n} /\ Ends(a)' = {}
      BY <2>1, <2>4, <2>6, <3>1, <3>2 DEF Heads, Ends
    <3>4. task'[a].stage = "end"
      BY <2>2, <2>7
    <3> QED BY <1>1, <2>1, <2>2, <2>3, <2>4, <2>6, <3>1, <3>2, <3>3, <3>4
            DEF Sent, Told, Logged, Early, InLog, Over, SameFields
  <2>8. ASSUME WriteEnd(a) PROVE Sent(a)' /\ Told(a)' /\ Logged(a)'
    <3>1. /\ Heads(a) # {} /\ task[a].stage = "end"
      BY <1>1, <2>1, <2>8 DEF Logged
    <3>2. Ends(a)' = {n} /\ Heads(a)' = Heads(a)
      BY <2>1, <2>4, <2>6, <2>8 DEF Heads, Ends
    <3>3. task'[a].stage = "done" /\ \A i \in Heads(a) : written'[i] = written[i]
      BY <2>2, <2>4, <2>8 DEF Heads
    <3>4. Copies(a)' = Copies(a) /\ wire' = wire /\ task'[a].cfg.enabled
      BY <2>1, <2>2, <2>3, <2>6 DEF SameFields
    <3>5. Sent(a)' /\ Told(a)'
      BY <1>1, <3>3, <3>4 DEF Sent, Told, Early, InLog
    <3>6. \A i, j \in Ends(a)' : i = j
      BY <3>2
    <3>7. Logged(a)'
      BY <1>1, <3>1, <3>2, <3>3, <3>4, <3>6 DEF Logged, Over
    <3> QED BY <3>5, <3>7
  <2>9. Sent(a)' /\ Told(a)' /\ Logged(a)'
    BY <1>16, <2>7, <2>8
  <2>10. ASSUME NEW b \in Alerts, b # a PROVE Sent(b)' /\ Told(b)' /\ Logged(b)'
    <3>1. /\ task'[b] = task[b] /\ Copies(b)' = Copies(b) /\ wire' = wire
          /\ Heads(b)' = Heads(b) /\ Ends(b)' = Ends(b)
          /\ \A i \in Heads(b) : written'[i] = written[i]
      BY <2>1, <2>2, <2>3, <2>4, <2>5, <2>10 DEF Others, Heads
    <3> QED BY <1>1, <3>1 DEF Sent, Told, Logged
  <2> QED BY <1>1, <2>9, <2>10 DEF TruthInv
<1>17. ASSUME UNCHANGED <<task, wire, inbox, written>> PROVE TruthInv'
  BY <1>5, <1>17
<1>18. ASSUME Saving \/ TailOld \/ TailActive \/ UNCHANGED vars
       PROVE  UNCHANGED <<task, wire, inbox, written>>
  BY <1>18 DEF Saving, SaveTelegram, SyncTimezone, Restore, TailOld, TailActive, files, vars
<1>20. ASSUME NEW a \in Alerts, FileFails(a) PROVE TruthInv'
  <2>1. UNCHANGED <<wire, inbox, written>>
    BY <1>1, <1>20, FileFailsIs DEF files
  <2>2. CASE Abandon({a})
    BY <1>19, <2>1, <2>2
  <2>3. CASE /\ task[a].stage \in {"stat", "remove", "rename"}
             /\ Others(a) /\ SameFields(task'[a], task[a])
             /\ task'[a].stage \in {"rename", "open"}
    <3>1. \A b \in Alerts : SameFields(task'[b], task[b])
      BY <2>3 DEF Others, SameFields
    <3> QED BY <1>5, <2>1, <2>3, <3>1 DEF Others, SameFields, InLog
  <2> QED BY <1>1, <1>20, <2>2, <2>3, FileFailsIs
<1>21. ASSUME NEW a \in Alerts, Drop(a) PROVE TruthInv'
  BY <1>19, <1>21 DEF Drop, files
<1>22. ASSUME Restart PROVE TruthInv'
  BY <1>19, <1>22 DEF Restart
<1> QED BY <1>6, <1>8, <1>9, <1>10, <1>12, <1>13, <1>14, <1>15, <1>16, <1>17, <1>18, <1>20,
           <1>21, <1>22 DEF Next, TaskStep

(* An alert has at most one entry in the log: OK only if Telegram has the  *)
(* message, which it never gets twice, SKIP only if it has not and will    *)
(* not.  A task that was attempted and neither failed at the client or the *)
(* file nor was cut off has its entry, text and end.  Messages may be      *)
(* lost, arrive late or after the sender timed out.                        *)
THEOREM LogIsTruthful == Spec => []LogTruthful
<1> QED BY InitTruth, NextTruth, TruthIsTruthful, PTL DEF Spec

-----------------------------------------------------------------------------
(* Rotation keeps the end of the log.  While tasks log one at a time, the  *)
(* two files hold the last writes, at least a full file of them, so does   *)
(* what a reader has of the first with the second as it is, until the log  *)
(* is moved; a task that rotates has a full file to keep, and one that has *)
(* written a text was the last to write.                                   *)
Readable == Content(old) \o Content(active)

EndOf(all, w) ==
  /\ Len(all) <= Len(w)
  /\ \A i \in 1..Len(all) : all[i] = w[Len(w) - Len(all) + i]
  /\ Len(all) >= MaxSize + 1 \/ Len(all) = Len(w)

Alone == \A a, b \in Alerts : task[a].stage \in InLog /\ task[b].stage \in InLog => a = b

HeadAt(i, a) == i > 0 /\ written[i].alert = a /\ written[i].part # "end"

Rotating(a) ==
  /\ task[a].stage \in {"remove", "rename"} => Len(Content(active)) >= MaxSize + 1
  /\ task[a].stage \in {"write", "end"} => task[a].file = "active"
  /\ task[a].stage \notin {"write", "end"} => task[a].file = "none"
  /\ task[a].stage = "end" => HeadAt(Len(written), a)

Seen == reader.on /\ ~reader.moved => EndOf(reader.first \o Content(active), written)

Joined == \A i \in DOMAIN written :
            written[i].part = "end" => HeadAt(i - 1, written[i].alert)

Orderly ==
  /\ Alone /\ \A a \in Alerts : Rotating(a)
  /\ EndOf(Readable, written) /\ Seen /\ Joined

TailInv == TypeOK /\ (crowded \/ Orderly)

LEMMA EndKept ==
  ASSUME NEW o \in Seq(Piece), NEW n \in Seq(Piece), NEW w \in Seq(Piece),
         EndOf(o \o n, w), Len(n) >= MaxSize + 1
  PROVE  EndOf(n, w)
<1>1. /\ o \o n \in Seq(Piece) /\ Len(o \o n) = Len(o) + Len(n)
      /\ \A i \in 1..Len(n) : (o \o n)[Len(o) + i] = n[i]
  OBVIOUS
<1>2. Len(o) \in Nat /\ Len(n) \in Nat /\ Len(w) \in Nat
  OBVIOUS
<1>3. ASSUME NEW i \in 1..Len(n) PROVE n[i] = w[Len(w) - Len(n) + i]
  <2>1. Len(o) + i \in 1..Len(o \o n)
        /\ Len(w) - Len(o \o n) + (Len(o) + i) = Len(w) - Len(n) + i
    BY <1>1, <1>2
  <2>2. (o \o n)[Len(o) + i] = w[Len(w) - Len(o \o n) + (Len(o) + i)]
    BY <2>1 DEF EndOf
  <2> QED BY <1>1, <2>1, <2>2
<1>4. Len(n) <= Len(w)
  BY <1>1, <1>2 DEF EndOf
<1> QED BY <1>3, <1>4 DEF EndOf

LEMMA EndGrows ==
  ASSUME NEW o \in Seq(Piece), NEW n \in Seq(Piece), NEW w \in Seq(Piece), NEW piece \in Piece,
         EndOf(o \o n, w)
  PROVE  EndOf(o \o Append(n, piece), Append(w, piece))
<1> DEFINE all == o \o n
           more == o \o Append(n, piece)
           v == Append(w, piece)
<1>1. all \in Seq(Piece) /\ Len(all) \in Nat /\ Len(w) \in Nat
  OBVIOUS
<1>2. Append(n, piece) \in Seq(Piece) /\ more \in Seq(Piece)
  OBVIOUS
<1>3. more = Append(all, piece)
  <2>1. Len(more) = Len(all) + 1
    BY <1>2
  <2>2. ASSUME NEW i \in 1..Len(all) + 1 PROVE more[i] = Append(all, piece)[i]
    <3>1. CASE i <= Len(o)
      BY <3>1, <1>2
    <3>2. CASE i > Len(o) /\ i <= Len(all)
      BY <3>2, <1>2
    <3>3. CASE i = Len(all) + 1
      BY <3>3, <1>2
    <3> QED BY <3>1, <3>2, <3>3, <1>1
  <2>3. Append(all, piece) \in Seq(Piece) /\ Len(Append(all, piece)) = Len(all) + 1
    BY <1>1
  <2> HIDE DEF more, all
  <2> QED BY <1>2, <2>1, <2>2, <2>3, SeqEqual
<1> HIDE DEF more, all
<1>4. /\ v \in Seq(Piece) /\ Len(v) = Len(w) + 1 /\ v[Len(w) + 1] = piece
      /\ \A i \in 1..Len(w) : v[i] = w[i]
  OBVIOUS
<1>5. /\ Len(more) = Len(all) + 1 /\ more[Len(all) + 1] = piece
      /\ \A i \in 1..Len(all) : more[i] = all[i]
  BY <1>1, <1>3
<1>6. EndOf(all, w)
  BY DEF all
<1> HIDE DEF v
<1>7. ASSUME NEW i \in 1..Len(more) PROVE more[i] = v[Len(v) - Len(more) + i]
  <2>1. Len(v) - Len(more) + i = Len(w) - Len(all) + i
    BY <1>1, <1>4, <1>5
  <2>2. CASE i = Len(all) + 1
    <3>1. Len(w) - Len(all) + i = Len(w) + 1
      BY <1>1, <2>2
    <3> QED BY <1>4, <1>5, <2>1, <2>2, <3>1
  <2>3. CASE i # Len(all) + 1
    <3>1. i \in 1..Len(all) /\ Len(w) - Len(all) + i \in 1..Len(w)
      BY <1>1, <1>5, <1>6, <2>3 DEF EndOf
    <3>2. all[i] = w[Len(w) - Len(all) + i]
      BY <1>6, <3>1 DEF EndOf
    <3> QED BY <1>4, <1>5, <2>1, <3>1, <3>2
  <2> QED BY <2>2, <2>3
<1>8. EndOf(more, v)
  BY <1>1, <1>4, <1>5, <1>6, <1>7, ConstantsTyped DEF EndOf
<1> QED BY <1>8 DEF more, v

(* tail(n) of what is read, for the n writes one full file has. *)
LEMMA EndIsTail ==
  ASSUME TypeOK, NEW first \in Seq(Piece), EndOf(first \o Content(active), written)
  PROVE  LET n == IF Len(written) < MaxSize + 1 THEN Len(written) ELSE MaxSize + 1
         IN  Shown(first, n) = SubSeq(written, Len(written) - n + 1, Len(written))
<1> DEFINE all == first \o Content(active)
           n == IF Len(written) < MaxSize + 1 THEN Len(written) ELSE MaxSize + 1
<1>1. all \in Seq(Piece) /\ written \in Seq(Piece)
  BY ContentTyped DEF TypeOK
<1>2. /\ Len(all) \in Nat /\ Len(written) \in Nat /\ n \in Nat
      /\ n <= Len(all) /\ Len(all) <= Len(written)
  BY <1>1, ConstantsTyped DEF EndOf
<1> HIDE DEF all, n
<1>3. ASSUME NEW s \in Seq(Piece), n <= Len(s)
      PROVE  /\ SubSeq(s, Len(s) - n + 1, Len(s)) \in Seq(Piece)
             /\ Len(SubSeq(s, Len(s) - n + 1, Len(s))) = n
             /\ \A i \in 1..n : SubSeq(s, Len(s) - n + 1, Len(s))[i] = s[Len(s) - n + i]
  BY <1>2, <1>3
<1>4. \A i \in 1..n : all[Len(all) - n + i] = written[Len(written) - n + i]
  <2> SUFFICES ASSUME NEW i \in 1..n PROVE all[Len(all) - n + i] = written[Len(written) - n + i]
      OBVIOUS
  <2>1. Len(all) - n + i \in 1..Len(all)
        /\ Len(written) - Len(all) + (Len(all) - n + i) = Len(written) - n + i
    BY <1>2
  <2>2. all[Len(all) - n + i] = written[Len(written) - Len(all) + (Len(all) - n + i)]
    BY <2>1 DEF EndOf, all
  <2> QED BY <2>1, <2>2
<1> DEFINE t == SubSeq(all, Len(all) - n + 1, Len(all))
           w == SubSeq(written, Len(written) - n + 1, Len(written))
<1>5. t \in Seq(Piece) /\ w \in Seq(Piece) /\ Len(t) = n /\ Len(w) = n
      /\ \A i \in 1..n : t[i] = w[i]
  <2>1. t \in Seq(Piece) /\ Len(t) = n /\ \A i \in 1..n : t[i] = all[Len(all) - n + i]
    BY <1>1, <1>2, <1>3
  <2>2. n <= Len(written)
    BY <1>2
  <2>3. w \in Seq(Piece) /\ Len(w) = n /\ \A i \in 1..n : w[i] = written[Len(written) - n + i]
    BY <1>1, <1>3, <2>2
  <2> HIDE DEF t, w
  <2> QED BY <1>4, <2>1, <2>3
<1>6. t = w
  <2> HIDE DEF t, w
  <2> QED BY <1>5, SeqEqual
<1>7. Shown(first, n) = IF Len(all) > n THEN t ELSE all
  BY DEF Shown, all
<1>8. ~(Len(all) > n) => all = t
  <2>1. ASSUME ~(Len(all) > n) PROVE \A i \in 1..n : all[i] = t[i]
    <3>1. Len(all) = n /\ \A i \in 1..n : Len(all) - n + i = i
      BY <1>2, <2>1
    <3> QED BY <1>1, <1>3, <3>1
  <2>2. ~(Len(all) > n) => Len(all) = n
    BY <1>2
  <2> HIDE DEF t, w
  <2> QED BY <1>1, <1>5, <2>1, <2>2, SeqEqual
<1>9. Shown(first, n) = w
  BY <1>6, <1>7, <1>8
<1> QED BY <1>9 DEF n, w

LEMMA InitTail == Init => TailInv
<1> SUFFICES ASSUME Init PROVE TailInv
    OBVIOUS
<1>1. TypeOK
  BY InitTyped
<1>2. \A a \in Alerts : task[a].stage = "idle" /\ task[a].file = "none"
  BY NewTaskFields DEF Init
<1>3. Readable = written /\ written \in Seq(Piece)
  BY <1>1 DEF Init, Readable, TypeOK
<1>4. EndOf(written, written)
  BY <1>3 DEF EndOf
<1>5. Seen
  BY DEF Init, Seen, NoReader
<1>6. Joined
  BY InitWritten DEF Joined
<1> QED BY <1>1, <1>2, <1>3, <1>4, <1>5, <1>6 DEF TailInv, Orderly, Alone, Rotating, InLog

LEMMA NextTail == TailInv /\ [Next]_vars => TailInv'
<1> SUFFICES ASSUME TailInv, [Next]_vars PROVE crowded' \/ Orderly'
    BY NextTyped DEF TailInv
<1>1. /\ TypeOK /\ TypeOK' /\ task \in [Alerts -> Task] /\ task' \in [Alerts -> Task]
      /\ telegram \in Config /\ zone \in Label /\ written \in Seq(Piece) /\ MaxSize \in Nat
      /\ (active = NoFile \/ active \in Seq(Piece)) /\ (old = NoFile \/ old \in Seq(Piece))
      /\ Content(old) \in Seq(Piece) /\ Content(active) \in Seq(Piece)
      /\ reader.first \in Seq(Piece)
      /\ crowded \/ Orderly
  BY NextTyped, ContentTyped, ConstantsTyped DEF TailInv, TypeOK
<1>2. Orderly => /\ Alone /\ EndOf(Readable, written) /\ Seen /\ Joined
                 /\ \A b \in Alerts : Rotating(b)
  BY DEF Orderly
<1>3. UNCHANGED written => (Joined' <=> Joined) /\ \A i, a : HeadAt(i, a)' <=> HeadAt(i, a)
  BY DEF Joined, HeadAt
(* No task comes to the log. *)
<1>4. ASSUME UNCHANGED <<active, old, written, crowded>>, reader' = reader \/ ~reader'.on,
             \A b \in Alerts :
               \/ task'[b].stage = task[b].stage /\ task'[b].file = task[b].file
               \/ /\ task'[b].stage \notin InLog
                  /\ \/ task'[b].file = "none"
                     \/ task[b].stage \notin {"write", "end"} /\ task'[b].file = task[b].file
      PROVE  crowded' \/ Orderly'
  <2> SUFFICES ASSUME Orderly PROVE Orderly'
      BY <1>1, <1>4
  <2>1. Alone'
    BY <1>2, <1>4 DEF Alone
  <2>2. Readable' = Readable /\ written' = written /\ Content(active)' = Content(active)
    BY <1>4 DEF Readable, Content
  <2>3. Seen'
    BY <1>2, <1>4, <2>2 DEF Seen
  <2>4. \A b \in Alerts : Rotating(b)'
    BY <1>2, <1>3, <1>4, <2>2 DEF Rotating, InLog
  <2> QED BY <1>2, <1>3, <2>1, <2>2, <2>3, <2>4 DEF Orderly
(* A task comes to the log. *)
<1>5. ASSUME NEW a \in Alerts, Others(a), task'[a].stage = "stat", task'[a].file = "none",
             crowded' = (crowded \/ \E b \in Alerts \ {a} : task[b].stage \in InLog),
             UNCHANGED <<active, old, written, reader>>
      PROVE  crowded' \/ Orderly'
  <2> SUFFICES ASSUME Orderly, \A b \in Alerts \ {a} : task[b].stage \notin InLog
               PROVE  Orderly'
      BY <1>1, <1>5
  <2>1. Alone'
    BY <1>5 DEF Alone, Others
  <2>2. Readable' = Readable /\ written' = written /\ Content(active)' = Content(active)
    BY <1>5 DEF Readable, Content
  <2>3. Seen'
    BY <1>2, <1>5, <2>2 DEF Seen
  <2>4. \A b \in Alerts : Rotating(b)'
    BY <1>2, <1>3, <1>5, <2>2 DEF Rotating, Others
  <2> QED BY <1>2, <1>3, <2>1, <2>2, <2>3, <2>4 DEF Orderly
(* A task in the log goes on, and the files stay as they are. *)
<1>6. ASSUME NEW a \in Alerts, Others(a), UNCHANGED files,
             task[a].stage \in {"stat", "remove", "rename"}, task'[a].file = task[a].file,
             task'[a].stage \in {"remove", "rename", "open"},
             task'[a].stage = "remove" => Len(Content(active)) >= MaxSize + 1,
             task'[a].stage = "rename" => task[a].stage = "remove"
      PROVE  crowded' \/ Orderly'
  <2> SUFFICES ASSUME Orderly PROVE Orderly'
      BY <1>1, <1>6 DEF files
  <2>1. Alone'
    BY <1>2, <1>6 DEF Alone, Others, InLog
  <2>2. /\ Readable' = Readable /\ written' = written /\ Content(active)' = Content(active)
        /\ reader' = reader
    BY <1>6 DEF files, Readable, Content
  <2>3. Seen'
    BY <1>2, <2>2 DEF Seen
  <2>4. \A b \in Alerts : Rotating(b)'
    BY <1>2, <1>3, <1>6, <2>2 DEF Rotating, Others
  <2> QED BY <1>2, <1>3, <2>1, <2>2, <2>3, <2>4 DEF Orderly
<1>7. ASSUME NEW S, Abandon(S), UNCHANGED <<active, old, written, crowded>>,
             reader' = reader \/ ~reader'.on
      PROVE  crowded' \/ Orderly'
  <2>1. \A b \in Alerts : \/ task'[b] = task[b]
                          \/ task'[b].stage = "lost" /\ task'[b].file = "none"
    BY <1>1, <1>7, AbandonIs
  <2> QED BY <1>4, <1>7, <2>1 DEF InLog
<1>8. ASSUME NEW a \in Alerts, Others(a), task'[a].stage \notin InLog,
             task'[a].file = "none" \/ task'[a].file = task[a].file,
             task[a].stage \notin {"write", "end"}, UNCHANGED files
      PROVE  crowded' \/ Orderly'
  BY <1>4, <1>8 DEF Others, files
<1>9. ASSUME NEW a \in Alerts, Notify(a) PROVE crowded' \/ Orderly'
  <2>1. Goto(a, "load") /\ "load" \in Stages /\ UNCHANGED files /\ task[a].stage = "idle"
    BY <1>9 DEF Notify, Stages
  <2>2. Others(a) /\ task'[a].stage = "load" /\ task'[a].file = task[a].file
    BY <1>1, <2>1, GotoIs
  <2> QED BY <1>8, <2>1, <2>2 DEF InLog
<1>10. ASSUME NEW a \in Alerts, NEW c \in Configs, Test(a, c) PROVE crowded' \/ Orderly'
  <2>1. task[a].stage = "idle"
    BY <1>10 DEF Test
  <2>2. /\ Others(a) /\ UNCHANGED <<active, old, written, reader>>
        /\ \/ /\ task'[a].stage = "send" /\ task'[a].file = task[a].file /\ crowded' = crowded
           \/ /\ task'[a].stage = "stat" /\ task'[a].file = "none"
              /\ crowded' = (crowded \/ \E b \in Alerts \ {a} : task[b].stage \in InLog)
    BY <1>1, <1>10, TestIs
  <2>3. CASE task'[a].stage = "send" /\ task'[a].file = task[a].file /\ crowded' = crowded
    BY <1>8, <2>1, <2>2, <2>3 DEF files, InLog
  <2> QED BY <1>5, <2>2, <2>3
<1>11. ASSUME NEW a \in Alerts, NEW miss, Load(a, miss) \/ LoadZone(a, miss)
       PROVE  crowded' \/ Orderly'
  <2>1. UNCHANGED files /\ task[a].stage \in {"load", "zone"}
    BY <1>11 DEF Load, LoadZone
  <2>2. /\ Others(a) /\ (task'[a].file = "none" \/ task'[a].file = task[a].file)
        /\ task'[a].stage \in {"zone", "done", "send"}
    BY <1>1, <1>11, LoadIs, LoadZoneIs
  <2> QED BY <1>8, <2>1, <2>2 DEF InLog
<1>12. ASSUME NEW a \in Alerts, NEW level \in Levels, Report(a, level, task)
       PROVE  crowded' \/ Orderly'
  BY <1>1, <1>5, <1>12, ReportIs
<1>13. ASSUME NEW a \in Alerts, Send(a) PROVE crowded' \/ Orderly'
  <2>1. task[a].stage = "send"
    BY <1>13 DEF Send
  <2>2. CASE Report(a, "SKIP", task)
    BY <1>12, <2>2 DEF Levels
  <2>3. CASE Goto(a, "flying") /\ UNCHANGED files
    <3>1. Others(a) /\ task'[a].stage = "flying" /\ task'[a].file = task[a].file
      BY <1>1, <2>3, GotoIs DEF Stages
    <3> QED BY <1>8, <2>1, <2>3, <3>1 DEF InLog
  <2>4. CASE Abandon({a}) /\ UNCHANGED files
    BY <1>7, <2>4 DEF files
  <2> QED BY <1>13, <2>2, <2>3, <2>4 DEF Send
<1>14. ASSUME NEW a \in Alerts, Answer(a) PROVE crowded' \/ Orderly'
  BY <1>12, <1>14 DEF Answer, Levels
<1>15. ASSUME NEW a \in Alerts, Stat(a) PROVE crowded' \/ Orderly'
  <2>1. task[a].stage = "stat" /\ UNCHANGED files
    BY <1>15 DEF Stat
  <2>2. PICK stage \in {"remove", "open"} :
          Goto(a, stage) /\ (stage = "remove" => active # NoFile /\ Len(active) > MaxSize)
    BY <1>15 DEF Stat
  <2>3. stage \in Stages
    BY DEF Stages
  <2>4. Others(a) /\ task'[a].stage = stage /\ task'[a].file = task[a].file
    BY <1>1, <2>2, <2>3, GotoIs
  <2>5. stage = "remove" => Len(Content(active)) >= MaxSize + 1
    BY <1>1, <2>2 DEF Content
  <2> QED BY <1>6, <2>1, <2>4, <2>5
<1>16. ASSUME NEW a \in Alerts, Remove(a) PROVE crowded' \/ Orderly'
  <2>1. task[a].stage = "remove" /\ old' = NoFile /\ UNCHANGED <<active, written, crowded, reader>>
    BY <1>16 DEF Remove
  <2> SUFFICES ASSUME Orderly PROVE Orderly'
      BY <1>1, <2>1
  <2>2. /\ task'[a].stage = "rename"
        /\ \A b \in Alerts :
             /\ b # a => task'[b].stage = task[b].stage
             /\ task'[b].file = IF task[b].file = "old" THEN "gone" ELSE task[b].file
    BY <1>1, <1>16, RemoveIs
  <2>3. Alone'
    BY <1>2, <2>1, <2>2 DEF Alone, InLog
  <2>4. Content(active)' = Content(active) /\ Readable' = Content(active)
    BY <1>1, <2>1, ConcatEmptySeq DEF Readable, Content
  <2>5. Len(Content(active)) >= MaxSize + 1
    BY <1>2, <2>1 DEF Rotating
  <2>6. EndOf(Content(active), written)
    BY <1>1, <1>2, <2>5, EndKept DEF Readable
  <2>7. Seen'
    BY <1>2, <2>1, <2>4 DEF Seen
  <2>8. \A b \in Alerts : Rotating(b)'
    BY <1>2, <1>3, <2>1, <2>2, <2>4, <2>5 DEF Rotating
  <2> QED BY <1>2, <1>3, <2>1, <2>3, <2>4, <2>6, <2>7, <2>8 DEF Orderly
<1>17. ASSUME NEW a \in Alerts, Rename(a) PROVE crowded' \/ Orderly'
  <2>1. task[a].stage = "rename" /\ UNCHANGED <<written, crowded>>
    BY <1>17 DEF Rename
  <2> SUFFICES ASSUME Orderly PROVE Orderly'
      BY <1>1, <2>1
  <2>2. Len(Content(active)) >= MaxSize + 1 /\ active # NoFile
    <3>1. Len(Content(active)) >= MaxSize + 1
      BY <1>2, <2>1 DEF Rotating
    <3>2. Len(Content(NoFile)) = 0
      BY DEF Content
    <3> QED BY <1>1, <3>1, <3>2
  <2>3. old' = active /\ active' = NoFile /\ reader' = [reader EXCEPT !.moved = TRUE]
    BY <1>17, <2>2 DEF Rename
  <2>4. /\ task'[a].stage = "open"
        /\ \A b \in Alerts :
             /\ b # a => task'[b].stage = task[b].stage
             /\ task[b].file = "none" => task'[b].file = "none"
    BY <1>1, <1>17, RenameIs
  <2>5. Alone'
    BY <1>2, <2>1, <2>4 DEF Alone, InLog
  <2>6. Readable' = Content(active)
    BY <1>1, <2>2, <2>3, ConcatEmptySeq DEF Readable, Content
  <2>7. EndOf(Content(active), written)
    BY <1>1, <1>2, <2>2, EndKept DEF Readable
  <2>8. reader'.moved
    BY <1>1, <2>3 DEF TypeOK
  <2>9. \A b \in Alerts : b # a => task[b].stage \notin InLog
    BY <1>2, <2>1 DEF Alone, InLog
  <2>10. \A b \in Alerts : task[b].file = "none"
    BY <1>2, <2>1, <2>9 DEF Rotating, InLog
  <2>11. \A b \in Alerts : Rotating(b)'
    BY <2>1, <2>4, <2>9, <2>10 DEF Rotating, InLog
  <2> QED BY <1>2, <1>3, <2>1, <2>5, <2>6, <2>7, <2>8, <2>11 DEF Orderly, Seen
<1>18. ASSUME NEW a \in Alerts, Open(a) PROVE crowded' \/ Orderly'
  <2>1. /\ task[a].stage = "open" /\ UNCHANGED <<old, written, crowded, reader>>
        /\ active' = IF active = NoFile THEN <<>> ELSE active
    BY <1>18 DEF Open
  <2> SUFFICES ASSUME Orderly PROVE Orderly'
      BY <1>1, <2>1
  <2>2. Others(a) /\ task'[a].stage = "write" /\ task'[a].file = "active"
    BY <1>1, <1>18, OpenIs
  <2>3. Alone'
    BY <1>2, <2>1, <2>2 DEF Alone, Others, InLog
  <2>4. Content(active)' = Content(active) /\ Readable' = Readable
    BY <2>1 DEF Readable, Content
  <2>5. Seen'
    BY <1>2, <2>1, <2>4 DEF Seen
  <2>6. \A b \in Alerts : Rotating(b)'
    BY <1>2, <1>3, <2>1, <2>2, <2>4 DEF Rotating, Others
  <2> QED BY <1>2, <1>3, <2>1, <2>3, <2>4, <2>5, <2>6 DEF Orderly
<1>19. ASSUME NEW a \in Alerts, Write(a) \/ WriteEnd(a) PROVE crowded' \/ Orderly'
  <2> DEFINE piece == PieceOf(a)
             n == Len(written) + 1
  <2>1. /\ piece \in Piece /\ piece.alert = a /\ UNCHANGED <<crowded, reader>>
        /\ active' = IF task[a].file = "active" THEN Append(active, piece) ELSE active
        /\ old' = IF task[a].file = "old" THEN Append(old, piece) ELSE old
        /\ written' = Append(written, piece)
        /\ Write(a) => task[a].stage = "write" /\ piece.part = task[a].level
        /\ WriteEnd(a) => task[a].stage = "end" /\ piece.part = "end"
    BY <1>1, <1>19, PutIs
  <2> HIDE DEF piece
  <2> SUFFICES ASSUME Orderly PROVE Orderly'
      BY <1>1, <2>1
  <2>2. task[a].file = "active" /\ task[a].stage \in {"write", "end"}
    BY <1>2, <1>19, <2>1 DEF Rotating
  <2>3. active # NoFile /\ active \in Seq(Piece)
    BY <1>1, <2>2 DEF TypeOK
  <2>4. active' = Append(active, piece) /\ old' = old
    BY <2>1, <2>2
  <2>5. active' # NoFile
    <3>1. active' \in Seq(Piece)
      BY <2>1, <2>3, <2>4
    <3> QED BY <3>1, NoFileIs
  <2>6. /\ Content(active)' = Append(Content(active), piece)
        /\ Readable' = Content(old) \o Append(Content(active), piece)
    BY <2>3, <2>4, <2>5 DEF Readable, Content
  <2>7. EndOf(Readable', written')
    BY <1>1, <1>2, <2>1, <2>6, EndGrows DEF Readable
  <2>8. Seen'
    <3>1. ASSUME reader.on /\ ~reader.moved
          PROVE  EndOf(reader.first \o Content(active)', written')
      BY <1>1, <1>2, <2>1, <2>6, <3>1, EndGrows DEF Seen
    <3>2. reader' = reader
      BY <2>1
    <3> QED BY <3>1, <3>2 DEF Seen, EndOf
  <2>9. /\ Len(written') = n /\ DOMAIN written' = DOMAIN written \cup {n}
        /\ written'[n] = piece /\ n \in Nat /\ n > 0 /\ n - 1 = Len(written)
        /\ \A i \in DOMAIN written : i > 0 /\ i < n /\ written'[i] = written[i]
        /\ DOMAIN written = 1..Len(written)
    BY <1>1, <2>1
  <2> HIDE DEF n
  <2>10. \A i, b : i \in DOMAIN written => (HeadAt(i, b)' <=> HeadAt(i, b))
    BY <2>9 DEF HeadAt
  <2>11. Joined'
    <3>1. ASSUME NEW i \in DOMAIN written, written[i].part = "end"
          PROVE  HeadAt(i - 1, written[i].alert)'
      <4>1. HeadAt(i - 1, written[i].alert)
        BY <1>2, <3>1 DEF Joined
      <4>2. i - 1 \in DOMAIN written
        BY <1>1, <2>9, <4>1 DEF HeadAt
      <4> QED BY <2>10, <4>1, <4>2, <2>9, <3>1 DEF HeadAt
    <3>2. CASE Write(a)
      <4>1. piece.part # "end"
        BY <1>1, <2>1, <3>2, TaskFields DEF Levels
      <4> QED BY <2>9, <3>1, <4>1 DEF Joined
    <3>3. CASE WriteEnd(a)
      <4>1. HeadAt(Len(written), a)
        BY <1>2, <2>1, <3>3 DEF Rotating
      <4>2. n - 1 \in DOMAIN written
        BY <1>1, <2>9, <4>1 DEF HeadAt
      <4>3. n - 1 > 0 /\ written'[n - 1].alert = a /\ written'[n - 1].part # "end"
        BY <2>9, <4>1, <4>2 DEF HeadAt
      <4>4. ASSUME NEW i \in DOMAIN written', written'[i].part = "end"
            PROVE  HeadAt(i - 1, written[i].alert)'
        <5>1. CASE i \in DOMAIN written
          BY <2>9, <3>1, <4>4, <5>1
        <5>2. CASE i = n
          BY <2>1, <2>9, <4>3, <5>2 DEF HeadAt
        <5> QED BY <2>9, <4>4, <5>1, <5>2
      <4> QED BY <4>4 DEF Joined
    <3> QED BY <1>19, <3>2, <3>3
  <2>12. /\ Others(a)
         /\ Write(a) => task'[a].stage = "end" /\ task'[a].file = task[a].file
         /\ WriteEnd(a) => task'[a].stage = "done" /\ task'[a].file = "none"
    BY <1>1, <1>19, WriteIs
  <2>13. \A b \in Alerts : b # a => task[b].stage \notin InLog
    BY <1>2, <2>2 DEF Alone, InLog
  <2>14. Write(a) => HeadAt(Len(written), a)'
    BY <1>1, <2>1, <2>9, TaskFields DEF HeadAt, Levels
  <2>15. Alone'
    BY <1>19, <2>12, <2>13 DEF Alone, Others, InLog
  <2>16. ASSUME NEW b \in Alerts PROVE Rotating(b)'
    <3>1. CASE b = a
      BY <1>19, <2>2, <2>12, <2>14, <3>1 DEF Rotating
    <3>2. CASE b # a
      BY <1>2, <2>12, <2>13, <3>2 DEF Rotating, Others, InLog
    <3> QED BY <3>1, <3>2
  <2> QED BY <2>7, <2>8, <2>11, <2>15, <2>16 DEF Orderly, EndOf
<1>20. ASSUME NEW a \in Alerts, FileFails(a) PROVE crowded' \/ Orderly'
  <2>1. UNCHANGED files
    BY <1>1, <1>20, FileFailsIs
  <2>2. CASE Abandon({a})
    BY <1>7, <2>1, <2>2 DEF files
  <2>3. CASE /\ task[a].stage \in {"stat", "remove", "rename"} /\ Others(a)
             /\ task'[a].stage \in {"rename", "open"} /\ task'[a].file = task[a].file
             /\ task'[a].stage = "rename" => task[a].stage = "remove"
    BY <1>6, <2>1, <2>3
  <2> QED BY <1>1, <1>20, <2>2, <2>3, FileFailsIs
<1>21. ASSUME NEW a \in Alerts, Drop(a) PROVE crowded' \/ Orderly'
  BY <1>7, <1>21 DEF Drop, files
<1>22. ASSUME Restart PROVE crowded' \/ Orderly'
  <2>1. ~reader'.on
    BY <1>22 DEF Restart, NoReader
  <2> QED BY <1>7, <1>22, <2>1 DEF Restart
<1>23. ASSUME TailOld PROVE crowded' \/ Orderly'
  <2>1. /\ UNCHANGED <<task, active, old, written, crowded>>
        /\ reader' = [on |-> TRUE, first |-> Content(old), moved |-> FALSE]
    BY <1>23 DEF TailOld
  <2> SUFFICES ASSUME Orderly PROVE Orderly'
      BY <1>1, <2>1
  <2>2. Readable' = Readable /\ Content(active)' = Content(active)
    BY <2>1 DEF Readable, Content
  <2>3. Seen'
    BY <1>2, <2>1, <2>2 DEF Seen, Readable
  <2>4. Alone' /\ \A b \in Alerts : Rotating(b)'
    BY <1>2, <1>3, <2>1, <2>2 DEF Alone, Rotating
  <2> QED BY <1>2, <1>3, <2>1, <2>2, <2>3, <2>4 DEF Orderly
<1>24. ASSUME TailActive PROVE crowded' \/ Orderly'
  <2>1. ~reader'.on /\ UNCHANGED <<task, active, old, written, crowded>>
    BY <1>24 DEF TailActive, NoReader
  <2> QED BY <1>4, <2>1
<1>25. ASSUME Saving \/ (\E a \in Alerts : Arrive(a) \/ Lose(a)) \/ UNCHANGED vars
       PROVE  crowded' \/ Orderly'
  <2>1. UNCHANGED <<task, files>>
    BY <1>25 DEF Saving, SaveTelegram, SyncTimezone, Restore, Arrive, Lose, files, vars
  <2> QED BY <1>4, <2>1 DEF files
<1> QED BY <1>9, <1>10, <1>11, <1>13, <1>14, <1>15, <1>16, <1>17, <1>18, <1>19, <1>20, <1>21,
           <1>22, <1>23, <1>24, <1>25 DEF Next, TaskStep

(* As long as no two tasks are inside alert_log::log at once, the last      *)
(* writes, up to one full file of them, can be read at every moment: also   *)
(* between the removal of the old file and the renaming of the active one,  *)
(* before it is opened again, after a failed operation and after a restart; *)
(* a tail between its two reads shows them unless the log was moved in      *)
(* between; and the end of a line stands behind its text.                   *)
THEOREM TailIsComplete == Spec => []TailComplete
<1>1. TailInv => TailComplete
  <2> SUFFICES ASSUME TailInv, ~crowded PROVE TailComplete
      BY DEF TailComplete
  <2>1. TypeOK /\ EndOf(Readable, written) /\ Seen /\ Joined
    BY DEF TailInv, Orderly
  <2> DEFINE n == IF Len(written) < MaxSize + 1 THEN Len(written) ELSE MaxSize + 1
             last == SubSeq(written, Len(written) - n + 1, Len(written))
  <2>2. Content(old) \in Seq(Piece) /\ reader.first \in Seq(Piece)
    BY <2>1, ContentTyped DEF TypeOK
  <2>3. Shown(Content(old), n) = last
    BY <2>1, <2>2, EndIsTail DEF Readable
  <2>4. reader.on /\ ~reader.moved => Shown(reader.first, n) = last
    BY <2>1, <2>2, EndIsTail DEF Seen
  <2>5. ASSUME NEW i \in DOMAIN written, written[i].part = "end"
        PROVE  /\ i > 1
               /\ written[i - 1].alert = written[i].alert /\ written[i - 1].part # "end"
    <3>1. HeadAt(i - 1, written[i].alert)
      BY <2>1, <2>5 DEF Joined
    <3>2. i \in Nat
      <4>1. written \in Seq(Piece)
        BY <2>1 DEF TypeOK
      <4> QED BY <4>1
    <3>3. /\ i - 1 > 0
          /\ written[i - 1].alert = written[i].alert /\ written[i - 1].part # "end"
      BY <3>1 DEF HeadAt
    <3> QED BY <3>2, <3>3
  <2>6. \A i \in DOMAIN written : written[i].part = "end" =>
          /\ i > 1
          /\ written[i - 1].alert = written[i].alert /\ written[i - 1].part # "end"
    BY <2>5
  <2> QED BY <2>3, <2>4, <2>6 DEF TailComplete
<1> QED BY InitTail, NextTail, <1>1, PTL DEF Spec
-----------------------------------------------------------------------------
(* The promise.  A step changes the fate of one alert, or is one of the    *)
(* network, or changes nothing of what is promised.                        *)
promised == <<Fate, wire, inbox, written>>

LEMMA FateIs ==
  ASSUME NEW t
  PROVE  /\ t.stage \in Early => FateOf(t) = "waiting"
         /\ t.stage = "flying" => FateOf(t) = "trying"
         /\ t.stage \in InLog \ {"end"} => FateOf(t) = t.level
         /\ t.stage = "end" => FateOf(t) = "begun"
         /\ t.stage \in Over => FateOf(t) = "through"
BY DEF FateOf, Early, InLog, Over

LEMMA InitPromise == Init => Promise!Init
<1> SUFFICES ASSUME Init PROVE Promise!Init
    OBVIOUS
<1>1. \A a \in Alerts : task[a].stage = "idle"
  BY NewTaskFields DEF Init
<1>2. \A a \in Alerts : FateOf(task[a]) = "waiting"
  BY <1>1, FateIs DEF Early
<1>3. Fate = [a \in Alerts |-> "waiting"]
  BY <1>2 DEF Fate
<1>4. \A i \in DOMAIN written : written[i].alert \notin Alerts
  <2>1. 0 \notin Alerts
    BY ConstantsTyped DEF Alerts
  <2> QED BY <2>1, InitWritten
<1> QED BY <1>3, <1>4 DEF Init, Promise!Init

(* A step of one task is a step of its alert, seen through the fates.      *)
LEMMA OneFate ==
  ASSUME NEW a \in Alerts, Others(a)
  PROVE  /\ Fate' = [Fate EXCEPT ![a] = FateOf(task'[a])]
         /\ FateOf(task'[a]) = FateOf(task[a]) => Fate' = Fate
<1>1. \A b \in Alerts : b # a => FateOf(task'[b]) = FateOf(task[b])
  BY DEF Others
<1>2. Fate' = [b \in Alerts |-> FateOf(task'[b])]
  BY DEF Fate
<1> QED BY <1>1, <1>2 DEF Fate

(* Tasks that are lost are alerts given up.                                *)
LEMMA Given ==
  ASSUME task \in [Alerts -> Task], NEW S \in SUBSET Alerts, Abandon(S),
         UNCHANGED <<wire, inbox, written>>
  PROVE  Promise!Stop(S)
<1>1. \A b \in Alerts : FateOf(task'[b]) = IF b \in S THEN "through" ELSE FateOf(task[b])
  <2> SUFFICES ASSUME NEW b \in Alerts
               PROVE  FateOf(task'[b]) = IF b \in S THEN "through" ELSE FateOf(task[b])
      OBVIOUS
  <2>1. IF b \in S THEN task'[b].stage = "lost" ELSE task'[b] = task[b]
    BY AbandonIs
  <2> QED BY <2>1, FateIs DEF Over
<1>2. Fate' = [b \in Alerts |-> FateOf(task'[b])]
  BY DEF Fate
<1> QED BY <1>1, <1>2 DEF Fate, Promise!Stop

LEMMA NextPromise ==
  ASSUME TypeOK, [Next]_vars
  PROVE  [Promise!Next]_promised
<1>1. /\ task \in [Alerts -> Task]
      /\ telegram \in Config /\ zone \in Label
  BY DEF TypeOK
<1>2. \A a \in Alerts : Fate[a] = FateOf(task[a]) /\ task[a].level \in Levels
  BY <1>1, TaskFields DEF Fate
<1>3. \A a \in Alerts : {a} \in SUBSET Alerts
  OBVIOUS
(* A verdict, on the way to the log. *)
<1>4. ASSUME NEW a \in Alerts, NEW level \in Levels, Report(a, level, task)
      PROVE  /\ Fate' = [Fate EXCEPT ![a] = level]
             /\ written' = written
  <2>1. /\ Others(a) /\ task'[a].stage = "stat" /\ task'[a].level = level
        /\ written' = written
    BY <1>1, <1>4, ReportIs
  <2>2. FateOf(task'[a]) = level
    BY <2>1, FateIs DEF InLog
  <2> QED BY <2>1, <2>2, OneFate
<1>5. ASSUME NEW a \in Alerts, Notify(a) PROVE UNCHANGED promised
  <2>1. Goto(a, "load") /\ "load" \in Stages /\ task[a].stage = "idle"
        /\ UNCHANGED <<wire, inbox, written>>
    BY <1>5 DEF Notify, Stages, files
  <2>2. Others(a) /\ task'[a].stage = "load"
    BY <1>1, <2>1, GotoIs
  <2>3. FateOf(task'[a]) = FateOf(task[a])
    BY <2>1, <2>2, FateIs DEF Early
  <2> QED BY <2>1, <2>2, <2>3, OneFate DEF promised
<1>6. ASSUME NEW a \in Alerts, NEW c \in Configs, Test(a, c)
      PROVE  Promise!Refuse(a) \/ UNCHANGED promised
  <2>1. UNCHANGED <<wire, inbox>> /\ task[a].stage = "idle"
    BY <1>6 DEF Test
  <2>2. /\ Others(a) /\ written' = written
        /\ \/ task'[a].stage = "send"
           \/ task'[a].stage = "stat" /\ task'[a].level = "ERROR"
    BY <1>1, <1>6, TestIs
  <2>3. FateOf(task[a]) = "waiting" /\ Fate[a] = "waiting"
    BY <1>2, <2>1, FateIs DEF Early
  <2>4. CASE task'[a].stage = "send"
    <3>1. FateOf(task'[a]) = FateOf(task[a])
      BY <2>3, <2>4, FateIs DEF Early
    <3> QED BY <2>1, <2>2, <3>1, OneFate DEF promised
  <2>5. CASE task'[a].stage = "stat" /\ task'[a].level = "ERROR"
    <3>1. FateOf(task'[a]) = "ERROR" /\ "ERROR" \in Levels \ {"OK"}
      BY <2>5, FateIs DEF InLog, Levels
    <3>2. Fate' = [Fate EXCEPT ![a] = "ERROR"]
      BY <2>2, <3>1, OneFate
    <3> QED BY <2>1, <2>2, <2>3, <3>1, <3>2 DEF Promise!Refuse, Promise!Become
  <2> QED BY <2>2, <2>4, <2>5
<1>7. ASSUME NEW a \in Alerts, NEW miss, Load(a, miss)
      PROVE  Promise!Stop({a}) \/ UNCHANGED promised
  <2>1. UNCHANGED <<wire, inbox, written>> /\ task[a].stage = "load"
    BY <1>7 DEF Load, files
  <2>2. Others(a) /\ task'[a].stage \in {"zone", "done"}
    BY <1>1, <1>7, LoadIs
  <2>3. CASE task'[a].stage = "zone"
    <3>1. FateOf(task'[a]) = FateOf(task[a])
      BY <2>1, <2>3, FateIs DEF Early
    <3> QED BY <2>1, <2>2, <3>1, OneFate DEF promised
  <2>4. CASE task'[a].stage = "done"
    <3>1. FateOf(task'[a]) = "through"
      BY <2>4, FateIs DEF Over
    <3>2. Fate' = [Fate EXCEPT ![a] = "through"]
      BY <2>2, <3>1, OneFate
    <3>3. Fate' = [b \in Alerts |-> IF b \in {a} THEN "through" ELSE Fate[b]]
      BY <3>2 DEF Fate
    <3> QED BY <2>1, <3>3 DEF Promise!Stop
  <2> QED BY <2>2, <2>3, <2>4
<1>8. ASSUME NEW a \in Alerts, NEW miss, LoadZone(a, miss) PROVE UNCHANGED promised
  <2>1. task[a].stage = "zone" /\ wire' = wire /\ inbox' = inbox /\ written' = written
    BY <1>8, Zenon DEF LoadZone, files
  <2>2. Others(a) /\ task'[a].stage = "send"
    BY <1>1, <1>8, LoadZoneIs
  <2>3. FateOf(task'[a]) = FateOf(task[a])
    BY <2>1, <2>2, FateIs DEF Early
  <2> QED BY <2>1, <2>2, <2>3, OneFate DEF promised
<1>9. ASSUME NEW a \in Alerts, Send(a)
      PROVE  Promise!Refuse(a) \/ Promise!Try(a) \/ Promise!Stop({a})
  <2>1. task[a].stage = "send" /\ UNCHANGED inbox
    BY <1>9 DEF Send
  <2>2. Fate[a] = "waiting"
    BY <1>2, <2>1, FateIs DEF Early
  <2>3. CASE task[a].cfg.token = NoText \/ task[a].cfg.chat = NoText
    <3>1. Report(a, "SKIP", task) /\ UNCHANGED wire /\ "SKIP" \in Levels \ {"OK"}
      BY <1>9, <2>3 DEF Send, Levels
    <3>2. Fate' = [Fate EXCEPT ![a] = "SKIP"] /\ written' = written
      BY <1>4, <3>1
    <3> QED BY <2>1, <2>2, <3>1, <3>2 DEF Promise!Refuse, Promise!Become
  <2>4. CASE ~(task[a].cfg.token = NoText \/ task[a].cfg.chat = NoText)
    <3>1. /\ UNCHANGED written
          /\ \/ Goto(a, "flying") /\ wire' = wire \cup {a}
             \/ Abandon({a}) /\ UNCHANGED wire
      BY <1>9, <2>4 DEF Send, files
    <3>2. CASE Goto(a, "flying") /\ wire' = wire \cup {a}
      <4>1. "flying" \in Stages
        BY DEF Stages
      <4>2. Others(a) /\ task'[a].stage = "flying"
        BY <1>1, <3>2, <4>1, GotoIs
      <4>3. Fate' = [Fate EXCEPT ![a] = "trying"]
        BY <4>2, FateIs, OneFate
      <4> QED BY <2>1, <2>2, <3>1, <3>2, <4>3 DEF Promise!Try, Promise!Become
    <3>3. CASE Abandon({a}) /\ UNCHANGED wire
      BY <1>1, <1>3, <2>1, <3>1, <3>3, Given
    <3> QED BY <3>1, <3>2, <3>3
  <2> QED BY <2>3, <2>4
<1>10. ASSUME NEW a \in Alerts, Answer(a) PROVE Promise!Conclude(a)
  <2>1. task[a].stage = "flying" /\ UNCHANGED <<wire, inbox>>
        /\ "OK" \in Levels /\ "ERROR" \in Levels
    BY <1>10 DEF Answer, Levels
  <2>2. Fate[a] = "trying"
    BY <1>2, <2>1, FateIs
  <2>3. CASE (\E i \in DOMAIN inbox : inbox[i] = a) /\ Report(a, "OK", task)
    BY <1>4, <2>1, <2>2, <2>3 DEF Promise!Conclude, Promise!Become
  <2>4. CASE Report(a, "ERROR", task)
    BY <1>4, <2>1, <2>2, <2>4 DEF Promise!Conclude, Promise!Become
  <2> QED BY <1>10, <2>3, <2>4 DEF Answer
<1>11. ASSUME NEW a \in Alerts, Arrive(a) \/ Lose(a) PROVE Promise!Arrive(a) \/ Promise!Lose(a)
  <2>1. task' = task => Fate' = Fate
    BY DEF Fate
  <2> QED BY <1>11, <2>1 DEF Arrive, Lose, files, Promise!Arrive, Promise!Lose
(* The file operations before the entry is written, done or passed over. *)
<1>12. ASSUME NEW a \in Alerts, UNCHANGED <<wire, inbox, written>>,
              task[a].stage \in InLog \ {"end"}, task'[a].stage \in InLog \ {"end"},
              \A b \in Alerts : task'[b].level = task[b].level,
              \A b \in Alerts : b # a => task'[b].stage = task[b].stage
       PROVE  UNCHANGED promised
  <2>1. \A b \in Alerts : FateOf(task'[b]) = FateOf(task[b])
    <3>1. FateOf(task'[a]) = FateOf(task[a])
      BY <1>12, FateIs
    <3>2. \A b \in Alerts : b # a => FateOf(task'[b]) = FateOf(task[b])
      BY <1>12 DEF FateOf
    <3> QED BY <3>1, <3>2
  <2>2. Fate' = Fate
    BY <2>1 DEF Fate
  <2> QED BY <1>12, <2>2 DEF promised
<1>13. ASSUME NEW a \in Alerts, Stat(a) \/ Remove(a) \/ Rename(a) \/ Open(a)
       PROVE  UNCHANGED promised
  <2>1. UNCHANGED <<wire, inbox, written>> /\ task[a].stage \in InLog \ {"end"}
    BY <1>13 DEF Stat, Remove, Rename, Open, files, InLog
  <2>2. /\ \A b \in Alerts : task'[b].level = task[b].level
        /\ \A b \in Alerts : b # a => task'[b].stage = task[b].stage
        /\ task'[a].stage \in InLog \ {"end"}
    <3>1. CASE Stat(a)
      <4>1. PICK stage \in {"remove", "open"} : Goto(a, stage)
        BY <3>1 DEF Stat
      <4>2. stage \in Stages /\ stage \in InLog \ {"end"}
        BY DEF Stages, InLog
      <4> QED BY <1>1, <4>1, <4>2, GotoIs DEF Others, SameFields
    <3>2. CASE Remove(a)
      BY <1>1, <3>2, RemoveIs DEF InLog, SameFields
    <3>3. CASE Rename(a)
      BY <1>1, <3>3, RenameIs DEF InLog, SameFields
    <3>4. CASE Open(a)
      BY <1>1, <3>4, OpenIs DEF Others, SameFields, InLog
    <3> QED BY <1>13, <3>1, <3>2, <3>3, <3>4
  <2> QED BY <1>12, <2>1, <2>2
<1>14. ASSUME NEW a \in Alerts, Write(a) PROVE Promise!Log(a)
  <2>1. task[a].stage = "write" /\ UNCHANGED <<wire, inbox>>
        /\ written' = Append(written, [alert |-> a, part |-> task[a].level])
    BY <1>14 DEF Write, Put
  <2>2. Others(a) /\ task'[a].stage = "end"
    BY <1>1, <1>14, WriteIs
  <2>3. Fate[a] = task[a].level /\ task[a].level \in Levels
    BY <1>2, <2>1, FateIs DEF InLog
  <2>4. Fate' = [Fate EXCEPT ![a] = "begun"]
    BY <2>2, FateIs, OneFate
  <2> QED BY <2>1, <2>3, <2>4 DEF Promise!Log, Promise!Become
<1>15. ASSUME NEW a \in Alerts, WriteEnd(a) PROVE Promise!Finish(a)
  <2>1. task[a].stage = "end" /\ UNCHANGED <<wire, inbox>>
        /\ written' = Append(written, [alert |-> a, part |-> "end"])
    BY <1>15 DEF WriteEnd, Put
  <2>2. Others(a) /\ task'[a].stage = "done"
    BY <1>1, <1>15, WriteIs
  <2>3. Fate[a] = "begun"
    BY <1>2, <2>1, FateIs
  <2>4. FateOf(task'[a]) = "through"
    BY <2>2, FateIs DEF Over
  <2>5. Fate' = [Fate EXCEPT ![a] = "through"]
    BY <2>2, <2>4, OneFate
  <2> QED BY <2>1, <2>3, <2>5 DEF Promise!Finish, Promise!Become
<1>16. ASSUME NEW a \in Alerts, FileFails(a) PROVE Promise!Stop({a}) \/ UNCHANGED promised
  <2>1. UNCHANGED <<wire, inbox, written>>
    BY <1>1, <1>16, FileFailsIs DEF files
  <2>2. CASE Abandon({a})
    BY <1>1, <1>3, <2>1, <2>2, Given
  <2>3. CASE ~Abandon({a})
    <3>1. /\ task[a].stage \in {"stat", "remove", "rename"}
          /\ task'[a].stage \in {"rename", "open"}
          /\ Others(a) /\ SameFields(task'[a], task[a])
      BY <1>1, <1>16, <2>3, FileFailsIs
    <3>2. /\ task[a].stage \in InLog \ {"end"} /\ task'[a].stage \in InLog \ {"end"}
          /\ \A b \in Alerts : task'[b].level = task[b].level
          /\ \A b \in Alerts : b # a => task'[b].stage = task[b].stage
      BY <3>1 DEF InLog, Others, SameFields
    <3> QED BY <1>12, <2>1, <3>2
  <2> QED BY <2>2, <2>3
<1>17. ASSUME NEW a \in Alerts, Drop(a) PROVE Promise!Stop({a})
  <2>1. Abandon({a}) /\ UNCHANGED <<wire, inbox, written>>
    BY <1>17 DEF Drop, files
  <2> QED BY <1>1, <1>3, <2>1, Given
<1>18. ASSUME Restart PROVE \E S \in SUBSET Alerts : Promise!Stop(S)
  <2> DEFINE S == {a \in Alerts : task[a].stage \notin Over \cup {"idle"}}
  <2>1. Abandon(S) /\ UNCHANGED <<wire, inbox, written>> /\ S \in SUBSET Alerts
    BY <1>18 DEF Restart
  <2> HIDE DEF S
  <2>2. Promise!Stop(S)
    BY <1>1, <2>1, Given
  <2> QED BY <2>1, <2>2
<1>19. ASSUME Saving \/ TailOld \/ TailActive \/ UNCHANGED vars PROVE UNCHANGED promised
  BY <1>19 DEF Saving, SaveTelegram, SyncTimezone, Restore, TailOld, TailActive, files, vars,
               promised, Fate
<1>20. ASSUME NEW a \in Alerts, TaskStep(a)
       PROVE  [Promise!Next]_promised
  BY <1>3, <1>7, <1>8, <1>9, <1>10, <1>13, <1>14, <1>15, <1>16, <1>17, <1>20
     DEF TaskStep, Promise!Next
<1> QED BY <1>5, <1>6, <1>11, <1>18, <1>19, <1>20 DEF Next, Promise!Next

(* With its settings, stages, timeouts, faults and file operations, the    *)
(* delivery implements the promise: an alert goes to Telegram at most      *)
(* once, is called OK only after it arrived, and no other entry of it than *)
(* that of its verdict is ever begun, nor one begun twice.                 *)
THEOREM ImplementsPromise == Spec => DeliveryImplemented
<1>1. [Promise!Next]_promised => [Promise!Next]_(Promise!promiseVars)
  BY DEF promised, Promise!promiseVars
<1>2. TypeOK /\ [Next]_vars => [Promise!Next]_promised
  BY NextPromise
<1> QED BY InitPromise, TypeCorrect, <1>1, <1>2, PTL DEF Spec, DeliveryImplemented, Promise!Spec
=============================================================================
