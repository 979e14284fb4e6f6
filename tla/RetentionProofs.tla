--------------------------- MODULE RetentionProofs ---------------------------
(* Theorems about Retention for every value of its constants, a --retention *)
(* shorter than the raw window included.                                    *)
EXTENDS Retention, FiniteSetTheorems, TLAPS

-----------------------------------------------------------------------------
(* Lemmas about slots and days. *)

LEMMA DayBounds ==
  ASSUME NEW s \in Slots
  PROVE  /\ s \in Nat /\ Day(s) \in Days /\ Day(s) \in Nat
         /\ Day(s) * SlotsPerDay <= s /\ s < Day(s) * SlotsPerDay + SlotsPerDay
<1>1. s \in Nat /\ Horizon \in Nat /\ SlotsPerDay \in Nat \ {0} /\ s <= Horizon
  BY RetentionAssumption DEF Slots
<1>2. /\ s \div SlotsPerDay \in Nat /\ SlotsPerDay * (s \div SlotsPerDay) <= s
      /\ s < SlotsPerDay * (s \div SlotsPerDay) + SlotsPerDay
  BY <1>1
<1>3. s \div SlotsPerDay <= Horizon \div SlotsPerDay /\ Horizon \div SlotsPerDay \in Nat
  BY <1>1
<1> QED BY <1>1, <1>2, <1>3 DEF Day, Days

(* What the raw cut-off reaches lies before today: it is a day or more ago. *)
LEMMA CutIsPast ==
  ASSUME now \in Slots, NEW s \in Slots, s < now - RawDays * SlotsPerDay
  PROVE  Day(s) < Today
  BY RetentionAssumption DEF Slots, Day, Today

-----------------------------------------------------------------------------
(* Lemmas about the counts of a day. *)

(* The results of day d that a history holds. *)
RowsOf(hist, d) == {s \in Slots : Day(s) = d /\ hist[s] # "none"}
UpRows(hist, d) == {s \in RowsOf(hist, d) : hist[s] = "up"}
HasRows(hist, d) == \E s \in Slots : Day(s) = d /\ hist[s] # "none"

LEMMA CountIs ==
  ASSUME NEW hist, NEW d
  PROVE  CountOf(hist, d) = [total |-> Cardinality(RowsOf(hist, d)),
                             up |-> Cardinality(UpRows(hist, d))]
  BY DEF CountOf, RowsOf, UpRows

(* A day has at most SlotsPerDay results. *)
LEMMA CountBound ==
  ASSUME NEW hist, NEW d \in Days
  PROVE  /\ CountOf(hist, d) \in Counts
         /\ IsFiniteSet(RowsOf(hist, d)) /\ IsFiniteSet(UpRows(hist, d))
<1> DEFINE lo == d * SlotsPerDay
           hi == d * SlotsPerDay + SlotsPerDay - 1
<1>1. d \in Nat /\ SlotsPerDay \in Nat \ {0} /\ lo \in Nat /\ hi \in Nat /\ lo <= hi
  <2>1. Horizon \div SlotsPerDay \in Nat /\ SlotsPerDay \in Nat \ {0}
    BY RetentionAssumption
  <2>2. d \in Nat
    BY <2>1 DEF Days, Day
  <2> QED BY <2>1, <2>2
<1>2. IsFiniteSet(lo..hi) /\ Cardinality(lo..hi) = SlotsPerDay
  <2> HIDE DEF lo, hi
  <2>1. hi - lo + 1 = SlotsPerDay
    BY <1>1 DEF lo, hi
  <2> QED BY <1>1, <2>1, FS_Interval
<1>3. RowsOf(hist, d) \subseteq lo..hi
  <2> SUFFICES ASSUME NEW s \in Slots, Day(s) = d PROVE s \in lo..hi
      BY DEF RowsOf
  <2> QED BY <1>1, DayBounds
<1>4. /\ IsFiniteSet(RowsOf(hist, d))
      /\ Cardinality(RowsOf(hist, d)) <= SlotsPerDay
  BY <1>2, <1>3, FS_Subset
<1>5. UpRows(hist, d) \subseteq RowsOf(hist, d)
  BY DEF UpRows
<1>6. /\ IsFiniteSet(UpRows(hist, d))
      /\ Cardinality(UpRows(hist, d)) <= Cardinality(RowsOf(hist, d))
  BY <1>4, <1>5, FS_Subset
<1>7. Cardinality(RowsOf(hist, d)) \in Nat /\ Cardinality(UpRows(hist, d)) \in Nat
  BY <1>4, <1>6, FS_CardinalityType
<1>8. Cardinality(RowsOf(hist, d)) \in 0..SlotsPerDay /\ Cardinality(UpRows(hist, d)) \in 0..SlotsPerDay
  BY <1>1, <1>4, <1>6, <1>7
<1> QED BY <1>4, <1>6, <1>8, CountIs DEF Counts

(* A count is positive exactly when the day has a result; without one it   *)
(* is the row of a day that has none.                                      *)
LEMMA CountPositive ==
  ASSUME NEW hist, NEW d \in Days
  PROVE  /\ CountOf(hist, d).total > 0 <=> HasRows(hist, d)
         /\ ~HasRows(hist, d) => CountOf(hist, d) = NoRow
<1>1. CountOf(hist, d).total = Cardinality(RowsOf(hist, d))
  BY CountIs
<1>2. Cardinality(RowsOf(hist, d)) \in Nat
  BY CountBound, FS_CardinalityType
<1>3. Cardinality(RowsOf(hist, d)) = 0 <=> RowsOf(hist, d) = {}
  BY CountBound, FS_EmptySet
<1>4. RowsOf(hist, d) # {} <=> HasRows(hist, d)
  BY DEF RowsOf, HasRows
<1>5. ASSUME ~HasRows(hist, d) PROVE CountOf(hist, d) = NoRow
  <2>1. RowsOf(hist, d) = {} /\ UpRows(hist, d) = {}
    BY <1>4, <1>5 DEF UpRows
  <2>2. Cardinality({}) = 0
    BY FS_EmptySet
  <2> QED BY <2>1, <2>2, CountIs DEF NoRow
<1> QED BY <1>1, <1>2, <1>3, <1>4, <1>5

(* Histories that agree on a day count it alike. *)
LEMMA CountSame ==
  ASSUME NEW h1, NEW h2, NEW d, \A s \in Slots : Day(s) = d => h1[s] = h2[s]
  PROVE  CountOf(h1, d) = CountOf(h2, d)
<1>1. RowsOf(h1, d) = RowsOf(h2, d) /\ UpRows(h1, d) = UpRows(h2, d)
  BY DEF RowsOf, UpRows
<1> QED BY <1>1, CountIs

(* A history that holds a part of another counts no check more.            *)
LEMMA CountWithin ==
  ASSUME NEW h1, NEW h2, NEW d \in Days, \A s \in Slots : h1[s] \in {"none", h2[s]}
  PROVE  Within(CountOf(h1, d), CountOf(h2, d))
<1> DEFINE R1 == RowsOf(h1, d)  U1 == UpRows(h1, d)
           R2 == RowsOf(h2, d)  U2 == UpRows(h2, d)
<1>1. /\ IsFiniteSet(R1) /\ IsFiniteSet(U1) /\ IsFiniteSet(R2) /\ IsFiniteSet(U2)
      /\ CountOf(h1, d).total = Cardinality(R1) /\ CountOf(h1, d).up = Cardinality(U1)
      /\ CountOf(h2, d).total = Cardinality(R2) /\ CountOf(h2, d).up = Cardinality(U2)
  BY CountBound, CountIs
<1>2. /\ U1 \subseteq R1 /\ U2 \subseteq R2 /\ U1 \subseteq U2
      /\ R1 \ U1 \subseteq R2 \ U2
  BY DEF RowsOf, UpRows
<1> HIDE DEF R1, U1, R2, U2
<1>3. /\ IsFiniteSet(R1 \ U1) /\ IsFiniteSet(R2 \ U2)
      /\ Cardinality(R1 \ U1) = Cardinality(R1) - Cardinality(U1)
      /\ Cardinality(R2 \ U2) = Cardinality(R2) - Cardinality(U2)
  <2>1. R1 \cap U1 = U1 /\ R2 \cap U2 = U2
    BY <1>2
  <2>2. /\ IsFiniteSet(R1 \ U1) /\ Cardinality(R1 \ U1) = Cardinality(R1) - Cardinality(R1 \cap U1)
    BY <1>1, FS_Difference, Zenon
  <2>3. /\ IsFiniteSet(R2 \ U2) /\ Cardinality(R2 \ U2) = Cardinality(R2) - Cardinality(R2 \cap U2)
    BY <1>1, FS_Difference, Zenon
  <2> QED BY <2>1, <2>2, <2>3, Zenon
<1>4. Cardinality(U1) <= Cardinality(U2) /\ Cardinality(R1 \ U1) <= Cardinality(R2 \ U2)
  BY <1>1, <1>2, <1>3, FS_Subset
<1> QED BY <1>1, <1>3, <1>4 DEF Within

(* Counts lie within themselves, and without checks within any.            *)
LEMMA WithinSelf ==
  /\ \A c \in Counts : Within(c, c) /\ Within(NoRow, NoRow)
  /\ \A hist : \A d \in Days : Within(NoRow, CountOf(hist, d))
<1>1. \A c \in Counts : Within(c, c)
  BY RetentionAssumption DEF Within, Counts
<1>2. Within(NoRow, NoRow)
  BY DEF Within, NoRow
<1>3. ASSUME NEW hist, NEW d \in Days PROVE Within(NoRow, CountOf(hist, d))
  <2> DEFINE none == [s \in Slots |-> "none"]
  <2>1. \A s \in Slots : none[s] \in {"none", hist[s]}
    OBVIOUS
  <2>2. CountOf(none, d) = NoRow
    BY CountPositive DEF HasRows
  <2> HIDE DEF none
  <2> QED BY <2>1, <2>2, CountWithin
<1> QED BY <1>1, <1>2, <1>3

-----------------------------------------------------------------------------
(* Type correctness. *)

LEMMA InitTyped == Init => TypeOK
<1>1. 0 \in Slots /\ NoRow \in Counts
  BY RetentionAssumption DEF Slots, NoRow, Counts
<1> SUFFICES ASSUME Init PROVE TypeOK
    OBVIOUS
<1>2. /\ now \in Slots /\ raw \in [Slots -> Results] /\ truth \in [Slots -> Results]
      /\ daily \in [Days -> Counts]
  BY <1>1 DEF Init, Results
<1>3. running \in BOOLEAN /\ worker \in BOOLEAN /\ clean \in BOOLEAN
  BY DEF Init
<1>4. budget \in [{"faults", "stops", "ops"} -> Nat]
  BY RetentionAssumption DEF Init
<1> QED BY <1>2, <1>3, <1>4 DEF TypeOK

LEMMA StatementsTyped ==
  ASSUME TypeOK, NEW k \in 0..3, Statements(k)
  PROVE  raw' \in [Slots -> Results] /\ daily' \in [Days -> Counts]
<1>1. NoRow \in Counts
  BY RetentionAssumption DEF NoRow, Counts
<1>2. Rollup(raw, daily) \in [Days -> Counts]
  BY CountBound DEF TypeOK, Rollup
<1>3. DeleteRaw(raw) \in [Slots -> Results]
  BY DEF TypeOK, DeleteRaw, Results
<1> DEFINE ds == IF k >= 1 THEN Rollup(raw, daily) ELSE daily
<1>4. ds \in [Days -> Counts]
  BY <1>2 DEF TypeOK
<1>5. PurgeDaily(ds) \in [Days -> Counts]
  <2> HIDE DEF ds
  <2> QED BY <1>1, <1>4 DEF PurgeDaily
<1>6. raw' \in [Slots -> Results]
  BY <1>3 DEF Statements, TypeOK
<1>7. daily' = PurgeDaily(ds) \/ daily' = ds
  BY DEF Statements
<1> QED BY <1>4, <1>5, <1>6, <1>7

LEMMA PruneTyped ==
  ASSUME TypeOK, NEW k \in 0..3, NEW ops \in {0, 1}, Prune(k, ops), worker' \in BOOLEAN
  PROVE  TypeOK'
<1>1. budget' \in [{"faults", "stops", "ops"} -> Nat]
  <2> DEFINE fault == IF k < 3 THEN 1 ELSE 0
             spent == [budget EXCEPT !.ops = @ - ops]
  <2>1. fault \in Nat /\ budget.faults >= fault /\ budget.ops >= ops
    BY DEF Prune
  <2>2. budget' = [budget EXCEPT !.ops = @ - ops, !.faults = @ - fault]
    BY DEF Prune
  <2>3. budget.ops - ops \in Nat /\ budget.faults - fault \in Nat
    BY <2>1 DEF TypeOK
  <2> QED BY <2>2, <2>3 DEF TypeOK
<1>2. raw' \in [Slots -> Results] /\ daily' \in [Days -> Counts]
  BY StatementsTyped DEF Prune
<1>3. clean' \in BOOLEAN
  BY DEF Prune, TypeOK
<1> QED BY <1>1, <1>2, <1>3 DEF Prune, TypeOK

LEMMA NextTyped == TypeOK /\ [Next]_vars => TypeOK'
<1> SUFFICES ASSUME TypeOK, [Next]_vars PROVE TypeOK'
    OBVIOUS
<1>1. ASSUME NEW k \in 0..3, WorkerPrune(k) PROVE TypeOK'
  BY <1>1, PruneTyped DEF WorkerPrune
<1>2. ASSUME NEW k \in 0..3, ManualPrune(k) PROVE TypeOK'
  BY <1>2, PruneTyped DEF ManualPrune, TypeOK
<1>3. ASSUME NEW result \in {"up", "down"}, Heartbeat(result) PROVE TypeOK'
  BY <1>3 DEF Heartbeat, TypeOK, Results
<1>4. CASE Reset
  <2>1. NoRow \in Counts
    BY RetentionAssumption DEF NoRow, Counts
  <2> QED BY <1>4, <2>1 DEF Reset, Spend, TypeOK, Results
<1>5. CASE Advance
  <2>1. now' \in Slots
    BY <1>5, RetentionAssumption DEF Advance, TypeOK, Slots
  <2>2. worker' \in BOOLEAN /\ clean' \in BOOLEAN /\ running' \in BOOLEAN
    BY <1>5 DEF Advance, TypeOK
  <2> QED BY <1>5, <2>1, <2>2 DEF Advance, TypeOK
<1>6. CASE Stop
  <2>1. budget' \in [{"faults", "stops", "ops"} -> Nat]
    BY <1>6 DEF Stop, Spend, TypeOK
  <2>2. running' \in BOOLEAN
    BY <1>6 DEF Stop
  <2> QED BY <1>6, <2>1, <2>2 DEF Stop, TypeOK
<1>7. CASE Start
  BY <1>7 DEF Start, TypeOK
<1>8. CASE UNCHANGED vars
  BY <1>8 DEF vars, TypeOK
<1> QED BY <1>1, <1>2, <1>3, <1>4, <1>5, <1>6, <1>7, <1>8 DEF Next

(* The variables keep their types, and no aggregate ever counts more than  *)
(* the slots of a day, however often a day is rolled up again              *)
(* (rollup_daily_aggregates upserts, it does not add).                     *)
THEOREM TypeCorrect == Spec => []TypeOK
<1> QED BY InitTyped, NextTyped, PTL DEF Spec

-----------------------------------------------------------------------------
(* Nothing is lost. *)

(* A stored result is the one recorded; those inside the raw window are    *)
(* all stored.                                                             *)
RawHonest == \A s \in Slots : raw[s] \in {"none", truth[s]}
RawWhole == \A s \in Slots : s >= now - RawDays * SlotsPerDay => raw[s] = truth[s]

(* An aggregate belongs to a day that had results. *)
DailyHonest == \A d \in Days : daily[d] # NoRow => HasRows(truth, d)

(* It claims no check that was not recorded.                               *)
NotMore == \A d \in Days : Within(daily[d], CountOf(truth, d))

(* A day within the retention that had results has raw rows or an          *)
(* aggregate.                                                              *)
DayKept == \A d \in Days : d >= Today - RetentionDays /\ HasRows(truth, d) =>
                              HasRows(raw, d) \/ daily[d].total > 0

(* After a whole prune, until the slot ends, the tables hold what they     *)
(* may.                                                                    *)
Trimmed ==
  clean => /\ \A s \in Slots : raw[s] # "none" => s >= now - RawDays * SlotsPerDay
           /\ \A d \in Days : daily[d] # NoRow => d >= Today - RetentionDays \/ HasRows(raw, d)

HistoryInv ==
  TypeOK /\ RawHonest /\ RawWhole /\ DailyHonest /\ NotMore /\ DayKept /\ Trimmed

LEMMA InitHistory == Init => HistoryInv
<1> SUFFICES ASSUME Init PROVE HistoryInv
    OBVIOUS
<1>1. RawHonest /\ RawWhole
  BY DEF Init, RawHonest, RawWhole
<1>2. DailyHonest
  BY DEF Init, DailyHonest
<1>3. DayKept
  BY DEF Init, DayKept, HasRows
<1>4. Trimmed
  BY DEF Init, Trimmed
<1>5. NotMore
  BY WithinSelf DEF Init, NotMore
<1> QED BY InitTyped, <1>1, <1>2, <1>3, <1>4, <1>5 DEF HistoryInv

(* The first k statements of a prune, for every k. *)
LEMMA StatementsHistory ==
  ASSUME HistoryInv, NEW k \in 0..3, NEW ops \in {0, 1}, Prune(k, ops)
  PROVE  RawHonest' /\ RawWhole' /\ DailyHonest' /\ NotMore' /\ DayKept' /\ Trimmed'
<1> USE DEF Today
<1> DEFINE ds == IF k >= 1 THEN Rollup(raw, daily) ELSE daily
<1>1. /\ TypeOK /\ RawHonest /\ RawWhole /\ DailyHonest /\ NotMore /\ DayKept /\ Trimmed
      /\ now' = now /\ truth' = truth
  BY DEF HistoryInv, Prune
<1>2. /\ raw' = IF k >= 2 THEN DeleteRaw(raw) ELSE raw
      /\ daily' = IF k >= 3 THEN PurgeDaily(ds) ELSE ds
  BY DEF Prune, Statements
<1>3. \A s \in Slots : /\ raw'[s] \in {"none", raw[s]}
                       /\ s >= now - RawDays * SlotsPerDay => raw'[s] = raw[s]
                       /\ k >= 2 /\ s < now - RawDays * SlotsPerDay => raw'[s] = "none"
                       /\ k < 2 => raw'[s] = raw[s]
  <2> SUFFICES ASSUME NEW s \in Slots
               PROVE  /\ raw'[s] \in {"none", raw[s]}
                      /\ s >= now - RawDays * SlotsPerDay => raw'[s] = raw[s]
                      /\ k >= 2 /\ s < now - RawDays * SlotsPerDay => raw'[s] = "none"
                      /\ k < 2 => raw'[s] = raw[s]
      OBVIOUS
  <2>1. s \in Int /\ now - RawDays * SlotsPerDay \in Int
    BY <1>1, RetentionAssumption DEF TypeOK, Slots
  <2> QED BY <1>2, <2>1 DEF DeleteRaw
(* What the aggregates are after the roll-up. *)
<1>4. \A d \in Days :
         \/ ds[d] = daily[d]
         \/ k >= 1 /\ d < Today /\ HasRows(raw, d) /\ ds[d] = CountOf(raw, d) /\ ds[d].total > 0
  BY CountPositive DEF Rollup
<1>5. \A d \in Days : k >= 1 /\ d < Today /\ HasRows(raw, d) => ds[d].total > 0
  BY CountPositive DEF Rollup
<1>6. \A d \in Days : /\ daily'[d] \in {NoRow, ds[d]}
                      /\ d >= Today - RetentionDays => daily'[d] = ds[d]
                      /\ k >= 3 /\ d < Today - RetentionDays => daily'[d] = NoRow
  <2> SUFFICES ASSUME NEW d \in Days
               PROVE  /\ daily'[d] \in {NoRow, ds[d]}
                      /\ d >= Today - RetentionDays => daily'[d] = ds[d]
                      /\ k >= 3 /\ d < Today - RetentionDays => daily'[d] = NoRow
      OBVIOUS
  <2>1. d \in Int /\ Today \in Int /\ Today - RetentionDays \in Int
    <3>1. now \in Slots
      BY <1>1 DEF TypeOK
    <3>2. Day(now) \in Nat /\ Horizon \div SlotsPerDay \in Nat
      BY <3>1, DayBounds, RetentionAssumption
    <3> QED BY <3>2, RetentionAssumption DEF Days, Day
  <2> HIDE DEF ds
  <2> QED BY <1>2, <2>1 DEF PurgeDaily
<1> HIDE DEF ds
<1>7. RawHonest'
  BY <1>1, <1>3 DEF RawHonest
<1>8. RawWhole'
  BY <1>1, <1>3 DEF RawWhole
<1>9. DailyHonest'
  <2> SUFFICES ASSUME NEW d \in Days, daily'[d] # NoRow PROVE HasRows(truth, d)
      BY <1>1 DEF DailyHonest, HasRows
  <2>1. ds[d] # NoRow
    BY <1>6
  <2>2. CASE ds[d] = daily[d]
    BY <1>1, <2>1, <2>2 DEF DailyHonest
  <2>3. CASE HasRows(raw, d)
    BY <1>1, <2>3 DEF RawHonest, HasRows
  <2> QED BY <1>4, <2>2, <2>3
<1>12. NotMore'
  <2> SUFFICES ASSUME NEW d \in Days PROVE Within(daily'[d], CountOf(truth, d))
      BY <1>1 DEF NotMore
  <2>1. Within(NoRow, CountOf(truth, d)) /\ Within(daily[d], CountOf(truth, d))
    BY <1>1, WithinSelf DEF NotMore
  <2>2. Within(CountOf(raw, d), CountOf(truth, d))
    BY <1>1, CountWithin DEF RawHonest
  <2> QED BY <1>4, <1>6, <2>1, <2>2
<1>10. DayKept'
  <2> SUFFICES ASSUME NEW d \in Days, d >= Today - RetentionDays, HasRows(truth, d)
               PROVE  HasRows(raw', d) \/ daily'[d].total > 0
      BY <1>1 DEF DayKept, HasRows
  <2>1. daily'[d] = ds[d]
    BY <1>6
  <2>2. CASE HasRows(raw, d) /\ ~HasRows(raw', d)
    <3>1. PICK s \in Slots : Day(s) = d /\ raw[s] # "none" /\ raw'[s] = "none"
      BY <2>2 DEF HasRows
    <3>2. k >= 2 /\ s < now - RawDays * SlotsPerDay
      <4>1. s \in Int /\ now - RawDays * SlotsPerDay \in Int
        BY <1>1, RetentionAssumption DEF TypeOK, Slots
      <4> QED BY <1>3, <3>1, <4>1
    <3>3. d < Today
      BY <1>1, <3>1, <3>2, CutIsPast DEF TypeOK
    <3> QED BY <1>5, <2>1, <2>2, <3>2, <3>3
  <2>3. CASE daily[d].total > 0
    BY <1>4, <2>1, <2>3
  <2> QED BY <1>1, <2>2, <2>3 DEF DayKept
<1>11. Trimmed'
  <2> SUFFICES ASSUME clean'
               PROVE  /\ \A s \in Slots : raw'[s] # "none" => s >= now - RawDays * SlotsPerDay
                      /\ \A d \in Days : daily'[d] # NoRow =>
                            d >= Today - RetentionDays \/ HasRows(raw', d)
      BY <1>1 DEF Trimmed, HasRows
  <2>1. now - RawDays * SlotsPerDay \in Int /\ Slots \subseteq Int
    BY <1>1, RetentionAssumption DEF TypeOK, Slots
  <2>2. clean \/ k = 3
    BY DEF Prune
  <2>3. ASSUME NEW s \in Slots, raw'[s] # "none" PROVE s >= now - RawDays * SlotsPerDay
    BY <1>1, <1>3, <2>1, <2>2, <2>3 DEF Trimmed
  <2>4. ASSUME NEW d \in Days, daily'[d] # NoRow
        PROVE  d >= Today - RetentionDays \/ HasRows(raw', d)
    <3>1. ds[d] # NoRow
      BY <1>6, <2>4
    <3>2. d \in Int /\ Today - RetentionDays \in Int
      <4>1. now \in Slots
        BY <1>1 DEF TypeOK
      <4>2. Day(now) \in Nat /\ Horizon \div SlotsPerDay \in Nat
        BY <4>1, DayBounds, RetentionAssumption
      <4> QED BY <4>2, RetentionAssumption DEF Days, Day
    <3>3. CASE k = 3
      BY <1>6, <2>4, <3>2, <3>3
    <3>4. CASE clean
      <4>1. \A s \in Slots : raw'[s] = raw[s]
        BY <1>1, <1>3, <2>1, <3>4 DEF Trimmed
      <4>2. d >= Today - RetentionDays \/ HasRows(raw, d)
        BY <1>1, <1>4, <3>1, <3>4 DEF Trimmed
      <4> QED BY <4>1, <4>2 DEF HasRows
    <3> QED BY <2>2, <3>3, <3>4
  <2> QED BY <2>3, <2>4
<1> QED BY <1>7, <1>8, <1>9, <1>10, <1>11, <1>12

(* What has no raw row in this slot has no result in it.                   *)
LEMMA NowIsRaw == HistoryInv => raw[now] = truth[now]
<1>1. TypeOK => now >= now - RawDays * SlotsPerDay
  BY RetentionAssumption DEF TypeOK, Slots
<1> QED BY <1>1 DEF HistoryInv, TypeOK, RawWhole

LEMMA WithinWithin ==
  ASSUME NEW a \in Counts, NEW b \in Counts, NEW c \in Counts, Within(a, b), Within(b, c)
  PROVE  Within(a, c)
<1>1. /\ a.total \in Int /\ a.up \in Int /\ b.total \in Int /\ b.up \in Int
      /\ c.total \in Int /\ c.up \in Int
  BY RetentionAssumption DEF Counts
<1> QED BY <1>1 DEF Within

LEMMA HeartbeatHistory ==
  ASSUME HistoryInv, NEW result \in {"up", "down"}, Heartbeat(result)
  PROVE  RawHonest' /\ RawWhole' /\ DailyHonest' /\ NotMore' /\ DayKept' /\ Trimmed'
<1>1. /\ now \in Slots /\ RawHonest /\ RawWhole /\ DailyHonest /\ NotMore /\ DayKept /\ Trimmed
      /\ now' = now /\ daily' = daily /\ clean' = clean /\ raw[now] = "none"
  BY DEF HistoryInv, TypeOK, Heartbeat
<1>2. \A s \in Slots : /\ raw'[s] = IF s = now THEN result ELSE raw[s]
                       /\ truth'[s] = IF s = now THEN result ELSE truth[s]
  BY DEF HistoryInv, TypeOK, Heartbeat
<1>3. RawHonest' /\ RawWhole'
  BY <1>1, <1>2 DEF RawHonest, RawWhole
<1>4. \A d \in Days : HasRows(truth, d) => HasRows(truth', d)
  BY <1>2 DEF HasRows
<1>5. \A d \in Days : HasRows(raw, d) => HasRows(raw', d)
  BY <1>1, <1>2 DEF HasRows
<1>6. DailyHonest'
  BY <1>1, <1>4 DEF DailyHonest, HasRows
<1>9. NotMore'
  <2> SUFFICES ASSUME NEW d \in Days PROVE Within(daily[d], CountOf(truth', d))
      BY <1>1 DEF NotMore
  <2>1. Within(daily[d], CountOf(truth, d))
    BY <1>1 DEF NotMore
  <2>2. \A s \in Slots : truth[s] \in {"none", truth'[s]}
    BY <1>1, <1>2, NowIsRaw
  <2>3. Within(CountOf(truth, d), CountOf(truth', d))
    BY <2>2, CountWithin
  <2>4. /\ daily[d] \in Counts /\ CountOf(truth, d) \in Counts /\ CountOf(truth', d) \in Counts
    BY CountBound DEF HistoryInv, TypeOK
  <2> QED BY <2>1, <2>3, <2>4, WithinWithin
<1>7. DayKept'
  <2> SUFFICES ASSUME NEW d \in Days, d >= Today - RetentionDays, HasRows(truth', d)
               PROVE  HasRows(raw', d) \/ daily[d].total > 0
      BY <1>1 DEF DayKept, HasRows, Today
  <2>1. PICK s \in Slots : Day(s) = d /\ truth'[s] # "none"
    BY DEF HasRows
  <2>2. CASE s = now
    BY <1>2, <2>1, <2>2 DEF HasRows
  <2>3. CASE s # now
    <3>1. HasRows(truth, d)
      BY <1>2, <2>1, <2>3 DEF HasRows
    <3> QED BY <1>1, <1>5, <3>1 DEF DayKept
  <2> QED BY <2>2, <2>3
<1>8. Trimmed'
  <2> SUFFICES ASSUME clean
               PROVE  /\ \A s \in Slots : raw'[s] # "none" => s >= now - RawDays * SlotsPerDay
                      /\ \A d \in Days : daily[d] # NoRow =>
                            d >= Today - RetentionDays \/ HasRows(raw', d)
      BY <1>1 DEF Trimmed, HasRows, Today
  <2>1. now >= now - RawDays * SlotsPerDay
    BY <1>1, RetentionAssumption DEF Slots
  <2>2. \A s \in Slots : raw'[s] # "none" => s >= now - RawDays * SlotsPerDay
    BY <1>1, <1>2, <2>1 DEF Trimmed
  <2> QED BY <1>1, <1>5, <2>2 DEF Trimmed
<1> QED BY <1>3, <1>6, <1>7, <1>8, <1>9

LEMMA AdvanceHistory ==
  ASSUME HistoryInv, Advance
  PROVE  RawHonest' /\ RawWhole' /\ DailyHonest' /\ NotMore' /\ DayKept' /\ Trimmed'
<1>1. /\ now \in Slots /\ now' \in Slots /\ now' = now + 1 /\ ~clean'
      /\ raw' = raw /\ daily' = daily /\ truth' = truth
      /\ RawHonest /\ RawWhole /\ DailyHonest /\ NotMore /\ DayKept
  BY RetentionAssumption DEF HistoryInv, TypeOK, Advance, Slots
<1>2. \A s \in Slots : s >= now' - RawDays * SlotsPerDay => s >= now - RawDays * SlotsPerDay
  <2>1. RawDays * SlotsPerDay \in Nat /\ now \in Int /\ Slots \subseteq Int
    BY <1>1, RetentionAssumption DEF Slots
  <2> QED BY <1>1, <2>1
<1>3. \A d \in Days : d >= Day(now') - RetentionDays => d >= Today - RetentionDays
  <2>1. Day(now) <= Day(now') /\ Day(now) \in Nat /\ Day(now') \in Nat
    BY <1>1, RetentionAssumption DEF Day, Slots
  <2>2. Days \subseteq Int
    BY DEF Days
  <2> QED BY <2>1, <2>2, RetentionAssumption DEF Today
<1>4. RawHonest' /\ RawWhole' /\ Trimmed'
  BY <1>1, <1>2 DEF RawHonest, RawWhole, Trimmed
<1>5. DailyHonest' /\ NotMore' /\ DayKept'
  BY <1>1, <1>3 DEF DailyHonest, NotMore, DayKept, HasRows, Today
<1> QED BY <1>4, <1>5

LEMMA NextHistory == HistoryInv /\ [Next]_vars => HistoryInv'
<1> SUFFICES ASSUME HistoryInv, [Next]_vars
             PROVE  RawHonest' /\ RawWhole' /\ DailyHonest' /\ NotMore' /\ DayKept' /\ Trimmed'
    BY NextTyped DEF HistoryInv
<1>1. ASSUME NEW k \in 0..3, WorkerPrune(k)
      PROVE  RawHonest' /\ RawWhole' /\ DailyHonest' /\ NotMore' /\ DayKept' /\ Trimmed'
  BY <1>1, StatementsHistory DEF WorkerPrune
<1>2. ASSUME NEW k \in 0..3, ManualPrune(k)
      PROVE  RawHonest' /\ RawWhole' /\ DailyHonest' /\ NotMore' /\ DayKept' /\ Trimmed'
  BY <1>2, StatementsHistory DEF ManualPrune
<1>3. ASSUME NEW result \in {"up", "down"}, Heartbeat(result)
      PROVE  RawHonest' /\ RawWhole' /\ DailyHonest' /\ NotMore' /\ DayKept' /\ Trimmed'
  BY <1>3, HeartbeatHistory
<1>4. CASE Reset
  <2>1. /\ raw' = [s \in Slots |-> "none"] /\ truth' = raw'
        /\ daily' = [d \in Days |-> NoRow]
    BY <1>4 DEF Reset
  <2>2. NotMore'
    BY <2>1, WithinSelf DEF NotMore
  <2> QED BY <2>1, <2>2 DEF RawHonest, RawWhole, DailyHonest, NotMore, DayKept, Trimmed, HasRows
<1>5. CASE Advance
  BY <1>5, AdvanceHistory
<1>6. CASE Stop
  BY <1>6 DEF Stop, HistoryInv, RawHonest, RawWhole, DailyHonest, NotMore, DayKept, Trimmed,
              HasRows, Today
<1>7. CASE Start
  BY <1>7 DEF Start, HistoryInv, RawHonest, RawWhole, DailyHonest, NotMore, DayKept, Trimmed,
              HasRows, Today
<1>8. CASE UNCHANGED vars
  BY <1>8 DEF vars, HistoryInv, RawHonest, RawWhole, DailyHonest, NotMore, DayKept, Trimmed,
              HasRows, Today
<1> QED BY <1>1, <1>2, <1>3, <1>4, <1>5, <1>6, <1>7, <1>8 DEF Next

LEMMA HistoryKept == Spec => []HistoryInv
<1> QED BY InitHistory, NextHistory, PTL DEF Spec

-----------------------------------------------------------------------------
(* What the invariant gives. *)

(* The timeline sees the raw rows inside the window as they are stored. *)
LEMMA VisibleIs ==
  ASSUME NEW s \in Slots, s >= now - RawDays * SlotsPerDay
  PROVE  Visible[s] = raw[s]
  BY DEF Visible

(* After a whole prune of any length of history, a day that had results    *)
(* still has a bucket on the timeline: prune_old_records counts a day      *)
(* before it deletes its rows, whatever prefix of its statements earlier   *)
(* prunes got through and however long the process was down in between.    *)
THEOREM NoDayIsLost == Spec => []NoDayLost
<1>1. HistoryInv => NoDayLost
  <2> SUFFICES ASSUME HistoryInv, clean, NEW d \in Shown, CountOf(truth, d).total > 0
               PROVE  Timeline(d).total > 0
      BY DEF NoDayLost
  <2>1. /\ d \in Days /\ d > Today - TimelineDays /\ d >= Today - RetentionDays
        /\ HasRows(truth, d)
    BY CountPositive DEF Shown
  <2>2. HasRows(raw, d) \/ daily[d].total > 0
    BY <2>1 DEF HistoryInv, DayKept
  <2>3. ASSUME HasRows(raw, d) PROVE HasRows(Visible, d)
    <3>1. PICK s \in Slots : Day(s) = d /\ raw[s] # "none"
      BY <2>3 DEF HasRows
    <3>2. s >= now - RawDays * SlotsPerDay
      BY <3>1 DEF HistoryInv, Trimmed
    <3> QED BY <3>1, <3>2, VisibleIs DEF HasRows
  <2>4. CountOf(Visible, d).total > 0 <=> HasRows(Visible, d)
    BY <2>1, CountPositive
  <2> QED BY <2>1, <2>2, <2>3, <2>4 DEF Timeline
<1> QED BY HistoryKept, <1>1, PTL

(* A day that lies wholly inside the raw window is shown with exactly its  *)
(* own counts (get_daily_buckets overrides aggregates by raw rows, and the *)
(* prune never deletes inside the window).                                 *)
LEMMA RecentDaysExact ==
  ASSUME HistoryInv, NEW d \in Shown, d * SlotsPerDay >= now - RawDays * SlotsPerDay
  PROVE  Timeline(d) = CountOf(truth, d)
<1>1. d \in Days /\ d > Today - TimelineDays
  BY DEF Shown
<1>2. ASSUME NEW s \in Slots, Day(s) = d PROVE Visible[s] = truth[s]
  <2>1. d * SlotsPerDay <= s /\ s \in Int /\ d * SlotsPerDay \in Int
    BY <1>2, DayBounds, RetentionAssumption
  <2>2. now - RawDays * SlotsPerDay \in Int
    BY RetentionAssumption DEF HistoryInv, TypeOK, Slots
  <2>3. s >= now - RawDays * SlotsPerDay
    <3> DEFINE a == d * SlotsPerDay
               b == now - RawDays * SlotsPerDay
    <3>1. a <= s /\ a >= b /\ a \in Int /\ b \in Int /\ s \in Int
      BY <2>1, <2>2
    <3> HIDE DEF a, b
    <3>2. s >= b
      BY <3>1
    <3> QED BY <3>2 DEF b
  <2> QED BY <2>3, VisibleIs DEF HistoryInv, RawWhole
<1>3. CountOf(Visible, d) = CountOf(truth, d)
  BY <1>2, CountSame
<1>4. ASSUME ~(CountOf(truth, d).total > 0)
      PROVE  daily[d] = CountOf(truth, d) /\ NoRow = CountOf(truth, d)
  <2>1. ~HasRows(truth, d) /\ CountOf(truth, d) = NoRow
    BY <1>1, <1>4, CountPositive
  <2> QED BY <1>1, <2>1 DEF HistoryInv, DailyHonest
<1> QED BY <1>3, <1>4 DEF Timeline

(* The timeline is honest: no day is shown with more good or more bad      *)
(* checks than were recorded, whatever prunes have counted again from what *)
(* was left of it, and a day inside the raw window is shown exactly        *)
(* (rollup_daily_aggregates and get_daily_buckets).                        *)
THEOREM TimelineIsHonest == Spec => []TimelineHonest
<1>1. HistoryInv => TimelineHonest
  <2> SUFFICES ASSUME HistoryInv, NEW d \in Shown
               PROVE  Within(Timeline(d), CountOf(truth, d))
      BY RecentDaysExact DEF TimelineHonest
  <2>1. d \in Days
    BY DEF Shown
  <2>2. Within(daily[d], CountOf(truth, d)) /\ Within(NoRow, CountOf(truth, d))
    BY <2>1, WithinSelf DEF HistoryInv, NotMore
  <2>3. \A s \in Slots : Visible[s] \in {"none", truth[s]}
    BY DEF HistoryInv, RawHonest, Visible
  <2>4. Within(CountOf(Visible, d), CountOf(truth, d))
    BY <2>1, <2>3, CountWithin
  <2> QED BY <2>2, <2>4 DEF Timeline
<1> QED BY HistoryKept, <1>1, PTL

(* Storage is bounded: once a prune has gone through, no raw row is older  *)
(* than the raw window, and an aggregate older than --retention exists     *)
(* only for a day whose raw rows a failing prune has counted again.        *)
THEOREM StorageIsBounded == Spec => []StorageBounded
<1>1. HistoryInv => StorageBounded
  <2> SUFFICES ASSUME HistoryInv, clean PROVE StorageBounded
      BY DEF StorageBounded
  <2>1. \A d \in Days : HasRows(raw, d) => CountOf(raw, d).total > 0
    BY CountPositive
  <2> QED BY <2>1 DEF HistoryInv, Trimmed, StorageBounded
<1> QED BY HistoryKept, <1>1, PTL
=============================================================================
