---------------------------- MODULE StorageProofs ----------------------------
(* Theorems about what is stored, for every value of the constants: the     *)
(* configuration and its backups (ConfigStore: any number of monitors,      *)
(* settings, edits and backup files), and the file that holds it            *)
(* (DatabaseFile: any history of releases, any number of pages).  The two   *)
(* specifications share no variable.                                        *)
EXTENDS ConfigStore, DatabaseFile, FiniteSetTheorems, SequenceTheorems,
        WellFoundedInduction, TLAPS

-----------------------------------------------------------------------------
(* ORDER BY sort_order, id: the rows of a table, ranked. *)

Table == [Ids -> Row \cup {NoRow}]
IdsOf(t) == {i \in Ids : t[i] # NoRow}
Below(t, i) == {j \in IdsOf(t) : Before(t, j, i)}
Rank(t, i) == 1 + Cardinality(Below(t, i))

LEMMA IdsFinite ==
  ASSUME NEW t
  PROVE  /\ IsFiniteSet(IdsOf(t)) /\ Cardinality(IdsOf(t)) \in Nat
         /\ IdsOf(t) \subseteq Ids /\ Ids \subseteq Nat /\ MaxId \in Nat
<1>1. MaxId \in Nat /\ IsFiniteSet(Ids) /\ Ids \subseteq Nat
  BY ConfigAssumption, FS_Interval DEF Ids
<1>2. IdsOf(t) \subseteq Ids
  BY DEF IdsOf
<1> QED BY <1>1, <1>2, FS_Subset, FS_CardinalityType

LEMMA RowOf ==
  ASSUME NEW t \in Table, NEW i \in IdsOf(t)
  PROVE  t[i] \in Row /\ t[i].order \in Int /\ i \in Nat
<1>1. t[i] \in Row /\ i \in Nat
  BY IdsFinite DEF Table, IdsOf
<1> QED BY <1>1 DEF Row

LEMMA BeforeOrders ==
  ASSUME NEW t \in Table, NEW i \in IdsOf(t), NEW j \in IdsOf(t), NEW k \in IdsOf(t)
  PROVE  /\ ~Before(t, i, i)
         /\ Before(t, i, j) /\ Before(t, j, k) => Before(t, i, k)
         /\ i # j => Before(t, i, j) \/ Before(t, j, i)
  BY RowOf DEF Before

LEMMA BelowFinite ==
  ASSUME NEW t, NEW i
  PROVE  IsFiniteSet(Below(t, i)) /\ Cardinality(Below(t, i)) \in Nat
<1>1. Below(t, i) \subseteq IdsOf(t)
  BY DEF Below
<1> QED BY <1>1, IdsFinite, FS_Subset, FS_CardinalityType

LEMMA RankGrows ==
  ASSUME NEW t \in Table, NEW i \in IdsOf(t), NEW j \in IdsOf(t), Before(t, i, j)
  PROVE  Rank(t, i) < Rank(t, j)
<1>1. Below(t, i) \subseteq Below(t, j)
  BY BeforeOrders DEF Below
<1>2. i \in Below(t, j) /\ i \notin Below(t, i)
  BY BeforeOrders DEF Below
<1>3. Cardinality(Below(t, i)) <= Cardinality(Below(t, j))
      /\ Cardinality(Below(t, i)) # Cardinality(Below(t, j))
  BY <1>1, <1>2, BelowFinite, FS_Subset
<1> QED BY <1>3, BelowFinite DEF Rank

LEMMA RankInRange ==
  ASSUME NEW t \in Table, NEW i \in IdsOf(t)
  PROVE  Rank(t, i) \in 1..Cardinality(IdsOf(t))
<1>1. Below(t, i) \subseteq IdsOf(t) \ {i}
  BY BeforeOrders DEF Below
<1>2. /\ IsFiniteSet(IdsOf(t) \ {i})
      /\ Cardinality(IdsOf(t) \ {i}) = Cardinality(IdsOf(t)) - 1
  BY IdsFinite, FS_RemoveElement
<1>3. Cardinality(Below(t, i)) <= Cardinality(IdsOf(t)) - 1
  BY <1>1, <1>2, FS_Subset
<1> QED BY <1>3, BelowFinite, IdsFinite DEF Rank

LEMMA RankIsOnto ==
  ASSUME NEW t \in Table, NEW p \in 1..Cardinality(IdsOf(t))
  PROVE  \E i \in IdsOf(t) : Rank(t, i) = p
<1> DEFINE S == IdsOf(t)
           T == 1..Cardinality(IdsOf(t))
           f == [i \in S |-> Rank(t, i)]
<1>1. f \in [S -> T]
  BY RankInRange
<1>2. \A i, j \in S : f[i] = f[j] => i = j
  <2> SUFFICES ASSUME NEW i \in S, NEW j \in S, i # j PROVE Rank(t, i) # Rank(t, j)
      OBVIOUS
  <2>1. Rank(t, i) \in Int /\ Rank(t, j) \in Int
    BY BelowFinite DEF Rank
  <2>2. Before(t, i, j) \/ Before(t, j, i)
    BY BeforeOrders
  <2> QED BY <2>1, <2>2, RankGrows
<1>3. IsFiniteSet(S) /\ IsFiniteSet(T) /\ Cardinality(T) = Cardinality(S)
  BY IdsFinite, FS_Interval
<1> HIDE DEF S, T, f
<1>4. f \in Injection(S, T)
  BY <1>1, <1>2 DEF Injection, IsInjective
<1>5. f \in Surjection(S, T)
  BY <1>3, <1>4, FS_Injection
<1>6. \E i \in S : f[i] = p
  BY <1>5 DEF Surjection, T
<1> QED BY <1>6 DEF S, f

(* Monitor::all shows every row once, in order. *)
LEMMA ShownIs ==
  ASSUME NEW t \in Table
  PROVE  /\ DOMAIN Shown(t) = 1..Cardinality(IdsOf(t))
         /\ \A p \in 1..Cardinality(IdsOf(t)) : /\ Shown(t)[p] \in IdsOf(t)
                                                /\ Rank(t, Shown(t)[p]) = p
<1>1. Shown(t) = [p \in 1..Cardinality(IdsOf(t)) |-> CHOOSE i \in IdsOf(t) : Rank(t, i) = p]
  BY DEF Shown, IdsOf, Rank, Below
<1> QED BY <1>1, RankIsOnto

LEMMA AllIs ==
  ASSUME NEW t \in Table
  PROVE  /\ All(t) \in Seq(Row) /\ Len(All(t)) = Cardinality(IdsOf(t))
         /\ \A p \in 1..Len(All(t)) : All(t)[p] = t[Shown(t)[p]]
<1> DEFINE n == Cardinality(IdsOf(t))
<1>1. All(t) = [p \in 1..n |-> t[Shown(t)[p]]]
  BY ShownIs DEF All
<1>2. n \in Nat
  BY IdsFinite
<1> HIDE DEF n
<1>3. \A p \in 1..n : t[Shown(t)[p]] \in Row
  BY ShownIs, RowOf DEF n
<1>4. All(t) \in [1..n -> Row]
  BY <1>1, <1>3
<1>5. All(t) \in Seq(Row) /\ Len(All(t)) = n
  BY <1>2, <1>4
<1> QED BY <1>1, <1>5 DEF n

Sorted(rows) == \A p, q \in 1..Len(rows) : p <= q => rows[p].order <= rows[q].order

LEMMA AllSorted ==
  ASSUME NEW t \in Table
  PROVE  Sorted(All(t))
<1> SUFFICES ASSUME NEW p \in 1..Len(All(t)), NEW q \in 1..Len(All(t)), p <= q
             PROVE  All(t)[p].order <= All(t)[q].order
    BY DEF Sorted
<1> DEFINE i == Shown(t)[p]
           j == Shown(t)[q]
<1>1. i \in IdsOf(t) /\ j \in IdsOf(t) /\ Rank(t, i) = p /\ Rank(t, j) = q
  BY AllIs, ShownIs
<1>2. All(t)[p] = t[i] /\ All(t)[q] = t[j]
  BY AllIs
<1> HIDE DEF i, j
<1>3. ~Before(t, j, i)
  BY <1>1, RankGrows
<1> QED BY <1>1, <1>2, <1>3, RowOf DEF Before

(* MAX(sort_order) exists: it is the order of the last row. *)
LEMMA HighestOrder ==
  ASSUME monitors \in Table
  PROVE  NextOrder \in Int
<1> DEFINE S == {monitors[i].order : i \in Present}
<1>1. Present = IdsOf(monitors)
  BY DEF Present, IdsOf
<1>2. CASE Present = {}
  BY <1>2 DEF NextOrder
<1>3. CASE Present # {}
  <2>1. Cardinality(Present) \in Nat /\ Cardinality(Present) # 0
    BY <1>1, <1>3, IdsFinite, FS_EmptySet
  <2>2. PICK k \in Present : Rank(monitors, k) = Cardinality(Present)
    BY <1>1, <2>1, RankIsOnto
  <2>3. \A i \in Present : monitors[k].order >= monitors[i].order
    <3> SUFFICES ASSUME NEW i \in Present PROVE monitors[k].order >= monitors[i].order
        OBVIOUS
    <3>1. Rank(monitors, i) \in 1..Cardinality(Present)
      BY <1>1, RankInRange
    <3>2. ~Before(monitors, k, i)
      BY <1>1, <2>1, <2>2, <3>1, RankGrows
    <3> QED BY <1>1, <3>2, RowOf DEF Before
  <2>4. monitors[k].order \in S /\ \A y \in S : monitors[k].order >= y
    BY <2>3
  <2>5. S \subseteq Int
    BY <1>1, RowOf
  <2> HIDE DEF S
  <2>6. Highest(S) \in S
    BY <2>4 DEF Highest
  <2>7. NextOrder = Highest(S) + 1
    BY <1>3 DEF NextOrder, S
  <2> QED BY <2>5, <2>6, <2>7
<1> QED BY <1>2, <1>3

-----------------------------------------------------------------------------
(* Type correctness. *)

LEMMA ChangedTyped ==
  ASSUME TypeOK, Changed
  PROVE  edits' \in 0..MaxEdits /\ drift' \subseteq {"rows", "mixed"}
<1>1. edits' \in 0..MaxEdits
  BY ConfigAssumption DEF TypeOK, Changed
<1>2. drift' \subseteq {"rows", "mixed"}
  BY DEF TypeOK, Changed
<1> QED BY <1>1, <1>2

(* Everything but the tables. *)
LEMMA TablesTyped ==
  ASSUME TypeOK, Changed, UNCHANGED <<export, backup>>,
         monitors' \in Table, nextId' \in 1..MaxId + 1, settings' \in Setting,
         \A i \in Ids : monitors'[i] # NoRow => i < nextId'
  PROVE  TypeOK'
  BY ChangedTyped DEF TypeOK, Table, Present

LEMMA InitTyped == Init => TypeOK
  BY ConfigAssumption DEF Init, TypeOK, Present, Ids

LEMMA AtLeastTyped ==
  ASSUME NEW n \in Int
  PROVE  AtLeast(n, MinInterval) \in Int
  BY DEF AtLeast, MinInterval

(* A row of a file becomes a row of the table. *)
LEMMA ImportedIs ==
  ASSUME NEW r \in FileRow, NEW place \in Int
  PROVE  /\ Imported(r, place) \in Row /\ Imported(r, place) # NoRow
         /\ Imported(r, place).name = r.name
         /\ Imported(r, place).interval = AtLeast(r.interval, MinInterval)
         /\ r.order \in Int => Imported(r, place).order = r.order
<1> DEFINE n == AtLeast(r.interval, MinInterval)
           o == IF r.order = NoOrder THEN place ELSE r.order
<1>1. n \in Int /\ o \in Int /\ (r.order \in Int => o = r.order)
  BY AtLeastTyped, ConfigAssumption DEF FileRow
<1>2. Imported(r, place) = [r EXCEPT !.interval = n, !.order = o]
  BY DEF Imported
<1> HIDE DEF n, o
<1>3. /\ Imported(r, place) \in Row /\ Imported(r, place).name = r.name
      /\ Imported(r, place).interval = n /\ Imported(r, place).order = o
  BY <1>1, <1>2 DEF FileRow, Row
<1> QED BY <1>1, <1>3, ConfigAssumption DEF n

ImportFile == [rows: Seq(FileRow), values: Setting]

LEMMA ImportableTyped ==
  ASSUME TypeOK, NEW f \in Importable
  PROVE  f \in ImportFile
<1>1. CASE f \in Files
  BY <1>1, ConfigAssumption DEF ImportFile
<1>2. CASE f = backup /\ backup # NoBackup
  <2>1. backup \in [rows: Seq(Row), values: Setting]
    BY <1>2 DEF TypeOK
  <2>2. Row \subseteq FileRow
    BY DEF Row, FileRow
  <2>3. \A s \in Seq(Row) : s \in Seq(FileRow)
    BY <2>2, SeqMonotonic
  <2> QED BY <1>2, <2>1, <2>3 DEF ImportFile
<1> QED BY <1>1, <1>2 DEF Importable

(* The table after a restore: the file's rows under new ids, and in merge  *)
(* mode what was there.                                                    *)
LEMMA RestoredIs ==
  ASSUME TypeOK, NEW f \in ImportFile, NEW kept \in BOOLEAN,
         nextId + Len(f.rows) - 1 <= MaxId
  PROVE  /\ Restored(f, kept) \in Table
         /\ \A m \in Ids :
              IF m \in nextId..(nextId + Len(f.rows) - 1)
              THEN /\ m - nextId + 1 \in 1..Len(f.rows)
                   /\ f.rows[m - nextId + 1] \in FileRow
                   /\ Restored(f, kept)[m] = Imported(f.rows[m - nextId + 1], m - nextId)
                   /\ Restored(f, kept)[m] # NoRow
              ELSE Restored(f, kept)[m] = IF kept THEN monitors[m] ELSE NoRow
<1>1. /\ f.rows \in Seq(FileRow) /\ Len(f.rows) \in Nat /\ nextId \in Nat /\ MaxId \in Nat
      /\ monitors \in Table
  BY IdsFinite DEF ImportFile, TypeOK, Table
<1>2. ASSUME NEW m \in Ids, m \in nextId..(nextId + Len(f.rows) - 1)
      PROVE  /\ m - nextId + 1 \in 1..Len(f.rows) /\ m - nextId \in Int
             /\ f.rows[m - nextId + 1] \in FileRow
  <2>1. m - nextId + 1 \in 1..Len(f.rows) /\ m - nextId \in Int
    BY <1>1, <1>2
  <2>2. \A p \in 1..Len(f.rows) : f.rows[p] \in FileRow
    BY <1>1
  <2> QED BY <2>1, <2>2
<1>3. \A m \in Ids : Restored(f, kept)[m] =
         IF m \in nextId..(nextId + Len(f.rows) - 1)
         THEN Imported(f.rows[m - nextId + 1], m - nextId)
         ELSE IF kept THEN monitors[m] ELSE NoRow
  BY DEF Restored
<1>4. \A m \in Ids : Restored(f, kept)[m] \in Row \cup {NoRow}
  BY <1>1, <1>2, <1>3, ImportedIs DEF Table
<1>5. Restored(f, kept) = [m \in Ids |-> Restored(f, kept)[m]]
  BY DEF Restored
<1>6. Restored(f, kept) \in Table
  BY <1>4, <1>5 DEF Table
<1>7. \A m \in Ids : m \in nextId..(nextId + Len(f.rows) - 1) => Restored(f, kept)[m] # NoRow
  BY <1>2, <1>3, ImportedIs
<1> QED BY <1>2, <1>3, <1>6, <1>7

LEMMA NextTyped == TypeOK /\ [Next]_vars => TypeOK'
<1> SUFFICES ASSUME TypeOK, [Next]_vars PROVE TypeOK'
    OBVIOUS
<1>1. /\ monitors \in Table /\ nextId \in 1..MaxId + 1 /\ nextId \in Nat /\ MaxId \in Nat
      /\ settings \in Setting /\ Ids \subseteq Nat
      /\ \A i \in Ids : monitors[i] # NoRow => i < nextId
  BY IdsFinite DEF TypeOK, Table, Present
<1>2. ASSUME NEW n \in Names, NEW i \in Intervals, Create(n, i) PROVE TypeOK'
  <2> DEFINE row == [name |-> n, interval |-> i, order |-> NextOrder]
  <2>1. row \in Row
    BY <1>1, HighestOrder, ConfigAssumption DEF Row
  <2>2. /\ monitors' = [monitors EXCEPT ![nextId] = row] /\ nextId' = nextId + 1
        /\ nextId <= MaxId /\ Changed /\ UNCHANGED <<settings, export, backup>>
    BY <1>2 DEF Create
  <2> HIDE DEF row
  <2>3. monitors' \in Table
    BY <1>1, <2>1, <2>2 DEF Table
  <2>4. \A k \in Ids : monitors'[k] # NoRow => k < nextId'
    BY <1>1, <2>2 DEF Table
  <2>5. nextId' \in 1..MaxId + 1
    BY <1>1, <2>2
  <2> QED BY <1>1, <2>2, <2>3, <2>4, <2>5, TablesTyped
<1>3. ASSUME NEW m \in Ids, NEW n \in Names, NEW i \in Intervals, Update(m, n, i) PROVE TypeOK'
  <2> DEFINE row == [monitors[m] EXCEPT !.name = n, !.interval = AtLeast(i, MinInterval)]
  <2>1. monitors[m] \in Row /\ monitors[m] # NoRow
    BY <1>1, <1>3 DEF Update, Present, Table
  <2>2. row \in Row
    <3>1. AtLeast(i, MinInterval) \in Int
      BY AtLeastTyped, ConfigAssumption
    <3> QED BY <2>1, <3>1 DEF Row
  <2>3. /\ monitors' = [monitors EXCEPT ![m] = row]
        /\ Changed /\ UNCHANGED <<nextId, settings, export, backup>>
    BY <1>3 DEF Update
  <2> HIDE DEF row
  <2>4. monitors' \in Table
    BY <1>1, <2>2, <2>3 DEF Table
  <2>5. \A k \in Ids : monitors'[k] # NoRow => k < nextId'
    BY <1>1, <2>1, <2>3 DEF Table
  <2> QED BY <1>1, <2>3, <2>4, <2>5, TablesTyped
<1>4. ASSUME NEW m \in Ids, Delete(m) PROVE TypeOK'
  <2>1. /\ monitors' = [monitors EXCEPT ![m] = NoRow]
        /\ Changed /\ UNCHANGED <<nextId, settings, export, backup>>
    BY <1>4 DEF Delete
  <2>2. monitors' \in Table
    BY <1>1, <2>1 DEF Table
  <2>3. \A k \in Ids : monitors'[k] # NoRow => k < nextId'
    BY <1>1, <2>1 DEF Table
  <2> QED BY <1>1, <2>1, <2>2, <2>3, TablesTyped
<1>5. ASSUME NEW a \in Ids, NEW b \in Ids, Reorder(<<a, b>>) PROVE TypeOK'
  <2> DEFINE ids == <<a, b>>
             P(m) == {p \in DOMAIN ids : ids[p] = m}
             row(m) == [monitors[m] EXCEPT !.order = Highest(P(m)) - 1]
  <2>1. /\ Changed /\ UNCHANGED <<nextId, settings, export, backup>>
        /\ monitors' = [m \in Ids |-> IF m \in Present /\ \E p \in DOMAIN ids : ids[p] = m
                                      THEN row(m) ELSE monitors[m]]
    BY <1>5 DEF Reorder
  <2>2. ASSUME NEW m \in Ids, \E p \in DOMAIN ids : ids[p] = m
        PROVE  Highest(P(m)) \in Int
    <3>1. P(m) \subseteq {1, 2} /\ P(m) # {}
      BY <2>2
    <3>2. \E x \in P(m) : \A y \in P(m) : x >= y
      <4>1. CASE 2 \in P(m)
        BY <3>1, <4>1
      <4>2. CASE 2 \notin P(m)
        BY <3>1, <4>2
      <4> QED BY <4>1, <4>2
    <3> HIDE DEF P
    <3>3. Highest(P(m)) \in P(m)
      BY <3>2 DEF Highest
    <3> QED BY <3>1, <3>3
  <2>3. ASSUME NEW m \in Present, \E p \in DOMAIN ids : ids[p] = m
        PROVE  row(m) \in Row
    <3>1. m \in Ids /\ monitors[m] \in Row
      BY <1>1 DEF Present, Table
    <3>2. Highest(P(m)) - 1 \in Int
      BY <2>2, <2>3, <3>1
    <3> HIDE DEF P
    <3> QED BY <3>1, <3>2 DEF Row
  <2>4. ASSUME NEW m \in Ids
        PROVE  /\ monitors'[m] \in Row \cup {NoRow}
               /\ monitors'[m] # NoRow => monitors[m] # NoRow
    <3>1. CASE m \in Present /\ \E p \in DOMAIN ids : ids[p] = m
      <4>1. monitors'[m] = row(m)
        BY <2>1, <3>1
      <4>2. row(m) \in Row
        BY <2>3, <3>1
      <4> QED BY <3>1, <4>1, <4>2 DEF Present
    <3>2. CASE ~(m \in Present /\ \E p \in DOMAIN ids : ids[p] = m)
      <4>1. monitors'[m] = monitors[m]
        BY <2>1, <3>2
      <4> QED BY <1>1, <4>1 DEF Table
    <3> QED BY <3>1, <3>2
  <2>5. monitors' = [m \in Ids |-> monitors'[m]]
    BY <2>1
  <2>6. monitors' \in Table
    BY <2>4, <2>5 DEF Table
  <2> QED BY <1>1, <2>1, <2>4, <2>6, TablesTyped
<1>6. ASSUME NEW k \in Keys, NEW v \in Values, SaveSetting(k, v) PROVE TypeOK'
  <2>1. settings' \in Setting
    BY <1>1, <1>6 DEF SaveSetting, Setting
  <2>2. Changed /\ UNCHANGED <<monitors, nextId, export, backup>>
    BY <1>6 DEF SaveSetting
  <2> QED BY <1>1, <2>1, <2>2, TablesTyped
<1>7. CASE ExportMonitors
  <2>1. export' \in Seq(Row)
    BY <1>1, <1>7, AllIs DEF ExportMonitors
  <2> QED BY <1>7, <2>1 DEF ExportMonitors, TypeOK, Present
<1>8. CASE ExportSettings
  <2>1. backup' \in [rows: Seq(Row), values: Setting]
    BY <1>8 DEF ExportSettings, TypeOK
  <2> QED BY <1>8, <2>1 DEF ExportSettings, TypeOK, Present
<1>9. CASE ExportAbandoned
  BY <1>9 DEF ExportAbandoned, TypeOK, Present
<1>10. ASSUME NEW f \in Importable, NEW mode \in Modes, Restore(f, mode) PROVE TypeOK'
  <2> DEFINE kept == mode # "replace"
  <2>1. kept \in BOOLEAN
    OBVIOUS
  <2>2. /\ Changed /\ UNCHANGED <<export, backup>> /\ nextId + Len(f.rows) - 1 <= MaxId
        /\ monitors' = Restored(f, kept) /\ nextId' = nextId + Len(f.rows)
        /\ settings' = [k \in Keys |-> IF f.values[k] = Unset THEN settings[k] ELSE f.values[k]]
    BY <1>10 DEF Restore
  <2>3. f \in ImportFile /\ Len(f.rows) \in Nat
    BY ImportableTyped DEF ImportFile
  <2> HIDE DEF kept
  <2>4. monitors' \in Table
    BY <2>1, <2>2, <2>3, RestoredIs
  <2>5. ASSUME NEW m \in Ids, monitors'[m] # NoRow PROVE m < nextId'
    <3>1. CASE m \in nextId..(nextId + Len(f.rows) - 1)
      BY <1>1, <2>2, <2>3, <3>1
    <3>2. CASE m \notin nextId..(nextId + Len(f.rows) - 1)
      <4>1. monitors[m] # NoRow
        BY <2>1, <2>2, <2>3, <2>5, <3>2, RestoredIs
      <4> QED BY <1>1, <2>2, <2>3, <4>1
    <3> QED BY <3>1, <3>2
  <2>6. settings' \in Setting
    BY <1>1, <2>2, <2>3 DEF ImportFile, Setting
  <2>7. nextId' \in 1..MaxId + 1
    BY <1>1, <2>2, <2>3
  <2> QED BY <2>2, <2>4, <2>5, <2>6, <2>7, TablesTyped
<1>11. CASE UNCHANGED vars
  BY <1>11 DEF vars, TypeOK, Present
<1> QED BY <1>2, <1>3, <1>4, <1>5, <1>6, <1>7, <1>8, <1>9, <1>10, <1>11 DEF Next

(* The variables keep their types: every row has an order by which it can  *)
(* be shown, and no row has an id that is still to be given, also after a  *)
(* restore, which gives ids of its own.                                    *)
THEOREM TypeCorrect == Spec => []TypeOK
<1> QED BY InitTyped, NextTyped, PTL DEF Spec

-----------------------------------------------------------------------------
(* An export is a snapshot.  While it runs, what it has read of the        *)
(* monitors and what the settings hold now were in the database together,  *)
(* until the settings change after the monitors did.                       *)
Drifted ==
  export # NoBackup =>
    /\ "mixed" \notin drift => [rows |-> export, values |-> settings] \in past
    /\ "rows" \notin drift => All(monitors) = export

LEMMA InitDrifted == Init => Drifted
  BY DEF Init, Drifted

LEMMA ChangedDrifted ==
  ASSUME Drifted, Changed, UNCHANGED <<export, backup>>
  PROVE  Drifted'
<1> SUFFICES ASSUME export # NoBackup
             PROVE  /\ "mixed" \notin drift' => [rows |-> export, values |-> settings'] \in past'
                    /\ "rows" \notin drift' => All(monitors') = export
    BY DEF Drifted
<1> DEFINE moved == All(monitors') # All(monitors)
           set == settings' # settings
<1>1. /\ past' = past \cup {[rows |-> All(monitors'), values |-> settings']}
      /\ "rows" \in drift' <=> "rows" \in drift \/ moved
      /\ "mixed" \in drift' <=> "mixed" \in drift \/ (set /\ ("rows" \in drift \/ moved))
  BY DEF Changed, Both
<1>2. /\ "mixed" \notin drift => [rows |-> export, values |-> settings] \in past
      /\ "rows" \notin drift => All(monitors) = export
  BY DEF Drifted
<1>3. "rows" \notin drift' => All(monitors') = export
  BY <1>1, <1>2
<1>4. ASSUME "mixed" \notin drift' PROVE [rows |-> export, values |-> settings'] \in past'
  <2>1. CASE settings' = settings
    BY <1>1, <1>2, <1>4, <2>1
  <2>2. CASE settings' # settings
    <3>1. "rows" \notin drift /\ All(monitors') = All(monitors)
      BY <1>1, <1>4, <2>2
    <3>2. All(monitors') = export
      BY <1>2, <3>1
    <3> QED BY <1>1, <3>2
  <2> QED BY <2>1, <2>2
<1> QED BY <1>3, <1>4

LEMMA NextDrifted ==
  ASSUME Drifted, [Next]_vars
  PROVE  /\ Drifted'
         /\ backup' \notin {backup, NoBackup} /\ "mixed" \notin drift => backup' \in past
<1>1. ASSUME Changed, UNCHANGED <<export, backup>>
      PROVE  Drifted' /\ backup' = backup
  BY <1>1, ChangedDrifted
<1>2. \A n \in Names, i \in Intervals : Create(n, i) => Changed /\ UNCHANGED <<export, backup>>
  BY DEF Create
<1>3. \A m \in Ids, n \in Names, i \in Intervals :
        Update(m, n, i) => Changed /\ UNCHANGED <<export, backup>>
  BY DEF Update
<1>4. \A m \in Ids : Delete(m) => Changed /\ UNCHANGED <<export, backup>>
  BY DEF Delete
<1>5. \A a, b \in Ids : Reorder(<<a, b>>) => Changed /\ UNCHANGED <<export, backup>>
  BY DEF Reorder
<1>6. \A k \in Keys, v \in Values : SaveSetting(k, v) => Changed /\ UNCHANGED <<export, backup>>
  BY DEF SaveSetting
<1>7. \A f \in Importable, mode \in Modes :
        Restore(f, mode) => Changed /\ UNCHANGED <<export, backup>>
  BY DEF Restore
<1>8. CASE ExportMonitors
  <2>1. /\ export' = All(monitors) /\ drift' = {} /\ UNCHANGED <<monitors, settings>>
        /\ past' = {[rows |-> All(monitors), values |-> settings]} /\ backup' = NoBackup
    BY <1>8 DEF ExportMonitors, Both
  <2> QED BY <2>1 DEF Drifted
<1>9. CASE ExportSettings
  <2>1. export # NoBackup /\ backup' = [rows |-> export, values |-> settings] /\ export' = NoBackup
    BY <1>9 DEF ExportSettings
  <2> QED BY <2>1 DEF Drifted
<1>10. CASE ExportAbandoned
  BY <1>10 DEF ExportAbandoned, Drifted
<1>11. CASE UNCHANGED vars
  BY <1>11 DEF vars, Drifted
<1> QED BY <1>1, <1>2, <1>3, <1>4, <1>5, <1>6, <1>7, <1>8, <1>9, <1>10, <1>11 DEF Next

(* export_json takes the lock once for the monitors and once for the       *)
(* settings, and still writes a file that both tables held at one moment,  *)
(* unless a change of the settings followed, or came with, a change of the *)
(* monitors in between.                                                    *)
THEOREM ExportsAreSnapshots == Spec => ExportIsSnapshot
<1>1. Drifted /\ [Next]_vars => Drifted'
  BY NextDrifted
<1>2. Drifted /\ [Next]_vars =>
        [backup' \notin {backup, NoBackup} /\ "mixed" \notin drift => backup' \in past]_vars
  BY NextDrifted
<1> QED BY InitDrifted, <1>1, <1>2, PTL DEF Spec, ExportIsSnapshot

-----------------------------------------------------------------------------
(* A backup brings the configuration back.  An exported file has its rows  *)
(* in the order they were shown in, so that ids given in that order to     *)
(* rows with the places of the file show them in that order again.         *)
InOrder ==
  /\ export # NoBackup => Sorted(export)
  /\ backup # NoBackup => Sorted(backup.rows)

OrderInv == TypeOK /\ InOrder

LEMMA InitInOrder == Init => OrderInv
  BY InitTyped DEF Init, OrderInv, InOrder

LEMMA NextInOrder == OrderInv /\ [Next]_vars => OrderInv'
<1> SUFFICES ASSUME OrderInv, [Next]_vars PROVE InOrder'
    BY NextTyped DEF OrderInv
<1>1. ASSUME UNCHANGED <<export, backup>> PROVE InOrder'
  BY <1>1 DEF OrderInv, InOrder
<1>2. CASE ExportMonitors
  <2>1. monitors \in Table
    BY DEF OrderInv, TypeOK, Table
  <2>2. Sorted(export')
    BY <1>2, <2>1, AllSorted DEF ExportMonitors
  <2> QED BY <1>2, <2>2 DEF ExportMonitors, InOrder
<1>3. CASE ExportSettings
  <2>1. Sorted(export) /\ backup'.rows = export /\ export' = NoBackup
    BY <1>3 DEF ExportSettings, OrderInv, InOrder
  <2> QED BY <2>1 DEF InOrder
<1>4. CASE ExportAbandoned
  BY <1>4 DEF ExportAbandoned, OrderInv, InOrder
<1>5. CASE UNCHANGED vars
  BY <1>1, <1>5 DEF vars
<1> QED BY <1>1, <1>2, <1>3, <1>4, <1>5
        DEF Next, Create, Update, Delete, Reorder, SaveSetting, Restore

(* A table whose rows have ids lo..lo + n - 1 and orders that grow with    *)
(* the ids is shown in the order of the ids.                               *)
LEMMA ShownInOrder ==
  ASSUME NEW t \in Table, NEW lo \in Nat, NEW n \in Nat,
         IdsOf(t) = lo..(lo + n - 1),
         \A i, j \in IdsOf(t) : i <= j => t[i].order <= t[j].order
  PROVE  Len(All(t)) = n /\ \A p \in 1..n : All(t)[p] = t[lo + p - 1]
<1>1. Cardinality(IdsOf(t)) = n
  <2> DEFINE hi == lo + n - 1
  <2>1. lo \in Int /\ hi \in Int
    OBVIOUS
  <2> HIDE DEF hi
  <2>2. Cardinality(lo..hi) = IF lo > hi THEN 0 ELSE hi - lo + 1
    BY <2>1, FS_Interval
  <2> QED BY <2>2 DEF hi
<1>2. Len(All(t)) = n
  BY <1>1, AllIs
<1>3. ASSUME NEW i \in IdsOf(t) PROVE Rank(t, i) = i - lo + 1
  <2>1. \A j \in IdsOf(t) : Before(t, j, i) <=> j < i
    BY <1>3, RowOf DEF Before
  <2>2. Below(t, i) = lo..(i - 1)
    BY <1>3, <2>1, RowOf DEF Below
  <2>3. Cardinality(Below(t, i)) = i - lo
    BY <1>3, <2>2, FS_Interval
  <2> QED BY <1>3, <2>3 DEF Rank
<1>4. ASSUME NEW p \in 1..n PROVE All(t)[p] = t[lo + p - 1]
  <2>1. Shown(t)[p] \in IdsOf(t) /\ Rank(t, Shown(t)[p]) = p
    BY <1>1, ShownIs
  <2>2. Shown(t)[p] = lo + p - 1
    <3>1. p = Shown(t)[p] - lo + 1
      BY <1>3, <2>1
    <3>2. Shown(t)[p] \in Int
      BY <2>1
    <3> QED BY <3>1, <3>2
  <2> QED BY <1>2, <2>2, AllIs
<1> QED BY <1>2, <1>4

LEMMA RestoreShows ==
  ASSUME OrderInv, backup # NoBackup, Restore(backup, "replace")
  PROVE  /\ Len(All(monitors')) = Len(backup.rows)
         /\ \A p \in 1..Len(backup.rows) :
              /\ All(monitors')[p].name = backup.rows[p].name
              /\ All(monitors')[p].interval = AtLeast(backup.rows[p].interval, MinInterval)
         /\ \A k \in Keys : backup.values[k] # Unset => settings'[k] = backup.values[k]
<1> DEFINE rows == backup.rows
           n == Len(rows)
           t == monitors'
<1>1. /\ TypeOK /\ rows \in Seq(Row) /\ n \in Nat /\ Sorted(rows)
      /\ nextId \in Nat /\ nextId >= 1 /\ MaxId \in Nat
  BY ConfigAssumption DEF OrderInv, InOrder, TypeOK
<1>2. /\ nextId + n - 1 <= MaxId /\ t = Restored(backup, FALSE)
      /\ settings' = [k \in Keys |-> IF backup.values[k] = Unset THEN settings[k] ELSE backup.values[k]]
  BY DEF Restore
<1>3. backup \in ImportFile
  BY <1>1, ImportableTyped DEF Importable
<1>4. /\ t \in Table
      /\ \A m \in Ids :
           IF m \in nextId..(nextId + n - 1)
           THEN /\ m - nextId + 1 \in 1..n
                /\ t[m] = Imported(rows[m - nextId + 1], m - nextId)
                /\ t[m] # NoRow
           ELSE t[m] = NoRow
  <2>1. FALSE \in BOOLEAN
    OBVIOUS
  <2> QED BY <1>1, <1>2, <1>3, <2>1, RestoredIs
<1>5. \A p \in 1..n : rows[p] \in Row /\ rows[p] \in FileRow /\ rows[p].order \in Int
  <2>1. \A p \in 1..n : rows[p] \in Row
    BY <1>1
  <2> QED BY <2>1 DEF Row, FileRow
<1> HIDE DEF rows, n, t
<1>6. IdsOf(t) = nextId..(nextId + n - 1)
  <2>1. nextId..(nextId + n - 1) \subseteq Ids
    BY <1>1, <1>2 DEF Ids, n, rows
  <2> QED BY <1>4, <2>1 DEF IdsOf
<1>7. ASSUME NEW m \in IdsOf(t)
      PROVE  /\ m \in Ids /\ m - nextId + 1 \in 1..n /\ m - nextId \in Int
             /\ t[m].order = rows[m - nextId + 1].order
             /\ t[m].name = rows[m - nextId + 1].name
             /\ t[m].interval = AtLeast(rows[m - nextId + 1].interval, MinInterval)
  <2>1. m \in Ids /\ m \in nextId..(nextId + n - 1)
    BY <1>6 DEF IdsOf
  <2>2. m - nextId + 1 \in 1..n /\ m - nextId \in Int
        /\ t[m] = Imported(rows[m - nextId + 1], m - nextId)
    BY <1>1, <1>4, <2>1 DEF n, rows
  <2> QED BY <1>5, <2>1, <2>2, ImportedIs
<1>8. ASSUME NEW i \in IdsOf(t), NEW j \in IdsOf(t), i <= j
      PROVE  t[i].order <= t[j].order
  <2>1. i \in Int /\ j \in Int
    BY <1>6
  <2>2. i - nextId + 1 <= j - nextId + 1
    BY <1>1, <1>8, <2>1
  <2>3. rows[i - nextId + 1].order <= rows[j - nextId + 1].order
    BY <1>1, <1>7, <2>2 DEF Sorted, n, rows
  <2> QED BY <1>7, <2>3
<1>9. Len(All(t)) = n /\ \A p \in 1..n : All(t)[p] = t[nextId + p - 1]
  BY <1>1, <1>4, <1>6, <1>8, ShownInOrder DEF n, rows
<1>10. ASSUME NEW p \in 1..n
       PROVE  /\ All(t)[p].name = rows[p].name
              /\ All(t)[p].interval = AtLeast(rows[p].interval, MinInterval)
  <2>1. nextId + p - 1 \in IdsOf(t) /\ (nextId + p - 1) - nextId + 1 = p
    BY <1>1, <1>6 DEF n, rows
  <2> QED BY <1>7, <1>9, <2>1
<1>11. \A k \in Keys : backup.values[k] # Unset => settings'[k] = backup.values[k]
  BY <1>2
<1> QED BY <1>9, <1>10, <1>11 DEF t, n, rows

(* restore_json of an exported file in replace mode brings the monitors    *)
(* back in the order they were shown in, with intervals below 5 s raised,  *)
(* and every setting of the file, whatever was created, deleted, edited or *)
(* reordered since and whatever ids the rows get.                          *)
THEOREM BackupsRoundTrip == Spec => RoundTrip
<1>1. ASSUME OrderInv, OrderInv', backup # NoBackup, Restore(backup, "replace")
      PROVE  /\ [p \in DOMAIN All(monitors') |-> All(monitors')[p].name]
                  = [p \in DOMAIN backup.rows |-> backup.rows[p].name]
             /\ \A p \in DOMAIN backup.rows :
                  All(monitors')[p].interval = AtLeast(backup.rows[p].interval, MinInterval)
             /\ \A k \in Keys : backup.values[k] # Unset => settings'[k] = backup.values[k]
  <2>1. backup.rows \in Seq(Row)
    BY <1>1 DEF OrderInv, TypeOK
  <2>2. monitors' \in Table
    BY <1>1 DEF OrderInv, TypeOK, Table
  <2>3. DOMAIN backup.rows = 1..Len(backup.rows)
    BY <2>1, LenProperties
  <2>4. DOMAIN All(monitors') = 1..Len(All(monitors'))
    BY <2>2, AllIs, LenProperties
  <2> QED BY <1>1, <2>3, <2>4, RestoreShows
<1>2. OrderInv /\ OrderInv' /\ [Next]_vars =>
        [backup # NoBackup /\ Restore(backup, "replace") =>
           /\ [p \in DOMAIN All(monitors') |-> All(monitors')[p].name]
                = [p \in DOMAIN backup.rows |-> backup.rows[p].name]
           /\ \A p \in DOMAIN backup.rows :
                All(monitors')[p].interval = AtLeast(backup.rows[p].interval, MinInterval)
           /\ \A k \in Keys : backup.values[k] # Unset => settings'[k] = backup.values[k]]_vars
  BY <1>1
<1> QED BY InitInOrder, NextInOrder, <1>2, PTL DEF Spec, RoundTrip

-----------------------------------------------------------------------------
(* The database file: schema and download. *)

(* Lemmas about the constants. *)

LEMMA GroupsTyped ==
  /\ Len(Groups) \in Nat /\ DOMAIN Groups = 1..Len(Groups)
  /\ \A g \in DOMAIN Groups : /\ Len(Groups[g]) \in Nat \ {0}
                              /\ DOMAIN Groups[g] = 1..Len(Groups[g])
                              /\ 1 \in DOMAIN Groups[g]
<1>1. Groups \in Seq(Seq(STRING) \ {<<>>})
  BY FileAssumption
<1>2. Len(Groups) \in Nat /\ DOMAIN Groups = 1..Len(Groups)
  BY <1>1
<1>3. ASSUME NEW g \in DOMAIN Groups
      PROVE  /\ Len(Groups[g]) \in Nat \ {0}
             /\ DOMAIN Groups[g] = 1..Len(Groups[g])
             /\ 1 \in DOMAIN Groups[g]
  <2>1. Groups[g] \in Seq(STRING) /\ Groups[g] # <<>>
    BY <1>1, <1>2
  <2>2. Len(Groups[g]) # 0
    BY <2>1, EmptySeq
  <2> QED BY <2>1, <2>2
<1> QED BY <1>2, <1>3

LEMMA PagesTyped ==
  /\ Cardinality(Pages) \in Nat \ {0} /\ Pages = 1..Cardinality(Pages)
  /\ 1 \in Pages /\ Cardinality(Pages) \in Pages
<1>1. Cardinality(Pages) \in Nat /\ Pages = 1..Cardinality(Pages) /\ Pages # {}
  BY FileAssumption, FS_CardinalityType
<1>2. Cardinality(Pages) # 0
  BY <1>1
<1> QED BY <1>1, <1>2

(* There is a latest version, so the next one is larger than all. *)
LEMMA NewVersionTyped ==
  ASSUME live \in [Pages -> Version]
  PROVE  NewVersion \in Nat
<1> DEFINE T == {k \in Nat : \E p \in Pages : live[p] = MaxCommits - k}
<1>1. \A p \in Pages : live[p] \in Nat /\ MaxCommits - live[p] \in Nat
  BY FileAssumption DEF Version
<1>2. T # {} /\ T \subseteq Nat
  <2>1. live[1] = MaxCommits - (MaxCommits - live[1])
    BY <1>1, PagesTyped, FileAssumption
  <2> QED BY <1>1, <2>1, PagesTyped
<1>3. PICK k \in T : \A j \in T : ~(<<j, k>> \in OpToRel(<, Nat))
  <2> HIDE DEF T
  <2> QED BY <1>2, NatLessThanWellFounded, WFMin
<1>4. \A j \in T : ~(j < k)
  BY <1>2, <1>3 DEF OpToRel
<1>5. PICK p \in Pages : live[p] = MaxCommits - k
  OBVIOUS
<1>6. ASSUME NEW q \in Pages PROVE live[q] <= MaxCommits - k
  <2>1. live[q] = MaxCommits - (MaxCommits - live[q])
    BY <1>1, FileAssumption
  <2>2. MaxCommits - live[q] \in T
    BY <1>1, <2>1
  <2>3. ~(MaxCommits - live[q] < k) /\ k \in Nat
    BY <1>2, <1>4, <2>2
  <2> HIDE DEF T
  <2> QED BY <1>1, <2>3, FileAssumption
<1>7. \E v \in Version : /\ \E p2 \in Pages : live[p2] = v
                         /\ \A p2 \in Pages : live[p2] <= v
  BY <1>5, <1>6
<1>8. (CHOOSE v \in Version : /\ \E p2 \in Pages : live[p2] = v
                              /\ \A p2 \in Pages : live[p2] <= v) \in Version
  BY <1>7
<1> QED BY <1>8, FileAssumption DEF NewVersion, Version

-----------------------------------------------------------------------------
(* Type correctness, in two halves that no action mixes: the schema and    *)
(* the file.                                                               *)

PlaceOK == \/ at \in {Serving, Down}
           \/ \E g \in DOMAIN Groups : \E c \in DOMAIN Groups[g] : at = <<g, c>>

SchemaTyped ==
  /\ flag \in Paths \cup {NoPath} /\ env \in Paths \cup {NoPath}
  /\ columns \subseteq AllColumns /\ PlaceOK
  /\ clean \in BOOLEAN /\ hurt \subseteq DOMAIN Groups /\ faults \in 0..MaxFaults

DownloadRecord ==
  [stage: Stages, page: 0..Cardinality(Pages) + 1, copy: Seq(Version \cup {Foreign}),
   since: SUBSET [Pages -> Version], torn: BOOLEAN, stale: BOOLEAN]

(* The read is at the page after those it has copied. *)
ReadingOK ==
  /\ Len(download.copy) <= Cardinality(Pages)
  /\ download.stage = "read" => /\ download.page \in Pages
                                /\ Len(download.copy) = download.page - 1
  /\ download.stage \in {"none", "flushing", "flushed"} => Len(download.copy) = 0

CopyTyped ==
  /\ live \in [Pages -> Version] /\ main \in [Pages -> Version]
  /\ copying \subseteq Dirty /\ download \in DownloadRecord /\ ReadingOK

LEMMA TypesGiveTypeOK == SchemaTyped /\ CopyTyped => FileTypeOK
<1> SUFFICES ASSUME SchemaTyped, CopyTyped PROVE FileTypeOK
    OBVIOUS
<1>1. \/ at \in {Serving, Down}
      \/ at[1] \in DOMAIN Groups /\ at[2] \in DOMAIN Groups[at[1]]
  BY DEF SchemaTyped, PlaceOK
<1>2. /\ download.stage \in Stages /\ download.torn \in BOOLEAN /\ download.stale \in BOOLEAN
      /\ download.page \in 0..Cardinality(Pages) + 1
      /\ download.since \subseteq [Pages -> Version]
  BY DEF CopyTyped, DownloadRecord
<1> QED BY <1>1, <1>2 DEF SchemaTyped, CopyTyped, ReadingOK, FileTypeOK

LEMMA PlaceTyped ==
  ASSUME NEW g \in 1..Len(Groups) + 1
  PROVE  \/ g = Len(Groups) + 1 /\ Place(g) = Serving
         \/ g \in DOMAIN Groups /\ 1 \in DOMAIN Groups[g] /\ Place(g) = <<g, 1>>
  BY GroupsTyped DEF Place

(* Where a finished column leaves init_db. *)
LEMMA AfterColumn ==
  ASSUME NEW g \in DOMAIN Groups, NEW c \in DOMAIN Groups[g], AddColumn(g, c)
  PROVE  \/ /\ c < Len(Groups[g]) /\ at' = <<g, c + 1>> /\ c + 1 \in DOMAIN Groups[g]
         \/ /\ c = Len(Groups[g]) /\ at' = Place(g + 1) /\ g + 1 \in 1..Len(Groups) + 1
  BY GroupsTyped DEF AddColumn

LEMMA NoDownloadTyped == NoDownload \in DownloadRecord
<1>1. <<>> \in Seq(Version \cup {Foreign}) /\ 0 \in 0..Cardinality(Pages) + 1
  BY PagesTyped
<1> QED BY <1>1 DEF NoDownload, DownloadRecord, Stages

LEMMA InitFileTyped == FileInit => SchemaTyped /\ CopyTyped
<1> SUFFICES ASSUME FileInit PROVE SchemaTyped /\ CopyTyped
    OBVIOUS
<1>1. columns \subseteq AllColumns
  <2>1. PICK g \in 0..Len(Groups) : columns = Release(g)
    BY DEF FileInit
  <2> QED BY <2>1, GroupsTyped DEF Release, AllColumns
<1>2. clean \in BOOLEAN /\ hurt \subseteq DOMAIN Groups /\ faults \in 0..MaxFaults /\ PlaceOK
  BY FileAssumption DEF FileInit, PlaceOK
<1>3. live \in [Pages -> Version] /\ main \in [Pages -> Version]
  BY FileAssumption DEF FileInit, Version
<1>4. Len(NoDownload.copy) = 0 /\ NoDownload.stage = "none"
  BY DEF NoDownload
<1>5. ReadingOK
  BY <1>4, PagesTyped DEF FileInit, ReadingOK
<1> QED BY <1>1, <1>2, <1>3, <1>5, NoDownloadTyped DEF FileInit, SchemaTyped, CopyTyped

LEMMA NextSchemaTyped == SchemaTyped /\ [FileNext]_fileVars => SchemaTyped'
<1> SUFFICES ASSUME SchemaTyped, [FileNext]_fileVars PROVE SchemaTyped'
    OBVIOUS
<1>1. CASE Start
  <2>1. PlaceOK'
    BY <1>1, GroupsTyped, PlaceTyped DEF Start, PlaceOK
  <2> QED BY <1>1, <2>1 DEF Start, SchemaTyped
<1>2. ASSUME NEW g \in DOMAIN Groups, SkipGroup(g) PROVE SchemaTyped'
  <2>1. g + 1 \in 1..Len(Groups) + 1
    BY GroupsTyped
  <2>2. PlaceOK'
    BY <1>2, <2>1, PlaceTyped DEF SkipGroup, PlaceOK
  <2> QED BY <1>2, <2>2 DEF SkipGroup, SchemaTyped
<1>3. ASSUME NEW g \in DOMAIN Groups, NEW c \in DOMAIN Groups[g], AddColumn(g, c)
      PROVE  SchemaTyped'
  <2>1. PlaceOK'
    BY <1>3, AfterColumn, PlaceTyped DEF PlaceOK
  <2>2. columns' \subseteq AllColumns
    BY <1>3 DEF AddColumn, SchemaTyped, AllColumns, ColumnsOf
  <2>3. clean' \in BOOLEAN /\ hurt' \subseteq DOMAIN Groups
    BY <1>3 DEF AddColumn, SchemaTyped
  <2>4. faults' \in 0..MaxFaults
    BY <1>3, FileAssumption DEF AddColumn, SchemaTyped
  <2> QED BY <1>3, <2>1, <2>2, <2>3, <2>4 DEF AddColumn, SchemaTyped
<1>4. CASE Crash
  <2>1. faults' \in 0..MaxFaults
    BY <1>4, FileAssumption DEF Crash, SchemaTyped
  <2> QED BY <1>4, <2>1 DEF Crash, SchemaTyped, PlaceOK
<1>5. CASE UNCHANGED <<flag, env, schema>>
  BY <1>5 DEF schema, SchemaTyped, PlaceOK
<1>6. ASSUME NEW S \in SUBSET Pages, Commit(S) PROVE UNCHANGED <<flag, env, schema>>
  BY <1>6 DEF Commit
<1>7. ASSUME NEW p \in Pages, CopyPage(p) PROVE UNCHANGED <<flag, env, schema>>
  BY <1>7 DEF CopyPage
<1>8. Checkpoint \/ Download \/ OpenFile \/ ReadPage \/ Answer \/ UNCHANGED fileVars
        => UNCHANGED <<flag, env, schema>>
  BY DEF Checkpoint, Download, OpenFile, ReadPage, Answer, fileVars, schema
<1>9. CASE CheckpointFails
  <2>1. faults' \in 0..MaxFaults
    BY <1>9, FileAssumption DEF CheckpointFails, SchemaTyped
  <2> QED BY <1>9, <2>1 DEF CheckpointFails, SchemaTyped, PlaceOK
<1> QED BY <1>1, <1>2, <1>3, <1>4, <1>5, <1>6, <1>7, <1>8, <1>9 DEF FileNext

(* What each step does to the file, the schema's steps left out. *)
FileStep ==
  \/ \E S \in SUBSET Pages : Commit(S)
  \/ Checkpoint
  \/ \E p \in Pages : CopyPage(p)
  \/ CheckpointFails
  \/ Download \/ OpenFile \/ ReadPage \/ Answer

LEMMA StepIs ==
  ASSUME [FileNext]_fileVars
  PROVE  \/ UNCHANGED <<flag, env, live, main, copying, download>>
         \/ Crash
         \/ FileStep
<1>1. CASE Start
  BY <1>1 DEF Start
<1>2. ASSUME NEW g \in DOMAIN Groups, SkipGroup(g)
      PROVE  UNCHANGED <<flag, env, live, main, copying, download>>
  BY <1>2 DEF SkipGroup
<1>3. ASSUME NEW g \in DOMAIN Groups, NEW c \in DOMAIN Groups[g], AddColumn(g, c)
      PROVE  UNCHANGED <<flag, env, live, main, copying, download>>
  BY <1>3 DEF AddColumn
<1>4. CASE UNCHANGED fileVars
  BY <1>4 DEF fileVars
<1> QED BY <1>1, <1>2, <1>3, <1>4 DEF FileNext, FileStep

(* The pages of the file read so far, one more page, the last page. *)
LEMMA ReadPageIs ==
  ASSUME CopyTyped, ReadPage
  PROVE  /\ download' \in DownloadRecord /\ download.page \in Pages
         /\ download'.copy \in Seq(Version \cup {Foreign})
         /\ Len(download'.copy) = download.page
         /\ \A i \in 1..download.page - 1 : download'.copy[i] = download.copy[i]
         /\ DownloadPath = ServerPath => download'.copy[download.page] = main[download.page]
         /\ download'.page = download.page + 1
         /\ download'.stage = IF download.page = Cardinality(Pages) THEN "done" ELSE "read"
         /\ download'.since = download.since /\ download'.torn = download.torn
         /\ download'.stale = download.stale
<1> DEFINE x == IF DownloadPath = ServerPath THEN main[download.page] ELSE Foreign
           copied == Append(download.copy, x)
<1>1. /\ download \in DownloadRecord /\ download.stage = "read" /\ download.page \in Pages
      /\ Len(download.copy) = download.page - 1 /\ main \in [Pages -> Version]
  BY DEF CopyTyped, ReadingOK, ReadPage
<1>2. x \in Version \cup {Foreign}
  BY <1>1
<1>3. download.copy \in Seq(Version \cup {Foreign}) /\ download.page \in Nat
  BY <1>1, PagesTyped DEF DownloadRecord
<1>4. /\ copied \in Seq(Version \cup {Foreign})
      /\ Len(copied) = Len(download.copy) + 1
      /\ \A i \in 1..Len(download.copy) : copied[i] = download.copy[i]
      /\ copied[Len(download.copy) + 1] = x
  <2> HIDE DEF x
  <2> QED BY <1>2, <1>3, AppendProperties
<1> HIDE DEF x
<1>5. /\ Len(copied) = download.page /\ copied[download.page] = x
      /\ \A i \in 1..download.page - 1 : copied[i] = download.copy[i]
  <2>1. Len(download.copy) + 1 = download.page
    BY <1>1, <1>3
  <2> HIDE DEF copied
  <2> QED BY <1>1, <1>3, <1>4, <2>1
<1>6. download' = [download EXCEPT !.copy = copied, !.page = @ + 1,
                     !.stage = IF download.page = Cardinality(Pages) THEN "done" ELSE @]
  BY DEF ReadPage, x
<1> HIDE DEF copied
<1>7. download.page + 1 \in 0..Cardinality(Pages) + 1
  BY <1>1, PagesTyped
<1>8. /\ download'.copy = copied /\ download'.page = download.page + 1
      /\ download'.stage = IF download.page = Cardinality(Pages) THEN "done" ELSE "read"
      /\ download'.since = download.since /\ download'.torn = download.torn
      /\ download'.stale = download.stale /\ download' \in DownloadRecord
  BY <1>1, <1>4, <1>6, <1>7 DEF DownloadRecord, Stages
<1> QED BY <1>1, <1>4, <1>5, <1>8 DEF x

LEMMA FileStepTyped ==
  ASSUME CopyTyped, FileStep
  PROVE  CopyTyped'
<1>1. /\ live \in [Pages -> Version] /\ main \in [Pages -> Version]
      /\ copying \subseteq Dirty /\ download \in DownloadRecord /\ ReadingOK
  BY DEF CopyTyped
<1>2. ASSUME NEW S \in SUBSET Pages, Commit(S) PROVE CopyTyped'
  <2>1. NewVersion \in Version
    BY <1>1, <1>2, NewVersionTyped, FileAssumption DEF Commit, Version
  <2>2. live' \in [Pages -> Version] /\ main' = main /\ copying' = {}
    BY <1>1, <1>2, <2>1 DEF Commit, Locked
  <2>3. download' = [download EXCEPT !.since = IF download.stage = "none" THEN @
                                               ELSE @ \cup {live'}]
    BY <1>2 DEF Commit
  <2>4. download' \in DownloadRecord
    BY <1>1, <2>2, <2>3 DEF DownloadRecord
  <2>5. /\ download'.copy = download.copy /\ download'.stage = download.stage
        /\ download'.page = download.page
    BY <1>1, <2>3 DEF DownloadRecord
  <2> QED BY <1>1, <2>2, <2>4, <2>5 DEF CopyTyped, ReadingOK
<1>3. CASE Checkpoint
  BY <1>1, <1>3 DEF Checkpoint, CopyTyped, ReadingOK, Dirty
<1>4. ASSUME NEW p \in Pages, CopyPage(p) PROVE CopyTyped'
  <2>1. main' \in [Pages -> Version] /\ live' = live
    BY <1>1, <1>4 DEF CopyPage
  <2>2. copying' \subseteq Dirty'
    BY <1>1, <1>4 DEF CopyPage, Dirty
  <2> DEFINE torn == download.torn \/ download.stage = "read"
             stage == IF download.stage = "flushing" /\ copying = {p}
                      THEN "flushed" ELSE download.stage
  <2>3. download' = [download EXCEPT !.torn = torn, !.stage = stage]
    BY <1>4 DEF CopyPage
  <2>4. torn \in BOOLEAN /\ stage \in Stages /\ (stage = "read" => download.stage = "read")
      /\ (stage \in {"none", "flushing", "flushed"} =>
            download.stage \in {"none", "flushing", "flushed"})
    BY <1>1 DEF DownloadRecord, Stages
  <2> HIDE DEF torn, stage
  <2>5. /\ download' \in DownloadRecord /\ download'.copy = download.copy
        /\ download'.stage = stage /\ download'.page = download.page
    BY <1>1, <2>3, <2>4 DEF DownloadRecord
  <2>6. ReadingOK'
    BY <1>1, <2>4, <2>5 DEF ReadingOK
  <2> QED BY <2>1, <2>2, <2>5, <2>6, <1>1 DEF CopyTyped
<1>5. CASE Download
  <2>1. PICK stage \in {"flushed", "flushing"} :
           download' = [NoDownload EXCEPT !.stage = stage, !.since = {live}]
    BY <1>5 DEF Download
  <2>2. /\ download' \in DownloadRecord /\ download'.stage # "read"
        /\ download'.copy = NoDownload.copy
    BY <1>1, <2>1, NoDownloadTyped DEF DownloadRecord, Stages
  <2>3. Len(NoDownload.copy) = 0
    BY DEF NoDownload
  <2> QED BY <1>1, <1>5, <2>2, <2>3, PagesTyped DEF Download, CopyTyped, ReadingOK, Dirty
<1>6. CASE OpenFile
  <2>1. CASE download' = NoDownload
    <3>1. Len(NoDownload.copy) = 0 /\ NoDownload.stage = "none"
      BY DEF NoDownload
    <3> QED BY <1>1, <1>6, <2>1, <3>1, NoDownloadTyped, PagesTyped
            DEF OpenFile, CopyTyped, ReadingOK, Dirty
  <2>2. CASE download' = [download EXCEPT !.stage = "read", !.page = 1, !.torn = Locked]
    <3>1. PICK torn \in BOOLEAN :
             download' = [download EXCEPT !.stage = "read", !.page = 1, !.torn = torn]
      BY <2>2 DEF Locked
    <3>2. /\ download' \in DownloadRecord /\ download'.page = 1
          /\ download'.copy = download.copy
      <4>1. 1 \in 0..Cardinality(Pages) + 1 /\ "read" \in Stages
        BY PagesTyped DEF Stages
      <4> QED BY <1>1, <3>1, <4>1 DEF DownloadRecord
    <3>3. Len(download.copy) = 0 /\ download'.stage = "read"
      BY <1>1, <1>6, <3>1 DEF OpenFile, ReadingOK, DownloadRecord
    <3> QED BY <1>1, <1>6, <3>2, <3>3, PagesTyped DEF OpenFile, CopyTyped, ReadingOK, Dirty
  <2> QED BY <1>6, <2>1, <2>2 DEF OpenFile
<1>7. CASE ReadPage
  <2>1. /\ download' \in DownloadRecord /\ download.page \in Pages
        /\ Len(download'.copy) = download.page /\ download'.page = download.page + 1
        /\ download'.stage = IF download.page = Cardinality(Pages) THEN "done" ELSE "read"
    BY <1>7, ReadPageIs
  <2>2. ReadingOK'
    BY <2>1, PagesTyped DEF ReadingOK
  <2> QED BY <1>1, <1>7, <2>1, <2>2 DEF ReadPage, CopyTyped, Dirty
<1>8. CASE Answer
  <2>1. Len(NoDownload.copy) = 0 /\ NoDownload.stage = "none"
    BY DEF NoDownload
  <2> QED BY <1>1, <1>8, <2>1, NoDownloadTyped, PagesTyped
          DEF Answer, CopyTyped, ReadingOK, Dirty
<1>9. CASE CheckpointFails
  <2>1. live' = live /\ main' = main /\ copying' = {}
    BY <1>9 DEF CheckpointFails
  <2> DEFINE stale == download.stale \/ download.stage \in {"flushing", "flushed"}
             stage == IF download.stage = "flushing" THEN "flushed" ELSE download.stage
  <2>2. download' = [download EXCEPT !.stale = stale, !.stage = stage]
    BY <1>9 DEF CheckpointFails
  <2>3. stale \in BOOLEAN /\ stage \in Stages /\ (stage = "read" => download.stage = "read")
      /\ (stage \in {"none", "flushing", "flushed"} =>
            download.stage \in {"none", "flushing", "flushed"})
    BY <1>1 DEF DownloadRecord, Stages
  <2> HIDE DEF stale, stage
  <2>4. /\ download' \in DownloadRecord /\ download'.copy = download.copy
        /\ download'.stage = stage /\ download'.page = download.page
    BY <1>1, <2>2, <2>3 DEF DownloadRecord
  <2>5. ReadingOK'
    BY <1>1, <2>3, <2>4 DEF ReadingOK
  <2> QED BY <1>1, <2>1, <2>4, <2>5 DEF CopyTyped
<1> QED BY <1>2, <1>3, <1>4, <1>5, <1>6, <1>7, <1>8, <1>9 DEF FileStep

LEMMA NextCopyTyped == CopyTyped /\ [FileNext]_fileVars => CopyTyped'
<1> SUFFICES ASSUME CopyTyped, [FileNext]_fileVars PROVE CopyTyped'
    OBVIOUS
<1>1. CASE UNCHANGED <<flag, env, live, main, copying, download>>
  BY <1>1 DEF CopyTyped, ReadingOK, Dirty
<1>2. CASE Crash
  <2>1. Len(NoDownload.copy) = 0 /\ NoDownload.stage = "none"
    BY DEF NoDownload
  <2> QED BY <1>2, <2>1, NoDownloadTyped, PagesTyped DEF Crash, CopyTyped, ReadingOK
<1>3. CASE FileStep
  BY <1>3, FileStepTyped
<1> QED BY <1>1, <1>2, <1>3, StepIs

(* The variables keep their types, the version of every page stays in      *)
(* range, a read never leaves the file, and a checkpoint only ever has     *)
(* pages to copy that the log holds and the main file does not.            *)
THEOREM FileTypeCorrect == FileSpec => []FileTypeOK
<1>1. SchemaTyped /\ CopyTyped /\ [FileNext]_fileVars => SchemaTyped' /\ CopyTyped'
  BY NextSchemaTyped, NextCopyTyped
<1> QED BY InitFileTyped, TypesGiveTypeOK, <1>1, PTL DEF FileSpec

-----------------------------------------------------------------------------
(* The download. *)

(* The download reads the file the server writes. *)
Own == DownloadPath = ServerPath

(* Its checkpoint went through, and none has written under its read. *)
Undisturbed == ~download.stale /\ ~download.torn

CopyInv ==
  /\ CopyTyped
  /\ Locked => copying = Dirty
  /\ download.stage # "none" => live \in download.since
  /\ download.stage = "flushing" => Locked
  /\ download.stage = "flushed" /\ ~download.stale /\ ~Locked => main \in download.since
  /\ download.stage = "read" /\ Undisturbed => main \in download.since
  /\ download.stage = "read" /\ Undisturbed /\ Own =>
        \A i \in 1..download.page - 1 : download.copy[i] = main[i]
  /\ download.stage = "done" /\ Undisturbed /\ Own => download.copy \in download.since

(* When no page is left to copy the two files are the same. *)
LEMMA CleanIsEqual ==
  ASSUME live \in [Pages -> Version], main \in [Pages -> Version], Dirty = {}
  PROVE  main = live
  BY DEF Dirty

LEMMA InitCopy == FileInit => CopyInv
<1> SUFFICES ASSUME FileInit PROVE CopyInv
    OBVIOUS
<1>1. NoDownload.stage = "none"
  BY DEF NoDownload
<1> QED BY InitFileTyped, <1>1 DEF FileInit, CopyInv, Locked

LEMMA FileStepCopy ==
  ASSUME CopyInv, FileStep, CopyTyped'
  PROVE  CopyInv'
<1>1. /\ live \in [Pages -> Version] /\ main \in [Pages -> Version]
      /\ copying \subseteq Dirty /\ download \in DownloadRecord /\ ReadingOK
      /\ live' \in [Pages -> Version] /\ main' \in [Pages -> Version]
  BY DEF CopyInv, CopyTyped
<1>2. flag' = flag /\ env' = env
  BY DEF FileStep, Commit, Checkpoint, CopyPage, CheckpointFails, Download, OpenFile, ReadPage,
         Answer
<1>3. Own' = Own
  BY <1>2 DEF Own, DownloadPath, ServerPath
<1>4. NoDownload.stage = "none"
  BY DEF NoDownload
<1>5. ASSUME NEW S \in SUBSET Pages, Commit(S) PROVE CopyInv'
  <2>1. /\ ~Locked /\ ~Locked' /\ main' = main
        /\ download' = [download EXCEPT !.since = IF download.stage = "none" THEN @
                                                  ELSE @ \cup {live'}]
    BY <1>5 DEF Commit, Locked
  <2>2. /\ download'.copy = download.copy /\ download'.stage = download.stage
        /\ download'.page = download.page /\ download'.torn = download.torn
        /\ download'.stale = download.stale
        /\ download.since \subseteq download'.since
        /\ download.stage # "none" => live' \in download'.since
    BY <1>1, <2>1 DEF DownloadRecord
  <2> QED BY <1>3, <2>1, <2>2 DEF CopyInv, Undisturbed
<1>6. CASE Checkpoint
  BY <1>3, <1>6 DEF Checkpoint, CopyInv, Undisturbed, Locked, Dirty
<1>7. ASSUME NEW p \in Pages, CopyPage(p) PROVE CopyInv'
  <2>1. /\ live' = live /\ Locked /\ copying = Dirty /\ copying' = copying \ {p}
        /\ main' = [main EXCEPT ![p] = live[p]]
    BY <1>7 DEF CopyPage, CopyInv, Locked
  <2>2. copying' = Dirty'
    BY <1>1, <2>1 DEF Dirty
  <2>3. ~Locked' => main' = live
    BY <1>1, <2>1, <2>2 DEF Dirty, Locked
  <2>4. /\ download'.copy = download.copy /\ download'.since = download.since
        /\ download'.page = download.page
        /\ download'.torn <=> download.torn \/ download.stage = "read"
        /\ download'.stale = download.stale
        /\ download'.stage = IF download.stage = "flushing" /\ copying = {p}
                             THEN "flushed" ELSE download.stage
    BY <1>1, <1>7 DEF CopyPage, DownloadRecord
  <2>5. copying = {p} <=> ~Locked'
    BY <1>7, <2>1 DEF CopyPage, Locked
  <2> QED BY <1>3, <2>1, <2>2, <2>3, <2>4, <2>5 DEF CopyInv, Undisturbed
<1>8. CASE Download
  <2>1. PICK stage \in {"flushed", "flushing"} :
           /\ stage = IF Dirty = {} THEN "flushed" ELSE "flushing"
           /\ download' = [NoDownload EXCEPT !.stage = stage, !.since = {live}]
    BY <1>8 DEF Download
  <2>2. download'.stage = stage /\ download'.since = {live}
    BY <2>1 DEF NoDownload
  <2>3. live' = live /\ main' = main /\ copying' = Dirty /\ Dirty' = Dirty
    BY <1>8 DEF Download, Dirty
  <2>4. Dirty = {} => main = live
    BY <1>1, CleanIsEqual
  <2> QED BY <2>1, <2>2, <2>3, <2>4 DEF CopyInv, Undisturbed, Locked
<1>9. CASE OpenFile
  <2>1. live' = live /\ main' = main /\ copying' = copying /\ Dirty' = Dirty
    BY <1>9 DEF OpenFile, Dirty
  <2>2. CASE download' = NoDownload
    BY <1>4, <2>1, <2>2 DEF CopyInv, Undisturbed, Locked
  <2>3. CASE download' = [download EXCEPT !.stage = "read", !.page = 1, !.torn = Locked]
    <3>1. /\ download'.stage = "read" /\ download'.page = 1 /\ download.stage = "flushed"
          /\ download'.since = download.since /\ (download'.torn <=> Locked)
          /\ download'.stale = download.stale
      BY <1>1, <1>9, <2>3 DEF OpenFile, DownloadRecord
    <3> QED BY <1>3, <2>1, <3>1 DEF CopyInv, Undisturbed, Locked
  <2> QED BY <1>9, <2>2, <2>3 DEF OpenFile
<1>10. CASE ReadPage
  <2>1. live' = live /\ main' = main /\ copying' = copying /\ Dirty' = Dirty
    BY <1>10 DEF ReadPage, Dirty
  <2>2. download.stage = "read" /\ download.page \in Nat
    BY <1>1, <1>10, PagesTyped DEF ReadPage, ReadingOK
  <2>3. /\ download.page \in Pages /\ Len(download'.copy) = download.page
        /\ download'.copy \in Seq(Version \cup {Foreign})
        /\ \A i \in 1..download.page - 1 : download'.copy[i] = download.copy[i]
        /\ Own => download'.copy[download.page] = main[download.page]
        /\ download'.page = download.page + 1
        /\ download'.stage = IF download.page = Cardinality(Pages) THEN "done" ELSE "read"
        /\ download'.since = download.since /\ download'.torn = download.torn
        /\ download'.stale = download.stale
    <3>1. CopyTyped
      BY DEF CopyInv
    <3> QED BY <1>10, <3>1, ReadPageIs DEF Own
  <2>4. ASSUME Undisturbed, Own
        PROVE  \A i \in 1..download.page : download'.copy[i] = main[i]
    BY <2>2, <2>3, <2>4 DEF CopyInv
  <2>5. ASSUME Undisturbed, Own, download.page = Cardinality(Pages)
        PROVE  download'.copy = main
    <3>1. Len(download'.copy) = Cardinality(Pages) /\ Pages = 1..Cardinality(Pages)
      BY <2>3, <2>5, PagesTyped
    <3>2. DOMAIN download'.copy = Pages
      BY <2>3, <3>1
    <3>3. download'.copy = [i \in Pages |-> download'.copy[i]]
      BY <2>3, <3>1
    <3>4. \A i \in Pages : download'.copy[i] = main[i]
      BY <2>4, <2>5, <3>1
    <3> QED BY <1>1, <3>3, <3>4
  <2>6. download'.page - 1 = download.page
    BY <2>2, <2>3
  <2>7. Undisturbed' <=> Undisturbed
    BY <2>3 DEF Undisturbed
  <2> QED BY <1>3, <2>1, <2>2, <2>3, <2>4, <2>5, <2>6, <2>7 DEF CopyInv, Locked
<1>11. CASE Answer
  BY <1>4, <1>11 DEF Answer, CopyInv, Locked, Dirty
<1>12. CASE CheckpointFails
  <2>1. /\ live' = live /\ main' = main /\ Dirty' = Dirty /\ Locked /\ ~Locked'
    BY <1>12 DEF CheckpointFails, Locked, Dirty
  <2>2. /\ download'.copy = download.copy /\ download'.since = download.since
        /\ download'.page = download.page /\ download'.torn = download.torn
        /\ download'.stale <=> download.stale \/ download.stage \in {"flushing", "flushed"}
        /\ download'.stage = IF download.stage = "flushing" THEN "flushed" ELSE download.stage
    BY <1>1, <1>12 DEF CheckpointFails, DownloadRecord
  <2> QED BY <1>3, <2>1, <2>2 DEF CopyInv, Undisturbed
<1> QED BY <1>5, <1>6, <1>7, <1>8, <1>9, <1>10, <1>11, <1>12 DEF FileStep

LEMMA NextCopy == CopyInv /\ [FileNext]_fileVars => CopyInv'
<1> SUFFICES ASSUME CopyInv, [FileNext]_fileVars PROVE CopyInv'
    OBVIOUS
<1>1. CopyTyped'
  BY NextCopyTyped DEF CopyInv
<1>2. CASE UNCHANGED <<flag, env, live, main, copying, download>>
  <2>1. Own' = Own /\ Locked' = Locked /\ Dirty' = Dirty
    BY <1>2 DEF Own, DownloadPath, ServerPath, Locked, Dirty
  <2> QED BY <1>1, <1>2, <2>1 DEF CopyInv, Undisturbed
<1>3. CASE Crash
  <2>1. NoDownload.stage = "none"
    BY DEF NoDownload
  <2> QED BY <1>1, <1>3, <2>1 DEF Crash, CopyInv, Locked
<1>4. CASE FileStep
  BY <1>1, <1>4, FileStepCopy
<1> QED BY <1>2, <1>3, <1>4, StepIs

(* A download whose own checkpoint went through and whose read no other    *)
(* disturbed is one committed state of the whole file, and not an older    *)
(* one than the request found: after download_database has checkpointed    *)
(* the log, what others commit goes to the log again and not under the     *)
(* read.  The code ensures neither condition: it drops the result of the   *)
(* checkpoint and reads without the lock.                                  *)
THEOREM DownloadIsConsistent == FileSpec => []CopyConsistent
<1>1. SchemaTyped /\ CopyInv => CopyConsistent
  <2> SUFFICES ASSUME SchemaTyped, CopyInv, download.stage = "done", Undisturbed,
                      flag \in {NoPath, DownloadPath}
               PROVE  download.copy \in download.since
      BY DEF CopyConsistent, Undisturbed
  <2>1. Own
    BY FileAssumption DEF Own, DownloadPath, ServerPath, SchemaTyped
  <2> QED BY <2>1 DEF CopyInv
<1>2. SchemaTyped /\ CopyInv /\ [FileNext]_fileVars => SchemaTyped' /\ CopyInv'
  BY NextSchemaTyped, NextCopy
<1> QED BY InitFileTyped, InitCopy, <1>1, <1>2, PTL DEF FileSpec

-----------------------------------------------------------------------------
(* The migration. *)

(* init_db is inside group g, past its first column. *)
Working(g) == at[1] = g /\ at[2] > 1

(* The groups no fault has cut short. *)
Sound == DOMAIN Groups \ hurt

MigrationInv ==
  /\ SchemaTyped
  (* Whole: elsewhere the first column speaks for its group. *)
  /\ \A g \in Sound : Groups[g][1] \in columns /\ ~Working(g) => ColumnsOf(g) \subseteq columns
  (* In the group being added the columns so far are there. *)
  /\ \A g \in Sound : Groups[g][1] \in columns /\ Working(g) =>
        \A d \in DOMAIN Groups[g] : d < at[2] => Groups[g][d] \in columns
  (* A start without a failing ALTER leaves complete groups behind it. *)
  /\ clean => /\ \A g \in Sound : at = Serving \/ g < at[1] => ColumnsOf(g) \subseteq columns
              /\ \A g \in DOMAIN Groups : Working(g) => Groups[g][1] \in columns

(* A column belongs to one place of one group. *)
LEMMA ColumnsDistinct ==
  ASSUME NEW g \in DOMAIN Groups, NEW c \in DOMAIN Groups[g], NEW h \in DOMAIN Groups,
         Groups[h][1] = Groups[g][c]
  PROVE  h = g /\ c = 1
  BY GroupsTyped, FileAssumption

LEMMA InitMigration == FileInit => MigrationInv
<1> SUFFICES ASSUME FileInit PROVE MigrationInv
    OBVIOUS
<1>1. PICK k \in 0..Len(Groups) : columns = Release(k)
  BY DEF FileInit
<1>2. at = Down /\ at[1] = 0
  BY DEF FileInit, Down
<1>3. \A g \in DOMAIN Groups : g \in Nat /\ g # 0 /\ ~Working(g) /\ ~(g < at[1])
  BY <1>2, GroupsTyped DEF Working
<1>4. at # Serving
  BY <1>2 DEF Down, Serving
<1>5. ASSUME NEW g \in Sound, Groups[g][1] \in columns PROVE ColumnsOf(g) \subseteq columns
  <2>1. PICK h \in 1..k : Groups[g][1] \in ColumnsOf(h)
    BY <1>1, <1>5 DEF Release
  <2>2. h \in DOMAIN Groups /\ g \in DOMAIN Groups
    BY <1>1, <2>1, GroupsTyped DEF Sound
  <2>3. g = h
    BY <2>1, <2>2, ColumnsDistinct DEF ColumnsOf
  <2> QED BY <1>1, <2>1, <2>3 DEF Release
<1> QED BY <1>3, <1>4, <1>5, InitFileTyped DEF MigrationInv, Sound

LEMMA AddColumnMigration ==
  ASSUME MigrationInv, SchemaTyped', NEW g \in DOMAIN Groups, NEW c \in DOMAIN Groups[g],
         AddColumn(g, c)
  PROVE  MigrationInv'
<1>1. /\ g \in Nat \ {0} /\ c \in Nat \ {0} /\ c <= Len(Groups[g]) /\ Len(Groups[g]) \in Nat
      /\ DOMAIN Groups[g] = 1..Len(Groups[g]) /\ DOMAIN Groups = 1..Len(Groups)
      /\ Len(Groups) \in Nat
  BY GroupsTyped
<1>2. at = <<g, c>> /\ (c > 1 \/ Groups[g][1] \notin columns)
  BY DEF AddColumn
<1>3. \/ c < Len(Groups[g]) /\ at' = <<g, c + 1>>
      \/ c = Len(Groups[g]) /\ g = Len(Groups) /\ at' = Serving
      \/ c = Len(Groups[g]) /\ g < Len(Groups) /\ at' = <<g + 1, 1>>
  BY <1>1 DEF AddColumn, Place
<1>4. /\ columns \subseteq columns' /\ columns' \subseteq columns \cup {Groups[g][c]}
      /\ Sound' \subseteq Sound
      /\ clean' => clean /\ Groups[g][c] \in columns' /\ hurt' = hurt
      /\ \/ Groups[g][c] \in columns' /\ hurt' = hurt
         \/ columns' = columns /\ (c > 1 /\ Groups[g][1] \in columns => g \notin Sound')
  BY DEF AddColumn, Sound
<1>5. \A h \in DOMAIN Groups : h # g => (Groups[h][1] \in columns' <=> Groups[h][1] \in columns)
  BY <1>4, ColumnsDistinct
<1>6. c > 1 => (Groups[g][1] \in columns' <=> Groups[g][1] \in columns)
  BY <1>1, <1>4, ColumnsDistinct
<1>7. PICK n \in Nat, len \in Nat :
         /\ n = Len(Groups) /\ len = Len(Groups[g])
         /\ \A h \in DOMAIN Groups : h \in 1..n
         /\ \A d \in DOMAIN Groups[g] : d \in 1..len
  BY <1>1
<1>7a. /\ g \in Nat /\ c \in Nat /\ 0 < g /\ g <= n /\ 0 < c /\ c <= len
       /\ \/ c < len /\ at' = <<g, c + 1>>
          \/ c = len /\ g = n /\ at' = Serving
          \/ c = len /\ g < n /\ at' = <<g + 1, 1>>
  <2>1. g \in 1..n /\ c \in 1..len
    BY <1>7
  <2> QED BY <1>3, <1>7, <2>1
<1>8. /\ at[1] = g /\ at[2] = c /\ at # Serving
      /\ c < len => at' = <<g, c + 1>> /\ at'[1] = g /\ at'[2] = c + 1 /\ at' # Serving
      /\ c = len /\ g = n => at' = Serving /\ at'[1] = 0 /\ at'[2] = 0
      /\ c = len /\ g < n => at'[1] = g + 1 /\ at'[2] = 1 /\ at' # Serving
  <2>1. at[1] = g /\ at[2] = c /\ at # Serving
    BY <1>2, <1>7a DEF Serving
  <2>2. CASE c < len
    <3>1. at' = <<g, c + 1>>
      BY <1>7a, <2>2
    <3> QED BY <1>7a, <2>1, <2>2, <3>1 DEF Serving
  <2>3. CASE c = len /\ g = n
    BY <1>7a, <2>1, <2>3 DEF Serving
  <2>4. CASE c = len /\ g < n
    <3>1. at' = <<g + 1, 1>>
      BY <1>7a, <2>4
    <3> QED BY <1>7a, <2>1, <2>4, <3>1 DEF Serving
  <2> QED BY <1>7a, <2>2, <2>3, <2>4
<1>8a. \A h \in DOMAIN Groups : /\ Working(h) <=> h = g /\ c > 1
                                /\ h < at[1] <=> h < g
                                /\ Working(h)' <=> h = g /\ c < len
  <2> SUFFICES ASSUME NEW h \in DOMAIN Groups
               PROVE  /\ Working(h) <=> h = g /\ c > 1
                      /\ h < at[1] <=> h < g
                      /\ Working(h)' <=> h = g /\ c < len
      OBVIOUS
  <2>1. h \in 1..n
    BY <1>7
  <2>2. CASE c = len /\ g = n
    BY <1>7a, <1>8, <2>1, <2>2 DEF Working
  <2>3. CASE c = len /\ g < n
    BY <1>7a, <1>8, <2>1, <2>3 DEF Working
  <2>4. CASE c < len
    BY <1>7a, <1>8, <2>1, <2>4 DEF Working
  <2> QED BY <1>7a, <2>2, <2>3, <2>4
(* The columns of g before c are there if its first one is. *)
<1>9. ASSUME g \in Sound', Groups[g][1] \in columns'
      PROVE  \A d \in DOMAIN Groups[g] : d <= c => Groups[g][d] \in columns'
  <2>1. Groups[g][c] \in columns'
    <3>1. CASE c = 1
      BY <1>9, <3>1
    <3>2. CASE c # 1
      BY <1>1, <1>4, <1>6, <1>9, <3>2
    <3> QED BY <3>1, <3>2
  <2>2. ASSUME NEW d \in DOMAIN Groups[g], d < c PROVE Groups[g][d] \in columns'
    <3>1. c > 1
      BY <1>1, <2>2
    <3>2. g \in Sound /\ Groups[g][1] \in columns /\ Working(g) /\ at[2] = c
      BY <1>4, <1>6, <1>8, <1>9, <1>8a, <3>1
    <3> QED BY <1>4, <2>2, <3>2 DEF MigrationInv
  <2> QED BY <1>1, <2>1, <2>2
<1>10. ASSUME g \in Sound', Groups[g][1] \in columns', c = len
       PROVE  ColumnsOf(g) \subseteq columns'
  <2>1. \A d \in DOMAIN Groups[g] : d <= c
    BY <1>7, <1>10
  <2> QED BY <1>9, <1>10, <2>1 DEF ColumnsOf
<1>11. ASSUME NEW h \in Sound', Groups[h][1] \in columns', ~Working(h)'
       PROVE  ColumnsOf(h) \subseteq columns'
  <2>1. h \in Sound /\ h \in DOMAIN Groups
    BY <1>4 DEF Sound
  <2>2. CASE h = g
    BY <1>10, <1>11, <1>7a, <1>8a, <2>1, <2>2
  <2>3. CASE h # g
    BY <1>4, <1>5, <1>11, <1>8a, <2>1, <2>3 DEF MigrationInv
  <2> QED BY <2>2, <2>3
<1>12. ASSUME NEW h \in Sound', Groups[h][1] \in columns', Working(h)',
              NEW d \in DOMAIN Groups[h], d < at'[2]
       PROVE  Groups[h][d] \in columns'
  <2>1. h = g /\ at' = <<g, c + 1>>
    BY <1>8, <1>12, <1>8a DEF Sound
  <2>2. d <= c
    BY <1>1, <1>12, <2>1
  <2> QED BY <1>9, <1>12, <2>1, <2>2
(* A clean start has the first column of the group it is in. *)
<1>13. clean' => Groups[g][1] \in columns'
  <2>1. CASE c = 1
    BY <1>4, <2>1
  <2>2. CASE c # 1
    <3>1. Working(g) /\ (clean => Groups[g][1] \in columns)
      BY <1>1, <1>8a, <2>2 DEF MigrationInv
    <3> QED BY <1>4, <3>1
  <2> QED BY <2>1, <2>2
<1>14. ASSUME clean', NEW h \in Sound', at' = Serving \/ h < at'[1]
       PROVE  ColumnsOf(h) \subseteq columns'
  <2>1. h \in Sound /\ h \in 1..n /\ h \in Nat
    BY <1>4, <1>7 DEF Sound
  <2>2. CASE h = g
    <3>1. c = len
      BY <1>8, <1>14, <1>7a, <2>2
    <3> QED BY <1>10, <1>13, <1>14, <2>2, <3>1
  <2>3. CASE h # g
    <3>1. h < g
      BY <1>8, <1>14, <1>7a, <2>1, <2>3
    <3>2. ColumnsOf(h) \subseteq columns
      BY <1>8, <1>4, <1>14, <2>1, <3>1 DEF MigrationInv
    <3> QED BY <1>4, <3>2
  <2> QED BY <2>2, <2>3
<1> QED BY <1>11, <1>12, <1>13, <1>14, <1>8a DEF MigrationInv

LEMMA NextMigration == MigrationInv /\ [FileNext]_fileVars => MigrationInv'
<1> SUFFICES ASSUME MigrationInv, [FileNext]_fileVars PROVE MigrationInv'
    OBVIOUS
<1>1. SchemaTyped /\ SchemaTyped'
  BY NextSchemaTyped DEF MigrationInv
<1>2. DOMAIN Groups = 1..Len(Groups) /\ Len(Groups) \in Nat
  BY GroupsTyped
<1>3. CASE Start
  <2>1. at' = <<1, 1>> \/ (at' = Serving /\ Len(Groups) = 0)
    BY <1>2, <1>3 DEF Start, Place
  <2>2. columns' = columns /\ Sound' = Sound /\ at = Down
    BY <1>3 DEF Start, Sound
  <2>3. \A g \in DOMAIN Groups : ~Working(g) /\ ~Working(g)'
    BY <1>2, <2>1, <2>2 DEF Working, Serving, Down
  <2>4. \A g \in Sound' : ~(at' = Serving \/ g < at'[1])
    BY <1>2, <2>1 DEF Sound, Serving
  <2>5. Sound' \subseteq DOMAIN Groups
    BY DEF Sound
  <2> QED BY <1>1, <2>2, <2>3, <2>4, <2>5 DEF MigrationInv
<1>4. ASSUME NEW g \in DOMAIN Groups, SkipGroup(g) PROVE MigrationInv'
  <2>1. /\ at = <<g, 1>> /\ Groups[g][1] \in columns /\ g \in Nat \ {0} /\ g <= Len(Groups)
        /\ columns' = columns /\ Sound' = Sound /\ clean' = clean
    BY <1>2, <1>4 DEF SkipGroup, Sound
  <2>2. \/ g = Len(Groups) /\ at' = Serving
        \/ g < Len(Groups) /\ at' = <<g + 1, 1>>
    BY <1>2, <1>4, <2>1 DEF SkipGroup, Place
  <2>3. \A h \in DOMAIN Groups : ~Working(h) /\ ~Working(h)'
    BY <1>2, <2>1, <2>2 DEF Working, Serving
  <2>4. ASSUME clean, NEW h \in Sound, at' = Serving \/ h < at'[1]
        PROVE  ColumnsOf(h) \subseteq columns
    <3>1. h \in 1..Len(Groups) /\ h \in DOMAIN Groups
      BY <1>2 DEF Sound
    <3>2. h = g \/ h < g
      BY <1>2, <2>1, <2>2, <2>4, <3>1 DEF Serving
    <3>3. CASE h = g
      BY <2>1, <2>3, <3>1, <3>3 DEF MigrationInv
    <3>4. CASE h < g
      BY <2>1, <2>4, <3>4 DEF MigrationInv
    <3> QED BY <3>2, <3>3, <3>4
  <2>5. Sound \subseteq DOMAIN Groups
    BY DEF Sound
  <2> QED BY <1>1, <2>1, <2>3, <2>4, <2>5 DEF MigrationInv
<1>5. ASSUME NEW g \in DOMAIN Groups, NEW c \in DOMAIN Groups[g], AddColumn(g, c)
      PROVE  MigrationInv'
  BY <1>1, <1>5, AddColumnMigration
<1>6. CASE Crash
  <2>1. at' = Down /\ columns' = columns /\ clean' = clean /\ Sound' \subseteq Sound
    BY <1>6 DEF Crash, Sound
  <2>2. \A g \in DOMAIN Groups : ~Working(g)' /\ ~(g < at'[1]) /\ at' # Serving
    BY <1>2, <2>1 DEF Working, Down, Serving
  <2>3. ASSUME NEW g \in Sound', Groups[g][1] \in columns PROVE ~Working(g)
    BY <1>6, <2>3 DEF Crash, Sound, Working
  <2>4. Sound' \subseteq DOMAIN Groups
    BY DEF Sound
  <2> QED BY <1>1, <2>1, <2>2, <2>3, <2>4 DEF MigrationInv
<1>7. CASE UNCHANGED schema
  BY <1>1, <1>7 DEF schema, MigrationInv, Sound, Working
<1>8. CASE CheckpointFails
  BY <1>1, <1>8 DEF CheckpointFails, MigrationInv, Sound, Working
<1>9. ASSUME FileStep, ~CheckpointFails PROVE UNCHANGED schema
  BY <1>9 DEF FileStep, Commit, Checkpoint, CopyPage, Download, OpenFile, ReadPage, Answer,
              schema
<1>10. UNCHANGED fileVars => UNCHANGED schema
  BY DEF fileVars, schema
<1> QED BY <1>3, <1>4, <1>5, <1>6, <1>7, <1>8, <1>9, <1>10 DEF FileNext, FileStep

(* Whatever release created the file and whatever starts have failed       *)
(* before, a start of init_db whose ALTERs all succeed leaves every group  *)
(* complete that no fault cut short after its first column.                *)
THEOREM SchemaIsComplete == FileSpec => []SchemaComplete
<1>1. MigrationInv => SchemaComplete
  BY DEF MigrationInv, Sound, SchemaComplete
<1> QED BY InitMigration, NextMigration, <1>1, PTL DEF FileSpec
=============================================================================
