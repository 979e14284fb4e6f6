-------------------------- MODULE AdminAccessProofs --------------------------
(* Theorems about AdminAccess for every value of its constants: any number  *)
(* of addresses, requests and sessions.                                     *)
EXTENDS AdminAccess, FiniteSetTheorems, TLAPS

Request == [stage: Stages, addr: Addresses, pass: Passwords]

-----------------------------------------------------------------------------
(* Type correctness. *)

LEMMA ConstantsTyped ==
  /\ MaxFails \in Nat /\ Window \in Nat /\ BlockFor \in Nat /\ SessionLife \in Nat
  /\ 0 < MaxFails /\ 0 < Window /\ 0 < BlockFor /\ 0 < SessionLife
  /\ SomeAddress \in Addresses /\ Cardinality(Requests) \in Nat
<1>1. SomeAddress \in Addresses
  BY AccessAssumption DEF SomeAddress
<1>2. Cardinality(Requests) \in Nat
  BY AccessAssumption, FS_CardinalityType
<1> QED BY <1>1, <1>2, AccessAssumption

LEMMA AbsentTyped == Absent \in Entry
  BY ConstantsTyped DEF Absent, Entry, Free

LEMMA EntryFields ==
  ASSUME NEW e \in Entry
  PROVE  /\ e.fails \in Nat /\ e.age \in Nat /\ e.age <= Window + 1
         /\ e.left \in Int /\ e.left <= BlockFor
         /\ e.left = Free \/ e.left = 0 \/ e.left > 0
  BY ConstantsTyped DEF Entry, Free

(* What record_fail makes of an entry. *)
LEMMA CountedIs ==
  ASSUME NEW e \in Entry
  PROVE  /\ Counted(e) \in Entry
         /\ Counted(e).age <= Window
         /\ e.left = 0 \/ e.age > Window => Counted(e).fails = 1 /\ Counted(e).age = 0
         /\ e.left # 0 /\ e.age <= Window => /\ Counted(e).fails = e.fails + 1
                                             /\ Counted(e).age = e.age
         /\ Counted(e).left = IF Counted(e).fails >= MaxFails THEN BlockFor
                              ELSE IF e.left = 0 THEN Free ELSE e.left
<1> DEFINE c == IF e.left = 0 THEN [fails |-> 1, age |-> 0, left |-> Free]
                ELSE IF e.age > Window THEN [e EXCEPT !.fails = 1, !.age = 0]
                ELSE [e EXCEPT !.fails = @ + 1]
<1>1. /\ c \in Entry /\ c.age <= Window
      /\ e.left = 0 \/ e.age > Window => c.fails = 1 /\ c.age = 0
      /\ e.left # 0 /\ e.age <= Window => c.fails = e.fails + 1 /\ c.age = e.age
      /\ c.left = IF e.left = 0 THEN Free ELSE e.left
  <2>1. CASE e.left = 0
    BY <2>1, ConstantsTyped DEF Entry, Free
  <2>2. CASE e.left # 0 /\ e.age > Window
    <3>1. c = [e EXCEPT !.fails = 1, !.age = 0] /\ 0 \in 0..Window + 1
      BY <2>2, ConstantsTyped
    <3> HIDE DEF c
    <3>2. c \in Entry /\ c.fails = 1 /\ c.age = 0 /\ c.left = e.left
      BY <3>1 DEF Entry
    <3> QED BY <2>2, <3>2, EntryFields, ConstantsTyped
  <2>3. CASE e.left # 0 /\ ~(e.age > Window)
    <3>1. c = [e EXCEPT !.fails = @ + 1]
      BY <2>3
    <3>2. e.fails + 1 \in Nat /\ e.age <= Window
      BY <2>3, EntryFields, ConstantsTyped
    <3> HIDE DEF c
    <3>3. c \in Entry /\ c.fails = e.fails + 1 /\ c.age = e.age /\ c.left = e.left
      BY <3>1, <3>2 DEF Entry
    <3> QED BY <2>3, <3>2, <3>3
  <2> QED BY <2>1, <2>2, <2>3
<1>2. Counted(e) = IF c.fails >= MaxFails THEN [c EXCEPT !.left = BlockFor] ELSE c
  BY DEF Counted
<1> HIDE DEF c
<1>3. CASE c.fails >= MaxFails
  BY <1>1, <1>2, <1>3, ConstantsTyped DEF Entry
<1>4. CASE ~(c.fails >= MaxFails)
  BY <1>1, <1>2, <1>4, ConstantsTyped DEF Entry
<1> QED BY <1>3, <1>4

(* What a tick makes of an entry. *)
LEMMA OlderIs ==
  ASSUME NEW e \in Entry
  PROVE  /\ Older(e) \in Entry /\ Older(e).fails = e.fails
         /\ Older(e).left = IF e.left > 0 THEN e.left - 1 ELSE e.left
         /\ \/ Older(e) = e /\ e = Absent
            \/ Older(e).age = IF e.age <= Window THEN e.age + 1 ELSE e.age
<1>1. CASE e = Absent
  BY <1>1, AbsentTyped DEF Older, Absent, Free
<1>2. CASE e # Absent
  <2> DEFINE older == IF e.age <= Window THEN e.age + 1 ELSE e.age
             left == IF e.left > 0 THEN e.left - 1 ELSE e.left
  <2>1. Older(e) = [e EXCEPT !.age = older, !.left = left]
    BY <1>2 DEF Older
  <2>2. older \in 0..Window + 1 /\ left \in {Free} \cup 0..BlockFor
    BY EntryFields, ConstantsTyped DEF Entry, Free
  <2> HIDE DEF older, left
  <2>3. /\ Older(e) \in Entry /\ Older(e).fails = e.fails
        /\ Older(e).left = left /\ Older(e).age = older
    BY <2>1, <2>2 DEF Entry
  <2> QED BY <2>3 DEF older, left
<1> QED BY <1>1, <1>2

(* What a request's failure does to the map: its own entry is counted, and *)
(* another one stays or, when the map is too large and it is stale, goes.  *)
LEMMA RecordFailIs ==
  ASSUME TypeOK, NEW r \in Requests, RecordFail(r), NEW b \in Addresses
  PROVE  /\ b = request[r].addr => limiter'[b] = Counted(limiter[b])
         /\ b # request[r].addr =>
               \/ limiter'[b] = limiter[b]
               \/ limiter'[b] = Absent /\ ~(limiter[b].left > 0) /\ limiter[b].age > Window
<1> DEFINE a == request[r].addr
           grown == [limiter EXCEPT ![a] = Counted(@)]
<1>1. /\ a \in Addresses /\ limiter \in [Addresses -> Entry]
      /\ limiter' = grown \/
         limiter' = [x \in Addresses |-> IF Kept(grown[x]) THEN grown[x] ELSE Absent]
  BY DEF TypeOK, RecordFail
<1>2. limiter[b] \in Entry
  BY <1>1
<1>3. CASE b = a
  <2>1. grown[b] = Counted(limiter[b])
    BY <1>1, <1>3
  <2>2. Kept(grown[b])
    BY <1>2, <2>1, CountedIs DEF Kept
  <2> QED BY <1>1, <1>3, <2>1, <2>2
<1>4. CASE b # a
  <2>1. grown[b] = limiter[b]
    BY <1>1, <1>4
  <2>2. ~Kept(limiter[b]) => ~(limiter[b].left > 0) /\ limiter[b].age > Window
    BY <1>2, EntryFields, ConstantsTyped DEF Kept
  <2> QED BY <1>1, <1>4, <2>1, <2>2
<1> QED BY <1>3, <1>4

LEMMA FinishTyped ==
  ASSUME request \in [Requests -> Request], NEW r \in Requests, Finish(r)
  PROVE  request' \in [Requests -> Request]
<1>1. NoRequest(SomeAddress) \in Request
  BY ConstantsTyped, AccessAssumption DEF NoRequest, Request, Stages
<1> QED BY <1>1 DEF Finish

LEMMA InitTyped == Init => TypeOK
<1> SUFFICES ASSUME Init PROVE TypeOK
    OBVIOUS
<1>1. up \in BOOLEAN
  BY DEF Init
<1>2. request \in [Requests -> Request]
  BY ConstantsTyped, AccessAssumption DEF Init, NoRequest, Request, Stages
<1>3. session \in [Tokens -> Gone..SessionLife]
  BY ConstantsTyped DEF Init, Gone
<1>4. recent \in [Watched -> [0..Window -> Nat]]
  BY DEF Init, NoFailures
<1> QED BY <1>1, <1>2, <1>3, <1>4, AbsentTyped DEF Init, TypeOK, Request

LEMMA LoginTyped ==
  ASSUME TypeOK, NEW r \in Requests, LoginStep(r)
  PROVE  TypeOK'
<1>1. /\ up \in BOOLEAN /\ password \in Passwords \cup {NoAccount}
      /\ limiter \in [Addresses -> Entry] /\ session \in [Tokens -> Gone..SessionLife]
      /\ request \in [Requests -> Request] /\ recent \in [Watched -> [0..Window -> Nat]]
  BY DEF TypeOK, Request
<1>2. ASSUME NEW a \in Addresses, NEW p \in Passwords, Check(r, a, p) PROVE TypeOK'
  <2>1. [stage |-> "checked", addr |-> a, pass |-> p] \in Request
    BY DEF Request, Stages
  <2>2. request' \in [Requests -> Request]
    BY <1>1, <1>2, <2>1 DEF Check
  <2> QED BY <1>1, <1>2, <2>2 DEF Check, TypeOK, Request
<1>3. CASE Authenticate(r)
  <2>1. request' \in [Requests -> Request]
    BY <1>1, <1>3, AccessAssumption DEF Authenticate, Request, Stages
  <2> QED BY <1>1, <1>3, <2>1 DEF Authenticate, TypeOK, Request
<1>4. CASE RecordFail(r)
  <2>1. request' \in [Requests -> Request]
    BY <1>1, <1>4, FinishTyped DEF RecordFail
  <2>2. limiter' \in [Addresses -> Entry]
    <3>1. \A b \in Addresses : limiter'[b] \in Entry
      BY <1>1, <1>4, RecordFailIs, CountedIs, AbsentTyped
    <3>2. limiter' = [b \in Addresses |-> limiter'[b]]
      BY <1>1, <1>4 DEF RecordFail
    <3> QED BY <3>1, <3>2
  <2>3. recent' \in [Watched -> [0..Window -> Nat]]
    <3>1. PICK a : recent' = [b \in Watched |->
                      IF b = a THEN [k \in 0..Window |-> recent[b][k] + 1] ELSE recent[b]]
      BY <1>4 DEF RecordFail
    <3>2. \A b \in Watched : [k \in 0..Window |-> recent[b][k] + 1] \in [0..Window -> Nat]
      <4> SUFFICES ASSUME NEW b \in Watched, NEW k \in 0..Window
                   PROVE  recent[b][k] + 1 \in Nat
          OBVIOUS
      <4>1. recent[b] \in [0..Window -> Nat]
        BY <1>1
      <4>2. recent[b][k] \in Nat
        BY <4>1
      <4> QED BY <4>2
    <3>3. \A b \in Watched : recent'[b] \in [0..Window -> Nat]
      <4> SUFFICES ASSUME NEW b \in Watched PROVE recent'[b] \in [0..Window -> Nat]
          OBVIOUS
      <4>1. CASE b = a
        <5>1. recent'[b] = [k \in 0..Window |-> recent[b][k] + 1]
          BY <3>1, <4>1
        <5> QED BY <3>2, <5>1
      <4>2. CASE b # a
        BY <1>1, <3>1, <4>2
      <4> QED BY <4>1, <4>2
    <3>4. recent' = [b \in Watched |-> recent'[b]]
      BY <3>1
    <3> QED BY <3>3, <3>4
  <2> QED BY <1>1, <1>4, <2>1, <2>2, <2>3 DEF RecordFail, TypeOK, Request
<1>5. CASE RecordSuccess(r)
  <2>1. request' \in [Requests -> Request]
    BY <1>1, <1>5 DEF RecordSuccess, Request, Stages
  <2>2. recent' \in [Watched -> [0..Window -> Nat]]
    BY <1>1, <1>5 DEF RecordSuccess, Forgive, NoFailures
  <2> QED BY <1>1, <1>5, <2>1, <2>2, AbsentTyped DEF RecordSuccess, TypeOK, Request
<1>6. ASSUME NEW t \in Tokens, CreateSession(r, t) PROVE TypeOK'
  <2>1. request' \in [Requests -> Request]
    BY <1>1, <1>6, FinishTyped DEF CreateSession
  <2>2. session' \in [Tokens -> Gone..SessionLife]
    BY <1>1, <1>6, ConstantsTyped DEF CreateSession, Gone
  <2> QED BY <1>1, <1>6, <2>1, <2>2 DEF CreateSession, TypeOK, Request
<1>7. CASE Abandon(r)
  <2>1. request' \in [Requests -> Request]
    BY <1>1, <1>7, FinishTyped DEF Abandon
  <2> QED BY <1>1, <1>7, <2>1 DEF Abandon, TypeOK, Request
<1> QED BY <1>2, <1>3, <1>4, <1>5, <1>6, <1>7 DEF LoginStep

LEMMA NextTyped == TypeOK /\ [Next]_vars => TypeOK'
<1> SUFFICES ASSUME TypeOK, [Next]_vars PROVE TypeOK'
    OBVIOUS
<1>1. CASE Start
  <2>1. up' \in BOOLEAN
    BY <1>1 DEF Start
  <2> QED BY <1>1, <2>1, AccessAssumption DEF Start, TypeOK
<1>2. CASE Stop
  <2>1. request' \in [Requests -> Request]
    BY <1>2, ConstantsTyped, AccessAssumption DEF Stop, NoRequest, Request, Stages
  <2>2. up' \in BOOLEAN /\ recent' \in [Watched -> [0..Window -> Nat]]
    BY <1>2 DEF Stop, NoFailures
  <2> QED BY <1>2, <2>1, <2>2, AbsentTyped DEF Stop, TypeOK, Request
<1>3. ASSUME NEW r \in Requests, LoginStep(r) PROVE TypeOK'
  BY <1>3, LoginTyped
<1>4. ASSUME NEW t \in Tokens, Logout(t) PROVE TypeOK'
  BY <1>4, ConstantsTyped DEF Logout, TypeOK, Gone
<1>5. ASSUME NEW old \in Passwords, NEW new \in Passwords,
             ChangePassword(old, new) \/ \E t \in Tokens : Admit(t, new)
      PROVE TypeOK'
  <2>1. new \in LongEnough /\ LongEnough \subseteq Passwords
    BY <1>5, AccessAssumption DEF ChangePassword, Admit, TypeOK
  <2> QED BY <1>5, <2>1 DEF ChangePassword, Admit, TypeOK
<1>6. CASE PruneSessions
  BY <1>6, ConstantsTyped DEF PruneSessions, TypeOK, Gone
<1>7. CASE Tick
  <2>1. limiter' \in [Addresses -> Entry]
    BY <1>7, OlderIs DEF Tick, TypeOK
  <2>2. session' \in [Tokens -> Gone..SessionLife]
    BY <1>7, ConstantsTyped DEF Tick, TypeOK, Gone, Expired
  <2>3. recent' \in [Watched -> [0..Window -> Nat]]
    BY <1>7, ConstantsTyped DEF Tick, TypeOK
  <2> QED BY <1>7, <2>1, <2>2, <2>3 DEF Tick, TypeOK
<1>8. CASE UNCHANGED vars
  BY <1>8 DEF vars, TypeOK
<1> QED BY <1>1, <1>2, <1>3, <1>4, <1>5, <1>6, <1>7, <1>8 DEF Next

(* The variables keep their types: a block never lasts longer than         *)
(* BlockFor however many failures come in while it runs (record_fail sets  *)
(* blocked_until, it does not add to it).                                  *)
THEOREM TypeCorrect == Spec => []TypeOK
<1> QED BY InitTyped, NextTyped, PTL DEF Spec

-----------------------------------------------------------------------------
(* Which steps touch the limiter. *)

(* Login requests of an address whose failure may still be counted. *)
Pending(a) == {r \in Requests : request[r].addr = a /\ request[r].stage \in {"checked", "wrong"}}

LEMMA LimiterSteps ==
  ASSUME TypeOK, [Next]_vars
  PROVE  \/ UNCHANGED <<limiter, recent, request>>
         \/ Stop
         \/ \E r \in Requests, b \in Addresses, p \in Passwords : Check(r, b, p)
         \/ \E r \in Requests : RecordFail(r)
         \/ \E r \in Requests : RecordSuccess(r)
         \/ /\ limiter' = limiter /\ recent' = recent
            /\ \A a \in Addresses : Pending(a)' \subseteq Pending(a)
         \/ Tick
<1>1. ASSUME NEW r \in Requests, LoginStep(r)
      PROVE  \/ \E b \in Addresses, p \in Passwords : Check(r, b, p)
             \/ RecordFail(r) \/ RecordSuccess(r)
             \/ /\ limiter' = limiter /\ recent' = recent
                /\ \A a \in Addresses : Pending(a)' \subseteq Pending(a)
  <2>1. request \in [Requests -> Request]
    BY DEF TypeOK, Request
  <2>2. NoRequest(SomeAddress).stage = "none"
    BY DEF NoRequest
  <2>3. ASSUME Authenticate(r)
        PROVE  /\ limiter' = limiter /\ recent' = recent
               /\ \A a \in Addresses : Pending(a)' \subseteq Pending(a)
    BY <2>1, <2>3 DEF Authenticate, Pending, Request
  <2>4. ASSUME Finish(r) PROVE \A a \in Addresses : Pending(a)' \subseteq Pending(a)
    BY <2>1, <2>2, <2>4 DEF Finish, Pending
  <2>5. (\E t \in Tokens : CreateSession(r, t)) \/ Abandon(r)
           => Finish(r) /\ limiter' = limiter /\ recent' = recent
    BY DEF CreateSession, Abandon
  <2> QED BY <1>1, <2>3, <2>4, <2>5 DEF LoginStep
<1>2. Start \/ (\E t \in Tokens : Logout(t)) \/ PruneSessions \/ UNCHANGED vars
        => UNCHANGED <<limiter, recent, request>>
  BY DEF Start, Logout, PruneSessions, vars
<1>3. (\E new \in Passwords : \/ \E t \in Tokens : Admit(t, new)
                              \/ \E old \in Passwords : ChangePassword(old, new))
        => UNCHANGED <<limiter, recent, request>>
  BY DEF Admit, ChangePassword
<1> QED BY <1>1, <1>2, <1>3 DEF Next

(* A failure of address a: its history grows by one everywhere. *)
LEMMA FailureSeen ==
  ASSUME TypeOK, NEW r \in Requests, RecordFail(r), NEW a \in Watched, NEW n \in 0..Window
  PROVE  recent'[a][n] = IF a = request[r].addr THEN recent[a][n] + 1 ELSE recent[a][n]
  BY DEF RecordFail

LEMMA TickSeen ==
  ASSUME Tick, NEW a \in Watched, NEW n \in 0..Window
  PROVE  recent'[a][n] = IF n = 0 THEN 0 ELSE recent[a][n - 1]
  BY DEF Tick

LEMMA RecentTyped ==
  ASSUME TypeOK, NEW a \in Watched
  PROVE  /\ a \in Addresses /\ limiter[a] \in Entry
         /\ \A n \in 0..Window : recent[a][n] \in Nat
<1>1. recent[a] \in [0..Window -> Nat]
  BY DEF TypeOK
<1> QED BY <1>1, AccessAssumption DEF TypeOK

-----------------------------------------------------------------------------
(* Blocks are earned. *)

(* More ticks, more failures. *)
Ordered == \A a \in Watched : \A n, m \in 0..Window : n <= m => recent[a][n] <= recent[a][m]

(* What an open window has counted did happen since it was opened. *)
Backed == \A a \in Watched : limiter[a].age <= Window =>
                                limiter[a].fails <= recent[a][limiter[a].age]

EarnedInv == TypeOK /\ Ordered /\ Backed

LEMMA AbsentIs == Absent.fails = 0 /\ Absent.age = 0 /\ Absent.left = Free
  BY DEF Absent

LEMMA InitEarned == Init => EarnedInv
<1> SUFFICES ASSUME Init PROVE EarnedInv
    OBVIOUS
<1>1. TypeOK
  BY InitTyped
<1>2. \A a \in Watched : limiter[a] = Absent /\ \A n \in 0..Window : recent[a][n] = 0
  BY AccessAssumption DEF Init, NoFailures
<1> QED BY <1>1, <1>2, AbsentIs, ConstantsTyped DEF EarnedInv, Ordered, Backed

LEMMA OrderedKept ==
  ASSUME TypeOK, TypeOK', Ordered, [Next]_vars
  PROVE  Ordered'
<1> SUFFICES ASSUME NEW a \in Watched, NEW n \in 0..Window, NEW m \in 0..Window, n <= m
             PROVE  recent'[a][n] <= recent'[a][m]
    BY DEF Ordered
<1>1. recent[a][n] <= recent[a][m] /\ recent[a][n] \in Nat /\ recent[a][m] \in Nat
  BY RecentTyped DEF Ordered
<1>2. CASE recent' = recent
  BY <1>1, <1>2
<1>3. ASSUME NEW r \in Requests, RecordFail(r) PROVE recent'[a][n] <= recent'[a][m]
  BY <1>1, <1>3, FailureSeen
<1>4. CASE Tick
  <2>1. CASE n = 0
    BY <1>4, <2>1, TickSeen, RecentTyped, ConstantsTyped
  <2>2. CASE n # 0
    <3>1. n - 1 \in 0..Window /\ m - 1 \in 0..Window /\ n - 1 <= m - 1 /\ m # 0
      BY <2>2, ConstantsTyped
    <3>2. recent[a][n - 1] <= recent[a][m - 1]
      BY <3>1 DEF Ordered
    <3> QED BY <1>4, <2>2, <3>1, <3>2, TickSeen
  <2> QED BY <2>1, <2>2
<1>5. CASE Stop
  BY <1>5 DEF Stop, NoFailures
<1>6. ASSUME NEW r \in Requests, RecordSuccess(r) PROVE recent'[a][n] <= recent'[a][m]
  BY <1>1, <1>6 DEF RecordSuccess, Forgive, NoFailures
<1>7. ASSUME NEW r \in Requests, NEW b \in Addresses, NEW p \in Passwords, Check(r, b, p)
      PROVE  recent' = recent
  BY <1>7 DEF Check
<1> QED BY <1>2, <1>3, <1>4, <1>5, <1>6, <1>7, LimiterSteps

LEMMA BackedKept ==
  ASSUME EarnedInv, TypeOK', Ordered', [Next]_vars
  PROVE  Backed'
<1> SUFFICES ASSUME NEW a \in Watched, limiter'[a].age <= Window
             PROVE  limiter'[a].fails <= recent'[a][limiter'[a].age]
    BY DEF Backed
<1>1. /\ a \in Addresses /\ limiter[a] \in Entry /\ TypeOK /\ limiter'[a] \in Entry
      /\ \A n \in 0..Window : recent[a][n] \in Nat /\ recent'[a][n] \in Nat
  BY RecentTyped DEF EarnedInv, TypeOK
<1>2. limiter[a].age <= Window => limiter[a].fails <= recent[a][limiter[a].age]
  BY DEF EarnedInv, Backed
<1>3. CASE limiter'[a] = limiter[a] /\ recent'[a] = recent[a]
  BY <1>2, <1>3
<1>4. CASE limiter'[a] = Absent
  BY <1>1, <1>4, AbsentIs, ConstantsTyped
<1>5. ASSUME NEW r \in Requests, RecordFail(r)
      PROVE  limiter'[a].fails <= recent'[a][limiter'[a].age]
  <2>1. CASE request[r].addr = a
    <3>1. limiter'[a] = Counted(limiter[a])
      BY <1>1, <1>5, <2>1, RecordFailIs
    <3>2. \A n \in 0..Window : recent'[a][n] = recent[a][n] + 1
      BY <1>1, <1>5, <2>1, FailureSeen
    <3>3. CASE limiter[a].left = 0 \/ limiter[a].age > Window
      <4>1. limiter'[a].fails = 1 /\ limiter'[a].age = 0
        BY <1>1, <3>1, <3>3, CountedIs
      <4> QED BY <1>1, <3>2, <4>1, ConstantsTyped
    <3>4. CASE limiter[a].left # 0 /\ limiter[a].age <= Window
      <4>1. limiter'[a].fails = limiter[a].fails + 1 /\ limiter'[a].age = limiter[a].age
        BY <1>1, <3>1, <3>4, CountedIs
      <4>2. limiter[a].age \in 0..Window /\ limiter[a].fails \in Nat
        BY <1>1, <3>4, EntryFields, ConstantsTyped
      <4> QED BY <1>1, <1>2, <3>2, <4>1, <4>2
    <3> QED BY <1>1, <3>3, <3>4, EntryFields, ConstantsTyped
  <2>2. CASE request[r].addr # a
    <3>1. recent'[a] = recent[a]
      BY <1>5, <2>2 DEF RecordFail
    <3> QED BY <1>1, <1>3, <1>4, <1>5, <2>2, <3>1, RecordFailIs
  <2> QED BY <2>1, <2>2
<1>6. CASE Tick
  <2>1. limiter'[a] = Older(limiter[a])
    BY <1>1, <1>6 DEF Tick
  <2>2. CASE limiter'[a].age = IF limiter[a].age <= Window THEN limiter[a].age + 1
                                                           ELSE limiter[a].age
    <3>1. limiter[a].age \in Nat /\ limiter[a].age + 1 <= Window
          /\ limiter'[a].age = limiter[a].age + 1
      BY <1>1, <2>2, EntryFields, ConstantsTyped
    <3>2. recent'[a][limiter[a].age + 1] = recent[a][limiter[a].age]
      <4>1. limiter[a].age + 1 \in 0..Window /\ limiter[a].age + 1 # 0
            /\ (limiter[a].age + 1) - 1 = limiter[a].age
        BY <3>1, ConstantsTyped
      <4> QED BY <1>6, <4>1, TickSeen
    <3>3. limiter'[a].fails = limiter[a].fails /\ limiter[a].age <= Window
      BY <1>1, <2>1, <3>1, OlderIs, ConstantsTyped
    <3> QED BY <1>2, <3>1, <3>2, <3>3
  <2>3. CASE limiter'[a] = Absent
    BY <1>4, <2>3
  <2> QED BY <1>1, <2>1, <2>2, <2>3, OlderIs
<1>7. CASE Stop
  BY <1>1, <1>4, <1>7 DEF Stop
<1>8. ASSUME NEW r \in Requests, RecordSuccess(r)
      PROVE  limiter'[a].fails <= recent'[a][limiter'[a].age]
  <2>1. CASE request[r].addr = a
    <3>1. limiter'[a] = Absent
      BY <1>1, <1>8, <2>1 DEF RecordSuccess, TypeOK
    <3> QED BY <1>4, <3>1
  <2>2. CASE request[r].addr # a
    BY <1>1, <1>3, <1>8, <2>2 DEF RecordSuccess, Forgive, TypeOK
  <2> QED BY <2>1, <2>2
<1>9. ASSUME NEW r \in Requests, NEW b \in Addresses, NEW p \in Passwords, Check(r, b, p)
      PROVE  limiter' = limiter /\ recent' = recent
  BY <1>9 DEF Check
<1> QED BY <1>1, <1>3, <1>5, <1>6, <1>7, <1>8, <1>9, LimiterSteps

LEMMA NextEarned == EarnedInv /\ [Next]_vars => EarnedInv'
  BY NextTyped, OrderedKept, BackedKept DEF EarnedInv

(* Only a failing login begins or prolongs a block, and it does so with    *)
(* MaxFails failures in its open window.                                   *)
LEMMA EarnedStep == EarnedInv /\ EarnedInv' /\ [Next]_vars =>
  \A a \in Watched : limiter'[a].left > limiter[a].left /\ limiter'[a].left > 0
                        => recent'[a][Window] >= MaxFails
<1> SUFFICES ASSUME EarnedInv, EarnedInv', [Next]_vars, NEW a \in Watched,
                    limiter'[a].left > limiter[a].left, limiter'[a].left > 0
             PROVE  recent'[a][Window] >= MaxFails
    OBVIOUS
<1>1. /\ a \in Addresses /\ limiter[a] \in Entry /\ TypeOK /\ limiter'[a] \in Entry
      /\ \A n \in 0..Window : recent[a][n] \in Nat /\ recent'[a][n] \in Nat
  BY RecentTyped DEF EarnedInv, TypeOK
<1>2. limiter'[a] # limiter[a] /\ limiter'[a] # Absent
  BY <1>1, EntryFields, AbsentIs DEF Free
<1>3. ASSUME NEW r \in Requests, RecordFail(r) PROVE recent'[a][Window] >= MaxFails
  <2>1. limiter'[a] = Counted(limiter[a])
    BY <1>1, <1>2, <1>3, RecordFailIs
  <2>2. limiter'[a].fails >= MaxFails /\ limiter'[a].age <= Window
    BY <1>1, <2>1, CountedIs, EntryFields, ConstantsTyped DEF Free
  <2>3. limiter'[a].age \in 0..Window /\ Window \in 0..Window /\ limiter'[a].fails \in Nat
    BY <1>1, <2>2, EntryFields, ConstantsTyped
  <2>4. limiter'[a].fails <= recent'[a][limiter'[a].age]
    BY <2>2 DEF EarnedInv, Backed
  <2>5. recent'[a][limiter'[a].age] <= recent'[a][Window]
    BY <2>2, <2>3, ConstantsTyped DEF EarnedInv, Ordered
  <2> QED BY <1>1, <2>2, <2>3, <2>4, <2>5, ConstantsTyped
<1>4. ~Tick
  BY <1>1, OlderIs, EntryFields DEF Tick
<1>5. ~Stop
  BY <1>1, <1>2 DEF Stop
<1>6. ASSUME NEW r \in Requests PROVE ~RecordSuccess(r)
  BY <1>1, <1>2 DEF RecordSuccess, TypeOK
<1>7. ASSUME NEW r \in Requests, NEW b \in Addresses, NEW p \in Passwords
      PROVE  ~Check(r, b, p)
  BY <1>2 DEF Check
<1> QED BY <1>1, <1>2, <1>3, <1>4, <1>5, <1>6, <1>7, LimiterSteps

(* An address is blocked, or its block prolonged, only when MaxFails       *)
(* logins from it have failed within Window and none has succeeded since:  *)
(* what record_fail counts is backed by failures of the open window.       *)
THEOREM BlocksAreEarned == Spec => BlockEarned
<1>1. EarnedInv /\ EarnedInv' /\ [Next]_vars =>
        [\A a \in Watched : limiter'[a].left > limiter[a].left /\ limiter'[a].left > 0
                              => recent'[a][Window] >= MaxFails]_vars
  BY EarnedStep
<1> QED BY InitEarned, NextEarned, <1>1, PTL DEF Spec, BlockEarned

-----------------------------------------------------------------------------
(* A block is served, a session kept: two action properties that need no   *)
(* more than the types.                                                    *)

(* A blocked address is unblocked by the tick that ends its block, by the  *)
(* success of a login of its own that was checked before the block, or by  *)
(* the end of the process: no other login, and not the retain that bounds  *)
(* the map, drops its entry.                                               *)
THEOREM BlocksAreServed == Spec => BlockServed
<1> DEFINE Ended(a) ==
       \/ limiter[a].left = 1 /\ Tick
       \/ ~up'
       \/ \E r \in Requests : /\ request[r].stage = "right" /\ request[r].addr = a
                              /\ request'[r].stage = "welcome"
<1>1. ASSUME TypeOK, [Next]_vars, NEW a \in Addresses, Blocked(a), limiter'[a].left <= 0
      PROVE  Ended(a)
  <2>1. limiter[a] \in Entry /\ limiter[a].left > 0 /\ limiter[a].left \in Int
    BY <1>1, EntryFields DEF TypeOK, Blocked
  <2>2. limiter'[a] # limiter[a]
    BY <1>1, <2>1
  <2>3. CASE Stop
    BY <2>3 DEF Stop
  <2>4. ASSUME NEW r \in Requests, RecordFail(r) PROVE FALSE
    <3>1. CASE request[r].addr = a
      <4>1. limiter'[a] = Counted(limiter[a])
        BY <1>1, <2>4, <3>1, RecordFailIs
      <4> QED BY <1>1, <2>1, <4>1, CountedIs, ConstantsTyped
    <3>2. CASE request[r].addr # a
      BY <1>1, <2>1, <2>2, <2>4, <3>2, RecordFailIs
    <3> QED BY <3>1, <3>2
  <2>5. ASSUME NEW r \in Requests, RecordSuccess(r) PROVE Ended(a)
    <3>1. request[r].stage = "right" /\ request'[r].stage = "welcome"
      BY <1>1, <2>5 DEF RecordSuccess, TypeOK
    <3>2. request[r].addr = a
      BY <1>1, <2>2, <2>5 DEF RecordSuccess, TypeOK
    <3> QED BY <3>1, <3>2
  <2>6. CASE Tick
    <3>1. limiter'[a] = Older(limiter[a])
      BY <1>1, <2>6 DEF Tick
    <3>2. limiter'[a].left = limiter[a].left - 1
      BY <2>1, <3>1, OlderIs
    <3>3. limiter[a].left = 1
      BY <1>1, <2>1, <3>2
    <3> QED BY <2>6, <3>3
  <2>7. ASSUME NEW r \in Requests, NEW b \in Addresses, NEW p \in Passwords, Check(r, b, p)
        PROVE  limiter' = limiter
    BY <2>7 DEF Check
  <2> QED BY <1>1, <2>2, <2>3, <2>4, <2>5, <2>6, <2>7, LimiterSteps
<1>2. TypeOK /\ [Next]_vars =>
        [\A a \in Addresses : Blocked(a) /\ limiter'[a].left <= 0 => Ended(a)]_vars
  BY <1>1
<1> QED BY TypeCorrect, <1>2, PTL DEF Spec, BlockServed

(* A session that is valid ends only with its time or with a logout, and   *)
(* the logout takes every session there is: prune_old_records, a login, a  *)
(* new password or a restart ends none.                                    *)
THEOREM SessionsAreKept == Spec => SessionKept
<1> DEFINE Over(t) == \/ session[t] = 1 /\ Tick
                      \/ \A u \in Tokens : session'[u] = Gone
<1>1. ASSUME TypeOK, [Next]_vars, NEW t \in Tokens, Valid(t), session'[t] <= 0
      PROVE  Over(t)
  <2>1. session \in [Tokens -> Gone..SessionLife] /\ session[t] > 0 /\ session[t] \in Int
    BY <1>1, ConstantsTyped DEF TypeOK, Valid, Gone
  <2>2. session'[t] # session[t]
    BY <1>1, <2>1
  <2>3. ASSUME NEW r \in Requests, LoginStep(r) PROVE FALSE
    BY <2>1, <2>2, <2>3
       DEF LoginStep, Check, Authenticate, RecordFail, RecordSuccess, CreateSession,
           Abandon, Gone
  <2>4. ASSUME NEW u \in Tokens, Logout(u) PROVE Over(t)
    BY <2>4 DEF Logout
  <2>5. CASE PruneSessions
    BY <2>1, <2>2, <2>5 DEF PruneSessions
  <2>6. CASE Tick
    BY <1>1, <2>1, <2>6, ConstantsTyped DEF Tick, Expired
  <2>7. Start \/ Stop \/ UNCHANGED vars => session' = session
    BY DEF Start, Stop, vars
  <2>8. (\E new \in Passwords : \/ \E u \in Tokens : Admit(u, new)
                                \/ \E old \in Passwords : ChangePassword(old, new))
          => session' = session
    BY DEF Admit, ChangePassword
  <2> QED BY <1>1, <2>2, <2>3, <2>4, <2>5, <2>6, <2>7, <2>8 DEF Next
<1>2. TypeOK /\ [Next]_vars => [\A t \in Tokens : Valid(t) /\ session'[t] <= 0 => Over(t)]_vars
  BY <1>1
<1> QED BY TypeCorrect, <1>2, PTL DEF Spec, SessionKept

-----------------------------------------------------------------------------
(* The limiter limits.  A count that runs bounds what happened since its   *)
(* window was opened, and what the next Window ticks can add; a block      *)
(* leaves to the address only the logins that were checked before it, and  *)
(* it lasts long enough for the failures before it to leave the history.   *)
Counting(a) ==
  /\ limiter[a].fails < MaxFails
  /\ \A n \in 0..Window : n <= limiter[a].age => recent[a][n] <= limiter[a].fails
  /\ recent[a][Window - 1] <= MaxFails - 1 + limiter[a].fails
  /\ limiter[a].age > Window => recent[a][0] = 0

Served(a) == recent[a][0] = 0 /\ recent[a][Window - 1] <= MaxFails - 1

Serving(a) ==
  /\ recent[a][Window - 1] + Cardinality(Pending(a)) <= 2 * (MaxFails - 1) + Cardinality(Requests)
  /\ \A n \in 0..Window : n < BlockFor - limiter[a].left =>
         recent[a][n] <= IF limiter[a].fails < MaxFails THEN limiter[a].fails ELSE 0
  /\ limiter[a].fails < MaxFails => limiter[a].age < BlockFor - limiter[a].left
  /\ limiter[a].left = BlockFor => limiter[a].age <= Window

Limited(a) ==
  /\ limiter[a].left = Free => Counting(a)
  /\ limiter[a].left = 0 => Served(a)
  /\ limiter[a].left > 0 => Serving(a)

LimitInv == TypeOK /\ Ordered /\ \A a \in Watched : Limited(a)

LEMMA PendingCounted ==
  ASSUME NEW a
  PROVE  /\ IsFiniteSet(Pending(a)) /\ Cardinality(Pending(a)) \in Nat
         /\ Cardinality(Pending(a)) <= Cardinality(Requests)
<1>1. Pending(a) \subseteq Requests
  BY DEF Pending
<1> QED BY <1>1, AccessAssumption, FS_Subset, FS_CardinalityType

LEMMA PendingCountedNext ==
  ASSUME NEW a
  PROVE  /\ IsFiniteSet(Pending(a)') /\ Cardinality(Pending(a)') \in Nat
         /\ Cardinality(Pending(a)') <= Cardinality(Requests)
<1>1. Pending(a)' \subseteq Requests
  BY DEF Pending
<1> QED BY <1>1, AccessAssumption, FS_Subset, FS_CardinalityType

(* Steps that only take requests away. *)
LEMMA PendingShrinks ==
  ASSUME NEW a, Pending(a)' \subseteq Pending(a)
  PROVE  Cardinality(Pending(a)') <= Cardinality(Pending(a))
  BY PendingCounted, FS_Subset

(* A failing request is counted once. *)
LEMMA PendingFails ==
  ASSUME TypeOK, NEW r \in Requests, RecordFail(r), NEW a
  PROVE  /\ a = request[r].addr => Cardinality(Pending(a)') = Cardinality(Pending(a)) - 1
         /\ Pending(a)' \subseteq Pending(a)
<1>1. request \in [Requests -> Request]
  BY DEF TypeOK, Request
<1>2. request' = [request EXCEPT ![r] = NoRequest(SomeAddress)] /\ request[r].stage = "wrong"
  BY DEF RecordFail, Finish
<1>3. NoRequest(SomeAddress).stage = "none"
  BY DEF NoRequest
<1>4. Pending(a)' = Pending(a) \ {r}
  BY <1>1, <1>2, <1>3 DEF Pending
<1>5. a = request[r].addr => r \in Pending(a)
  BY <1>2 DEF Pending
<1> QED BY <1>4, <1>5, PendingCounted, FS_RemoveElement

(* An address that has done nothing, or whose entry is gone. *)
LEMMA AbsentLimited ==
  ASSUME NEW a \in Watched, limiter'[a] = Absent, recent'[a][0] = 0,
         recent'[a][Window - 1] <= MaxFails - 1, recent'[a][Window - 1] \in Nat
  PROVE  Limited(a)'
<1>1. Counting(a)'
  <2>1. \A n \in 0..Window : n <= 0 => n = 0
    OBVIOUS
  <2> QED BY <2>1, AbsentIs, ConstantsTyped DEF Counting
<1> QED BY <1>1, AbsentIs DEF Limited, Free

LEMMA InitLimited == Init => LimitInv
<1> SUFFICES ASSUME Init PROVE LimitInv
    OBVIOUS
<1>1. TypeOK /\ Ordered
  BY InitEarned DEF EarnedInv
<1>2. \A a \in Watched : limiter[a] = Absent /\ \A n \in 0..Window : recent[a][n] = 0
  BY AccessAssumption DEF Init, NoFailures
<1>3. \A a \in Watched : Limited(a)
  BY <1>2, AbsentIs, ConstantsTyped DEF Limited, Counting, Free
<1> QED BY <1>1, <1>3 DEF LimitInv

(* No change, or another address. *)
LEMMA LimitedStays ==
  ASSUME TypeOK, NEW a \in Watched, Limited(a),
         limiter'[a] = limiter[a], recent'[a] = recent[a],
         limiter[a].left > 0 => Pending(a)' \subseteq Pending(a)
  PROVE  Limited(a)'
<1>1. /\ limiter[a] \in Entry
      /\ \A n \in 0..Window : recent[a][n] \in Nat
      /\ Window - 1 \in 0..Window
  BY RecentTyped, ConstantsTyped
<1>2. limiter[a].left > 0 => Cardinality(Pending(a)') <= Cardinality(Pending(a))
  BY PendingShrinks
<1>3. limiter[a].left = Free => Counting(a)'
  BY DEF Limited, Counting
<1>4. limiter[a].left = 0 => Served(a)'
  BY DEF Limited, Served
<1>5. ASSUME limiter[a].left > 0 PROVE Serving(a)'
  <2>1. Serving(a)
    BY <1>5 DEF Limited
  <2> QED BY <1>1, <1>2, <1>5, <2>1, PendingCounted, PendingCountedNext, ConstantsTyped DEF Serving
<1> QED BY <1>3, <1>4, <1>5 DEF Limited

(* The address of a failing login. *)
LEMMA FailLimited ==
  ASSUME BlockFor = Window, LimitInv, NEW r \in Requests, RecordFail(r),
         NEW a \in Watched, a = request[r].addr
  PROVE  Limited(a)'
<1> DEFINE e == limiter[a]
           f == limiter'[a]
           W == Window
<1>1. /\ a \in Addresses /\ e \in Entry /\ TypeOK /\ Limited(a)
      /\ \A n \in 0..W : recent[a][n] \in Nat
      /\ W - 1 \in 0..W /\ 0 \in 0..W
  BY RecentTyped, ConstantsTyped DEF LimitInv
<1>2. f = Counted(e)
  BY <1>1, RecordFailIs
<1>3. \A n \in 0..W : recent'[a][n] = recent[a][n] + 1
  BY <1>1, FailureSeen
<1>4. Cardinality(Pending(a)') = Cardinality(Pending(a)) - 1
  BY <1>1, PendingFails
<1>5. /\ Cardinality(Pending(a)) \in Nat /\ Cardinality(Pending(a)') \in Nat
      /\ Cardinality(Pending(a)') <= Cardinality(Requests) - 1
      /\ Cardinality(Requests) \in Nat
  BY <1>4, PendingCounted, PendingCountedNext, ConstantsTyped
<1>6. /\ e.fails \in Nat /\ e.age \in Nat /\ e.age <= W + 1 /\ e.left \in Int
      /\ e.left <= BlockFor /\ (e.left = Free \/ e.left = 0 \/ e.left > 0)
  BY <1>1, EntryFields
<1>7. /\ e.left = 0 \/ e.age > W => f.fails = 1 /\ f.age = 0
      /\ e.left # 0 /\ e.age <= W => f.fails = e.fails + 1 /\ f.age = e.age
      /\ f.left = IF f.fails >= MaxFails THEN BlockFor
                  ELSE IF e.left = 0 THEN Free ELSE e.left
  BY <1>1, <1>2, CountedIs
<1>8. ASSUME f.left = BlockFor, f.fails >= MaxFails, f.age <= W,
             recent[a][W - 1] + Cardinality(Pending(a)) <= 2 * (MaxFails - 1) + Cardinality(Requests)
      PROVE  Limited(a)'
  <2>1. recent'[a][W - 1] + Cardinality(Pending(a)')
           <= 2 * (MaxFails - 1) + Cardinality(Requests)
    BY <1>1, <1>3, <1>4, <1>5, <1>8
  <2>2. ~(f.fails < MaxFails)
    BY <1>6, <1>7, <1>8, ConstantsTyped
  <2>3. \A n \in 0..W : ~(n < BlockFor - f.left)
    BY <1>8, ConstantsTyped
  <2>4. Serving(a)'
    BY <1>8, <2>1, <2>2, <2>3 DEF Serving
  <2> QED BY <1>8, <2>4, ConstantsTyped DEF Limited, Free
<1>9. CASE e.left = Free
  <2>1. Counting(a)
    BY <1>1, <1>9 DEF Limited
  <2>2. CASE e.age <= W
    <3>1. f.fails = e.fails + 1 /\ f.age = e.age
      BY <1>7, <1>9, <2>2 DEF Free
    <3>2. CASE f.fails >= MaxFails
      <4>1. recent[a][W - 1] + Cardinality(Pending(a)) <= 2 * (MaxFails - 1) + Cardinality(Requests)
        BY <1>1, <1>5, <1>6, <2>1, PendingCounted, ConstantsTyped DEF Counting
      <4> QED BY <1>7, <1>8, <2>2, <3>1, <3>2, <4>1
    <3>3. CASE ~(f.fails >= MaxFails)
      <4>1. f.left = Free
        BY <1>7, <1>9, <3>3 DEF Free
      <4>2. Counting(a)'
        BY <1>1, <1>3, <1>6, <2>1, <2>2, <3>1, <3>3, ConstantsTyped DEF Counting
      <4> QED BY <4>1, <4>2 DEF Limited, Free
    <3> QED BY <3>2, <3>3
  <2>3. CASE e.age > W
    <3>1. f.fails = 1 /\ f.age = 0
      BY <1>7, <2>3
    <3>2. recent[a][0] = 0 /\ recent[a][W - 1] <= MaxFails - 1
      <4>1. W - 1 <= e.age
        BY <1>6, <2>3, ConstantsTyped
      <4>2. recent[a][W - 1] <= e.fails
        BY <1>1, <2>1, <4>1 DEF Counting
      <4> QED BY <1>1, <1>6, <2>1, <2>3, <4>2, ConstantsTyped DEF Counting
    <3>3. CASE f.fails >= MaxFails
      <4>1. recent[a][W - 1] + Cardinality(Pending(a)) <= 2 * (MaxFails - 1) + Cardinality(Requests)
        BY <1>1, <1>5, <3>2, PendingCounted, ConstantsTyped
      <4> QED BY <1>7, <1>8, <3>1, <3>3, <4>1, ConstantsTyped
    <3>4. CASE ~(f.fails >= MaxFails)
      <4>1. f.left = Free
        BY <1>7, <1>9, <3>4 DEF Free
      <4>2. Counting(a)'
        <5>1. \A n \in 0..W : n <= 0 => n = 0
          OBVIOUS
        <5> QED BY <1>1, <1>3, <3>1, <3>2, <3>4, <5>1, ConstantsTyped DEF Counting
      <4> QED BY <4>1, <4>2 DEF Limited, Free
    <3> QED BY <3>3, <3>4
  <2> QED BY <1>6, <2>2, <2>3, ConstantsTyped
<1>10. CASE e.left = 0
  <2>1. recent[a][0] = 0 /\ recent[a][W - 1] <= MaxFails - 1
    BY <1>1, <1>10 DEF Limited, Served
  <2>2. f.fails = 1 /\ f.age = 0
    BY <1>7, <1>10
  <2>3. CASE f.fails >= MaxFails
    <3>1. recent[a][W - 1] + Cardinality(Pending(a)) <= 2 * (MaxFails - 1) + Cardinality(Requests)
      BY <1>1, <1>5, <2>1, PendingCounted, ConstantsTyped
    <3> QED BY <1>7, <1>8, <2>2, <2>3, <3>1, ConstantsTyped
  <2>4. CASE ~(f.fails >= MaxFails)
    <3>1. f.left = Free
      BY <1>7, <1>10, <2>4 DEF Free
    <3>2. Counting(a)'
      <4>1. \A n \in 0..W : n <= 0 => n = 0
        OBVIOUS
      <4> QED BY <1>1, <1>3, <2>1, <2>2, <2>4, <4>1, ConstantsTyped DEF Counting
    <3> QED BY <3>1, <3>2 DEF Limited, Free
  <2> QED BY <2>3, <2>4
<1>11. CASE e.left > 0
  <2>1. Serving(a)
    BY <1>1, <1>11 DEF Limited
  <2>2. /\ e.fails < MaxFails => e.age < W - e.left
        /\ e.left = W => e.age <= W
        /\ recent[a][W - 1] + Cardinality(Pending(a)) <= 2 * (MaxFails - 1) + Cardinality(Requests)
    BY <2>1 DEF Serving
  <2>3. f.age <= W
    BY <1>6, <1>7, <1>11, ConstantsTyped
  <2>4. CASE f.fails >= MaxFails
    BY <1>7, <1>8, <2>2, <2>3, <2>4
  <2>5. CASE ~(f.fails >= MaxFails)
    <3>1. f.left = e.left
      BY <1>7, <1>11, <2>5
    <3>2. recent'[a][W - 1] + Cardinality(Pending(a)')
             <= 2 * (MaxFails - 1) + Cardinality(Requests)
      BY <1>1, <1>3, <1>4, <1>5, <2>2
    <3>3. f.fails < MaxFails
      <4>1. f.fails \in Nat
        BY <1>6, <1>7, <1>11, ConstantsTyped
      <4> QED BY <2>5, <4>1, ConstantsTyped
    <3>4. CASE e.age <= W
      <4>1. f.fails = e.fails + 1 /\ f.age = e.age /\ e.fails < MaxFails
        BY <1>6, <1>7, <1>11, <3>3, <3>4, ConstantsTyped
      <4>2. \A n \in 0..W : n < W - e.left => recent'[a][n] <= f.fails
        BY <1>1, <1>3, <1>6, <2>1, <4>1 DEF Serving
      <4> QED BY <1>11, <2>2, <3>1, <3>2, <3>3, <3>4, <4>1, <4>2 DEF Serving, Limited, Free
    <3>5. CASE e.age > W
      <4>1. f.fails = 1 /\ f.age = 0
        BY <1>7, <3>5
      <4>2. ~(e.fails < MaxFails) /\ e.left < W
        BY <1>6, <1>11, <2>2, <3>5, ConstantsTyped
      <4>3. \A n \in 0..W : n < W - e.left => recent'[a][n] <= f.fails
        BY <1>1, <1>3, <2>1, <4>1, <4>2 DEF Serving
      <4>4. f.age < W - e.left
        BY <1>6, <4>1, <4>2, ConstantsTyped
      <4> QED BY <1>11, <3>1, <3>2, <3>3, <2>3, <4>3, <4>4 DEF Serving, Limited, Free
    <3> QED BY <1>6, <3>4, <3>5, ConstantsTyped
  <2> QED BY <2>4, <2>5
<1> QED BY <1>6, <1>9, <1>10, <1>11

LEMMA TickLimited ==
  ASSUME BlockFor = Window, LimitInv, Tick, NEW a \in Watched
  PROVE  Limited(a)'
<1> DEFINE e == limiter[a]
           f == limiter'[a]
           W == Window
<1>1. /\ a \in Addresses /\ e \in Entry /\ TypeOK /\ Limited(a)
      /\ \A n \in 0..W : recent[a][n] \in Nat
      /\ W - 1 \in 0..W /\ 0 \in 0..W
  BY RecentTyped, ConstantsTyped DEF LimitInv
<1>2. f = Older(e)
  BY <1>1 DEF Tick
<1>3. \A n \in 0..W : recent'[a][n] = IF n = 0 THEN 0 ELSE recent[a][n - 1]
  BY TickSeen
<1>4. recent'[a][W - 1] <= recent[a][W - 1] /\ recent'[a][W - 1] \in Nat /\ recent'[a][0] = 0
  <2>1. CASE W - 1 = 0
    BY <1>1, <1>3, <2>1
  <2>2. CASE W - 1 # 0
    <3>1. (W - 1) - 1 \in 0..W /\ (W - 1) - 1 <= W - 1
      BY <2>2, ConstantsTyped
    <3>2. recent[a][(W - 1) - 1] <= recent[a][W - 1]
      BY <1>1, <3>1 DEF LimitInv, Ordered
    <3> QED BY <1>1, <1>3, <2>2, <3>1, <3>2
  <2> QED BY <2>1, <2>2
<1>5. Pending(a)' = Pending(a)
  BY DEF Tick, Pending
<1>6. /\ e.fails \in Nat /\ e.age \in Nat /\ e.age <= W + 1 /\ e.left \in Int
      /\ e.left <= BlockFor /\ (e.left = Free \/ e.left = 0 \/ e.left > 0)
  BY <1>1, EntryFields
<1>7. /\ f.fails = e.fails /\ f.left = IF e.left > 0 THEN e.left - 1 ELSE e.left
      /\ \/ f = e /\ e = Absent
         \/ f.age = IF e.age <= W THEN e.age + 1 ELSE e.age
  BY <1>1, <1>2, OlderIs
<1>8. CASE e = Absent /\ f = e
  <2>1. recent[a][W - 1] <= MaxFails - 1
    BY <1>1, <1>8, AbsentIs, ConstantsTyped DEF Limited, Counting
  <2> QED BY <1>1, <1>4, <1>8, <2>1, AbsentLimited, ConstantsTyped
<1> DEFINE older == IF e.age <= W THEN e.age + 1 ELSE e.age
<1>9. ASSUME f.age = older, e.left = Free PROVE Limited(a)'
  <2>1. Counting(a) /\ f.left = Free
    BY <1>1, <1>7, <1>9 DEF Limited, Free
  <2>2. \A n \in 0..W : n <= older => recent'[a][n] <= f.fails
    <3> SUFFICES ASSUME NEW n \in 0..W, n <= older PROVE recent'[a][n] <= f.fails
        OBVIOUS
    <3>1. CASE n = 0
      BY <1>3, <1>6, <1>7, <3>1
    <3>2. CASE n # 0
      <4>1. n - 1 \in 0..W /\ n - 1 <= e.age
        BY <1>6, <3>2, ConstantsTyped
      <4>2. recent[a][n - 1] <= e.fails
        BY <2>1, <4>1 DEF Counting
      <4> QED BY <1>3, <1>7, <3>2, <4>2
    <3> QED BY <3>1, <3>2
  <2>3. Counting(a)'
    BY <1>1, <1>4, <1>6, <1>7, <1>9, <2>1, <2>2, ConstantsTyped DEF Counting
  <2> QED BY <2>1, <2>3 DEF Limited, Free
<1>10. CASE e.left = 0
  <2>1. Served(a) /\ f.left = 0
    BY <1>1, <1>7, <1>10 DEF Limited
  <2>2. Served(a)'
    BY <1>1, <1>4, <2>1, ConstantsTyped DEF Served
  <2> QED BY <2>1, <2>2 DEF Limited, Free
<1>11. ASSUME f.age = older, e.left > 0 PROVE Limited(a)'
  <2>1. Serving(a) /\ f.left = e.left - 1
    BY <1>1, <1>7, <1>11 DEF Limited
  <2> DEFINE bound == IF e.fails < MaxFails THEN e.fails ELSE 0
  <2>2. bound \in Nat /\ bound <= MaxFails - 1
    BY <1>6, ConstantsTyped
  <2>3. \A n \in 0..W : n < W - (e.left - 1) => recent'[a][n] <= bound
    <3> SUFFICES ASSUME NEW n \in 0..W, n < W - (e.left - 1) PROVE recent'[a][n] <= bound
        OBVIOUS
    <3>1. CASE n = 0
      BY <1>3, <2>2, <3>1
    <3>2. CASE n # 0
      <4>1. n - 1 \in 0..W /\ n - 1 < W - e.left
        BY <1>6, <3>2, ConstantsTyped
      <4>2. recent[a][n - 1] <= bound
        BY <2>1, <4>1 DEF Serving
      <4> QED BY <1>3, <3>2, <4>2
    <3> QED BY <3>1, <3>2
  <2>4. CASE e.left = 1
    <3>1. recent'[a][W - 1] <= bound
      BY <1>1, <2>3, <2>4, ConstantsTyped
    <3>2. Served(a)'
      BY <1>1, <1>4, <2>2, <3>1, ConstantsTyped DEF Served
    <3> QED BY <2>1, <2>4, <3>2 DEF Limited, Free
  <2>5. CASE e.left # 1
    <3>1. recent'[a][W - 1] + Cardinality(Pending(a)')
            <= 2 * (MaxFails - 1) + Cardinality(Requests)
      BY <1>1, <1>4, <1>5, <2>1, PendingCounted, ConstantsTyped DEF Serving
    <3>2. f.fails < MaxFails => f.age < W - f.left
      BY <1>6, <1>7, <1>11, <2>1, ConstantsTyped DEF Serving
    <3>3. f.left # BlockFor
      BY <1>6, <2>1, ConstantsTyped
    <3>4. Serving(a)'
      BY <1>7, <2>1, <2>3, <3>1, <3>2, <3>3 DEF Serving
    <3>5. f.left > 0
      BY <1>6, <1>11, <2>1, <2>5
    <3> QED BY <3>4, <3>5 DEF Limited, Free
  <2> QED BY <2>4, <2>5
<1> QED BY <1>6, <1>7, <1>8, <1>9, <1>10, <1>11

LEMMA NextLimited == BlockFor = Window /\ LimitInv /\ [Next]_vars => LimitInv'
<1> SUFFICES ASSUME BlockFor = Window, LimitInv, [Next]_vars PROVE LimitInv'
    OBVIOUS
<1>1. TypeOK /\ TypeOK' /\ Ordered'
  BY NextTyped, OrderedKept DEF LimitInv
<1>2. ASSUME NEW a \in Watched PROVE Limited(a)'
  <2>1. /\ a \in Addresses /\ limiter[a] \in Entry /\ Limited(a)
        /\ \A n \in 0..Window : recent[a][n] \in Nat
        /\ Window - 1 \in 0..Window /\ 0 \in 0..Window
    BY <1>1, RecentTyped, ConstantsTyped DEF LimitInv
  <2>2. CASE UNCHANGED <<limiter, recent, request>>
    <3>1. Pending(a)' = Pending(a)
      BY <2>2 DEF Pending
    <3> QED BY <1>1, <2>1, <2>2, <3>1, LimitedStays
  <2>3. ASSUME limiter'[a] = Absent, \A n \in 0..Window : recent'[a][n] = 0
        PROVE  Limited(a)'
    BY <2>1, <2>3, AbsentLimited, ConstantsTyped
  <2>4. CASE Stop
    BY <2>1, <2>3, <2>4 DEF Stop, NoFailures
  <2>5. ASSUME NEW r \in Requests, NEW b \in Addresses, NEW p \in Passwords, Check(r, b, p)
        PROVE  Limited(a)'
    <3>1. limiter' = limiter /\ recent' = recent /\ ~(limiter[b].left > 0)
      BY <2>5 DEF Check, Blocked
    <3>2. request' = [request EXCEPT ![r] = [stage |-> "checked", addr |-> b, pass |-> p]]
          /\ request \in [Requests -> Request]
      BY <1>1, <2>5 DEF Check, TypeOK, Request
    <3>3. a # b => Pending(a)' \subseteq Pending(a)
      BY <3>2 DEF Pending
    <3> QED BY <1>1, <2>1, <3>1, <3>3, LimitedStays
  <2>6. ASSUME NEW r \in Requests, RecordFail(r) PROVE Limited(a)'
    <3>1. CASE a = request[r].addr
      BY <2>6, <3>1, FailLimited
    <3>2. CASE a # request[r].addr
      <4>1. recent'[a] = recent[a] /\ Pending(a)' \subseteq Pending(a)
        BY <1>1, <2>6, <3>2, PendingFails DEF RecordFail
      <4>2. CASE limiter'[a] = limiter[a]
        BY <1>1, <2>1, <4>1, <4>2, LimitedStays
      <4>3. CASE limiter'[a] = Absent /\ ~(limiter[a].left > 0) /\ limiter[a].age > Window
        <5>1. recent[a][0] = 0 /\ recent[a][Window - 1] <= MaxFails - 1
          <6>1. CASE limiter[a].left = Free
            <7>1. Counting(a) /\ limiter[a].age \in Nat /\ limiter[a].fails \in Nat
              BY <2>1, <6>1, EntryFields DEF Limited
            <7>2. Window - 1 <= limiter[a].age
              BY <4>3, <7>1, ConstantsTyped
            <7>3. recent[a][Window - 1] <= limiter[a].fails
              BY <2>1, <7>1, <7>2 DEF Counting
            <7> QED BY <2>1, <4>3, <7>1, <7>3, ConstantsTyped DEF Counting
          <6>2. CASE limiter[a].left = 0
            BY <2>1, <6>2 DEF Limited, Served
          <6> QED BY <2>1, <4>3, <6>1, <6>2, EntryFields
        <5> QED BY <2>1, <4>1, <4>3, <5>1, AbsentLimited
      <4> QED BY <1>1, <2>1, <2>6, <3>2, <4>2, <4>3, RecordFailIs
    <3> QED BY <3>1, <3>2
  <2>7. ASSUME NEW r \in Requests, RecordSuccess(r) PROVE Limited(a)'
    <3>1. CASE a = request[r].addr
      <4>1. limiter'[a] = Absent
        BY <1>1, <2>1, <2>7, <3>1 DEF RecordSuccess, TypeOK
      <4>2. \A n \in 0..Window : recent'[a][n] = 0
        BY <2>7, <3>1 DEF RecordSuccess, Forgive, NoFailures
      <4> QED BY <2>3, <4>1, <4>2
    <3>2. CASE a # request[r].addr
      <4>1. limiter'[a] = limiter[a] /\ recent'[a] = recent[a]
        BY <1>1, <2>1, <2>7, <3>2 DEF RecordSuccess, Forgive, TypeOK
      <4>2. Pending(a)' \subseteq Pending(a)
        BY <1>1, <2>7, <3>2 DEF RecordSuccess, Pending, TypeOK
      <4> QED BY <1>1, <2>1, <4>1, <4>2, LimitedStays
    <3> QED BY <3>1, <3>2
  <2>8. CASE /\ limiter' = limiter /\ recent' = recent
             /\ \A b \in Addresses : Pending(b)' \subseteq Pending(b)
    BY <1>1, <2>1, <2>8, LimitedStays
  <2>9. CASE Tick
    BY <2>9, TickLimited
  <2> QED BY <1>1, <2>2, <2>4, <2>5, <2>6, <2>7, <2>8, <2>9, LimiterSteps
<1> QED BY <1>1, <1>2 DEF LimitInv

LEMMA LimitedBounds == LimitInv => FailuresBounded
<1> SUFFICES ASSUME LimitInv, NEW a \in Watched
             PROVE  recent[a][Window - 1] <= 2 * (MaxFails - 1) + Cardinality(Requests)
    BY DEF FailuresBounded
<1>1. /\ limiter[a] \in Entry /\ Limited(a)
      /\ \A n \in 0..Window : recent[a][n] \in Nat
      /\ Window - 1 \in 0..Window
  BY RecentTyped, ConstantsTyped DEF LimitInv
<1>2. CASE limiter[a].left = Free
  BY <1>1, <1>2, EntryFields, ConstantsTyped DEF Limited, Counting
<1>3. CASE limiter[a].left = 0
  BY <1>1, <1>3, ConstantsTyped DEF Limited, Served
<1>4. CASE limiter[a].left > 0
  BY <1>1, <1>4, PendingCounted, ConstantsTyped DEF Limited, Serving
<1> QED BY <1>1, <1>2, <1>3, <1>4, EntryFields

(* With a block as long as the window, which is what rate_limit.rs has     *)
(* (300 s both), no address has more than 2 * (MaxFails - 1) failures and  *)
(* one for every login under way in less than Window ticks, although       *)
(* check and record_fail take the limiter's lock one after the other and   *)
(* every login may have passed check before the first failure is counted.  *)
THEOREM LimiterLimits ==
  ASSUME BlockFor = Window
  PROVE  Spec => []FailuresBounded
<1>1. Init => LimitInv
  BY InitLimited
<1>2. LimitInv /\ [Next]_vars => LimitInv'
  BY NextLimited
<1>3. LimitInv => FailuresBounded
  BY LimitedBounds
<1> QED BY <1>1, <1>2, <1>3, PTL DEF Spec
=============================================================================
