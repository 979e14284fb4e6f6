----------------------------- MODULE AdminAccess -----------------------------
(***************************************************************************)
(* Admin login: the handlers of src/controllers/auth_controller.rs, the    *)
(* per-address limiter of src/middlewares/rate_limit.rs and the tables     *)
(* users and sessions behind src/models/user.rs.  A login takes the        *)
(* limiter's lock, the database's lock and one of them again, and other    *)
(* requests run in between.  The limiter lives in memory and is empty      *)
(* after a start; the tables survive.                                      *)
(*                                                                         *)
(* Time is in ticks.  A moment in the past is kept as its age (saturated   *)
(* just beyond Window), one in the future as the ticks left, so a run may  *)
(* last for ever.                                                          *)
(***************************************************************************)
EXTENDS Integers, FiniteSets

CONSTANTS
  Addresses,    \* client addresses
  Watched,      \* those whose failures the history remembers
  Requests,     \* login requests in progress at once
  Tokens,       \* session tokens; a new one is a value not in the table
  Passwords,    \* passwords a client may try
  DefaultPass,  \* password of the account created by the first start
  LongEnough,   \* passwords of at least 8 characters once trimmed
  MaxFails,     \* 5 in the code
  Window,       \* 300 s in the code
  BlockFor,     \* 300 s in the code
  MapLimit,     \* 1024 in the code
  SessionLife,  \* 7 days in the code
  NoAccount     \* the table users is empty

ASSUME AccessAssumption ==
  /\ IsFiniteSet(Addresses) /\ Addresses # {} /\ IsFiniteSet(Requests)
  /\ Watched \subseteq Addresses
  /\ DefaultPass \in Passwords /\ LongEnough \subseteq Passwords
  /\ NoAccount \notin Passwords
  /\ {MaxFails, Window, BlockFor, SessionLife} \subseteq Nat \ {0}
  /\ MapLimit \in Nat

VARIABLES
  up,        \* the process runs
  password,  \* users: the admin's password (its salted hash)
  changing,  \* new passwords of change requests that were let in
  limiter,   \* the limiter's map: one entry per address, or Absent
  session,   \* sessions: ticks left of every token, or Gone
  request,   \* login requests between their awaits
  recent     \* history: failures of the last k ticks not yet forgiven, for every k

vars == <<up, password, changing, limiter, session, request, recent>>

Free == -1    \* blocked_until is None
Gone == -2    \* no row of sessions has this token

Absent == [fails |-> 0, age |-> 0, left |-> Free]
Entry == [fails: Nat, age: 0..Window + 1, left: {Free} \cup 0..BlockFor]
Stages == {"none", "checked", "wrong", "right", "welcome"}
NoRequest(a) == [stage |-> "none", addr |-> a, pass |-> DefaultPass]
SomeAddress == CHOOSE a \in Addresses : TRUE

(* An entry is never stored with a count of 0. *)
Entries == {a \in Addresses : limiter[a] # Absent}
(* Mutant of Blocked: that the block has run out is not looked at. *)
Blocked_ForEver(a) == limiter[a].left # Free
Blocked(a) == limiter[a].left > 0
Valid(t) == session[t] > 0      \* expires_at > now

NoFailures == [k \in 0..Window |-> 0]

-----------------------------------------------------------------------------
Init ==
  /\ up = FALSE
  /\ password = NoAccount /\ changing = {}
  /\ limiter = [a \in Addresses |-> Absent]
  /\ session = [t \in Tokens |-> Gone]
  /\ request = [r \in Requests |-> NoRequest(SomeAddress)]
  /\ recent = [a \in Watched |-> NoFailures]

(* The account is created once, with the password of the command line or   *)
(* "admin"; a later start leaves it alone.                                 *)
Start ==
  /\ ~up
  /\ up' = TRUE
  /\ password' = IF password = NoAccount THEN DefaultPass ELSE password
  /\ UNCHANGED <<changing, limiter, session, request, recent>>

Stop ==
  /\ up
  /\ up' = FALSE
  /\ limiter' = [a \in Addresses |-> Absent]
  /\ request' = [r \in Requests |-> NoRequest(SomeAddress)]
  /\ recent' = [a \in Watched |-> NoFailures]
  /\ changing' = {}
  /\ UNCHANGED <<password, session>>

(* LoginRateLimiter::check.  A refused request is answered 429 and leaves  *)
(* no trace.                                                               *)
Check(r, a, p) ==
  /\ up /\ request[r].stage = "none"
  /\ ~Blocked(a)
  /\ request' = [request EXCEPT ![r] = [stage |-> "checked", addr |-> a, pass |-> p]]
  /\ UNCHANGED <<up, password, changing, limiter, session, recent>>

Finish(r) == request' = [request EXCEPT ![r] = NoRequest(SomeAddress)]

Authenticate(r) ==
  /\ request[r].stage = "checked"
  /\ request' = [request EXCEPT ![r].pass = DefaultPass,   \* not needed any more
                                ![r].stage = IF request[r].pass = password
                                             THEN "right" ELSE "wrong"]
  /\ UNCHANGED <<up, password, changing, limiter, session, recent>>

(* record_fail on the entry of an address: a block that has run out or a   *)
(* window that has closed starts a new count.                              *)
(* Mutants: the window never closes; the count never blocks; a block is    *)
(* added to the one that runs.                                             *)
Counted_NoWindow(e) ==
  LET c == IF e.left = 0 THEN [fails |-> 1, age |-> 0, left |-> Free]
           ELSE [e EXCEPT !.fails = @ + 1]
  IN  IF c.fails >= MaxFails THEN [c EXCEPT !.left = BlockFor] ELSE c
Counted_NoBlock(e) ==
  IF e.left = 0 \/ e.age > Window THEN [fails |-> 1, age |-> 0, left |-> Free]
  ELSE [e EXCEPT !.fails = @ + 1]
Counted_Adds(e) ==
  LET c == IF e.left = 0 THEN [fails |-> 1, age |-> 0, left |-> Free]
           ELSE IF e.age > Window THEN [e EXCEPT !.fails = 1, !.age = 0]
           ELSE [e EXCEPT !.fails = @ + 1]
  IN  IF c.fails >= MaxFails THEN [c EXCEPT !.left = @ + BlockFor + 1] ELSE c
Counted(e) ==
  LET c == IF e.left = 0 THEN [fails |-> 1, age |-> 0, left |-> Free]
           ELSE IF e.age > Window THEN [e EXCEPT !.fails = 1, !.age = 0]
           ELSE [e EXCEPT !.fails = @ + 1]
  IN  IF c.fails >= MaxFails THEN [c EXCEPT !.left = BlockFor] ELSE c

(* What retain keeps when the map has grown beyond MapLimit.               *)
(* Mutant: an entry is stale as soon as its window has closed.             *)
Kept_WindowOnly(e) == e.age <= Window
Kept(e) == e.left > 0 \/ e.age <= Window

RecordFail(r) ==
  /\ request[r].stage = "wrong"
  /\ LET a == request[r].addr
         grown == [limiter EXCEPT ![a] = Counted(@)]
     IN  /\ limiter' = IF Cardinality(Entries \cup {a}) <= MapLimit THEN grown
                       ELSE [b \in Addresses |-> IF Kept(grown[b]) THEN grown[b]
                                                                  ELSE Absent]
         /\ recent' = [b \in Watched |-> IF b = a THEN [k \in 0..Window |-> recent[b][k] + 1]
                                              ELSE recent[b]]
  /\ Finish(r)
  /\ UNCHANGED <<up, password, changing, session>>

Forgive(a) == recent' = [b \in Watched |-> IF b = a THEN NoFailures ELSE recent[b]]

RecordSuccess(r) ==
  /\ request[r].stage = "right"
  /\ limiter' = [limiter EXCEPT ![request[r].addr] = Absent]
  /\ Forgive(request[r].addr)
  /\ request' = [request EXCEPT ![r].stage = "welcome"]
  /\ UNCHANGED <<up, password, changing, session>>

CreateSession(r, t) ==
  /\ request[r].stage = "welcome"
  /\ session[t] = Gone
  /\ session' = [session EXCEPT ![t] = SessionLife]
  /\ Finish(r)
  /\ UNCHANGED <<up, password, changing, limiter, recent>>

(* A statement fails (500), or the client goes away and its future is      *)
(* dropped at an await.                                                    *)
Abandon(r) ==
  /\ request[r].stage # "none"
  /\ Finish(r)
  /\ UNCHANGED <<up, password, changing, limiter, session, recent>>

(* DELETE FROM sessions WHERE user_id = (SELECT user_id ... token = t): a  *)
(* token with no row matches nothing, one that has expired still does.     *)
(* Mutant: only the row of the cookie goes.                                *)
Logout_One(t) ==
  /\ up /\ session[t] # Gone
  /\ session' = [session EXCEPT ![t] = Gone]
  /\ UNCHANGED <<up, password, changing, limiter, request, recent>>
Logout(t) ==
  /\ up /\ session[t] # Gone
  /\ session' = [u \in Tokens |-> Gone]
  /\ UNCHANGED <<up, password, changing, limiter, request, recent>>

(* A change of the password: require_admin_auth looks at the session under *)
(* one lock ...                                                            *)
Admit(t, new) ==
  /\ up /\ Valid(t) /\ new \in LongEnough
  /\ changing' = changing \cup {new}
  /\ UNCHANGED <<up, password, limiter, session, request, recent>>

(* ... and the handler works under another, whether or not the session     *)
(* still stands; a wrong old password is refused.  Sessions stay as they   *)
(* are.                                                                    *)
ChangePassword(old, new) ==
  /\ new \in changing
  /\ changing' = changing \ {new}
  /\ password' = IF old = password THEN new ELSE password
  /\ UNCHANGED <<up, limiter, session, request, recent>>

(* Step 4 of prune_old_records: expires_at < now. *)
PruneSessions ==
  /\ up
  /\ session' = [t \in Tokens |-> IF session[t] < 0 THEN Gone ELSE session[t]]
  /\ UNCHANGED <<up, password, changing, limiter, request, recent>>

Expired == -1   \* expires_at < now, until it is pruned
Older(e) == IF e = Absent THEN e
            ELSE [e EXCEPT !.age = IF @ <= Window THEN @ + 1 ELSE @,
                           !.left = IF @ > 0 THEN @ - 1 ELSE @]
Tick ==
  /\ limiter' = [a \in Addresses |-> Older(limiter[a])]
  /\ session' = [t \in Tokens |-> IF session[t] > Expired THEN session[t] - 1
                                                          ELSE session[t]]
  /\ recent' = [a \in Watched |->
                  [k \in 0..Window |-> IF k = 0 THEN 0 ELSE recent[a][k - 1]]]
  /\ UNCHANGED <<up, password, changing, request>>

LoginStep(r) ==
  \/ \E a \in Addresses, p \in Passwords : Check(r, a, p)
  \/ Authenticate(r)
  \/ RecordFail(r)
  \/ RecordSuccess(r)
  \/ \E t \in Tokens : CreateSession(r, t)
  \/ Abandon(r)

Next ==
  \/ Start
  \/ Stop
  \/ \E r \in Requests : LoginStep(r)
  \/ \E t \in Tokens : Logout(t)
  \/ \E t \in Tokens, new \in Passwords : Admit(t, new)
  \/ \E old \in Passwords, new \in Passwords : ChangePassword(old, new)
  \/ PruneSessions
  \/ Tick

Spec == Init /\ [][Next]_vars

(* Clocks go on. *)
FairSpec == Spec /\ WF_vars(Tick)

-----------------------------------------------------------------------------
(* Properties. *)

(* The variables have their types; session holds ticks left, Expired or    *)
(* Gone.                                                                   *)
TypeOK ==
  /\ up \in BOOLEAN
  /\ password \in Passwords \cup {NoAccount} /\ changing \subseteq LongEnough
  /\ limiter \in [Addresses -> Entry]
  /\ session \in [Tokens -> Gone..SessionLife]
  /\ request \in [Requests -> [stage: Stages, addr: Addresses, pass: Passwords]]
  /\ recent \in [Watched -> [0..Window -> Nat]]

(* The policy as rate_limit.rs and the README state it: an address with    *)
(* MaxFails failed logins within a window is blocked.  It does not hold:   *)
(* the window is counted from its first failure and not a sliding one, so  *)
(* the failures at the end of one window and those at the start of the     *)
(* next are never counted together.                                        *)
PolicyHolds == \A a \in Watched : recent[a][Window - 1] >= MaxFails => Blocked(a)

(* What holds instead, although a login asks the limiter long before its   *)
(* failure is counted: no address has more failures in less than Window    *)
(* ticks than two windows that stop short of a block, and the requests     *)
(* under way when one does not.                                            *)
FailuresBounded ==
  \A a \in Watched :
    recent[a][Window - 1] <= 2 * (MaxFails - 1) + Cardinality(Requests)

(* Nobody is locked out by an old mistake: a block begins, or is           *)
(* prolonged, only for an address that has MaxFails failures within Window *)
(* ticks and no successful login since.                                    *)
BlockEarned ==
  [][\A a \in Watched : limiter'[a].left > limiter[a].left /\ limiter'[a].left > 0
                           => recent'[a][Window] >= MaxFails]_vars

(* A block is served: it ends only with its time, a successful login from  *)
(* the same address that was under way, or the process; never by another   *)
(* address's login or by the clean-up of the map.                          *)
BlockServed ==
  [][\A a \in Addresses : Blocked(a) /\ limiter'[a].left <= 0 =>
       \/ limiter[a].left = 1 /\ Tick
       \/ ~up'
       \/ \E r \in Requests : /\ request[r].stage = "right" /\ request[r].addr = a
                              /\ request'[r].stage = "welcome"]_vars

(* A lockout ends, whatever is tried meanwhile: an attempt refused by the  *)
(* block does not prolong it.                                              *)
LockoutEnds == \A a \in Addresses : []<>~Blocked(a)

(* A session stays valid until its time is over or the user logs out: no   *)
(* prune, restart or login removes it; and a logout leaves no other        *)
(* session of the user behind.                                             *)
SessionKept ==
  [][\A t \in Tokens : Valid(t) /\ session'[t] <= 0 =>
       \/ session[t] = 1 /\ Tick
       \/ \A u \in Tokens : session'[u] = Gone]_vars
=============================================================================
