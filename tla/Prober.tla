------------------------------- MODULE Prober -------------------------------
(***************************************************************************)
(* One probe: src/prober.rs from probe_with_config to its ProbeResult.     *)
(*                                                                         *)
(* The target answers what it likes, when it likes, or never; the probe    *)
(* ends in any case.  For type http_json the body is searched along a path *)
(* and every value found is compared.                                      *)
(*                                                                         *)
(* A JSON document is a function from addresses to nodes: an address is    *)
(* the sequence of keys and indices from the root, a node "object",        *)
(* "array" or the text of a scalar.  Indices are written as texts, as they *)
(* are in a path.                                                          *)
(***************************************************************************)
EXTENDS Integers, SequencesExt

CONSTANTS
  Configs,    \* [type, timeout, path, op, expected] of a monitor
  Documents,  \* JSON bodies
  Compact(_, _),  \* compact JSON of the structure at an address of a document
  Lower(_),       \* to_lowercase
  Number(_),      \* parse::<f64>, or NaN
  HasText(_, _)   \* str::contains

(* An address is in a document with everything above it.                   *)
ASSUME ProberAssumption ==
  /\ \A c \in Configs : /\ c.timeout \in Int
                        /\ c.path \in Seq([name : STRING, bracket : STRING])
  /\ \A doc \in Documents :
        /\ DOMAIN doc \subseteq Seq(STRING)
        /\ \A a \in DOMAIN doc : \A n \in 0..Len(a) : SubSeq(a, 1, n) \in DOMAIN doc

Types == {"http", "https", "http_json", "tcp", "ping", "icmp"}
Http == {"http", "https", "http_json"}
Operators == {"==", "!=", "contains", "not_contains", ">", ">=", "<", "<="}
Numeric == {">", ">=", "<", "<="}

NaN == -1000       \* not a number
Invalid == <<>>    \* a body that is not JSON: no root
Bodies == Documents \cup {Invalid}
Root == <<>>       \* the address of the root
NoName == ""       \* a segment [*] or * has no name
NoBracket == "none"
Wild == "*"

VARIABLES
  cfg,     \* the monitor's configuration
  phase,   \* where the probe waits
  clock,   \* seconds since it started
  heard,   \* history: what the target did
  result   \* the ProbeResult

vars == <<cfg, phase, clock, heard, result>>

-----------------------------------------------------------------------------
(* json_path_lookup_all.  A segment is a name, a bracket, or both.         *)

At(doc, a) == IF a \in DOMAIN doc THEN doc[a] ELSE "absent"
Child(doc, a, k) == {Append(a, k)} \cap DOMAIN doc
Items(doc, a) == {b \in DOMAIN doc : Len(b) = Len(a) + 1 /\ SubSeq(b, 1, Len(a)) = a}

(* A name is a key of an object or an index of an array. *)
ByName(doc, a, name) == IF name = NoName THEN {a} ELSE Child(doc, a, name)

(* A bracket on anything but an array finds nothing. *)
ByBracket(doc, a, bracket) ==
  IF bracket = NoBracket THEN {a}
  ELSE IF At(doc, a) # "array" THEN {}
  ELSE IF bracket = Wild THEN Items(doc, a) ELSE Child(doc, a, bracket)

Step(doc, found, seg) ==
  UNION {ByBracket(doc, b, seg.bracket) :
           b \in UNION {ByName(doc, a, seg.name) : a \in found}}

(* found[n]: the candidates after n segments.                              *)
Lookup(doc, path) ==
  LET found[n \in 0..Len(path)] ==
        IF n = 0 THEN {Root} \cap DOMAIN doc ELSE Step(doc, found[n - 1], path[n])
  IN found[Len(path)]

(* JsonOperator::matches on a rendered node.  A structure is rendered as   *)
(* compact JSON: it contains that text and what a scalar or a key in it    *)
(* contains, and is no number.  (Expected texts are no other pieces of     *)
(* JSON here.)                                                             *)
IsScalar(doc, a) == doc[a] \notin {"object", "array"}
Rendered(doc, a) == IF IsScalar(doc, a) THEN doc[a] ELSE Compact(doc, a)
Within(doc, a) ==
  {Rendered(doc, a)}
    \cup {doc[b] : b \in {c \in DOMAIN doc : IsPrefix(a, c) /\ IsScalar(doc, c)}}
    \cup {Last(b) : b \in {c \in DOMAIN doc : /\ IsStrictPrefix(a, c)
                                              /\ doc[Front(c)] = "object"}}

Equal(doc, a, e) == Lower(Rendered(doc, a)) = Lower(e)
Holds(doc, a, e) == \E t \in Within(doc, a) : HasText(Lower(t), Lower(e))
Compare(x, op, y) ==
  CASE op = ">" -> x > y [] op = ">=" -> x >= y
    [] op = "<" -> x < y [] op = "<=" -> x <= y

(* A numeric operator needs two numbers; anything else is an error.        *)
Matches(doc, a, op, e) ==
  CASE op = "!=" -> ~Equal(doc, a, e)
    [] op = "contains" -> Holds(doc, a, e)
    [] op = "not_contains" -> ~Holds(doc, a, e)
    [] op \in Numeric -> /\ IsScalar(doc, a)
                         /\ Number(doc[a]) # NaN /\ Number(e) # NaN
                         /\ Compare(Number(doc[a]), op, Number(e))
    [] OTHER -> Equal(doc, a, e)     \* "==", "" and whatever is unknown

(* check_json_assertion.  Mutant: one value that matches is enough.        *)
Assertion_Some(doc, c) ==
  c.path # <<>> =>
    \E a \in Lookup(doc, c.path) : c.expected # "" => Matches(doc, a, c.op, c.expected)
Assertion(doc, c) ==
  c.path # <<>> =>
    LET found == Lookup(doc, c.path)
    IN /\ found # {}
       /\ c.expected # "" => \A a \in found : Matches(doc, a, c.op, c.expected)

-----------------------------------------------------------------------------
Silent == [kind |-> "nothing", body |-> Invalid]
NoResult == [up |-> FALSE, error |-> "pending"]

Init ==
  /\ cfg \in Configs
  /\ phase = "dispatch" /\ clock = 0
  /\ heard = Silent /\ result = NoResult

Done(err) == phase' = "done" /\ result' = [up |-> err = "none", error |-> err]
Hear(kind, body) == heard' = [kind |-> kind, body |-> body]
AtLeastOne(t) == IF t < 1 THEN 1 ELSE t

(* reqwest's timeout runs until the body is read; ping is given 4 s more   *)
(* than its own -W.                                                        *)
Deadline == AtLeastOne(cfg.timeout) + IF cfg.type \in {"ping", "icmp"} THEN 4 ELSE 0

(* probe_with_config; sanitize_ping_target refuses what is not a host.     *)
Dispatch ==
  /\ phase = "dispatch"
  /\ \/ /\ cfg.type \in Http /\ phase' = "request"
        /\ UNCHANGED result
     \/ cfg.type = "tcp" /\ phase' = "connect" /\ UNCHANGED result
     \/ /\ cfg.type \in {"ping", "icmp"}
        /\ \/ phase' = "ping" /\ UNCHANGED result
           \/ Done("target")
     \/ cfg.type \notin Types /\ Done("unsupported")
  /\ UNCHANGED <<cfg, clock, heard>>

Running == phase \in {"request", "body", "connect", "ping"}

Tick ==
  /\ Running /\ clock < Deadline
  /\ clock' = clock + 1
  /\ UNCHANGED <<cfg, phase, heard, result>>

(* Status line and headers: 2xx and 3xx are good; the body of http_json is *)
(* still to come.                                                          *)
Respond(good) ==
  /\ phase = "request"
  /\ Hear(IF good THEN "good status" ELSE "bad status", Invalid)
  /\ CASE ~good -> Done("status")
       [] good /\ cfg.type # "http_json" -> Done("none")
       [] OTHER -> phase' = "body" /\ UNCHANGED result
  /\ UNCHANGED <<cfg, clock>>

Body(doc) ==
  /\ phase = "body"
  /\ Hear("body", doc)
  /\ Done(IF Assertion(doc, cfg) THEN "none" ELSE "assertion")
  /\ UNCHANGED <<cfg, clock>>

Connect ==
  /\ phase = "connect"
  /\ Hear("connected", Invalid) /\ Done("none")
  /\ UNCHANGED <<cfg, clock>>

(* The exit status of ping decides.  Mutant: any output will do. *)
PingExit_Any(ok) ==
  /\ phase = "ping"
  /\ Hear(IF ok THEN "replies" ELSE "loss", Invalid)
  /\ phase' = "done" /\ result' = [up |-> TRUE, error |-> IF ok THEN "none" ELSE "ping"]
  /\ UNCHANGED <<cfg, clock>>
PingExit(ok) ==
  /\ phase = "ping"
  /\ Hear(IF ok THEN "replies" ELSE "loss", Invalid)
  /\ Done(IF ok THEN "none" ELSE "ping")
  /\ UNCHANGED <<cfg, clock>>

(* Refused, reset, no route, a name that does not resolve, no ping binary. *)
Break ==
  /\ Running
  /\ Hear("error", Invalid) /\ Done("network")
  /\ UNCHANGED <<cfg, clock>>

(* Mutant: the timeout covers the headers only. *)
TimeOut_Headers ==
  /\ Running /\ phase # "body" /\ clock = Deadline
  /\ Done("timeout")
  /\ UNCHANGED <<cfg, clock, heard>>
TimeOut ==
  /\ Running /\ clock = Deadline
  /\ Done("timeout")
  /\ UNCHANGED <<cfg, clock, heard>>

Target ==
  \/ \E good \in BOOLEAN : Respond(good)
  \/ \E doc \in Bodies : Body(doc)
  \/ Connect
  \/ \E ok \in BOOLEAN : PingExit(ok)
  \/ Break

Next == Dispatch \/ Tick \/ TimeOut \/ Target

Spec == Init /\ [][Next]_vars

(* Time passes and tokio's timers fire; the target owes nothing. *)
FairSpec == Spec /\ WF_vars(Dispatch) /\ WF_vars(Tick) /\ WF_vars(TimeOut)

-----------------------------------------------------------------------------
(* The variables have their types; there is a result when the probe is     *)
(* done, and it is "up" when nothing went wrong.                          *)
TypeOK ==
  /\ cfg \in Configs
  /\ phase \in {"dispatch", "request", "body", "connect", "ping", "done"}
  /\ clock \in 0..Deadline
  /\ heard \in [kind : {"nothing", "good status", "bad status", "body", "connected",
                        "replies", "loss", "error"},
                body : Bodies]
  /\ result \in [up : BOOLEAN,
                 error : {"pending", "none", "status", "assertion", "ping", "target",
                          "unsupported", "network", "timeout"}]
  /\ result.up <=> result.error = "none"
  /\ result.error = "pending" <=> phase # "done"

(* What a path selects, said address by address: the address can be cut    *)
(* into one piece per segment, the name, if there is one, then the index,  *)
(* which may be anything under a wildcard and lies in an array.            *)
Fits(doc, a, from, to, seg) ==
  LET named == from + IF seg.name = NoName THEN 0 ELSE 1
  IN /\ to = named + IF seg.bracket = NoBracket THEN 0 ELSE 1
     /\ seg.name # NoName => a[named] = seg.name
     /\ seg.bracket # NoBracket => /\ doc[SubSeq(a, 1, named)] = "array"
                                   /\ seg.bracket \in {Wild, a[to]}

(* The addresses that the first n segments select.                         *)
SelectedBy(doc, path, n) ==
  {a \in DOMAIN doc :
     \E cut \in [0..n -> 0..Len(a)] :
        /\ cut[0] = 0 /\ cut[n] = Len(a)
        /\ \A i \in 1..n : Fits(doc, a, cut[i - 1], cut[i], path[i])}
Selected(doc, path) == SelectedBy(doc, path, Len(path))

Expected(doc, c) ==
  LET selected == Selected(doc, c.path)
  IN \/ c.path = <<>>
     \/ /\ selected # {}
        /\ c.expected # "" => \A a \in selected : Matches(doc, a, c.op, c.expected)

(* A probe says "up" exactly when the target did, before the deadline,     *)
(* what its type asks for: a good status, for http_json with a body in     *)
(* which the path selects something and everything it selects matches, an  *)
(* accepted connection, or replies to ping.  (The statement is about       *)
(* json_path_lookup_all's walk, segment by segment and by candidates,      *)
(* against the selection of addresses above.)                              *)
UpIsEarned ==
  phase = "done" =>
    (result.up <=> \/ cfg.type \in {"http", "https"} /\ heard.kind = "good status"
                   \/ /\ cfg.type = "http_json" /\ heard.kind = "body"
                      /\ Expected(heard.body, cfg)
                   \/ cfg.type = "tcp" /\ heard.kind = "connected"
                   \/ cfg.type \in {"ping", "icmp"} /\ heard.kind = "replies")

(* A probe ends although the target may stay silent at any point, also     *)
(* between the headers and the body, and whatever timeout is stored, also  *)
(* zero or a negative number.                                              *)
ProbeEnds == <>(phase = "done")
=============================================================================
