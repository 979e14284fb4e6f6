------------------------------ MODULE MCProber ------------------------------
(* Every document of depth two over the keys a and 0, arrays of up to two   *)
(* items and the texts "OK" and "91"; every path of one or two segments.    *)
EXTENDS Prober, TLC
Texts == {"OK", "91"}
MCLower(t) == IF t = "OK" THEN "ok" ELSE t
MCNumber(t) == CASE t = "91" -> 91 [] t = "9" -> 9 [] OTHER -> NaN
(* The JSON of an empty structure; of others only that it is another text. *)
MCCompact(doc, a) ==
  IF Items(doc, a) # {} THEN "items" ELSE IF doc[a] = "array" THEN "[]" ELSE "{}"
MCHasText(t, u) == t = u \/ <<t, u>> = <<"91", "9">>

Leaf == {(<<>> :> t) : t \in Texts}
(* A node of the given kind whose child k is the document sub[k].           *)
Graft(kind, sub) ==
  [a \in {<<>>} \cup UNION {{<<k>> \o b : b \in DOMAIN sub[k]} : k \in DOMAIN sub} |->
     IF a = <<>> THEN kind ELSE sub[a[1]][Tail(a)]]
Grafts(D) ==
  {Graft("array", sub) : sub \in UNION {[K -> D] : K \in {{}, {"0"}, {"0", "1"}}}}
  \cup {Graft("object", sub) : sub \in UNION {[K -> D] : K \in {{}, {"a"}, {"a", "0"}}}}
MCDocuments == Leaf \cup Grafts(Leaf) \cup Grafts(Leaf \cup Grafts(Leaf))

Segment(n, b) == [name |-> n, bracket |-> b]
Segments == {Segment(n, b) : n \in {NoName, "a", "0"}, b \in {NoBracket, Wild, "0"}}
              \ {Segment(NoName, NoBracket)}
Paths == {<<>>} \cup {<<s>> : s \in Segments} \cup {<<s, t>> : s \in Segments, t \in Segments}

Config(ty, time, p, o, e) ==
  [type |-> ty, timeout |-> time, path |-> p, op |-> o, expected |-> e]
MCConfigs ==
  {Config(ty, time, <<>>, "==", "") : ty \in Types \cup {"other"}, time \in {-1, 0, 2}}
  \cup {Config("http_json", 1, p, t[1], t[2]) :
          p \in Paths, t \in {<<"contains", "ok">>, <<"not_contains", "a">>, <<">", "9">>,
                             <<"!=", "ok">>, <<"==", "[]">>, <<"==", "">>}}
=============================================================================
