---------------------------- MODULE ProberProofs ----------------------------
(***************************************************************************)
(* Proofs about Prober, for every document and every path: the walk of     *)
(* json_path_lookup_all finds exactly the addresses the path selects, and  *)
(* a probe says "up" exactly when the target earned it.                    *)
(*                                                                         *)
(* The walk is a recursive function, so its value after n segments is      *)
(* found by induction on n.  NatInduction takes an operator, which the     *)
(* provers here cannot instantiate; Everywhere below is induction for a    *)
(* SET of numbers, from the well-foundedness of "less than".               *)
(***************************************************************************)
EXTENDS Prober, SequenceTheorems, WellFoundedInduction, TLAPS

-----------------------------------------------------------------------------
(* Induction over numbers.                                                 *)

Less == {ss \in Nat \X Nat : ss[1] < ss[2]}

LEMMA LessWellFounded == IsWellFoundedOn(Less, Nat)
<1>1. OpToRel(<, Nat) = Less
  BY Zenon DEF OpToRel, Less
<1> QED BY <1>1, NatLessThanWellFounded

LEMMA Least ==
  ASSUME NEW S, S \subseteq Nat, S # {}
  PROVE  \E n \in S : \A k \in S : n <= k
<1>1. PICK n \in S : \A k \in S : <<k, n>> \notin Less
  BY LessWellFounded, WFMin
<1>2. ASSUME NEW k \in S PROVE n <= k
  <2>1. k < n => <<k, n>> \in Less
    BY DEF Less
  <2> QED BY <1>1, <2>1
<1> QED BY <1>2

(* Every set of numbers with 0 in it that is closed under successors holds *)
(* all of them.                                                            *)
LEMMA Everywhere ==
  ASSUME NEW S, 0 \in S, \A n \in Nat : n \in S => n + 1 \in S
  PROVE  Nat \subseteq S
<1> SUFFICES ASSUME Nat \ S # {} PROVE FALSE
  OBVIOUS
<1>1. PICK n \in Nat \ S : \A k \in Nat \ S : n <= k
  BY Least
<1>2. n # 0 /\ n - 1 \in Nat /\ n - 1 \in S
  BY <1>1
<1> QED BY <1>1, <1>2

-----------------------------------------------------------------------------
(* The walk.  In a document an address stands with everything above it.    *)

Tree(doc) ==
  /\ DOMAIN doc \subseteq Seq(STRING)
  /\ \A a \in DOMAIN doc : \A n \in 0..Len(a) : SubSeq(a, 1, n) \in DOMAIN doc

Path == Seq([name : STRING, bracket : STRING])

LEMMA BodiesAreTrees == \A doc \in Bodies : Tree(doc)
BY ProberAssumption DEF Bodies, Tree, Invalid

(* Facts about sequences.                                                  *)
LEMMA SubOfSub ==
  ASSUME NEW S, NEW b \in Seq(S), NEW q \in 0..Len(b), NEW p \in 0..q
  PROVE  /\ Len(SubSeq(b, 1, p)) = p
         /\ Len(SubSeq(b, 1, q)) = q
         /\ SubSeq(SubSeq(b, 1, q), 1, p) = SubSeq(b, 1, p)
OBVIOUS

LEMMA AppendSplit ==
  ASSUME NEW S, NEW a \in Seq(S), NEW c \in Seq(S), NEW k \in S
  PROVE  c = Append(a, k) <=>
           Len(c) = Len(a) + 1 /\ SubSeq(c, 1, Len(a)) = a /\ c[Len(c)] = k
<1> DEFINE d == Append(a, k)
<1>1. /\ d \in Seq(S) /\ Len(d) = Len(a) + 1 /\ d[Len(a) + 1] = k
      /\ \A i \in 1..Len(a) : d[i] = a[i]
  <2>1. Append(a, k) \in Seq(S) /\ Len(Append(a, k)) = Len(a) + 1
    BY AppendProperties
  <2>2. Append(a, k)[Len(a) + 1] = k
    BY AppendProperties
  <2>3. \A i \in 1..Len(a) : Append(a, k)[i] = a[i]
    BY AppendProperties
  <2> QED BY <2>1, <2>2, <2>3
<1> HIDE DEF d
<1>2. SubSeq(d, 1, Len(a)) = a
  <2>1. Len(SubSeq(d, 1, Len(a))) = Len(a)
    BY <1>1
  <2>2. \A i \in 1..Len(a) : SubSeq(d, 1, Len(a))[i] = d[i]
    BY <1>1
  <2>3. SubSeq(d, 1, Len(a)) \in Seq(S)
    BY <1>1
  <2> QED BY <1>1, <2>1, <2>2, <2>3, SeqEqual
<1>3. ASSUME Len(c) = Len(a) + 1, SubSeq(c, 1, Len(a)) = a, c[Len(c)] = k
      PROVE  c = d
  <2>1. \A i \in 1..Len(a) : c[i] = a[i]
    BY <1>3
  <2>2. \A i \in 1..Len(c) : c[i] = d[i]
    <3>1. \A i \in 1..Len(c) : i \in 1..Len(a) \/ i = Len(a) + 1
      BY <1>3
    <3> QED BY <1>1, <1>3, <2>1, <3>1
  <2> QED BY <1>1, <1>3, <2>2, SeqEqual
<1>4. c = d => Len(c) = Len(a) + 1 /\ SubSeq(c, 1, Len(a)) = a /\ c[Len(c)] = k
  BY <1>1, <1>2
<1> QED BY <1>3, <1>4 DEF d

(* What one segment adds to an address: b is a candidate after it exactly  *)
(* when some address above b was one before and the rest of b fits.        *)
LEMMA StepFits ==
  ASSUME NEW doc, Tree(doc), NEW found \in SUBSET DOMAIN doc,
         NEW seg \in [name : STRING, bracket : STRING]
  PROVE  Step(doc, found, seg) =
           {b \in DOMAIN doc : \E p \in 0..Len(b) :
              SubSeq(b, 1, p) \in found /\ Fits(doc, b, p, Len(b), seg)}
<1>n. ASSUME NEW a \in found, NEW c
      PROVE  c \in ByName(doc, a, seg.name) <=>
               /\ c \in DOMAIN doc
               /\ Len(c) = Len(a) + IF seg.name = NoName THEN 0 ELSE 1
               /\ SubSeq(c, 1, Len(a)) = a
               /\ seg.name # NoName => c[Len(c)] = seg.name
  <2>1. a \in Seq(STRING) /\ a \in DOMAIN doc
    BY DEF Tree
  <2>2. CASE seg.name = NoName
    <3>1. c \in DOMAIN doc => c \in Seq(STRING)
      BY DEF Tree
    <3>2. ASSUME c \in Seq(STRING), Len(c) = Len(a), SubSeq(c, 1, Len(a)) = a
          PROVE  c = a
      BY <2>1, <3>2
    <3>3. SubSeq(a, 1, Len(a)) = a
      BY <2>1
    <3> QED BY <2>1, <2>2, <3>1, <3>2, <3>3 DEF ByName
  <2>3. CASE seg.name # NoName
    <3>1. c \in ByName(doc, a, seg.name) <=> c \in DOMAIN doc /\ c = Append(a, seg.name)
      BY <2>3 DEF ByName, Child
    <3>2. c \in DOMAIN doc => c \in Seq(STRING)
      BY DEF Tree
    <3>3. ASSUME c \in Seq(STRING), Len(c) = Len(a) + 1, SubSeq(c, 1, Len(a)) = a,
                 c[Len(c)] = seg.name
          PROVE  c = Append(a, seg.name)
      BY <2>1, <3>3, AppendSplit
    <3>4. ASSUME c = Append(a, seg.name)
          PROVE  Len(c) = Len(a) + 1 /\ SubSeq(c, 1, Len(a)) = a /\ c[Len(c)] = seg.name
      BY <2>1, <3>4, AppendSplit
    <3> QED BY <2>3, <3>1, <3>2, <3>3, <3>4
  <2> QED BY <2>2, <2>3
<1>b. ASSUME NEW c \in DOMAIN doc, NEW b
      PROVE  b \in ByBracket(doc, c, seg.bracket) <=>
               /\ b \in DOMAIN doc
               /\ Len(b) = Len(c) + IF seg.bracket = NoBracket THEN 0 ELSE 1
               /\ SubSeq(b, 1, Len(c)) = c
               /\ seg.bracket # NoBracket => /\ doc[c] = "array"
                                             /\ seg.bracket \in {Wild, b[Len(b)]}
  <2>1. c \in Seq(STRING)
    BY DEF Tree
  <2>2. b \in DOMAIN doc => b \in Seq(STRING)
    BY DEF Tree
  <2>3. CASE seg.bracket = NoBracket
    <3>1. ASSUME b \in Seq(STRING), Len(b) = Len(c), SubSeq(b, 1, Len(c)) = c
          PROVE  b = c
      BY <2>1, <3>1
    <3>2. SubSeq(c, 1, Len(c)) = c
      BY <2>1
    <3>3. ByBracket(doc, c, seg.bracket) = {c}
      BY <2>3 DEF ByBracket
    <3> QED BY <2>1, <2>2, <2>3, <3>1, <3>2, <3>3
  <2>4. CASE seg.bracket # NoBracket /\ doc[c] # "array"
    BY <2>4 DEF ByBracket, At
  <2>5. CASE seg.bracket # NoBracket /\ doc[c] = "array" /\ seg.bracket = Wild
    BY <2>5 DEF ByBracket, At, Items
  <2>6. CASE seg.bracket # NoBracket /\ doc[c] = "array" /\ seg.bracket # Wild
    <3>1. b \in ByBracket(doc, c, seg.bracket) <=>
            b \in DOMAIN doc /\ b = Append(c, seg.bracket)
      BY <2>6 DEF ByBracket, At, Child
    <3>2. ASSUME b \in Seq(STRING), Len(b) = Len(c) + 1, SubSeq(b, 1, Len(c)) = c,
                 b[Len(b)] = seg.bracket
          PROVE  b = Append(c, seg.bracket)
      BY <2>1, <3>2, AppendSplit
    <3>3. ASSUME b = Append(c, seg.bracket)
          PROVE  Len(b) = Len(c) + 1 /\ SubSeq(b, 1, Len(c)) = c /\ b[Len(b)] = seg.bracket
      BY <2>1, <3>3, AppendSplit
    <3> QED BY <2>2, <2>6, <3>1, <3>2, <3>3
  <2> QED BY <2>3, <2>4, <2>5, <2>6
<1>1. ASSUME NEW b \in Step(doc, found, seg)
      PROVE  /\ b \in DOMAIN doc
             /\ \E p \in 0..Len(b) :
                  SubSeq(b, 1, p) \in found /\ Fits(doc, b, p, Len(b), seg)
  <2>1. PICK a \in found : \E c \in ByName(doc, a, seg.name) :
                             b \in ByBracket(doc, c, seg.bracket)
    BY <1>1 DEF Step
  <2>2. PICK c \in ByName(doc, a, seg.name) : b \in ByBracket(doc, c, seg.bracket)
    BY <2>1
  <2>3. /\ c \in DOMAIN doc
        /\ Len(c) = Len(a) + IF seg.name = NoName THEN 0 ELSE 1
        /\ SubSeq(c, 1, Len(a)) = a
        /\ seg.name # NoName => c[Len(c)] = seg.name
    BY <1>n
  <2>4. /\ b \in DOMAIN doc
        /\ Len(b) = Len(c) + IF seg.bracket = NoBracket THEN 0 ELSE 1
        /\ SubSeq(b, 1, Len(c)) = c
        /\ seg.bracket # NoBracket => /\ doc[c] = "array"
                                      /\ seg.bracket \in {Wild, b[Len(b)]}
    BY <1>b, <2>2, <2>3
  <2>5. a \in Seq(STRING) /\ b \in Seq(STRING) /\ c \in Seq(STRING)
    BY <2>3, <2>4 DEF Tree
  <2>6. Len(a) \in 0..Len(c) /\ Len(c) \in 0..Len(b) /\ Len(a) \in 0..Len(b)
    <3>1. Len(a) \in Nat /\ Len(b) \in Nat /\ Len(c) \in Nat
      BY <2>5
    <3>2. Len(c) = Len(a) \/ Len(c) = Len(a) + 1
      <4>1. CASE seg.name = NoName
        BY <2>3, <3>1, <4>1
      <4>2. CASE seg.name # NoName
        BY <2>3, <3>1, <4>2
      <4> QED BY <4>1, <4>2
    <3>3. Len(b) = Len(c) \/ Len(b) = Len(c) + 1
      <4>1. CASE seg.bracket = NoBracket
        BY <2>4, <3>1, <4>1
      <4>2. CASE seg.bracket # NoBracket
        BY <2>4, <3>1, <4>2
      <4> QED BY <4>1, <4>2
    <3> QED BY <3>1, <3>2, <3>3
  <2>7. SubSeq(b, 1, Len(a)) = a
    <3>1. SubSeq(SubSeq(b, 1, Len(c)), 1, Len(a)) = SubSeq(b, 1, Len(a))
      <4>1. \A x, p, q : x \in Seq(STRING) /\ q \in 0..Len(x) /\ p \in 0..q
                         => SubSeq(SubSeq(x, 1, q), 1, p) = SubSeq(x, 1, p)
        BY SubOfSub
      <4> QED BY <2>5, <2>6, <4>1
    <3> QED BY <2>3, <2>4, <3>1
  <2>8. seg.name # NoName => b[Len(c)] = seg.name
    <3>1. SUFFICES ASSUME seg.name # NoName PROVE b[Len(c)] = c[Len(c)]
      BY <2>3
    <3>2. Len(c) \in 1..Len(c)
      BY <2>3, <2>5, <3>1
    <3> QED BY <2>4, <2>5, <2>6, <3>2
  <2>9. Fits(doc, b, Len(a), Len(b), seg)
    BY <2>3, <2>4, <2>8 DEF Fits
  <2> QED BY <2>4, <2>6, <2>7, <2>9
<1>2. ASSUME NEW b \in DOMAIN doc, NEW p \in 0..Len(b),
             SubSeq(b, 1, p) \in found, Fits(doc, b, p, Len(b), seg)
      PROVE  b \in Step(doc, found, seg)
  <2> DEFINE q == p + IF seg.name = NoName THEN 0 ELSE 1
             a == SubSeq(b, 1, p)
             c == SubSeq(b, 1, q)
  <2>1. b \in Seq(STRING)
    BY DEF Tree
  <2>2. /\ Len(b) = q + IF seg.bracket = NoBracket THEN 0 ELSE 1
        /\ seg.name # NoName => b[q] = seg.name
        /\ seg.bracket # NoBracket => /\ doc[c] = "array"
                                      /\ seg.bracket \in {Wild, b[Len(b)]}
    BY <1>2 DEF Fits
  <2>3. p \in 0..q /\ q \in 0..Len(b)
    BY <2>1, <2>2
  <2>4. c \in DOMAIN doc
    BY <2>3 DEF Tree
  <2>5. Len(a) = p /\ Len(c) = q /\ SubSeq(c, 1, p) = a
    BY <2>1, <2>3, SubOfSub
  <2>6. seg.name # NoName => c[q] = seg.name
    <3>1. seg.name # NoName => q \in 1..q
      BY <2>3
    <3> QED BY <2>1, <2>2, <2>3, <3>1
  <2>7. c \in ByName(doc, a, seg.name)
    <3> HIDE DEF c, a
    <3> QED BY <1>2, <1>n, <2>4, <2>5, <2>6 DEF a, q
  <2>8. b \in ByBracket(doc, c, seg.bracket)
    <3>1. SubSeq(b, 1, Len(c)) = c
      BY <2>5
    <3> HIDE DEF c, a, q
    <3> QED BY <1>b, <2>2, <2>4, <2>5, <3>1
  <2> QED BY <1>2, <2>7, <2>8 DEF Step
<1> QED BY <1>1, <1>2

(* A prefix of a candidate address is cut as the whole is.                 *)
LEMMA FitsAbove ==
  ASSUME NEW doc, Tree(doc), NEW b \in DOMAIN doc, NEW p \in 0..Len(b),
         NEW from \in 0..p, NEW to \in 0..p,
         NEW seg \in [name : STRING, bracket : STRING]
  PROVE  Fits(doc, SubSeq(b, 1, p), from, to, seg) <=> Fits(doc, b, from, to, seg)
<1> DEFINE named == from + IF seg.name = NoName THEN 0 ELSE 1
           a == SubSeq(b, 1, p)
<1>1. b \in Seq(STRING)
  BY DEF Tree
<1>2. \A k \in 1..p : a[k] = b[k]
  BY <1>1
<1>3. SUFFICES ASSUME to = named + IF seg.bracket = NoBracket THEN 0 ELSE 1
               PROVE  Fits(doc, a, from, to, seg) <=> Fits(doc, b, from, to, seg)
  BY DEF Fits
<1>4. named \in 0..p /\ (seg.name # NoName => named \in 1..p)
                     /\ (seg.bracket # NoBracket => to \in 1..p)
  BY <1>3
<1>5. SubSeq(a, 1, named) = SubSeq(b, 1, named)
  BY <1>1, <1>4, SubOfSub
<1>6. seg.name # NoName => a[named] = b[named]
  BY <1>2, <1>4
<1>7. seg.bracket # NoBracket => a[to] = b[to]
  BY <1>2, <1>4
<1> HIDE DEF a
<1> QED BY <1>5, <1>6, <1>7 DEF Fits

(* A piece ends where it begins or later.                                  *)
LEMMA FitsForward ==
  ASSUME NEW doc, NEW a, NEW from \in Nat, NEW to \in Nat, NEW seg,
         Fits(doc, a, from, to, seg)
  PROVE  from <= to
BY DEF Fits

(* The next segment's candidates are one step from the last one's.         *)
LEMMA NextSelection ==
  ASSUME NEW doc, Tree(doc), NEW path \in Path, NEW n \in 0..(Len(path) - 1)
  PROVE  SelectedBy(doc, path, n + 1) = Step(doc, SelectedBy(doc, path, n), path[n + 1])
<1> DEFINE By(m) == SelectedBy(doc, path, m)
           Cuts(b, m, cut) == /\ cut[0] = 0 /\ cut[m] = Len(b)
                              /\ \A i \in 1..m : Fits(doc, b, cut[i - 1], cut[i], path[i])
<1>1. \A i \in 1..(n + 1) : path[i] \in [name : STRING, bracket : STRING]
  <2> DEFINE segment == [name : STRING, bracket : STRING]
  <2>1. path \in Seq(segment) /\ n + 1 <= Len(path)
    BY DEF Path
  <2> HIDE DEF segment
  <2>2. \A i \in 1..(n + 1) : path[i] \in segment
    BY <2>1
  <2> QED BY <2>2 DEF segment
<1>2. n \in Nat
  BY DEF Path
<1>3. By(n) \in SUBSET DOMAIN doc
  BY DEF SelectedBy
<1>4. \A b \in DOMAIN doc : b \in Seq(STRING) /\ Len(b) \in Nat
  BY DEF Tree
<1>5. ASSUME NEW b \in By(n + 1)
      PROVE  \E p \in 0..Len(b) :
               SubSeq(b, 1, p) \in By(n) /\ Fits(doc, b, p, Len(b), path[n + 1])
  <2>1. b \in DOMAIN doc
    BY <1>5 DEF SelectedBy
  <2>2. PICK cut \in [0..(n + 1) -> 0..Len(b)] : Cuts(b, n + 1, cut)
    BY <1>5 DEF SelectedBy
  <2> DEFINE p == cut[n]
             low == [i \in 0..n |-> cut[i]]
             a == SubSeq(b, 1, p)
  <2>3. p \in 0..Len(b) /\ Fits(doc, b, p, Len(b), path[n + 1])
    <3>1. n + 1 \in 1..(n + 1) /\ n \in 0..(n + 1) /\ (n + 1) - 1 = n
      BY <1>2
    <3> QED BY <2>2, <3>1
  <2>4. \A i \in 0..n : cut[i] \in 0..p
    <3> DEFINE Below == {k \in Nat : k <= n => cut[n - k] <= p}
    <3>1. p \in Nat /\ \A i \in 0..n : cut[i] \in Nat
      BY <1>2, <1>4, <2>1, <2>3
    <3>2. 0 \in Below
      BY <1>2, <3>1
    <3>3. ASSUME NEW k \in Nat, k \in Below PROVE k + 1 \in Below
      <4>1. SUFFICES ASSUME k + 1 <= n PROVE cut[n - (k + 1)] <= p
        OBVIOUS
      <4>2. n - k \in 1..(n + 1) /\ n - k \in 0..n /\ (n - k) - 1 \in 0..n
            /\ n - (k + 1) = (n - k) - 1
        BY <1>2, <4>1
      <4>3. Fits(doc, b, cut[(n - k) - 1], cut[n - k], path[n - k])
        BY <2>2, <4>2
      <4>4. cut[(n - k) - 1] \in Nat /\ cut[n - k] \in Nat
        BY <3>1, <4>2
      <4>5. cut[(n - k) - 1] <= cut[n - k]
        BY <4>3, <4>4, FitsForward
      <4>6. cut[n - k] <= p
        BY <3>3, <4>1
      <4> QED BY <3>1, <4>2, <4>4, <4>5, <4>6
    <3>4. Nat \subseteq Below
      <4> HIDE DEF Below
      <4> QED BY <3>2, <3>3, Everywhere
    <3>5. ASSUME NEW i \in 0..n PROVE cut[i] <= p
      <4>1. n - i \in Nat /\ n - i <= n /\ n - (n - i) = i
        BY <1>2
      <4> QED BY <3>4, <4>1
    <3> HIDE DEF p
    <3> QED BY <3>1, <3>5
  <2>5. a \in DOMAIN doc /\ Len(a) = p
    <3> HIDE DEF p
    <3>1. \A m \in 0..Len(b) : SubSeq(b, 1, m) \in DOMAIN doc
      BY <2>1 DEF Tree
    <3>2. Len(SubSeq(b, 1, p)) = p
      BY <1>4, <2>1, <2>3
    <3> QED BY <2>3, <3>1, <3>2
  <2>6. low \in [0..n -> 0..p]
    BY <2>4
  <2>7. \A i \in 1..n : Fits(doc, a, low[i - 1], low[i], path[i])
    <3>1. ASSUME NEW i \in 1..n PROVE Fits(doc, a, cut[i - 1], cut[i], path[i])
      <4>1. i \in 1..(n + 1) /\ i \in 0..n /\ i - 1 \in 0..n
        BY <1>2
      <4>2. Fits(doc, b, cut[i - 1], cut[i], path[i])
        BY <2>2, <4>1
      <4>3. cut[i - 1] \in 0..p /\ cut[i] \in 0..p
        BY <2>4, <4>1
      <4> HIDE DEF p
      <4> QED BY <1>1, <2>1, <2>3, <4>1, <4>2, <4>3, FitsAbove
    <3>2. \A i \in 1..n : low[i] = cut[i] /\ low[i - 1] = cut[i - 1]
      BY <1>2
    <3> HIDE DEF low, a
    <3> QED BY <3>1, <3>2
  <2>8. low[0] = 0 /\ low[n] = p
    BY <1>2, <2>2
  <2>9. a \in By(n)
    <3> HIDE DEF low, a, p
    <3>1. low \in [0..n -> 0..Len(a)] /\ low[n] = Len(a)
      BY <2>5, <2>6, <2>8
    <3> QED BY <2>5, <2>7, <2>8, <3>1 DEF SelectedBy
  <2> QED BY <2>3, <2>9
<1>6. ASSUME NEW b \in DOMAIN doc, NEW p \in 0..Len(b),
             SubSeq(b, 1, p) \in By(n), Fits(doc, b, p, Len(b), path[n + 1])
      PROVE  b \in By(n + 1)
  <2> DEFINE a == SubSeq(b, 1, p)
  <2>1. Len(b) \in Nat /\ Len(a) = p
    BY <1>4, SubOfSub
  <2>2. PICK low \in [0..n -> 0..p] : Cuts(a, n, low)
    <3> HIDE DEF a
    <3> QED BY <1>6, <2>1 DEF SelectedBy, a
  <2> DEFINE cut == [i \in 0..(n + 1) |-> IF i <= n THEN low[i] ELSE Len(b)]
  <2>3. cut \in [0..(n + 1) -> 0..Len(b)]
    BY <1>2, <2>1
  <2>4. cut[0] = 0 /\ cut[n] = p /\ cut[n + 1] = Len(b)
    <3> HIDE DEF a
    <3> QED BY <1>2, <2>1, <2>2
  <2>5. ASSUME NEW i \in 1..(n + 1) PROVE Fits(doc, b, cut[i - 1], cut[i], path[i])
    <3>1. CASE i = n + 1
      <4>1. i - 1 = n
        BY <1>2, <3>1
      <4> HIDE DEF cut
      <4> QED BY <1>6, <2>4, <3>1, <4>1
    <3>2. CASE i \in 1..n
      <4>1. i \in 0..n /\ i - 1 \in 0..n
        BY <1>2, <3>2
      <4>2. cut[i - 1] = low[i - 1] /\ cut[i] = low[i]
        BY <1>2, <4>1
      <4>3. Fits(doc, a, low[i - 1], low[i], path[i])
        BY <2>2, <3>2
      <4>4. low[i - 1] \in 0..p /\ low[i] \in 0..p
        BY <4>1
      <4> HIDE DEF cut
      <4> QED BY <1>1, <4>2, <4>3, <4>4, FitsAbove
    <3> QED BY <1>2, <3>1, <3>2
  <2> HIDE DEF cut
  <2> QED BY <2>3, <2>4, <2>5 DEF SelectedBy
<1>7. Step(doc, By(n), path[n + 1]) =
        {b \in DOMAIN doc : \E p \in 0..Len(b) :
           SubSeq(b, 1, p) \in By(n) /\ Fits(doc, b, p, Len(b), path[n + 1])}
  <2>1. path[n + 1] \in [name : STRING, bracket : STRING]
    BY <1>1, <1>2
  <2> HIDE DEF By
  <2> QED BY <1>3, <2>1, StepFits
<1>8. By(n + 1) \subseteq DOMAIN doc
  BY DEF SelectedBy
<1> HIDE DEF By
<1>9. By(n + 1) = Step(doc, By(n), path[n + 1])
  BY <1>5, <1>6, <1>7, <1>8
<1> QED BY <1>9 DEF By

LEMMA NothingSelected ==
  ASSUME NEW doc, Tree(doc), NEW path
  PROVE  SelectedBy(doc, path, 0) = {Root} \cap DOMAIN doc
<1>1. ASSUME NEW a \in SelectedBy(doc, path, 0) PROVE a = Root /\ a \in DOMAIN doc
  <2>1. a \in DOMAIN doc /\ a \in Seq(STRING)
    BY <1>1 DEF SelectedBy, Tree
  <2>2. Len(a) = 0
    BY <1>1 DEF SelectedBy
  <2> QED BY <2>1, <2>2 DEF Root
<1>2. ASSUME Root \in DOMAIN doc PROVE Root \in SelectedBy(doc, path, 0)
  <2> DEFINE cut == [i \in 0..0 |-> 0]
  <2>1. Len(Root) = 0
    BY DEF Root
  <2>2. cut \in [0..0 -> 0..Len(Root)] /\ cut[0] = 0
    BY <2>1
  <2>3. 1..0 = {}
    OBVIOUS
  <2> HIDE DEF cut
  <2> QED BY <1>2, <2>1, <2>2, <2>3 DEF SelectedBy
<1>3. \A a \in SelectedBy(doc, path, 0) : a \in DOMAIN doc
  BY DEF SelectedBy
<1> QED BY <1>1, <1>2, <1>3

(* json_path_lookup_all finds what the path selects, whatever the document *)
(* and however long the path.                                              *)
THEOREM LookupSelects ==
  ASSUME NEW doc, Tree(doc), NEW path \in Path
  PROVE  Lookup(doc, path) = Selected(doc, path)
<1> DEFINE Chain(f) == [n \in 0..Len(path) |->
               IF n = 0 THEN {Root} \cap DOMAIN doc ELSE Step(doc, f[n - 1], path[n])]
           Whole == [n \in 0..Len(path) |-> SelectedBy(doc, path, n)]
           found == CHOOSE f : f = Chain(f)
<1>1. Lookup(doc, path) = found[Len(path)]
  BY DEF Lookup
<1>2. Whole = Chain(Whole)
  <2>1. Len(path) \in Nat
    BY DEF Path
  <2>2. SelectedBy(doc, path, 0) = {Root} \cap DOMAIN doc
    BY NothingSelected
  <2>3. ASSUME NEW n \in 0..Len(path), n # 0
        PROVE  Whole[n] = Step(doc, Whole[n - 1], path[n])
    <3>1. n - 1 \in 0..(Len(path) - 1) /\ n - 1 \in 0..Len(path) /\ (n - 1) + 1 = n
      BY <2>1, <2>3
    <3>2. SelectedBy(doc, path, n) = Step(doc, SelectedBy(doc, path, n - 1), path[n])
      BY <3>1, NextSelection
    <3> QED BY <3>1, <3>2
  <2>4. \A n \in 0..Len(path) : Whole[n] = Chain(Whole)[n]
    BY <2>2, <2>3
  <2> QED BY <2>4
<1>3. found = Chain(found)
  <2> HIDE DEF Chain, Whole
  <2> QED BY <1>2
<1> DEFINE Right == {n \in Nat : n <= Len(path) => found[n] = SelectedBy(doc, path, n)}
<1>4. Nat \subseteq Right
  <2> HIDE DEF found
  <2>1. Len(path) \in Nat
    BY DEF Path
  <2>2. found[0] = {Root} \cap DOMAIN doc
    BY <1>3, <2>1
  <2>3. 0 \in Right
    BY <2>2, NothingSelected
  <2>4. ASSUME NEW n \in Nat, n \in Right PROVE n + 1 \in Right
    <3>1. SUFFICES ASSUME n + 1 <= Len(path)
                   PROVE  found[n + 1] = SelectedBy(doc, path, n + 1)
      OBVIOUS
    <3>2. n + 1 \in 0..Len(path) /\ n + 1 # 0 /\ (n + 1) - 1 = n /\ n \in 0..(Len(path) - 1)
      BY <2>1, <3>1
    <3>3. found[n + 1] = Step(doc, found[n], path[n + 1])
      BY <1>3, <3>2
    <3>4. found[n] = SelectedBy(doc, path, n)
      BY <2>4, <3>1, <2>1
    <3> QED BY <3>2, <3>3, <3>4, NextSelection
  <2> HIDE DEF Right
  <2> QED BY <2>3, <2>4, Everywhere
<1>5. Len(path) \in Nat
  BY DEF Path
<1> HIDE DEF found
<1> QED BY <1>1, <1>4, <1>5 DEF Selected

-----------------------------------------------------------------------------
(* The probe.                                                              *)

(* What is known while a probe waits: its kind of wait belongs to its type *)
(* and the target has not been heard, but for the status that http_json    *)
(* has when it waits for the body.                                         *)
Waiting ==
  /\ phase \in {"dispatch", "request", "connect", "ping"} => heard = Silent
  /\ phase = "request" => cfg.type \in Http
  /\ phase = "connect" => cfg.type = "tcp"
  /\ phase = "ping" => cfg.type \in {"ping", "icmp"}
  /\ phase = "body" => cfg.type = "http_json" /\ heard.kind = "good status"

Kinds == {"nothing", "good status", "bad status", "body", "connected",
          "replies", "loss", "error"}

ProbeInv == TypeOK /\ Waiting /\ UpIsEarned

LEMMA AssertionExpected ==
  ASSUME NEW doc \in Bodies, NEW c \in Configs
  PROVE  Assertion(doc, c) <=> Expected(doc, c)
<1>1. Tree(doc) /\ c.path \in Path
  BY BodiesAreTrees, ProberAssumption DEF Path
<1>2. Lookup(doc, c.path) = Selected(doc, c.path)
  BY <1>1, LookupSelects
<1> QED BY <1>2 DEF Assertion, Expected

LEMMA InitProbe == Init => ProbeInv
<1> SUFFICES ASSUME Init PROVE ProbeInv
  OBVIOUS
<1>1. Deadline \in Nat
  BY ProberAssumption DEF Init, Deadline, AtLeastOne
<1>2. TypeOK
  BY <1>1 DEF Init, TypeOK, Silent, NoResult, Bodies
<1> QED BY <1>2 DEF Init, ProbeInv, Waiting, UpIsEarned, Silent

(* What a probe that ends reports.                                         *)
Failures == {"status", "assertion", "ping", "target", "unsupported", "network", "timeout"}

LEMMA Reported ==
  ASSUME NEW err \in Failures \cup {"none"}, Done(err)
  PROVE  /\ phase' = "done"
         /\ result' \in [up : BOOLEAN, error : Failures \cup {"pending", "none"}]
         /\ result'.error = err /\ err # "pending"
         /\ result'.up <=> err = "none"
BY DEF Done, Failures

LEMMA FailureReported ==
  ASSUME NEW err \in Failures, Done(err)
  PROVE  phase' = "done" /\ ~result'.up
BY DEF Done, Failures

LEMMA SilentKind == Silent.kind = "nothing"
BY DEF Silent

LEMMA StatusReported ==
  ASSUME NEW good \in BOOLEAN, Respond(good)
  PROVE  \/ ~good /\ Done("status")
         \/ good /\ cfg.type # "http_json" /\ Done("none")
         \/ good /\ cfg.type = "http_json" /\ phase' = "body" /\ UNCHANGED result
BY DEF Respond

(* Every step either leaves the probe waiting or reports.                  *)
LEMMA StepOfProbe ==
  ASSUME Next
  PROVE  /\ cfg' = cfg
         /\ \/ clock' = clock
            \/ clock < Deadline /\ clock' = clock + 1
         /\ \/ heard' = heard
            \/ \E kind \in Kinds, body \in Bodies : heard' = [kind |-> kind, body |-> body]
         /\ \/ \E err \in Failures \cup {"none"} : Done(err)
            \/ /\ result' = result /\ phase # "done"
               /\ phase' \in {"request", "body", "connect", "ping"}
<1> USE DEF Kinds, Failures
<1>1. CASE Dispatch
  BY <1>1 DEF Dispatch
<1>2. CASE Tick
  BY <1>2 DEF Tick, Running
<1>3. CASE TimeOut
  BY <1>3 DEF TimeOut
<1>4. ASSUME NEW good \in BOOLEAN, Respond(good)
      PROVE  /\ cfg' = cfg /\ clock' = clock
             /\ \E kind \in Kinds, body \in Bodies : heard' = [kind |-> kind, body |-> body]
             /\ \/ \E err \in Failures \cup {"none"} : Done(err)
                \/ result' = result /\ phase = "request" /\ phase' = "body"
  <2>1. cfg' = cfg /\ clock' = clock /\ phase = "request"
    BY <1>4 DEF Respond
  <2>2. heard' = [kind |-> IF good THEN "good status" ELSE "bad status", body |-> Invalid]
    BY <1>4 DEF Respond, Hear
  <2> QED BY <1>4, <2>1, <2>2, StatusReported DEF Bodies
<1>5. ASSUME NEW doc \in Bodies, Body(doc)
      PROVE  /\ cfg' = cfg /\ clock' = clock
             /\ \E kind \in Kinds, body \in Bodies : heard' = [kind |-> kind, body |-> body]
             /\ \E err \in Failures \cup {"none"} : Done(err)
  BY <1>5 DEF Body, Hear
<1>6. CASE Connect
  BY <1>6 DEF Connect, Hear, Bodies
<1>7. ASSUME NEW ok \in BOOLEAN, PingExit(ok)
      PROVE  /\ cfg' = cfg /\ clock' = clock
             /\ \E kind \in Kinds, body \in Bodies : heard' = [kind |-> kind, body |-> body]
             /\ \E err \in Failures \cup {"none"} : Done(err)
  BY <1>7 DEF PingExit, Hear, Bodies
<1>8. CASE Break
  BY <1>8 DEF Break, Hear, Bodies
<1> QED
  BY <1>1, <1>2, <1>3, <1>4, <1>5, <1>6, <1>7, <1>8 DEF Next, Target

LEMMA NextTyped == TypeOK /\ [Next]_vars => TypeOK'
<1>1. ASSUME TypeOK, Next PROVE TypeOK'
  <2>1. cfg' \in Configs /\ Deadline' = Deadline
    BY <1>1, StepOfProbe DEF TypeOK, Deadline
  <2>2. Deadline \in Int /\ clock \in 0..Deadline
    <3>1. clock \in 0..Deadline /\ cfg \in Configs
      BY <1>1 DEF TypeOK
    <3>2. cfg.timeout \in Int
      BY <3>1, ProberAssumption
    <3>3. AtLeastOne(cfg.timeout) \in Int
      BY <3>2 DEF AtLeastOne
    <3>4. Deadline \in Int
      BY <3>3 DEF Deadline
    <3> QED BY <3>1, <3>4
  <2>3. clock' \in 0..Deadline
    BY <1>1, <2>2, StepOfProbe
  <2>4. heard' \in [kind : Kinds, body : Bodies]
    <3>1. heard \in [kind : Kinds, body : Bodies]
      BY <1>1 DEF TypeOK, Kinds
    <3>2. heard' = heard \/ \E kind \in Kinds, body \in Bodies :
                              heard' = [kind |-> kind, body |-> body]
      BY <1>1, StepOfProbe
    <3> QED BY <3>1, <3>2
  <2>5. CASE result' = result /\ phase # "done"
             /\ phase' \in {"request", "body", "connect", "ping"}
    <3>1. /\ result' \in [up : BOOLEAN, error : Failures \cup {"pending", "none"}]
          /\ result'.up <=> result'.error = "none"
          /\ result'.error = "pending"
      BY <1>1, <2>5 DEF TypeOK, Failures
    <3> QED BY <2>1, <2>3, <2>4, <2>5, <3>1 DEF TypeOK, Kinds, Failures
  <2>6. ASSUME NEW err \in Failures \cup {"none"}, Done(err) PROVE TypeOK'
    BY <2>1, <2>3, <2>4, <2>6, Reported DEF TypeOK, Kinds, Failures
  <2> QED BY <1>1, <2>5, <2>6, StepOfProbe
<1>2. ASSUME TypeOK, UNCHANGED vars PROVE TypeOK'
  BY <1>2 DEF TypeOK, vars, Deadline
<1> QED BY <1>1, <1>2

(* Only a probe that reports "up" has to have earned it.                   *)
LEMMA NextEarned ==
  TypeOK /\ Waiting /\ UpIsEarned /\ [Next]_vars => (Waiting /\ UpIsEarned)'
<1> SUFFICES ASSUME TypeOK, Waiting, UpIsEarned, [Next]_vars
             PROVE  Waiting' /\ UpIsEarned'
  OBVIOUS
<1> USE DEF Waiting, UpIsEarned, Failures
<1>1. CASE Dispatch
  <2>1. /\ phase = "dispatch" /\ cfg' = cfg /\ heard' = heard /\ heard = Silent
        /\ \/ cfg.type \in Http /\ phase' = "request"
           \/ cfg.type = "tcp" /\ phase' = "connect"
           \/ cfg.type \in {"ping", "icmp"} /\ phase' = "ping"
           \/ Done("target") \/ Done("unsupported")
    BY <1>1 DEF Dispatch
  <2>2. (phase' = "done" => ~result'.up) /\ (phase' # "done" => Waiting')
    <3>1. CASE Done("target") \/ Done("unsupported")
      BY <3>1, FailureReported
    <3>2. CASE cfg.type \in Http /\ phase' = "request"
      BY <2>1, <3>2
    <3>3. CASE cfg.type = "tcp" /\ phase' = "connect"
      BY <2>1, <3>3
    <3>4. CASE cfg.type \in {"ping", "icmp"} /\ phase' = "ping"
      BY <2>1, <3>4
    <3> QED BY <2>1, <3>1, <3>2, <3>3, <3>4
  <2>3. Done("target") \/ Done("unsupported") => phase' = "done"
    BY DEF Done
  <2>4. heard'.kind = "nothing"
    BY <2>1 DEF Silent
  <2> QED BY <2>1, <2>2, <2>3, <2>4
<1>2. CASE Tick
  BY <1>2 DEF Tick, Running
<1>3. CASE TimeOut
  <2>1. phase' = "done" /\ ~result'.up /\ heard' = heard /\ cfg' = cfg
    BY <1>3 DEF TimeOut, Done
  <2>2. \/ heard.kind = "nothing"
        \/ cfg.type = "http_json" /\ heard.kind = "good status"
    <3>1. phase \in {"request", "connect", "ping"} \/ phase = "body"
      BY <1>3 DEF TimeOut, Running
    <3>2. phase \in {"request", "connect", "ping"} => heard.kind = "nothing"
      BY SilentKind
    <3>3. phase = "body" => cfg.type = "http_json" /\ heard.kind = "good status"
      OBVIOUS
    <3> QED BY <3>1, <3>2, <3>3
  <2> QED BY <2>1, <2>2
<1>4. ASSUME NEW good \in BOOLEAN, Respond(good) PROVE Waiting' /\ UpIsEarned'
  <2>1. /\ cfg' = cfg /\ cfg.type \in Http
        /\ heard'.kind = IF good THEN "good status" ELSE "bad status"
    BY <1>4 DEF Respond, Hear
  <2>2. CASE ~good /\ Done("status")
    <3>1. phase' = "done" /\ ~result'.up /\ heard'.kind = "bad status"
      BY <2>1, <2>2 DEF Done
    <3> QED BY <3>1
  <2>3. CASE good /\ cfg.type # "http_json" /\ Done("none")
    BY <2>1, <2>3 DEF Http, Done
  <2>4. CASE good /\ cfg.type = "http_json" /\ phase' = "body" /\ UNCHANGED result
    BY <2>1, <2>4
  <2> QED BY <1>4, <2>2, <2>3, <2>4, StatusReported
<1>5. ASSUME NEW doc \in Bodies, Body(doc) PROVE Waiting' /\ UpIsEarned'
  <2>1. cfg' = cfg /\ cfg.type = "http_json" /\ heard'.kind = "body" /\ heard'.body = doc
    BY <1>5 DEF Body, Hear
  <2>2. phase' = "done" /\ (result'.up <=> Assertion(doc, cfg))
    BY <1>5 DEF Body, Done
  <2>3. Assertion(doc, cfg) <=> Expected(doc, cfg)
    BY AssertionExpected DEF TypeOK
  <2>4. Expected(heard'.body, cfg') <=> Expected(doc, cfg)
    BY <2>1
  <2> QED BY <2>1, <2>2, <2>3, <2>4
<1>6. CASE Connect
  BY <1>6 DEF Connect, Hear, Done
<1>7. ASSUME NEW ok \in BOOLEAN, PingExit(ok) PROVE Waiting' /\ UpIsEarned'
  <2>1. /\ cfg' = cfg /\ cfg.type \in {"ping", "icmp"}
        /\ heard'.kind = IF ok THEN "replies" ELSE "loss"
    BY <1>7 DEF PingExit, Hear
  <2>2. phase' = "done" /\ (result'.up <=> ok)
    BY <1>7 DEF PingExit, Done
  <2> QED BY <2>1, <2>2
<1>8. CASE Break
  <2>1. phase' = "done" /\ ~result'.up /\ heard'.kind = "error"
    BY <1>8 DEF Break, Hear, Done
  <2> QED BY <2>1
<1>9. CASE UNCHANGED vars
  BY <1>9 DEF vars
<1> QED
  BY <1>1, <1>2, <1>3, <1>4, <1>5, <1>6, <1>7, <1>8, <1>9 DEF Next, Target

LEMMA NextProbe == ProbeInv /\ [Next]_vars => ProbeInv'
BY NextTyped, NextEarned DEF ProbeInv

(* The variables have their types, and there is a result when the probe is *)
(* done.                                                                   *)
THEOREM TypeCorrect == Spec => []TypeOK
<1>1. ProbeInv => TypeOK
  BY DEF ProbeInv
<1> QED BY InitProbe, NextProbe, <1>1, PTL DEF Spec

(* A probe says "up" exactly when the target earned it.                    *)
THEOREM UpsAreEarned == Spec => []UpIsEarned
<1>1. ProbeInv => UpIsEarned
  BY DEF ProbeInv
<1> QED BY InitProbe, NextProbe, <1>1, PTL DEF Spec
=============================================================================
