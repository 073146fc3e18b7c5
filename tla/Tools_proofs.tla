---------------------------- MODULE Tools_proofs ----------------------------
(***************************************************************************)
(* Proofs about Tools: the texts the file tools build are texts, the       *)
(* anchor search finds every place an anchor stands at, what the           *)
(* successful writes add up to is what the file holds, the pages a reader  *)
(* is shown add up, and an edit changes one place and nothing else.        *)
(***************************************************************************)
EXTENDS FiniteSetTheorems, SequenceTheorems, WellFoundedInduction, Tools, TLAPS

(* What a text is made of; decoding a quote brings in the quote.           *)
Symbols == STRING \cup {"q", "missing"}
Text == Seq(Symbols)

-----------------------------------------------------------------------------
(* Induction, and functions defined by a recurrence.                        *)

(* Induction over the naturals, with the property as a set.                 *)
LEMMA Induction ==
    ASSUME NEW S, 0 \in S, \A n \in Nat : n \in S => n + 1 \in S
    PROVE  \A n \in Nat : n \in S
<1> DEFINE R == OpToRel(<, Nat)
           U == Nat \ S
<1>1. IsWellFoundedOn(R, Nat)
  BY NatLessThanWellFounded
<1>2. \A m, n \in Nat : m < n => <<m, n>> \in R
  BY DEF OpToRel
<1> HIDE DEF R
<1>3. SUFFICES ASSUME U # {} PROVE FALSE
  OBVIOUS
<1>4. PICK n \in U : \A m \in U : <<m, n>> \notin R
  BY <1>1, <1>3, WFMin, Zenon
<1>5. n # 0 /\ n \in Nat
  OBVIOUS
<1>6. n - 1 \in Nat /\ n - 1 < n
  BY <1>5
<1>7. n - 1 \in S
  BY <1>2, <1>4, <1>5, <1>6
<1>8. QED
  BY <1>5, <1>6, <1>7

(* d follows the recurrence that begins at d0 and steps by F.               *)
Solves(d, d0, F, n) == d[0] = d0 /\ \A i \in 1..n : d[i] = F[<<i, d[i - 1]>>]

(* A recurrence with a step in D has a solution in D.                       *)
LEMMA Recurrence ==
    ASSUME NEW D, NEW d0 \in D, NEW F \in [Nat \X D -> D], NEW n \in Nat
    PROVE  \E d \in [0..n -> D] : Solves(d, d0, F, n)
<1> DEFINE Solved(m) == \E d \in [0..m -> D] : Solves(d, d0, F, m)
           S == {m \in Nat : Solved(m)}
<1>1. 0 \in S
  <2> DEFINE e == [i \in 0..0 |-> d0]
  <2>1. e \in [0..0 -> D] /\ e[0] = d0 /\ \A i \in 1..0 : e[i] = F[<<i, e[i - 1]>>]
    OBVIOUS
  <2> HIDE DEF e
  <2>2. Solved(0)
    BY <2>1 DEF Solves
  <2>3. QED
    BY <2>2
<1>2. ASSUME NEW m \in Nat, m \in S
      PROVE  m + 1 \in S
  <2>1. PICK d \in [0..m -> D] : d[0] = d0 /\ \A i \in 1..m : d[i] = F[<<i, d[i - 1]>>]
    BY <1>2 DEF Solves
  <2> DEFINE e == [i \in 0..(m + 1) |-> IF i = m + 1 THEN F[<<m + 1, d[m]>>] ELSE d[i]]
  <2>2. e \in [0..(m + 1) -> D]
    BY <2>1
  <2>3. e[0] = d0 /\ \A i \in 1..(m + 1) : e[i] = F[<<i, e[i - 1]>>]
    <3>1. e[0] = d0
      BY <2>1
    <3>2. ASSUME NEW i \in 1..m PROVE e[i] = F[<<i, e[i - 1]>>]
      <4>1. e[i] = d[i] /\ e[i - 1] = d[i - 1]
        BY <2>1
      <4>2. QED
        BY <2>1, <4>1
    <3>3. e[m + 1] = F[<<m + 1, d[m]>>] /\ e[m] = d[m]
      BY <2>1
    <3> HIDE DEF e
    <3>4. \A i \in 1..(m + 1) : i \in 1..m \/ i = m + 1
      OBVIOUS
    <3>5. (m + 1) - 1 = m
      OBVIOUS
    <3>6. QED
      BY <3>1, <3>2, <3>3, <3>4, <3>5
  <2> HIDE DEF e
  <2>4. Solved(m + 1)
    BY <2>2, <2>3 DEF Solves
  <2>5. QED
    BY <2>4
<1>3. n \in S
  <2> HIDE DEF S
  <2>1. QED
    BY <1>1, <1>2, Induction
<1>4. QED
  BY <1>3

-----------------------------------------------------------------------------
(* The anchor search: left to right, none overlapping.                      *)

Search == [from : Nat, found : Seq(Nat)]
Begun == [from |-> 1, found |-> <<>>]

(* A search begins as one.                                                  *)
LEMMA BegunType == Begun \in Search
BY DEF Begun, Search

(* A look at a place keeps the search one.                                  *)
LEMMA LooksAtType ==
    ASSUME NEW src \in Text, NEW anchor \in Text, NEW m \in Search, NEW i \in Nat
    PROVE  looksAt(src, anchor, m, i) \in Search
<1>1. Append(m.found, i) \in Seq(Nat) /\ i + Len(anchor) \in Nat
  BY DEF Search, Text
<1>2. [from |-> i + Len(anchor), found |-> Append(m.found, i)] \in Search
  BY <1>1, Zenon DEF Search
<1>3. QED
  BY <1>2, Zenon DEF looksAt

(* matches is a run of the search over the places of the text.              *)
LEMMA MatchesRuns ==
    ASSUME NEW src \in Text, NEW anchor \in Text
    PROVE  \E d \in [0..Len(src) -> Search] :
              /\ matches(src, anchor) = d[Len(src)].found /\ d[0] = Begun
              /\ \A i \in 1..Len(src) : d[i] = looksAt(src, anchor, d[i - 1], i)
<1> DEFINE n == Len(src)
           F == [p \in Nat \X Search |-> looksAt(src, anchor, p[2], p[1])]
           Fits(d) == d = [i \in 0..Len(src) |-> IF i = 0 THEN [from |-> 1, found |-> <<>>]
                                                 ELSE looksAt(src, anchor, d[i - 1], i)]
           run == CHOOSE d : Fits(d)
<1>1. F \in [Nat \X Search -> Search]
  <2>1. ASSUME NEW p \in Nat \X Search PROVE looksAt(src, anchor, p[2], p[1]) \in Search
    <3>1. p[2] \in Search /\ p[1] \in Nat
      OBVIOUS
    <3>2. QED
      BY <3>1, LooksAtType, Zenon
  <2>2. QED
    BY <2>1, Zenon
<1>2. \A i \in Nat : \A g \in Search : F[<<i, g>>] = looksAt(src, anchor, g, i)
  <2>1. ASSUME NEW i \in Nat, NEW g \in Search
        PROVE  F[<<i, g>>] = looksAt(src, anchor, g, i)
    <3>1. <<i, g>> \in Nat \X Search /\ <<i, g>>[1] = i /\ <<i, g>>[2] = g
      OBVIOUS
    <3>2. QED
      BY <3>1, Zenon
  <2>2. QED
    BY <2>1
<1>3. Len(src) \in Nat
  BY DEF Text
<1> HIDE DEF F
<1>4. PICK e \in [0..Len(src) -> Search] : e[0] = Begun /\ \A i \in 1..Len(src) : e[i] = F[<<i, e[i - 1]>>]
  <2>1. \E e \in [0..Len(src) -> Search] : Solves(e, Begun, F, Len(src))
    BY <1>1, <1>3, BegunType, Recurrence, Zenon
  <2>2. QED
    BY <2>1, Zenon DEF Solves
<1>5. \A i \in 1..Len(src) : e[i] = looksAt(src, anchor, e[i - 1], i)
  <2>1. \A i \in 1..Len(src) : i - 1 \in 0..Len(src) /\ i \in Nat
    BY <1>3
  <2>2. \A i \in 1..Len(src) : e[i - 1] \in Search
    BY <1>4, <2>1
  <2>3. QED
    BY <1>2, <1>4, <2>1, <2>2, Zenon
<1>6. Fits(e)
  <2>1. \A i \in 0..Len(src) : e[i] = IF i = 0 THEN [from |-> 1, found |-> <<>>] ELSE looksAt(src, anchor, e[i - 1], i)
    <3>1. \A i \in 0..Len(src) : i = 0 \/ i \in 1..Len(src)
      BY <1>3
    <3>2. \A i \in 1..Len(src) : i # 0
      BY <1>3
    <3>3. QED
      BY <1>4, <1>5, <3>1, <3>2, Zenon DEF Begun
  <2>2. QED
    BY <2>1, Zenon
<1>7. Fits(run)
  BY <1>6, Zenon
<1>8. matches(src, anchor) = run[Len(src)].found
  BY Zenon DEF matches
<1> HIDE DEF run
<1>9. run[0] = Begun /\ \A i \in 1..Len(src) : run[i] = looksAt(src, anchor, run[i - 1], i)
  <2>1. \A i \in 0..Len(src) : run[i] = IF i = 0 THEN [from |-> 1, found |-> <<>>] ELSE looksAt(src, anchor, run[i - 1], i)
    BY <1>7, Zenon
  <2>2. 0 \in 0..Len(src) /\ \A i \in 1..Len(src) : i \in 0..Len(src) /\ i # 0
    BY <1>3
  <2>3. QED
    BY <2>1, <2>2, Zenon DEF Begun
<1>10. \A i \in Nat : i <= Len(src) => run[i] \in Search
  <2> DEFINE S == {i \in Nat : i <= Len(src) => run[i] \in Search}
  <2>1. 0 \in S
    BY <1>9, BegunType
  <2>2. ASSUME NEW i \in Nat, i \in S PROVE i + 1 \in S
    <3>1. CASE i + 1 <= Len(src)
      <4>1. i + 1 \in 1..Len(src) /\ (i + 1) - 1 = i /\ run[i] \in Search /\ i + 1 \in Nat
        BY <1>3, <2>2, <3>1
      <4>2. run[i + 1] = looksAt(src, anchor, run[i], i + 1)
        BY <1>9, <4>1
      <4>3. run[i + 1] \in Search
        BY <4>1, <4>2, LooksAtType
      <4>4. QED
        BY <4>3
    <3>2. QED
      BY <3>1
  <2> HIDE DEF S
  <2>3. \A i \in Nat : i \in S
    BY <2>1, <2>2, Induction
  <2>4. QED
    BY <2>3 DEF S
<1>11. run \in [0..Len(src) -> Search]
  <2>1. run = [i \in 0..Len(src) |-> IF i = 0 THEN [from |-> 1, found |-> <<>>] ELSE looksAt(src, anchor, run[i - 1], i)]
    BY <1>7, Zenon
  <2> DEFINE G(i) == IF i = 0 THEN [from |-> 1, found |-> <<>>] ELSE looksAt(src, anchor, run[i - 1], i)
  <2> HIDE DEF G
  <2>2. run = [i \in 0..Len(src) |-> G(i)]
    BY <2>1, Zenon DEF G
  <2>3. \A i \in 0..Len(src) : run[i] \in Search
    BY <1>3, <1>10
  <2>4. QED
    BY <2>2, <2>3
<1>12. QED
  BY <1>8, <1>9, <1>11, Zenon

(* A search that has looked at the first i places: it goes on after the     *)
(* last match it found, its matches are places of the anchor, and every     *)
(* place of the anchor so far begins inside one of them.                    *)
Held(src, anchor, i, m) ==
    /\ m.from # 1 => \E k \in DOMAIN m.found : m.from = m.found[k] + Len(anchor)
    /\ \A k \in DOMAIN m.found : m.found[k] \in 1..i /\ at(src, anchor, m.found[k])
    /\ \A j \in 1..i : at(src, anchor, j) =>
          \E k \in DOMAIN m.found : m.found[k] <= j /\ j < m.found[k] + Len(anchor)

(* One more place keeps it so.                                              *)
LEMMA LooksAtHolds ==
    ASSUME NEW src \in Text, NEW anchor \in Text, anchor # <<>>, NEW m \in Search, NEW i \in Nat,
           Held(src, anchor, i, m)
    PROVE  Held(src, anchor, i + 1, looksAt(src, anchor, m, i + 1))
<1> DEFINE n == i + 1
           L == Len(anchor)
           r == looksAt(src, anchor, m, n)
           here == at(src, anchor, n)
<1>1. m.from \in Nat /\ m.found \in Seq(Nat) /\ L \in Nat /\ L > 0
  BY DEF Search, Text
<1>2. m.from # 1 => \E k \in DOMAIN m.found : m.from = m.found[k] + L
  BY DEF Held
<1>3. \A k \in DOMAIN m.found : m.found[k] \in 1..i /\ at(src, anchor, m.found[k])
  BY DEF Held
<1>4. \A j \in 1..i : at(src, anchor, j) => \E k \in DOMAIN m.found : m.found[k] <= j /\ j < m.found[k] + L
  BY DEF Held
<1>5. n \in Nat /\ \A j \in 1..n : j \in 1..i \/ j = n
  OBVIOUS
<1>6. CASE n >= m.from /\ here
  <2> DEFINE g == Append(m.found, n)
             c == Len(m.found) + 1
  <2>1. r.from = n + L /\ r.found = g
    BY <1>6, Zenon DEF looksAt
  <2>2. /\ DOMAIN g = 1..c /\ c \in DOMAIN g /\ g[c] = n
        /\ \A k \in DOMAIN m.found : k \in DOMAIN g /\ g[k] = m.found[k]
        /\ \A k \in DOMAIN g : k \in DOMAIN m.found \/ k = c
    BY <1>1, <1>5
  <2> HIDE DEF g, c
  <2>3. r.from = g[c] + L
    BY <2>1, <2>2
  <2>4. \A k \in DOMAIN g : g[k] \in 1..n /\ at(src, anchor, g[k])
    <3> TAKE k \in DOMAIN g
    <3>1. CASE k = c
      <4>1. n \in 1..n
        BY <1>5
      <4>2. QED
        BY <1>6, <2>2, <3>1, <4>1
    <3>2. CASE k \in DOMAIN m.found
      <4>1. g[k] = m.found[k] /\ m.found[k] \in 1..i /\ at(src, anchor, m.found[k])
        BY <1>3, <2>2, <3>2
      <4>2. g[k] \in 1..n
        BY <4>1
      <4>3. QED
        BY <4>1, <4>2
    <3>3. QED
      BY <2>2, <3>1, <3>2
  <2>5. \A j \in 1..n : at(src, anchor, j) => \E k \in DOMAIN g : g[k] <= j /\ j < g[k] + L
    <3> SUFFICES ASSUME NEW j \in 1..n, at(src, anchor, j)
                 PROVE  \E k \in DOMAIN g : g[k] <= j /\ j < g[k] + L
      OBVIOUS
    <3>1. CASE j = n
      <4>1. g[c] <= j /\ j < g[c] + L
        BY <1>1, <1>5, <2>2, <3>1
      <4>2. QED
        BY <2>2, <4>1
    <3>2. CASE j \in 1..i
      <4>1. PICK k \in DOMAIN m.found : m.found[k] <= j /\ j < m.found[k] + L
        BY <1>4, <3>2
      <4>2. k \in DOMAIN g /\ g[k] = m.found[k]
        BY <2>2
      <4>3. QED
        BY <4>1, <4>2
    <3>3. QED
      BY <1>5, <3>1, <3>2
  <2>6. QED
    BY <2>1, <2>2, <2>3, <2>4, <2>5, Zenon DEF Held
<1>7. CASE ~(n >= m.from /\ here)
  <2>1. r = m
    BY <1>7, Zenon DEF looksAt
  <2>2. \A k \in DOMAIN m.found : m.found[k] \in 1..n /\ at(src, anchor, m.found[k])
    BY <1>3
  <2>3. \A j \in 1..n : at(src, anchor, j) => \E k \in DOMAIN m.found : m.found[k] <= j /\ j < m.found[k] + L
    <3> SUFFICES ASSUME NEW j \in 1..n, at(src, anchor, j)
                 PROVE  \E k \in DOMAIN m.found : m.found[k] <= j /\ j < m.found[k] + L
      OBVIOUS
    <3>1. CASE j = n
      <4>1. m.from > n
        BY <1>1, <1>7, <3>1
      <4>2. PICK k \in DOMAIN m.found : m.from = m.found[k] + L
        BY <1>1, <1>2, <1>5, <4>1
      <4>3. m.found[k] \in 1..i
        BY <1>3
      <4>4. m.found[k] <= j /\ j < m.found[k] + L
        BY <1>1, <3>1, <4>1, <4>2, <4>3
      <4>5. QED
        BY <4>4
    <3>2. CASE j \in 1..i
      BY <1>4, <3>2
    <3>3. QED
      BY <1>5, <3>1, <3>2
  <2>4. QED
    BY <1>2, <2>1, <2>2, <2>3, Zenon DEF Held
<1>8. QED
  BY <1>6, <1>7

(* The search is sound and complete: what it finds are places of the anchor,*)
(* and every place of the anchor begins inside a match.                     *)
LEMMA MatchesFound ==
    ASSUME NEW src \in Text, NEW anchor \in Text, anchor # <<>>
    PROVE  /\ matches(src, anchor) \in Seq(Nat)
           /\ \A k \in DOMAIN matches(src, anchor) :
                 matches(src, anchor)[k] \in DOMAIN src /\ at(src, anchor, matches(src, anchor)[k])
           /\ \A j \in occurrences(src, anchor) : \E k \in DOMAIN matches(src, anchor) :
                 matches(src, anchor)[k] <= j /\ j < matches(src, anchor)[k] + Len(anchor)
<1> DEFINE n == Len(src)
<1>1. n \in Nat /\ DOMAIN src = 1..n
  BY DEF Text
<1>2. PICK d \in [0..n -> Search] :
         /\ matches(src, anchor) = d[n].found /\ d[0] = Begun
         /\ \A i \in 1..n : d[i] = looksAt(src, anchor, d[i - 1], i)
  BY MatchesRuns
<1> HIDE DEF n
<1> DEFINE S == {i \in Nat : i <= n => Held(src, anchor, i, d[i])}
<1>3. 0 \in S
  <2>1. DOMAIN Begun.found = {} /\ Begun.from = 1
    BY DEF Begun
  <2>2. 1..0 = {}
    OBVIOUS
  <2>3. Held(src, anchor, 0, Begun)
    BY <2>1, <2>2, Zenon DEF Held
  <2>4. QED
    BY <1>2, <2>3
<1>4. ASSUME NEW i \in Nat, i \in S PROVE i + 1 \in S
  <2>1. CASE i + 1 <= n
    <3>1. i + 1 \in 1..n /\ i \in 0..n /\ (i + 1) - 1 = i /\ Held(src, anchor, i, d[i])
      BY <1>1, <1>4, <2>1
    <3>2. d[i + 1] = looksAt(src, anchor, d[i], i + 1) /\ d[i] \in Search
      BY <1>2, <3>1
    <3>3. Held(src, anchor, i + 1, d[i + 1])
      BY <3>1, <3>2, LooksAtHolds
    <3>4. QED
      BY <3>3
  <2>2. QED
    BY <2>1
<1> HIDE DEF S
<1>5. \A i \in Nat : i \in S
  BY <1>3, <1>4, Induction
<1>6. Held(src, anchor, n, d[n])
  BY <1>1, <1>5 DEF S
<1>7. d[n].found \in Seq(Nat)
  BY <1>1, <1>2 DEF Search
<1>8. \A j \in occurrences(src, anchor) : j \in 1..n /\ at(src, anchor, j)
  BY <1>1, Zenon DEF occurrences
<1>9. QED
  BY <1>1, <1>2, <1>6, <1>7, <1>8, Zenon DEF Held

-----------------------------------------------------------------------------
(* Texts.                                                                   *)

(* Texts are closed under joining and cutting.                              *)
LEMMA TextOps ==
    /\ <<>> \in Text
    /\ Seq(STRING) \subseteq Text
    /\ \A s, t \in Text : s \o t \in Text
    /\ \A s \in Text : Len(s) \in Nat /\ DOMAIN s = 1..Len(s)
    /\ \A s \in Text : \A n \in 0..Len(s) : SubSeq(s, 1, n) \in Text /\ Len(SubSeq(s, 1, n)) = n
    /\ \A s \in Text : \A n \in Nat \ {0} : SubSeq(s, n, Len(s)) \in Text
    /\ \A s \in Text : SubSeq(s, 1, Len(s)) = s
<1>1. <<>> \in Text /\ \A s, t \in Text : s \o t \in Text
  BY DEF Text
<1>2. Seq(STRING) \subseteq Text
  <2>1. STRING \subseteq Symbols
    BY DEF Symbols
  <2>2. ASSUME NEW s \in Seq(STRING) PROVE s \in Seq(Symbols)
    <3>1. s \in [1..Len(s) -> STRING] /\ Len(s) \in Nat
      OBVIOUS
    <3>2. s \in [1..Len(s) -> Symbols]
      BY <2>1, <3>1
    <3>3. QED
      BY <3>1, <3>2
  <2>3. QED
    BY <2>2 DEF Text
<1>3. \A s \in Text : Len(s) \in Nat /\ DOMAIN s = 1..Len(s)
  BY DEF Text
<1>4. \A s \in Text : \A n \in 0..Len(s) : SubSeq(s, 1, n) \in Text /\ Len(SubSeq(s, 1, n)) = n
  BY DEF Text
<1>5. \A s \in Text : \A n \in Nat \ {0} : SubSeq(s, n, Len(s)) \in Text
  BY DEF Text
<1>6. \A s \in Text : SubSeq(s, 1, Len(s)) = s
  BY DEF Text
<1>7. QED
  BY <1>1, <1>2, <1>3, <1>4, <1>5, <1>6

(* What is read of a file is a text; a file under the cap is read whole.    *)
LEMMA ReadBounded ==
    ASSUME NEW text \in Text
    PROVE  /\ readBounded(text).data \in Text
           /\ ~readBounded(text).over => readBounded(text).data = text
<1> DEFINE n == IF Len(text) < maxFileBytes THEN Len(text) ELSE maxFileBytes
<1>1. maxFileBytes \in Nat \ {0} /\ Len(text) \in Nat
  BY ToolsAssumption, TextOps
<1>2. n \in 0..Len(text)
  BY <1>1
<1>3. readBounded(text).data = SubSeq(text, 1, n) /\ readBounded(text).over = (Len(text) > maxFileBytes)
  BY Zenon DEF readBounded
<1>4. ~(Len(text) > maxFileBytes) => n = Len(text)
  BY <1>1
<1> HIDE DEF n
<1>5. SubSeq(text, 1, n) \in Text /\ SubSeq(text, 1, Len(text)) = text
  BY <1>2, TextOps
<1>6. QED
  BY <1>3, <1>4, <1>5, Zenon

(* An empty text adds nothing, and the old text of a file is a text.        *)
LEMMA OldText ==
    ASSUME NEW text \in Text
    PROVE  /\ old(text) \in Text /\ (There(text) => old(text) = text)
           /\ ~There(text) => old(text) = <<>>
           /\ <<>> \o text = text
<1>1. <<>> \in Text /\ <<>> \o text = text
  BY DEF Text
<1>2. QED
  BY <1>1, Zenon DEF old

(* A failed write leaves a text.                                            *)
LEMMA TornText ==
    ASSUME NEW body \in Text, NEW before \in Text, NEW s \in torn(body, before)
    PROVE  s \in Text
BY TextOps DEF torn

(* Decoding the quotes of a text leaves a text, and does nothing to one     *)
(* without escapes.                                                         *)
LEMMA QuoteDecoded ==
    ASSUME NEW s \in Text
    PROVE  /\ quoteDecoded(s) \in Text
           /\ decodes(s) => quoteDecoded(s) = s
<1> DEFINE t == [i \in DOMAIN s |-> IF s[i] = "eq" THEN "q" ELSE s[i]]
<1>1. quoteDecoded(s) = t
  BY Zenon DEF quoteDecoded
<1>2. s \in [1..Len(s) -> Symbols] /\ Len(s) \in Nat /\ DOMAIN s = 1..Len(s)
  BY DEF Text
<1>3. \A i \in 1..Len(s) : (IF s[i] = "eq" THEN "q" ELSE s[i]) \in Symbols
  BY <1>2 DEF Symbols
<1>4. t \in [1..Len(s) -> Symbols]
  BY <1>2, <1>3
<1>5. t \in Seq(Symbols)
  BY <1>2, <1>4
<1>6. ASSUME decodes(s) PROVE t = s
  <2>1. \A i \in DOMAIN s : s[i] # "eq"
    BY <1>6 DEF decodes
  <2>2. \A i \in 1..Len(s) : t[i] = s[i]
    BY <1>2, <2>1
  <2> HIDE DEF t
  <2>3. QED
    BY <1>2, <1>4, <2>2
<1>7. QED
  BY <1>1, <1>5, <1>6 DEF Text

(* Stripping the wrappers of two texts leaves texts.                        *)
LEMMA StrippedText ==
    ASSUME NEW o \in Text, NEW n \in Text, isQuoted(o)
    PROVE  stripped(o, n).old \in Text /\ stripped(o, n).new \in Text
<1>1. \A s \in Text : isQuoted(s) => inside(s) \in Text
  <2> SUFFICES ASSUME NEW s \in Text, isQuoted(s) PROVE inside(s) \in Text
    OBVIOUS
  <2>1. Len(s) \in Nat /\ Len(s) >= 2
    BY TextOps DEF isQuoted
  <2>2. SubSeq(s, 2, Len(s) - 1) \in Text
    BY <2>1 DEF Text
  <2>3. QED
    BY <2>2 DEF inside
<1>2. QED
  BY <1>1, Zenon DEF stripped

-----------------------------------------------------------------------------
(* Cutting a text at an anchor, and counting lines.                         *)

(* A slice is the slices either side of a cut.                              *)
LEMMA Sliced ==
    ASSUME NEW s \in Text, NEW a \in Nat \ {0}, NEW b \in Nat, NEW c \in Nat,
           a <= b + 1, b <= c, c <= Len(s)
    PROVE  SubSeq(s, a, c) = SubSeq(s, a, b) \o SubSeq(s, b + 1, c)
<1> DEFINE x == SubSeq(s, a, c)
           y == SubSeq(s, a, b)
           z == SubSeq(s, b + 1, c)
           n == c - a + 1
           m == b - a + 1
<1>1. s \in Seq(Symbols) /\ Len(s) \in Nat /\ n \in Nat /\ m \in Nat /\ c - (b + 1) + 1 = n - m /\ n - m \in Nat
  BY DEF Text
<1>2. x \in Seq(Symbols) /\ Len(x) = n /\ \A i \in 1..n : x[i] = s[a + i - 1]
  <2>1. \A i \in a..c : s[i] \in Symbols
    BY <1>1
  <2>2. QED
    BY <1>1, <2>1, SubSeqProperties
<1>3. y \in Seq(Symbols) /\ Len(y) = m /\ \A i \in 1..m : y[i] = s[a + i - 1]
  <2>1. \A i \in a..b : s[i] \in Symbols
    BY <1>1
  <2>2. QED
    BY <1>1, <2>1, SubSeqProperties
<1>4. z \in Seq(Symbols) /\ Len(z) = n - m /\ \A i \in 1..(n - m) : z[i] = s[(b + 1) + i - 1]
  <2>1. \A i \in (b + 1)..c : s[i] \in Symbols
    BY <1>1
  <2>2. QED
    BY <1>1, <2>1, SubSeqProperties
<1> DEFINE w == y \o z
<1> HIDE DEF x, y, z
<1>5. w \in Seq(Symbols) /\ Len(w) = n
      /\ \A i \in 1..n : w[i] = IF i <= m THEN y[i] ELSE z[i - m]
  <2>1. Len(y) + Len(z) = n
    BY <1>1, <1>3, <1>4
  <2>2. w \in Seq(Symbols) /\ Len(w) = Len(y) + Len(z)
        /\ \A i \in 1..(Len(y) + Len(z)) : w[i] = IF i <= Len(y) THEN y[i] ELSE z[i - Len(y)]
    BY <1>3, <1>4, ConcatProperties, Zenon
  <2>3. QED
    BY <1>3, <2>1, <2>2
<1>6. \A i \in 1..n : x[i] = w[i]
  <2> SUFFICES ASSUME NEW i \in 1..n PROVE x[i] = w[i]
    OBVIOUS
  <2>1. CASE i <= m
    <3>1. i \in 1..m
      BY <1>1, <2>1
    <3>2. w[i] = y[i]
      BY <1>5, <2>1, Zenon
    <3>3. QED
      BY <1>2, <1>3, <3>1, <3>2, Zenon
  <2>2. CASE i > m
    <3>1. i - m \in 1..(n - m) /\ (b + 1) + (i - m) - 1 = a + i - 1
      BY <1>1, <2>2
    <3>2. z[i - m] = s[a + i - 1]
      BY <1>4, <3>1
    <3>3. ~(i <= m)
      BY <1>1, <2>2
    <3>4. w[i] = z[i - m]
      BY <1>5, <3>3, Zenon
    <3>5. QED
      BY <1>2, <3>2, <3>4, Zenon
  <2>3. i <= m \/ i > m
    BY <1>1
  <2>4. QED
    BY <2>1, <2>2, <2>3, Zenon
<1>7. x = w
  <2> HIDE DEF w
  <2>1. QED
    BY <1>2, <1>5, <1>6, SeqEqual
<1>8. QED
  BY <1>7 DEF x, y, z

(* A text cut at a place of the anchor.                                     *)
LEMMA CutAtAnchor ==
    ASSUME NEW src \in Text, NEW anchor \in Text, anchor # <<>>,
           NEW i \in DOMAIN src, at(src, anchor, i)
    PROVE  /\ Before(src, i) \in Text /\ From(src, i) \in Text
           /\ Before(src, i + Len(anchor)) \in Text /\ From(src, i + Len(anchor)) \in Text
           /\ Before(src, i + Len(anchor)) = Before(src, i) \o anchor
           /\ From(src, i) = anchor \o From(src, i + Len(anchor))
           /\ src = Before(src, i) \o From(src, i)
           /\ Len(Before(src, i)) = i - 1
<1> DEFINE L == Len(anchor)
           n == Len(src)
           b == i - 1
           c == (i + L) - 1
<1>1. /\ L \in Nat /\ L > 0 /\ n \in Nat /\ i \in Nat /\ i >= 1 /\ i <= n
      /\ i + L - 1 <= n /\ SubSeq(src, i, i + L - 1) = anchor
  BY TextOps DEF at, Text
<1>2. i + L - 1 = c
  BY <1>1
<1>3. Before(src, i) = SubSeq(src, 1, b) /\ From(src, i) = SubSeq(src, i, n)
      /\ Before(src, i + L) = SubSeq(src, 1, c) /\ From(src, i + L) = SubSeq(src, i + L, n)
  BY Zenon DEF Before, From
<1>4. /\ b \in Nat /\ c \in Nat /\ b + 1 = i /\ c + 1 = i + L /\ i \in Nat \ {0} /\ i + L \in Nat \ {0}
      /\ i <= c + 1 /\ 1 <= b + 1 /\ b <= c /\ b <= n /\ c <= n /\ n <= n
      /\ b \in 0..n /\ c \in 0..n /\ 1 \in Nat \ {0}
  <2>1. b \in Nat /\ c \in Nat /\ b + 1 = i /\ c + 1 = i + L /\ i \in Nat \ {0} /\ i + L \in Nat \ {0}
    BY <1>1
  <2>2. i <= c + 1 /\ 1 <= b + 1 /\ b <= c /\ b <= n /\ c <= n /\ n <= n
    BY <1>1
  <2>3. b \in 0..n /\ c \in 0..n
    <3> HIDE DEF b, c, n
    <3>1. QED
      BY <1>1, <2>1, <2>2
  <2>4. 1 \in Nat \ {0}
    OBVIOUS
  <2>5. QED
    BY <2>1, <2>2, <2>3, <2>4, Zenon
<1>5. SubSeq(src, i, c) = anchor
  BY <1>1, <1>2, Zenon
<1>6. n = Len(src) /\ b = i - 1 /\ L = Len(anchor) /\ c <= Len(src) /\ n <= Len(src)
  BY <1>4
<1> HIDE DEF L, n, b, c
<1>7. Before(src, i) \in Text /\ From(src, i) \in Text /\ Before(src, i + L) \in Text /\ From(src, i + L) \in Text
      /\ Len(Before(src, i)) = b
  <2>1. SubSeq(src, 1, b) \in Text /\ Len(SubSeq(src, 1, b)) = b /\ SubSeq(src, 1, c) \in Text
    BY <1>4, <1>6, TextOps
  <2>2. SubSeq(src, i, n) \in Text /\ SubSeq(src, i + L, n) \in Text
    BY <1>4, <1>6, TextOps
  <2>3. QED
    BY <1>3, <2>1, <2>2, Zenon
<1>8. SubSeq(src, 1, c) = SubSeq(src, 1, b) \o SubSeq(src, b + 1, c)
  <2>1. 1 \in Nat \ {0} /\ b \in Nat /\ c \in Nat
    BY <1>1, <1>4
  <2>2. 1 <= b + 1 /\ b <= c /\ c <= Len(src)
    BY <1>1, <1>4, <1>6
  <2>3. QED
    BY <2>1, <2>2, Sliced
<1>9. SubSeq(src, i, n) = SubSeq(src, i, c) \o SubSeq(src, c + 1, n)
  <2>1. i \in Nat \ {0} /\ c \in Nat /\ n \in Nat
    BY <1>1, <1>4
  <2>2. i <= c + 1 /\ c <= n /\ n <= Len(src)
    BY <1>1, <1>4, <1>6
  <2>3. QED
    BY <2>1, <2>2, Sliced
<1>10. SubSeq(src, 1, n) = SubSeq(src, 1, b) \o SubSeq(src, b + 1, n)
  <2>1. 1 \in Nat \ {0} /\ b \in Nat /\ n \in Nat
    BY <1>1, <1>4
  <2>2. 1 <= b + 1 /\ b <= n /\ n <= Len(src)
    BY <1>1, <1>4, <1>6
  <2>3. QED
    BY <2>1, <2>2, Sliced
<1>11. SubSeq(src, 1, n) = src
  BY <1>6, TextOps, Zenon
<1>12. QED
  BY <1>3, <1>4, <1>5, <1>6, <1>7, <1>8, <1>9, <1>10, <1>11, Zenon

(* Joining texts is associative.                                            *)
LEMMA Joined ==
    ASSUME NEW s \in Text, NEW t \in Text, NEW u \in Text
    PROVE  (s \o t) \o u = s \o (t \o u)
BY ConcatAssociative DEF Text

(* What stands in the anchor's place after a splice.                        *)
Spliced(anchor, new, mode) == CASE mode = "insert_before" -> new \o anchor
                                [] mode = "insert_after"  -> anchor \o new
                                [] OTHER -> new

(* A splice of a text is a text, and keeps what stands either side of the   *)
(* anchor: the anchor too, for an insertion.                                *)
LEMMA SpliceKeeps ==
    ASSUME NEW src \in Text, NEW anchor \in Text, anchor # <<>>, NEW new \in Text, NEW mode,
           NEW i \in DOMAIN src, at(src, anchor, i)
    PROVE  /\ splice(src, anchor, new, mode, i) \in Text
           /\ src = Before(src, i) \o anchor \o From(src, i + Len(anchor))
           /\ splice(src, anchor, new, mode, i) =
                 Before(src, i) \o Spliced(anchor, new, mode) \o From(src, i + Len(anchor))
<1> DEFINE pre == Before(src, i)
           post == From(src, i + Len(anchor))
           b == splice(src, anchor, new, mode, i)
           middle == Spliced(anchor, new, mode)
<1>1. /\ pre \in Text /\ post \in Text
      /\ Before(src, i + Len(anchor)) = pre \o anchor /\ From(src, i) = anchor \o post /\ src = pre \o From(src, i)
  BY CutAtAnchor, ZenonT(40)
<1>2. \A s, t, u \in Text : (s \o t) \o u = s \o (t \o u)
  <2> SUFFICES ASSUME NEW s \in Seq(Symbols), NEW t \in Seq(Symbols), NEW u \in Seq(Symbols)
               PROVE  (s \o t) \o u = s \o (t \o u)
    BY DEF Text
  <2>1. QED
    BY ConcatAssociative
<1>3. \A s, t \in Text : s \o t \in Text
  BY TextOps
<1> HIDE DEF pre, post
<1>4. src = (pre \o anchor) \o post
  <2>1. (pre \o anchor) \o post = pre \o (anchor \o post)
    BY <1>1, Joined, Zenon
  <2>2. QED
    BY <1>1, <2>1, Zenon
<1>5. CASE mode = "insert_before"
  <2>1. b = (pre \o new) \o From(src, i) /\ middle = new \o anchor
    BY <1>5, Zenon DEF splice, Spliced, pre
  <2>2. b = (pre \o new) \o (anchor \o post)
    BY <1>1, <2>1, Zenon
  <2>3. (pre \o new) \o (anchor \o post) = pre \o (new \o (anchor \o post))
    <3> DEFINE u == anchor \o post
    <3>1. u \in Text
      BY <1>1, <1>3
    <3> HIDE DEF u
    <3>2. (pre \o new) \o u = pre \o (new \o u)
      BY <1>1, <3>1, Joined, ZenonT(40)
    <3>3. QED
      BY <3>2 DEF u
  <2>4. new \o (anchor \o post) = (new \o anchor) \o post
    BY <1>1, <1>2, Zenon
  <2>5. (pre \o (new \o anchor)) \o post = pre \o ((new \o anchor) \o post)
    <3> DEFINE u == new \o anchor
    <3>1. u \in Text
      BY <1>3
    <3> HIDE DEF u
    <3>2. (pre \o u) \o post = pre \o (u \o post)
      BY <1>1, <3>1, Joined, ZenonT(40)
    <3>3. QED
      BY <3>2 DEF u
  <2>6. b = (pre \o middle) \o post
    BY <2>1, <2>2, <2>3, <2>4, <2>5, Zenon
  <2>7. (pre \o new) \o (anchor \o post) \in Text
    BY <1>1, <1>3
  <2>8. QED
    BY <1>4, <2>2, <2>6, <2>7, Zenon DEF pre, post
<1>6. CASE mode = "insert_after"
  <2>1. b = (Before(src, i + Len(anchor)) \o new) \o post /\ middle = anchor \o new
    BY <1>6, Zenon DEF splice, Spliced, post
  <2>2. b = ((pre \o anchor) \o new) \o post
    BY <1>1, <2>1, Zenon
  <2>3. (pre \o anchor) \o new = pre \o (anchor \o new)
    BY <1>1, <1>2, Zenon
  <2>4. b = (pre \o middle) \o post
    BY <2>1, <2>2, <2>3, Zenon
  <2>5. ((pre \o anchor) \o new) \o post \in Text
    BY <1>1, <1>3
  <2>6. QED
    BY <1>4, <2>2, <2>4, <2>5, Zenon DEF pre, post
<1>7. CASE mode # "insert_before" /\ mode # "insert_after"
  <2>1. b = (pre \o new) \o post /\ middle = new
    BY <1>7, Zenon DEF splice, Spliced, pre, post
  <2>2. (pre \o new) \o post \in Text
    BY <1>1, <1>3
  <2>3. QED
    BY <1>4, <2>1, <2>2, Zenon DEF pre, post
<1>8. QED
  BY <1>5, <1>6, <1>7, Zenon

(* The newlines of a joined text are those of its parts.                    *)
LEMMA NewlinesJoin ==
    ASSUME NEW s \in Text, NEW t \in Text
    PROVE  /\ Cardinality(newlines(s)) \in Nat /\ Cardinality(newlines(t)) \in Nat
           /\ Cardinality(newlines(s \o t)) = Cardinality(newlines(s)) + Cardinality(newlines(t))
<1> DEFINE m == Len(s)
           n == Len(t)
           A == newlines(s)
           B == newlines(t)
           f == [k \in B |-> m + k]
           C == {m + k : k \in B}
<1>1. m \in Nat /\ n \in Nat /\ DOMAIN s = 1..m /\ DOMAIN t = 1..n /\ s \o t \in Text
  BY TextOps
<1>2. A \subseteq 1..m /\ B \subseteq 1..n
  BY <1>1 DEF newlines
<1>3. IsFiniteSet(1..m) /\ IsFiniteSet(1..n)
  BY <1>1, FS_Interval
<1>4. IsFiniteSet(A) /\ IsFiniteSet(B)
  BY <1>2, <1>3, FS_Subset
<1>5. Cardinality(A) \in Nat /\ Cardinality(B) \in Nat
  BY <1>4, FS_CardinalityType
<1>6. IsFiniteSet(C) /\ Cardinality(C) = Cardinality(B)
  <2>1. f \in Bijection(B, C)
    <3>1. f \in [B -> C]
      OBVIOUS
    <3>2. \A j, k \in B : f[j] = f[k] => j = k
      <4> SUFFICES ASSUME NEW j \in B, NEW k \in B, f[j] = f[k] PROVE j = k
        OBVIOUS
      <4>1. j \in Nat /\ k \in Nat
        BY <1>1, <1>2
      <4>2. m + j = m + k
        OBVIOUS
      <4>3. QED
        BY <1>1, <4>1, <4>2
    <3>3. \A c \in C : \E k \in B : f[k] = c
      OBVIOUS
    <3> HIDE DEF f, C
    <3>4. f \in Injection(B, C)
      BY <3>1, <3>2 DEF Injection, IsInjective
    <3>5. f \in Surjection(B, C)
      BY <3>1, <3>3 DEF Surjection
    <3>6. QED
      BY <3>4, <3>5 DEF Bijection
  <2> HIDE DEF f
  <2>2. ExistsBijection(B, C)
    BY <2>1 DEF ExistsBijection
  <2>3. QED
    BY <1>4, <2>2, FS_Bijection
<1>7. newlines(s \o t) = A \cup C
  <2> DEFINE u == s \o t
  <2>1. DOMAIN u = 1..(m + n) /\ \A i \in 1..(m + n) : u[i] = IF i <= m THEN s[i] ELSE t[i - m]
    <3>1. /\ Len(s \o t) = Len(s) + Len(t)
          /\ \A i \in 1..(Len(s) + Len(t)) : (s \o t)[i] = IF i <= Len(s) THEN s[i] ELSE t[i - Len(s)]
      BY ConcatProperties DEF Text
    <3>2. DOMAIN u = 1..Len(u)
      BY <1>1, TextOps
    <3>3. QED
      BY <3>1, <3>2
  <2> HIDE DEF u
  <2>2. newlines(u) = {i \in 1..(m + n) : u[i] = "nl"}
    BY <2>1, Zenon DEF newlines
  <2>3. A = {i \in 1..m : s[i] = "nl"} /\ B = {i \in 1..n : t[i] = "nl"}
    BY <1>1, Zenon DEF newlines
  <2> HIDE DEF m, n, A, B
  <2>4. ASSUME NEW i \in newlines(u) PROVE i \in A \cup C
    <3>1. i \in 1..(m + n) /\ u[i] = "nl"
      BY <2>2
    <3>2. CASE i <= m
      <4>1. i \in 1..m /\ s[i] = "nl"
        BY <1>1, <2>1, <3>1, <3>2
      <4>2. QED
        BY <2>3, <4>1
    <3>3. CASE ~(i <= m)
      <4>1. i - m \in 1..n /\ m + (i - m) = i
        BY <1>1, <3>1, <3>3
      <4>2. t[i - m] = "nl"
        BY <2>1, <3>1, <3>3, Zenon
      <4>3. i - m \in B
        BY <2>3, <4>1, <4>2
      <4>4. QED
        BY <4>1, <4>3
    <3>4. QED
      BY <3>2, <3>3
  <2>5. ASSUME NEW i \in A PROVE i \in newlines(u)
    <3>1. i \in 1..m /\ s[i] = "nl"
      BY <2>3
    <3>2. i \in 1..(m + n) /\ i <= m
      BY <1>1, <3>1
    <3>3. u[i] = "nl"
      BY <2>1, <3>1, <3>2, Zenon
    <3>4. QED
      BY <2>2, <3>2, <3>3
  <2>6. ASSUME NEW k \in B PROVE m + k \in newlines(u)
    <3>1. k \in 1..n /\ t[k] = "nl"
      BY <2>3
    <3>2. m + k \in 1..(m + n) /\ ~(m + k <= m) /\ (m + k) - m = k
      BY <1>1, <3>1
    <3>3. u[m + k] = t[(m + k) - m]
      BY <2>1, <3>2, Zenon
    <3>4. QED
      BY <2>2, <3>1, <3>2, <3>3
  <2>7. newlines(u) = A \cup C
    BY <2>4, <2>5, <2>6
  <2>8. QED
    BY <2>7 DEF u
<1>8. A \cap C = {}
  <2>1. \A k \in B : ~(m + k \in 1..m)
    BY <1>1, <1>2
  <2>2. QED
    BY <1>2, <2>1
<1> HIDE DEF A, B, C, m, n
<1>9. Cardinality(A \cup C) = Cardinality(A) + Cardinality(C)
  <2>1. Cardinality(A \cap C) = 0
    BY <1>8, FS_EmptySet
  <2>2. Cardinality(A \cup C) = Cardinality(A) + Cardinality(C) - Cardinality(A \cap C)
    BY <1>4, <1>6, FS_Union
  <2>3. QED
    BY <1>5, <1>6, <2>1, <2>2
<1>10. QED
  BY <1>5, <1>6, <1>7, <1>9 DEF A, B

(* A text has at least as many lines as newlines, and none only when empty. *)
LEMMA LineCount ==
    ASSUME NEW s \in Text
    PROVE  /\ lineCount(s) \in Nat /\ lineCount(s) >= Cardinality(newlines(s))
           /\ lineCount(s) = 0 => s = <<>>
<1> DEFINE c == Cardinality(newlines(s))
           rest == IF s # <<>> /\ Last(s) # "nl" THEN 1 ELSE 0
<1>1. c \in Nat
  BY NewlinesJoin
<1>2. lineCount(s) = c + rest
  BY DEF lineCount
<1>3. ASSUME s # <<>>, Last(s) = "nl" PROVE c # 0
  <2>1. Len(s) \in DOMAIN s /\ s[Len(s)] = "nl"
    BY <1>3 DEF Text, Last
  <2>2. newlines(s) # {}
    BY <2>1 DEF newlines
  <2>3. newlines(s) \subseteq 1..Len(s) /\ IsFiniteSet(1..Len(s))
    <3>1. Len(s) \in Nat /\ DOMAIN s = 1..Len(s)
      BY TextOps
    <3>2. QED
      BY <3>1, FS_Interval DEF newlines
  <2>4. IsFiniteSet(newlines(s))
    BY <2>3, FS_Subset
  <2>5. QED
    BY <2>2, <2>4, FS_EmptySet
<1> HIDE DEF c
<1>4. QED
  BY <1>1, <1>2, <1>3 DEF c

(* The line of a place counts the newlines before it.                       *)
LEMMA LineOfPlace ==
    ASSUME NEW src \in Text, NEW i \in DOMAIN src
    PROVE  lineOf(src, i) = 1 + Cardinality(newlines(Before(src, i)))
<1> DEFINE b == Before(src, i)
<1>1. Len(src) \in Nat /\ i \in 1..Len(src) /\ i - 1 \in 0..Len(src) /\ DOMAIN src = 1..Len(src)
  <2>1. Len(src) \in Nat /\ DOMAIN src = 1..Len(src)
    BY TextOps
  <2>2. QED
    BY <2>1
<1>2. b = SubSeq(src, 1, i - 1)
  BY DEF Before
<1>3. b \in Text /\ Len(b) = i - 1 /\ DOMAIN b = 1..(i - 1)
  <2>1. SubSeq(src, 1, i - 1) \in Text /\ Len(SubSeq(src, 1, i - 1)) = i - 1
    BY <1>1, TextOps
  <2> HIDE DEF b
  <2>2. b \in Text /\ Len(b) = i - 1
    BY <1>2, <2>1
  <2>3. DOMAIN b = 1..Len(b)
    BY <2>2, TextOps
  <2>4. QED
    BY <2>2, <2>3
<1>4. \A j \in 1..(i - 1) : b[j] = src[j]
  BY <1>1, <1>2 DEF Text
<1> HIDE DEF b
<1>5. \A j : j \in newlines(b) <=> j \in newlines(src) /\ j < i
  <2> SUFFICES ASSUME NEW j PROVE j \in newlines(b) <=> j \in newlines(src) /\ j < i
    OBVIOUS
  <2>1. j \in 1..(i - 1) <=> j \in 1..Len(src) /\ j < i
    BY <1>1
  <2>2. QED
    BY <1>1, <1>3, <1>4, <2>1 DEF newlines
<1>6. {j \in newlines(src) : j < i} = newlines(b)
  BY <1>5
<1>7. QED
  BY <1>6, Zenon DEF lineOf, b

(* The region an edit echoes is in the text it wrote, and shows a line of it*)
(* unless the text is empty.                                                *)
LEMMA EchoFits ==
    ASSUME NEW src \in Text, NEW anchor \in Text, anchor # <<>>, NEW new \in Text, NEW mode,
           NEW i \in DOMAIN src, at(src, anchor, i)
    PROVE  LET b == splice(src, anchor, new, mode, i)
               e == editEcho(src, b, anchor, new, mode, i)
           IN  /\ e.from \in 1..(e.to + 1) /\ e.to <= lineCount(b)
               /\ e.to < e.from => b = <<>>
<1> DEFINE b == splice(src, anchor, new, mode, i)
           e == editEcho(src, b, anchor, new, mode, i)
           pre == Before(src, i)
           post == From(src, i + Len(anchor))
           start == startLine(src, anchor, mode, i)
           count == IF new = <<>> THEN 0 ELSE Cardinality(newlines(new)) + 1
           total == lineCount(b)
           N(s) == Cardinality(newlines(s))
<1>1. /\ pre \in Text /\ post \in Text /\ b \in Text
      /\ b = pre \o Spliced(anchor, new, mode) \o post
  <2>1. pre \in Text /\ post \in Text
    BY CutAtAnchor, Zenon
  <2>2. b \in Text /\ b = pre \o Spliced(anchor, new, mode) \o post
    BY SpliceKeeps
  <2>3. QED
    BY <2>1, <2>2, Zenon
<1>2. lineOf(src, i) = 1 + N(pre)
  BY LineOfPlace
<1>3. start = 1 + N(pre) + IF mode = "insert_after" THEN N(anchor) ELSE 0
  <2>1. start = lineOf(src, i) + IF mode = "insert_after" THEN N(anchor) ELSE 0
    BY Zenon DEF startLine
  <2>2. QED
    BY <1>2, <2>1
<1>4. \A s, t \in Text : N(s) \in Nat /\ N(s \o t) = N(s) + N(t) /\ s \o t \in Text
  <2> SUFFICES ASSUME NEW s \in Text, NEW t \in Text PROVE N(s) \in Nat /\ N(s \o t) = N(s) + N(t) /\ s \o t \in Text
    OBVIOUS
  <2>1. QED
    BY NewlinesJoin, TextOps
<1>5. total \in Nat /\ total >= N(b) /\ (total = 0 => b = <<>>)
  BY <1>1, LineCount
<1>6. e = [from |-> IF start > 2 THEN start - 2 ELSE 1,
           to   |-> IF (IF count = 0 THEN start ELSE start + count - 1) + 2 > total THEN total
                    ELSE (IF count = 0 THEN start ELSE start + count - 1) + 2]
  BY Zenon DEF editEcho, echoRegion
<1>7. count \in Nat
  BY <1>4
<1> HIDE DEF b, pre, post, total, N, count
<1>8. start \in Nat /\ start >= 1 /\ start - 1 <= N(b)
  <2>1. CASE mode = "insert_after"
    <3>1. b = (pre \o (anchor \o new)) \o post
      BY <1>1, <2>1, Zenon DEF Spliced
    <3>2. anchor \o new \in Text /\ pre \o (anchor \o new) \in Text
      BY <1>1, <1>4
    <3>3. N(b) = N(pre \o (anchor \o new)) + N(post)
      BY <1>1, <1>4, <3>1, <3>2
    <3>4. N(pre \o (anchor \o new)) = N(pre) + N(anchor \o new)
      BY <1>1, <1>4, <3>2
    <3>5. N(anchor \o new) = N(anchor) + N(new) /\ N(anchor) \in Nat /\ N(new) \in Nat /\ N(pre) \in Nat /\ N(post) \in Nat
      BY <1>1, <1>4
    <3>6. QED
      BY <1>3, <2>1, <3>3, <3>4, <3>5
  <2>2. CASE mode # "insert_after"
    <3> DEFINE middle == Spliced(anchor, new, mode)
    <3>1. middle \in Text
      <4>1. new \o anchor \in Text
        BY <1>4
      <4>2. QED
        BY <2>2, <4>1, Zenon DEF Spliced
    <3>2. b = (pre \o middle) \o post
      BY <1>1, Zenon
    <3> HIDE DEF middle
    <3>3. pre \o middle \in Text
      BY <1>1, <1>4, <3>1
    <3>4. N(b) = N(pre \o middle) + N(post)
      BY <1>1, <1>4, <3>2, <3>3
    <3>5. N(pre \o middle) = N(pre) + N(middle) /\ N(middle) \in Nat /\ N(pre) \in Nat /\ N(post) \in Nat
      BY <1>1, <1>4, <3>1
    <3>6. QED
      BY <1>3, <2>2, <3>4, <3>5
  <2>3. QED
    BY <2>1, <2>2
<1> DEFINE last == IF count = 0 THEN start ELSE start + count - 1
<1>9. last \in Nat /\ last >= start
  BY <1>7, <1>8
<1>10. e.from = (IF start > 2 THEN start - 2 ELSE 1) /\ e.to = IF last + 2 > total THEN total ELSE last + 2
  BY <1>6
<1>11. N(b) \in Nat
  BY <1>1, <1>4
<1> HIDE DEF e, start, last
<1>12. e.from \in 1..(e.to + 1) /\ e.to <= total /\ (e.to < e.from => total = 0)
  BY <1>5, <1>8, <1>9, <1>10, <1>11
<1>13. QED
  BY <1>5, <1>12, Zenon DEF b, e, total

-----------------------------------------------------------------------------
(* The state of the tools: a call under way holds texts, and counts against *)
(* the bound until it is done.                                              *)

OpKinds == {"none", "write", "append", "appendInPlace", "try", "edit"}
ObsKinds == {"none", "empty", "pastEnd", "lines", "noSuchFile", "badRange", "error", "wrote", "edited"}
Calls == {<<>>} \cup UNION {Jobs[j].writes \cup Jobs[j].edits : j \in DOMAIN Jobs}
Ops == [kind : OpKinds, args : Calls, reading : {"raw", "quotes", "stripped"}, old : Text, new : Text,
        base : Text, body : Text, first : {"none", "escape", "notFound"}, touched : BOOLEAN]

Typed ==
    /\ duty \in DOMAIN Jobs /\ disk \in Text /\ op \in Ops /\ obs.kind \in ObsKinds
    /\ ev \in [gen : Nat, dirty : BOOLEAN, failed : BOOLEAN]
    /\ spent \in Nat /\ spent <= job.ops
    /\ ev.gen + (IF op.kind = "none" THEN 0 ELSE 1) <= spent
    /\ want \in [known : BOOLEAN, text : Text]
    /\ op.kind \in {"write", "append", "appendInPlace"} => op.args \in job.writes
    /\ op.kind \in {"try", "edit"} => op.args \in job.edits

(* What the successful writes add up to, while a write is under way too.    *)
Writing ==
    /\ want.known => disk = want.text
    /\ op.kind \in {"write", "appendInPlace"} => op.body = op.args.content
    /\ (op.kind = "append" /\ want.known) => op.body = old(want.text) \o op.args.content
    /\ ev.dirty => ev.failed

(* The reading an edit is at, what is known of the file when the quotes     *)
(* were stripped, and the edit made of the file that was read.              *)
First(e) == Readings(e)[1]

Editing ==
    op.kind \in {"try", "edit"} =>
       /\ op.reading # "stripped" => op.old = First(op.args).old /\ op.new = First(op.args).new
       /\ op.reading = "stripped" =>
             /\ op.args.text /\ strips(First(op.args).old, First(op.args).new)
             /\ op.old = stripped(First(op.args).old, First(op.args).new).old
             /\ op.new = stripped(First(op.args).old, First(op.args).new).new
             /\ ~op.touched => occurrences(IF op.kind = "try" THEN disk ELSE op.base, First(op.args).old) = {}
       /\ op.kind = "edit" =>
             /\ op.old # <<>> /\ Len(matches(op.base, op.old)) = 1
             /\ op.body = splice(op.base, op.old, op.new, op.args.mode, matches(op.base, op.old)[1])

FilesInv == Typed /\ Writing /\ Editing

(* The calls of the job are texts.                                          *)
LEMMA JobTexts ==
    ASSUME NEW j \in DOMAIN Jobs
    PROVE  /\ \A t \in Jobs[j].texts \cup Jobs[j].outside : t \in Text
           /\ \A w \in Jobs[j].writes : w \in Calls /\ w.content \in Text
           /\ \A e \in Jobs[j].edits : e \in Calls /\ e.old \in Text /\ e.new \in Text
           /\ Jobs[j].ops \in Nat /\ Jobs[j].window \in Nat
<1>1. Seq(STRING) \subseteq Text
  BY TextOps
<1>2. \A t \in Jobs[j].texts \cup Jobs[j].outside : t \in Text
  BY <1>1, JobsAssumption
<1>3. \A w \in Jobs[j].writes : w \in Calls /\ w.content \in Text
  BY <1>1, JobsAssumption DEF Calls
<1>4. \A e \in Jobs[j].edits : e \in Calls /\ e.old \in Text /\ e.new \in Text
  BY <1>1, JobsAssumption DEF Calls
<1>5. Jobs[j].ops \in Nat /\ Jobs[j].window \in Nat
  BY ToolsAssumption
<1>6. QED
  BY <1>2, <1>3, <1>4, <1>5

(* No call is under way.                                                    *)
LEMMA IdleOp == OpIdle \in Ops /\ OpIdle.kind = "none"
<1>1. <<>> \in Text /\ <<>> \in Calls
  BY TextOps DEF Calls
<1>2. QED
  BY <1>1, Zenon DEF OpIdle, Ops, OpKinds

(* A write about to land.                                                   *)
Pending(w, kind, base, body) == [OpIdle EXCEPT !.kind = kind, !.args = w, !.base = base, !.body = body]

(* It is a call under way.                                                  *)
LEMMA PendingOp ==
    ASSUME NEW w \in Calls, NEW kind \in OpKinds, NEW base \in Text, NEW body \in Text
    PROVE  /\ Pending(w, kind, base, body) \in Ops /\ Pending(w, kind, base, body).kind = kind
           /\ Pending(w, kind, base, body).args = w /\ Pending(w, kind, base, body).body = body
<1> DEFINE o == Pending(w, kind, base, body)
<1>1. OpIdle \in Ops
  BY IdleOp
<1>2. o \in Ops
  BY <1>1, Zenon DEF Pending, Ops
<1>3. o.kind = kind /\ o.args = w /\ o.body = body
  BY Zenon DEF Pending, OpIdle
<1>4. QED
  BY <1>2, <1>3

(* An edit at its first reading, as the fields are or with decoded quotes;  *)
(* and its steps: another reading, the write, and somebody else's write.    *)
Started(e) == [OpIdle EXCEPT !.kind = "try", !.args = e, !.old = e.old, !.new = e.new]
Quoted(e) == [Started(e) EXCEPT !.reading = "quotes", !.first = "escape",
                                !.old = quoteDecoded(e.old), !.new = quoteDecoded(e.new)]
Unwrapped(p, o, n) == [p EXCEPT !.reading = "stripped", !.first = "notFound", !.old = o, !.new = n]
Made(p, base, body) == [p EXCEPT !.kind = "edit", !.base = base, !.body = body]
Touched(p) == [p EXCEPT !.touched = TRUE]

(* The first reading is a call under way.                                   *)
LEMMA StartOp ==
    ASSUME NEW e \in Calls, e.old \in Text, e.new \in Text
    PROVE  /\ Started(e) \in Ops /\ Started(e).kind = "try" /\ Started(e).args = e /\ Started(e).reading = "raw"
           /\ Started(e).old = e.old /\ Started(e).new = e.new
           /\ Quoted(e) \in Ops /\ Quoted(e).kind = "try" /\ Quoted(e).args = e /\ Quoted(e).reading = "quotes"
           /\ Quoted(e).old = quoteDecoded(e.old) /\ Quoted(e).new = quoteDecoded(e.new)
<1>1. OpIdle \in Ops /\ "try" \in OpKinds
  BY IdleOp DEF OpKinds
<1>2. Started(e) \in Ops
  BY <1>1, Zenon DEF Started, Ops
<1>3. Started(e).kind = "try" /\ Started(e).args = e /\ Started(e).reading = "raw"
      /\ Started(e).old = e.old /\ Started(e).new = e.new
  BY Zenon DEF Started, OpIdle
<1>4. quoteDecoded(e.old) \in Text /\ quoteDecoded(e.new) \in Text
  BY QuoteDecoded
<1>5. Quoted(e) \in Ops
  BY <1>2, <1>4, Zenon DEF Quoted, Ops
<1>6. /\ Quoted(e).kind = "try" /\ Quoted(e).args = e /\ Quoted(e).reading = "quotes"
      /\ Quoted(e).old = quoteDecoded(e.old) /\ Quoted(e).new = quoteDecoded(e.new)
  BY <1>2, <1>3, Zenon DEF Quoted, Ops
<1>7. QED
  BY <1>2, <1>3, <1>5, <1>6, Zenon

(* Its steps keep it one, and change what they say.                         *)
LEMMA UnwrappedOp ==
    ASSUME NEW p \in Ops, NEW o \in Text, NEW n \in Text
    PROVE  /\ Unwrapped(p, o, n) \in Ops /\ Unwrapped(p, o, n).kind = p.kind /\ Unwrapped(p, o, n).args = p.args
           /\ Unwrapped(p, o, n).reading = "stripped" /\ Unwrapped(p, o, n).old = o /\ Unwrapped(p, o, n).new = n
<1>1. Unwrapped(p, o, n) \in Ops
  BY Zenon DEF Unwrapped, Ops
<1>2. /\ Unwrapped(p, o, n).kind = p.kind /\ Unwrapped(p, o, n).args = p.args
      /\ Unwrapped(p, o, n).reading = "stripped" /\ Unwrapped(p, o, n).old = o /\ Unwrapped(p, o, n).new = n
  BY Zenon DEF Unwrapped, Ops
<1>3. QED
  BY <1>1, <1>2

(* The edit made of the file that was read.                                 *)
LEMMA MadeOp ==
    ASSUME NEW p \in Ops, NEW base \in Text, NEW body \in Text
    PROVE  /\ Made(p, base, body) \in Ops /\ Made(p, base, body).kind = "edit" /\ Made(p, base, body).args = p.args
           /\ Made(p, base, body).reading = p.reading /\ Made(p, base, body).touched = p.touched
           /\ Made(p, base, body).old = p.old /\ Made(p, base, body).new = p.new
           /\ Made(p, base, body).base = base /\ Made(p, base, body).body = body
<1>1. "edit" \in OpKinds
  BY DEF OpKinds
<1>2. Made(p, base, body) \in Ops
  BY <1>1, Zenon DEF Made, Ops
<1>3. /\ Made(p, base, body).kind = "edit" /\ Made(p, base, body).args = p.args
      /\ Made(p, base, body).reading = p.reading /\ Made(p, base, body).touched = p.touched
  BY Zenon DEF Made, Ops
<1>4. /\ Made(p, base, body).old = p.old /\ Made(p, base, body).new = p.new
      /\ Made(p, base, body).base = base /\ Made(p, base, body).body = body
  BY Zenon DEF Made, Ops
<1>5. QED
  BY <1>2, <1>3, <1>4

(* The file was written by somebody else meanwhile.                         *)
LEMMA TouchedOp ==
    ASSUME NEW p \in Ops
    PROVE  /\ Touched(p) \in Ops /\ Touched(p).kind = p.kind /\ Touched(p).args = p.args
           /\ Touched(p).reading = p.reading /\ Touched(p).touched
           /\ Touched(p).old = p.old /\ Touched(p).new = p.new
           /\ Touched(p).base = p.base /\ Touched(p).body = p.body
<1>1. Touched(p) \in Ops
  BY Zenon DEF Touched, Ops
<1>2. /\ Touched(p).kind = p.kind /\ Touched(p).args = p.args
      /\ Touched(p).reading = p.reading /\ Touched(p).touched
  BY Zenon DEF Touched, Ops
<1>3. /\ Touched(p).old = p.old /\ Touched(p).new = p.new
      /\ Touched(p).base = p.base /\ Touched(p).body = p.body
  BY Zenon DEF Touched, Ops
<1>4. QED
  BY <1>1, <1>2, <1>3

(* The readings of an edit: its fields, decoded in the text protocol, and   *)
(* then without their wrappers.                                             *)
LEMMA ReadingsOf ==
    ASSUME NEW e, e.old \in Text, e.new \in Text
    PROVE  /\ First(e).old = IF e.text THEN quoteDecoded(e.old) ELSE e.old
           /\ First(e).new = IF e.text THEN quoteDecoded(e.new) ELSE e.new
           /\ First(e).old \in Text /\ First(e).new \in Text
           /\ 1 \in DOMAIN Readings(e)
           /\ (e.text /\ strips(First(e).old, First(e).new)) =>
                 2 \in DOMAIN Readings(e) /\ Readings(e)[2] = stripped(First(e).old, First(e).new)
<1> DEFINE q == IF e.text THEN [old |-> quoteDecoded(e.old), new |-> quoteDecoded(e.new)]
                ELSE [old |-> e.old, new |-> e.new]
           r == stripped(q.old, q.new)
           s == IF e.text /\ strips(q.old, q.new) THEN <<r>> ELSE <<>>
           T == {q, r}
<1>1. Readings(e) = <<q>> \o s
  BY Zenon DEF Readings
<1>2. q.old = (IF e.text THEN quoteDecoded(e.old) ELSE e.old) /\ q.new = IF e.text THEN quoteDecoded(e.new) ELSE e.new
  BY Zenon
<1>3. q.old \in Text /\ q.new \in Text
  BY <1>2, QuoteDecoded
<1>4. (e.text /\ strips(q.old, q.new)) => s = <<r>>
  BY Zenon
<1>5. s = <<>> \/ s = <<r>>
  BY Zenon
<1> HIDE DEF q, r, s
<1>6. s \in Seq(T) /\ <<q>> \in Seq(T) /\ Len(<<q>>) = 1
  <2>1. q \in T /\ r \in T
    OBVIOUS
  <2> HIDE DEF T
  <2>2. <<r>> \in Seq(T) /\ <<q>> \in Seq(T) /\ <<>> \in Seq(T) /\ Len(<<q>>) = 1
    BY <2>1
  <2>3. QED
    BY <1>5, <2>2, Zenon
<1>7. Len(<<q>> \o s) = 1 + Len(s)
      /\ \A i \in 1..(1 + Len(s)) : (<<q>> \o s)[i] = IF i <= 1 THEN <<q>>[i] ELSE s[i - 1]
  BY <1>6, ConcatProperties
<1>8. <<q>> \o s \in Seq(T) /\ Len(s) \in Nat
  BY <1>6, ConcatProperties
<1>9. DOMAIN Readings(e) = 1..(1 + Len(s))
  BY <1>1, <1>7, <1>8
<1>10. First(e) = q /\ 1 \in DOMAIN Readings(e)
  <2>1. 1 \in 1..(1 + Len(s)) /\ 1 <= 1
    BY <1>8
  <2>2. (<<q>> \o s)[1] = q
    BY <1>7, <2>1
  <2>3. QED
    BY <1>1, <1>9, <2>1, <2>2 DEF First
<1>11. ASSUME s = <<r>> PROVE 2 \in DOMAIN Readings(e) /\ Readings(e)[2] = r
  <2>1. Len(s) = 1 /\ s[1] = r
    BY <1>11
  <2>2. 2 \in 1..(1 + Len(s)) /\ ~(2 <= 1) /\ 2 - 1 = 1
    BY <2>1
  <2>3. (<<q>> \o s)[2] = s[2 - 1]
    BY <1>7, <2>2, Zenon
  <2>4. QED
    BY <1>1, <1>9, <2>1, <2>2, <2>3
<1>12. QED
  BY <1>2, <1>3, <1>4, <1>10, <1>11, Zenon DEF r

(* A read shows lines or says why not.                                      *)
LEMMA ReadKinds ==
    ASSUME NEW text, NEW from, NEW to
    PROVE  read(text, from, to).kind \in {"empty", "pastEnd", "lines", "noSuchFile"}
<1>1. readFileOp(readBounded(text).data, from, to).kind \in {"empty", "pastEnd", "lines"}
  BY Zenon DEF readFileOp
<1>2. QED
  BY <1>1, Zenon DEF read

(* The files begin so.                                                      *)
LEMMA FilesInit == ToolsInit => FilesInv
<1> SUFFICES ASSUME ToolsInit PROVE FilesInv
  OBVIOUS
<1>1. duty \in DOMAIN Jobs /\ disk \in Jobs[duty].texts /\ op = OpIdle /\ obs = [kind |-> "none"]
      /\ ev = [gen |-> 0, dirty |-> FALSE, failed |-> FALSE] /\ spent = 0 /\ want = [known |-> TRUE, text |-> disk]
  BY Zenon DEF ToolsInit, job
<1>2. disk \in Text /\ Jobs[duty].ops \in Nat
  BY <1>1, JobTexts
<1>3. op \in Ops /\ op.kind = "none"
  BY <1>1, IdleOp
<1>4. obs.kind \in ObsKinds
  BY <1>1 DEF ObsKinds
<1>5. ev \in [gen : Nat, dirty : BOOLEAN, failed : BOOLEAN] /\ ev.gen = 0 /\ ~ev.dirty
  BY <1>1
<1>6. want \in [known : BOOLEAN, text : Text] /\ want.text = disk
  BY <1>1, <1>2
<1>7. spent \in Nat /\ spent <= job.ops /\ ev.gen + (IF op.kind = "none" THEN 0 ELSE 1) <= spent
  BY <1>1, <1>2, <1>3, <1>5 DEF job
<1>8. Typed
  BY <1>1, <1>2, <1>3, <1>4, <1>5, <1>6, <1>7 DEF Typed
<1>9. Writing /\ Editing
  BY <1>3, <1>5, <1>6 DEF Writing, Editing
<1>10. QED
  BY <1>8, <1>9 DEF FilesInv

(* A read changes neither the file nor a call.                              *)
LEMMA FilesRead ==
    ASSUME FilesInv, ReadFile \/ FollowFooter
    PROVE  FilesInv'
<1>1. UNCHANGED <<duty, disk, op, ev, want>>
  BY Zenon DEF ReadFile, FollowFooter
<1>2. op.kind = "none"
  BY Zenon DEF ReadFile, FollowFooter, Issues, Free
<1>3. (spent' = spent) \/ (spent' = spent + 1 /\ spent < job.ops)
  BY Zenon DEF ReadFile, FollowFooter, Issues
<1>4. obs'.kind \in ObsKinds
  <2>1. CASE ReadFile
    <3>1. PICK spec \in job.reads :
            LET r == parseReadArg(spec)
            IN  IF r = <<>>
                THEN obs' = [kind |-> IF spec.form = "line" THEN "noSuchFile" ELSE "badRange"]
                ELSE obs' = read(disk, r[1], r[2])
      BY <2>1, Zenon DEF ReadFile
    <3>2. obs'.kind \in {"noSuchFile", "badRange"} \/ obs' = read(disk, parseReadArg(spec)[1], parseReadArg(spec)[2])
      <4>1. CASE parseReadArg(spec) = <<>>
        <5>1. obs' = [kind |-> IF spec.form = "line" THEN "noSuchFile" ELSE "badRange"]
          BY <3>1, <4>1, Zenon
        <5>2. QED
          BY <5>1
      <4>2. CASE parseReadArg(spec) # <<>>
        BY <3>1, <4>2, Zenon
      <4>3. QED
        BY <4>1, <4>2
    <3>3. QED
      BY <3>2, ReadKinds DEF ObsKinds
  <2>2. CASE FollowFooter
    <3>1. obs' = read(disk, pager.next[1], pager.next[2])
      BY <2>2, Zenon DEF FollowFooter
    <3>2. QED
      BY <3>1, ReadKinds DEF ObsKinds
  <2>3. QED
    BY <2>1, <2>2
<1>5. Typed /\ Writing /\ Editing
  BY DEF FilesInv
<1>6. ev.gen \in Nat /\ job' = job /\ spent \in Nat /\ spent <= job.ops /\ ev.gen <= spent /\ job.ops \in Nat
  BY <1>1, <1>2, <1>5, JobTexts DEF Typed, job
<1>7. spent' \in Nat /\ spent' <= job'.ops /\ ev'.gen + (IF op'.kind = "none" THEN 0 ELSE 1) <= spent'
  BY <1>1, <1>2, <1>3, <1>6
<1>8. Typed'
  BY <1>1, <1>2, <1>4, <1>5, <1>7 DEF Typed
<1>9. Writing' /\ Editing'
  BY <1>1, <1>2, <1>5 DEF Writing, Editing
<1>10. QED
  BY <1>8, <1>9 DEF FilesInv

(* write_file up to its write.                                              *)
LEMMA FilesWrite ==
    ASSUME FilesInv, WriteFile
    PROVE  FilesInv'
<1>1. Typed /\ Writing
  BY DEF FilesInv
<1>2. UNCHANGED <<duty, disk, pager, ev>> /\ op.kind = "none" /\ spent < job.ops /\ spent' = spent + 1
  BY Zenon DEF WriteFile, Issues, Free
<1> DEFINE pending(w, kind, body) == Pending(w, kind, disk, body)
<1>3. PICK w \in job.writes :
         \/ op' = OpIdle /\ want' = want /\ obs'.kind = "error"
         \/ op' = pending(w, "write", w.content) /\ want' = want /\ obs' = obs
         \/ op' = pending(w, "appendInPlace", w.content) /\ want' = want /\ obs' = obs
         \/ op' = pending(w, "append", w.content) /\ want' = [want EXCEPT !.known = @ /\ ~There(disk)] /\ obs' = obs
         \/ /\ There(disk) /\ ~tooBigToAppend(disk)
            /\ op' = pending(w, "append", readBounded(disk).data \o w.content) /\ want' = want /\ obs' = obs
  <2>1. PICK w \in job.writes, readable \in BOOLEAN :
          IF writeError(w.content, w.append) # "none"
          THEN Fails(writeError(w.content, w.append)) /\ UNCHANGED want
          ELSE IF ~w.append THEN op' = pending(w, "write", w.content) /\ UNCHANGED <<obs, want>>
          ELSE IF job.appender THEN op' = pending(w, "appendInPlace", w.content) /\ UNCHANGED <<obs, want>>
          ELSE IF ~There(disk) \/ ~readable
          THEN /\ op' = pending(w, "append", w.content)
               /\ want' = [want EXCEPT !.known = @ /\ ~There(disk)] /\ UNCHANGED obs
          ELSE IF tooBigToAppend(disk) THEN Fails("tooBig") /\ UNCHANGED want
          ELSE op' = pending(w, "append", readBounded(disk).data \o w.content) /\ UNCHANGED <<obs, want>>
    BY Zenon DEF WriteFile, Pending
  <2>2. \A kind : Fails(kind) => op' = OpIdle /\ obs'.kind = "error"
    <3> SUFFICES ASSUME NEW kind, Fails(kind) PROVE op' = OpIdle /\ obs'.kind = "error"
      OBVIOUS
    <3>1. op' = OpIdle /\ obs' = [kind |-> "error", error |-> kind]
      BY DEF Fails
    <3>2. QED
      BY <3>1
  <2> HIDE DEF pending
  <2>3. CASE op' = OpIdle /\ want' = want /\ obs'.kind = "error"
    BY <2>3, Zenon
  <2>4. CASE op' = pending(w, "write", w.content) /\ want' = want /\ obs' = obs
    BY <2>4, Zenon
  <2>5. CASE op' = pending(w, "appendInPlace", w.content) /\ want' = want /\ obs' = obs
    BY <2>5, Zenon
  <2>6. CASE op' = pending(w, "append", w.content) /\ want' = [want EXCEPT !.known = @ /\ ~There(disk)] /\ obs' = obs
    BY <2>6, Zenon
  <2>7. CASE /\ There(disk) /\ ~tooBigToAppend(disk)
             /\ op' = pending(w, "append", readBounded(disk).data \o w.content) /\ want' = want /\ obs' = obs
    BY <2>7, Zenon
  <2>8. QED
    BY <2>1, <2>2, <2>3, <2>4, <2>5, <2>6, <2>7, Zenon
<1>4. duty \in DOMAIN Jobs /\ disk \in Text /\ want \in [known : BOOLEAN, text : Text] /\ obs.kind \in ObsKinds
      /\ spent \in Nat /\ spent <= job.ops /\ ev.gen \in Nat /\ ev.gen <= spent /\ job.ops \in Nat /\ job' = job
      /\ ev \in [gen : Nat, dirty : BOOLEAN, failed : BOOLEAN]
  BY <1>1, <1>2, JobTexts DEF Typed, job
<1>5. w \in Calls /\ w.content \in Text
  BY <1>4, JobTexts DEF job
<1>6. \A kind \in {"write", "append", "appendInPlace"} : \A body \in Text :
         LET o == pending(w, kind, body) IN o \in Ops /\ o.kind = kind /\ o.args = w /\ o.body = body
  <2> SUFFICES ASSUME NEW kind \in {"write", "append", "appendInPlace"}, NEW body \in Text
               PROVE  LET o == pending(w, kind, body) IN o \in Ops /\ o.kind = kind /\ o.args = w /\ o.body = body
    OBVIOUS
  <2>1. kind \in OpKinds
    BY DEF OpKinds
  <2>2. w \in Calls /\ kind \in OpKinds /\ disk \in Text /\ body \in Text
    BY <1>4, <1>5, <2>1
  <2>3. QED
    BY <2>2, PendingOp
<1>7. spent' \in Nat /\ spent' <= job'.ops /\ ev'.gen + 0 <= spent' /\ ev'.gen + 1 <= spent'
  BY <1>2, <1>4
<1>8. (want.known => disk = want.text) /\ (ev.dirty => ev.failed)
  BY <1>1 DEF Writing
<1> HIDE DEF pending
<1> DEFINE Kept == /\ op' \in Ops /\ op'.kind \in {"none", "write", "append", "appendInPlace"}
                   /\ op'.kind # "none" => op'.args = w
                   /\ obs'.kind \in ObsKinds /\ want' \in [known : BOOLEAN, text : Text]
                   /\ want'.known => disk = want'.text
                   /\ op'.kind \in {"write", "appendInPlace"} => op'.body = op'.args.content
                   /\ (op'.kind = "append" /\ want'.known) => op'.body = old(want'.text) \o op'.args.content
<1>9. Kept
  <2>1. CASE op' = OpIdle /\ want' = want /\ obs'.kind = "error"
    <3>1. op' \in Ops /\ op'.kind = "none" /\ obs'.kind \in ObsKinds
      BY <2>1, IdleOp DEF ObsKinds
    <3>2. QED
      BY <1>4, <1>8, <2>1, <3>1
  <2>2. CASE op' = pending(w, "write", w.content) /\ want' = want /\ obs' = obs
    <3>1. op' \in Ops /\ op'.kind = "write" /\ op'.args = w /\ op'.body = w.content
      BY <1>5, <1>6, <2>2
    <3>2. QED
      BY <1>4, <1>8, <2>2, <3>1
  <2>3. CASE op' = pending(w, "appendInPlace", w.content) /\ want' = want /\ obs' = obs
    <3>1. op' \in Ops /\ op'.kind = "appendInPlace" /\ op'.args = w /\ op'.body = w.content
      BY <1>5, <1>6, <2>3
    <3>2. QED
      BY <1>4, <1>8, <2>3, <3>1
  <2>4. CASE op' = pending(w, "append", w.content) /\ want' = [want EXCEPT !.known = @ /\ ~There(disk)] /\ obs' = obs
    <3>1. op' \in Ops /\ op'.kind = "append" /\ op'.args = w /\ op'.body = w.content
      BY <1>5, <1>6, <2>4
    <3>2. want' \in [known : BOOLEAN, text : Text] /\ want'.text = want.text
          /\ (want'.known => want.known /\ ~There(disk))
      BY <1>4, <2>4
    <3>3. ASSUME want'.known PROVE disk = want'.text /\ op'.body = old(want'.text) \o op'.args.content
      <4>1. disk = want'.text /\ ~There(disk)
        BY <1>8, <3>2, <3>3
      <4>2. old(disk) = <<>> /\ <<>> \o w.content = w.content
        BY <1>4, <1>5, <4>1, OldText
      <4>3. QED
        BY <3>1, <4>1, <4>2, Zenon
    <3>4. QED
      BY <1>4, <2>4, <3>1, <3>2, <3>3
  <2>5. CASE /\ There(disk) /\ ~tooBigToAppend(disk)
             /\ op' = pending(w, "append", readBounded(disk).data \o w.content) /\ want' = want /\ obs' = obs
    <3>1. readBounded(disk).data = disk /\ old(disk) = disk
      BY <1>4, <2>5, ReadBounded, OldText DEF tooBigToAppend
    <3>2. disk \o w.content \in Text
      BY <1>4, <1>5, TextOps
    <3>3. op' = pending(w, "append", disk \o w.content)
      BY <2>5, <3>1, Zenon
    <3>4. op' \in Ops /\ op'.kind = "append" /\ op'.args = w /\ op'.body = disk \o w.content
      BY <1>6, <3>2, <3>3
    <3>5. want'.known => op'.body = old(want'.text) \o op'.args.content
      BY <1>8, <2>5, <3>1, <3>4, Zenon
    <3>6. QED
      BY <1>4, <1>8, <2>5, <3>4, <3>5
  <2>6. QED
    BY <1>3, <2>1, <2>2, <2>3, <2>4, <2>5, Zenon
<1>10. w \in job'.writes
  BY <1>4
<1>11. ev'.gen + (IF op'.kind = "none" THEN 0 ELSE 1) <= spent'
  BY <1>7
<1>12. op'.kind \notin {"try", "edit"}
  BY <1>9
<1>13. Typed'
  BY <1>2, <1>4, <1>7, <1>9, <1>10, <1>11, <1>12 DEF Typed
<1>14. Writing'
  BY <1>2, <1>8, <1>9 DEF Writing
<1>15. Editing'
  BY <1>12 DEF Editing
<1>16. QED
  BY <1>13, <1>14, <1>15 DEF FilesInv

(* An edit goes through, or is worth a retry, when the search says so.      *)
LEMMA EditErrors ==
    ASSUME NEW text \in Text, NEW anchor, NEW new, NEW mode
    PROVE  /\ editError(text, anchor, new, mode) = "none" =>
                 /\ anchor # <<>> /\ ~readBounded(text).over
                 /\ Len(matches(text, anchor)) = 1 \/ ~(Len(matches(text, anchor)) \in Nat)
           /\ editError(text, anchor, new, mode) = "notFound" =>
                 anchor # <<>> /\ ~readBounded(text).over /\ Len(matches(text, anchor)) = 0
<1> DEFINE n == Len(matches(readBounded(text).data, anchor))
           e == editError(text, anchor, new, mode)
<1>1. e = IF mode \notin Modes THEN "mode"
          ELSE IF anchor = <<>> THEN "emptyOld"
          ELSE IF mode = "replace" /\ anchor = new THEN "same"
          ELSE IF mode # "replace" /\ new = <<>> THEN "emptyNew"
          ELSE IF Len(new) > writeByteCap THEN "tooLong"
          ELSE IF looksLikeEditEnvelope(new) THEN "envelope"
          ELSE IF ~There(text) THEN "noSuchFile"
          ELSE IF readBounded(text).over THEN "tooBig"
          ELSE IF n = 0 THEN "notFound" ELSE IF n > 1 THEN "manyPlaces" ELSE "none"
  BY Zenon DEF editError
<1> HIDE DEF n, e
<1>2. e = "none" => anchor # <<>> /\ ~readBounded(text).over /\ ~(n = 0) /\ ~(n > 1)
  BY <1>1
<1>3. e = "notFound" => anchor # <<>> /\ ~readBounded(text).over /\ n = 0
  BY <1>1
<1>4. ~readBounded(text).over => n = Len(matches(text, anchor))
  BY ReadBounded, Zenon DEF n
<1>5. n \in Nat /\ ~(n = 0) /\ ~(n > 1) => n = 1
  OBVIOUS
<1>6. QED
  BY <1>2, <1>3, <1>4, <1>5, Zenon DEF e

(* edit_file arrives.                                                       *)
LEMMA FilesEdit ==
    ASSUME FilesInv, EditFile
    PROVE  FilesInv'
<1>1. Typed /\ Writing
  BY DEF FilesInv
<1>2. UNCHANGED <<duty, disk, pager, ev, want>> /\ op.kind = "none" /\ spent < job.ops /\ spent' = spent + 1
  BY Zenon DEF EditFile, Issues, Free
<1>3. PICK e \in job.edits :
         \/ op' = OpIdle /\ obs'.kind = "error"
         \/ op' = Started(e) /\ obs' = obs /\ (e.text => decodes(e.old) /\ decodes(e.new))
         \/ op' = Quoted(e) /\ obs' = obs /\ e.text
  <2>1. PICK e \in job.edits :
          IF ~(e.text /\ ~(decodes(e.old) /\ decodes(e.new))) THEN op' = Started(e) /\ UNCHANGED obs
          ELSE IF Contains(e.old \o e.new, "eq") /\ quoteDecodes(e.old) /\ quoteDecodes(e.new)
          THEN op' = Quoted(e) /\ UNCHANGED obs
          ELSE Fails("escape")
    BY Zenon DEF EditFile, Started, Quoted
  <2>2. Fails("escape") => op' = OpIdle /\ obs'.kind = "error"
    <3> SUFFICES ASSUME Fails("escape") PROVE op' = OpIdle /\ obs'.kind = "error"
      OBVIOUS
    <3>1. op' = OpIdle /\ obs' = [kind |-> "error", error |-> "escape"]
      BY DEF Fails
    <3>2. QED
      BY <3>1
  <2>3. QED
    BY <2>1, <2>2, Zenon
<1>4. duty \in DOMAIN Jobs /\ disk \in Text /\ obs.kind \in ObsKinds
      /\ spent \in Nat /\ spent <= job.ops /\ ev.gen \in Nat /\ ev.gen <= spent /\ job.ops \in Nat /\ job' = job
  BY <1>1, <1>2, JobTexts DEF Typed, job
<1>5. e \in Calls /\ e.old \in Text /\ e.new \in Text /\ e \in job'.edits
  BY <1>4, JobTexts DEF job
<1>6. /\ First(e).old = IF e.text THEN quoteDecoded(e.old) ELSE e.old
      /\ First(e).new = IF e.text THEN quoteDecoded(e.new) ELSE e.new
  BY <1>5, ReadingsOf
<1> DEFINE Kept == /\ op' \in Ops /\ obs'.kind \in ObsKinds /\ op'.kind \in {"none", "try"}
                   /\ op'.kind = "try" =>
                         /\ op'.args = e /\ op'.reading # "stripped"
                         /\ op'.old = First(e).old /\ op'.new = First(e).new
<1>7. Kept
  <2>1. CASE op' = OpIdle /\ obs'.kind = "error"
    <3>1. op' \in Ops /\ op'.kind = "none" /\ obs'.kind \in ObsKinds
      BY <2>1, IdleOp DEF ObsKinds
    <3>2. QED
      BY <3>1
  <2>2. CASE op' = Started(e) /\ obs' = obs /\ (e.text => decodes(e.old) /\ decodes(e.new))
    <3>1. op' \in Ops /\ op'.kind = "try" /\ op'.args = e /\ op'.reading = "raw" /\ op'.old = e.old /\ op'.new = e.new
      BY <1>5, <2>2, StartOp
    <3>2. First(e).old = e.old /\ First(e).new = e.new
      BY <1>5, <1>6, <2>2, QuoteDecoded
    <3>3. QED
      BY <1>4, <2>2, <3>1, <3>2
  <2>3. CASE op' = Quoted(e) /\ obs' = obs /\ e.text
    <3>1. /\ op' \in Ops /\ op'.kind = "try" /\ op'.args = e /\ op'.reading = "quotes"
          /\ op'.old = quoteDecoded(e.old) /\ op'.new = quoteDecoded(e.new)
      BY <1>5, <2>3, StartOp
    <3>2. QED
      BY <1>4, <1>6, <2>3, <3>1
  <2>4. QED
    BY <1>3, <2>1, <2>2, <2>3
<1>8. spent' \in Nat /\ spent' <= job'.ops /\ ev'.gen + (IF op'.kind = "none" THEN 0 ELSE 1) <= spent'
  BY <1>2, <1>4
<1> HIDE DEF Kept
<1>9. Typed'
  BY <1>1, <1>2, <1>4, <1>5, <1>7, <1>8 DEF Typed, Kept
<1>10. Writing'
  BY <1>1, <1>2, <1>7 DEF Writing, Kept
<1>11. Editing'
  BY <1>7 DEF Editing, Kept
<1>12. QED
  BY <1>9, <1>10, <1>11 DEF FilesInv

(* A try of an edit: it makes the edit, turns to another reading, or fails. *)
LEMMA FilesTry ==
    ASSUME FilesInv, TryEdit
    PROVE  FilesInv'
<1> DEFINE err == editError(disk, op.old, op.new, op.args.mode)
           made == splice(disk, op.old, op.new, op.args.mode, matches(disk, op.old)[1])
           s == stripped(op.old, op.new)
           q == First(op.args)
<1>1. Typed /\ Writing /\ Editing
  BY DEF FilesInv
<1>2. UNCHANGED <<duty, disk, pager, ev, spent, want>> /\ op.kind = "try"
  BY Zenon DEF TryEdit
<1>3. \/ err = "none" /\ op' = Made(op, disk, made) /\ obs' = obs
      \/ err = "notFound" /\ retries("notFound") /\ op' = Unwrapped(op, s.old, s.new) /\ obs' = obs
      \/ op' = OpIdle /\ obs'.kind = "error"
  <2>1. IF err = "none" THEN op' = Made(op, disk, made) /\ UNCHANGED obs
        ELSE IF retries(err) THEN op' = Unwrapped(op, s.old, s.new) /\ UNCHANGED obs
        ELSE Fails(reported(err))
    BY Zenon DEF TryEdit, Made, Unwrapped
  <2>2. retries(err) => err = "notFound" /\ retries("notFound")
    BY Zenon DEF retries
  <2>3. Fails(reported(err)) => op' = OpIdle /\ obs'.kind = "error"
    <3> SUFFICES ASSUME Fails(reported(err)) PROVE op' = OpIdle /\ obs'.kind = "error"
      OBVIOUS
    <3>1. op' = OpIdle /\ obs' = [kind |-> "error", error |-> reported(err)]
      BY DEF Fails
    <3>2. QED
      BY <3>1
  <2>4. QED
    BY <2>1, <2>2, <2>3, Zenon
<1>4. /\ duty \in DOMAIN Jobs /\ disk \in Text /\ op \in Ops /\ obs.kind \in ObsKinds /\ job' = job
      /\ op.args \in job.edits /\ op.old \in Text /\ op.new \in Text
      /\ spent \in Nat /\ spent <= job.ops /\ ev.gen \in Nat /\ ev.gen + 1 <= spent
  BY <1>1, <1>2 DEF Typed, Ops, job
<1>5. op.args.old \in Text /\ op.args.new \in Text /\ q.old \in Text /\ q.new \in Text
  <2>1. op.args.old \in Text /\ op.args.new \in Text
    BY <1>4, JobTexts DEF job
  <2>2. QED
    BY <2>1, ReadingsOf
<1>6. op.reading # "stripped" => op.old = q.old /\ op.new = q.new
  BY <1>1, <1>2 DEF Editing
<1>7. op.reading = "stripped" =>
         /\ op.args.text /\ strips(q.old, q.new)
         /\ op.old = stripped(q.old, q.new).old /\ op.new = stripped(q.old, q.new).new
         /\ ~op.touched => occurrences(disk, q.old) = {}
  BY <1>1, <1>2, Zenon DEF Editing
<1> HIDE DEF q
<1> DEFINE Reads(o, where) ==
             /\ o.args = op.args
             /\ o.reading # "stripped" => o.old = q.old /\ o.new = q.new
             /\ o.reading = "stripped" =>
                   /\ op.args.text /\ strips(q.old, q.new)
                   /\ o.old = stripped(q.old, q.new).old /\ o.new = stripped(q.old, q.new).new
                   /\ ~o.touched => occurrences(where, q.old) = {}
<1>8. CASE err = "none" /\ op' = Made(op, disk, made) /\ obs' = obs
  <2>1. op.old # <<>> /\ (Len(matches(disk, op.old)) = 1 \/ ~(Len(matches(disk, op.old)) \in Nat))
    BY <1>4, <1>8, EditErrors
  <2>2. matches(disk, op.old) \in Seq(Nat) /\ \A k \in DOMAIN matches(disk, op.old) :
           matches(disk, op.old)[k] \in DOMAIN disk /\ at(disk, op.old, matches(disk, op.old)[k])
    BY <1>4, <2>1, MatchesFound
  <2>3. Len(matches(disk, op.old)) = 1 /\ 1 \in DOMAIN matches(disk, op.old)
    BY <2>1, <2>2
  <2>4. made \in Text
    <3> DEFINE i == matches(disk, op.old)[1]
    <3>1. i \in DOMAIN disk /\ at(disk, op.old, i)
      BY <2>2, <2>3
    <3> HIDE DEF i
    <3>2. splice(disk, op.old, op.new, op.args.mode, i) \in Text
      BY <1>4, <2>1, <3>1, SpliceKeeps
    <3>3. QED
      BY <3>2 DEF i
  <2> HIDE DEF made
  <2>5. /\ op' \in Ops /\ op'.kind = "edit" /\ op'.args = op.args /\ op'.reading = op.reading /\ op'.touched = op.touched
        /\ op'.old = op.old /\ op'.new = op.new /\ op'.base = disk /\ op'.body = made
    <3> DEFINE o == Made(op, disk, made)
    <3>1. /\ o \in Ops /\ o.kind = "edit" /\ o.args = op.args /\ o.reading = op.reading /\ o.touched = op.touched
          /\ o.old = op.old /\ o.new = op.new /\ o.base = disk /\ o.body = made
      BY <1>4, <2>4, MadeOp
    <3>2. op' = o
      BY <1>8
    <3>3. QED
      BY <3>1, <3>2, Zenon
  <2>6. Reads(op', op'.base)
    BY <1>6, <1>7, <2>5, Zenon
  <2>7. /\ op'.old # <<>> /\ Len(matches(op'.base, op'.old)) = 1
        /\ op'.body = splice(op'.base, op'.old, op'.new, op'.args.mode, matches(op'.base, op'.old)[1])
    BY <2>1, <2>3, <2>5, Zenon DEF made
  <2>8. Editing'
    BY <2>5, <2>6, <2>7, Zenon DEF Editing, q
  <2>9. ev'.gen + (IF op'.kind = "none" THEN 0 ELSE 1) <= spent'
    BY <1>2, <1>4, <2>5
  <2>10. Typed'
    BY <1>1, <1>2, <1>4, <1>8, <2>5, <2>9 DEF Typed
  <2>11. Writing'
    BY <1>1, <1>2, <2>5 DEF Writing
  <2>12. QED
    BY <2>8, <2>10, <2>11 DEF FilesInv
<1>9. CASE err = "notFound" /\ retries("notFound") /\ op' = Unwrapped(op, s.old, s.new) /\ obs' = obs
  <2>1. op.args.text /\ op.reading # "stripped" /\ strips(op.old, op.new)
    BY <1>9, Zenon DEF retries
  <2>2. s.old \in Text /\ s.new \in Text
    BY <1>4, <2>1, StrippedText DEF strips
  <2>3. op.old # <<>> /\ Len(matches(disk, op.old)) = 0
    BY <1>4, <1>9, EditErrors
  <2>4. occurrences(disk, op.old) = {}
    <3>1. matches(disk, op.old) \in Seq(Nat) /\ \A j \in occurrences(disk, op.old) :
             \E k \in DOMAIN matches(disk, op.old) : matches(disk, op.old)[k] <= j /\ j < matches(disk, op.old)[k] + Len(op.old)
      BY <1>4, <2>3, MatchesFound
    <3>2. DOMAIN matches(disk, op.old) = {}
      BY <2>3, <3>1
    <3>3. QED
      BY <3>1, <3>2
  <2> HIDE DEF s
  <2>5. /\ op' \in Ops /\ op'.kind = "try" /\ op'.args = op.args /\ op'.reading = "stripped"
        /\ op'.old = s.old /\ op'.new = s.new
    <3> DEFINE o == Unwrapped(op, s.old, s.new)
    <3>1. /\ o \in Ops /\ o.kind = op.kind /\ o.args = op.args /\ o.reading = "stripped"
          /\ o.old = s.old /\ o.new = s.new
      <4> DEFINE x == s.old
                 y == s.new
      <4> HIDE DEF x, y, o
      <4>1. op \in Ops /\ x \in Text /\ y \in Text /\ o = Unwrapped(op, x, y)
        BY <1>4, <2>2, Zenon DEF x, y, o
      <4>2. Unwrapped(op, x, y) \in Ops /\ Unwrapped(op, x, y).kind = op.kind /\ Unwrapped(op, x, y).args = op.args
        BY <4>1, UnwrappedOp
      <4>3. Unwrapped(op, x, y).reading = "stripped" /\ Unwrapped(op, x, y).old = x /\ Unwrapped(op, x, y).new = y
        BY <4>1, UnwrappedOp
      <4>4. QED
        BY <4>1, <4>2, <4>3, Zenon DEF x, y
    <3>2. op' = o
      BY <1>9
    <3>3. QED
      BY <1>2, <3>1, <3>2, Zenon
  <2>6. s = stripped(q.old, q.new) /\ strips(q.old, q.new) /\ occurrences(disk, q.old) = {}
    BY <1>6, <2>1, <2>4, Zenon DEF s
  <2>7. Reads(op', disk')
    BY <1>2, <2>1, <2>5, <2>6, Zenon
  <2>8. Editing'
    BY <2>5, <2>7, Zenon DEF Editing, q
  <2>9. ev'.gen + (IF op'.kind = "none" THEN 0 ELSE 1) <= spent'
    BY <1>2, <1>4, <2>5
  <2>10. Typed'
    BY <1>1, <1>2, <1>4, <1>9, <2>5, <2>9 DEF Typed
  <2>11. Writing'
    BY <1>1, <1>2, <2>5 DEF Writing
  <2>12. QED
    BY <2>8, <2>10, <2>11 DEF FilesInv
<1>10. CASE op' = OpIdle /\ obs'.kind = "error"
  <2>1. op' \in Ops /\ op'.kind = "none" /\ obs'.kind \in ObsKinds
    BY <1>10, IdleOp DEF ObsKinds
  <2>2. ev'.gen + (IF op'.kind = "none" THEN 0 ELSE 1) <= spent'
    BY <1>2, <1>4, <2>1
  <2>3. Typed'
    BY <1>1, <1>2, <1>4, <2>1, <2>2 DEF Typed
  <2>4. Writing' /\ Editing'
    BY <1>1, <1>2, <2>1 DEF Writing, Editing
  <2>5. QED
    BY <2>3, <2>4 DEF FilesInv
<1>11. QED
  BY <1>3, <1>8, <1>9, <1>10

Landing == {"write", "append", "appendInPlace", "edit"}

(* A write lands.                                                           *)
LEMMA FilesLand ==
    ASSUME FilesInv, Land
    PROVE  FilesInv'
<1>1. Typed /\ Writing
  BY DEF FilesInv
<1>2. op.kind \in Landing /\ op' = OpIdle /\ UNCHANGED <<duty, pager, spent>>
      /\ ev' = [gen |-> ev.gen + 1, dirty |-> FALSE, failed |-> FALSE] /\ obs' = done
  BY Zenon DEF Land, Landing
<1>3. disk' = IF op.kind = "appendInPlace" THEN old(disk) \o op.body ELSE op.body
  BY Zenon DEF Land
<1>4. want' = CASE op.kind = "write" -> [known |-> TRUE, text |-> op.args.content]
                [] op.kind = "edit"  -> [want EXCEPT !.text = op.body]
                [] OTHER             -> [want EXCEPT !.text = old(@) \o op.args.content]
  BY Zenon DEF Land
<1>5. /\ duty \in DOMAIN Jobs /\ disk \in Text /\ op.body \in Text /\ job' = job
      /\ want.known \in BOOLEAN /\ want.text \in Text /\ want \in [known : BOOLEAN, text : Text]
      /\ spent \in Nat /\ spent <= job.ops /\ ev.gen \in Nat /\ ev.gen + 1 <= spent
  <2>1. op.kind # "none"
    BY <1>2 DEF Landing
  <2>2. QED
    BY <1>1, <1>2, <2>1 DEF Typed, Ops, job
<1>6. disk' \in Text
  <2>1. old(disk) \o op.body \in Text
    BY <1>5, OldText, TextOps
  <2>2. QED
    BY <1>3, <1>5, <2>1
<1>7. op.kind \in {"write", "append", "appendInPlace"} => op.args.content \in Text
  BY <1>1, <1>5, JobTexts DEF Typed, job
<1>8. /\ want.known => disk = want.text
      /\ op.kind \in {"write", "appendInPlace"} => op.body = op.args.content
      /\ (op.kind = "append" /\ want.known) => op.body = old(want.text) \o op.args.content
  BY <1>1, Zenon DEF Writing
<1>9. want' \in [known : BOOLEAN, text : Text] /\ (want'.known => disk' = want'.text)
  <2>1. CASE op.kind = "write"
    <3>1. want' = [known |-> TRUE, text |-> op.args.content] /\ disk' = op.args.content /\ op.args.content \in Text
      BY <1>3, <1>4, <1>7, <1>8, <2>1
    <3>2. QED
      BY <3>1
  <2>2. CASE op.kind = "edit"
    <3>1. want' = [want EXCEPT !.text = op.body] /\ disk' = op.body
      BY <1>3, <1>4, <2>2
    <3>2. QED
      BY <1>5, <3>1
  <2>3. CASE op.kind \in {"append", "appendInPlace"}
    <3> DEFINE x == old(want.text) \o op.args.content
    <3>1. want' = [want EXCEPT !.text = x]
      BY <1>4, <2>3, Zenon
    <3>2. op.args.content \in Text /\ old(want.text) \in Text
      BY <1>5, <1>7, <2>3, OldText
    <3>3. x \in Text
      BY <3>2, TextOps
    <3>4. want.known => disk' = x
      <4>1. CASE op.kind = "append"
        BY <1>3, <1>8, <4>1
      <4>2. CASE op.kind = "appendInPlace"
        <5>1. disk' = old(disk) \o op.args.content
          BY <1>3, <1>8, <4>2, Zenon
        <5>2. QED
          BY <1>8, <5>1, Zenon
      <4>3. QED
        BY <2>3, <4>1, <4>2
    <3> HIDE DEF x
    <3>5. QED
      BY <1>5, <3>1, <3>3, <3>4
  <2>4. QED
    BY <1>2, <2>1, <2>2, <2>3 DEF Landing
<1>10. op' \in Ops /\ op'.kind = "none"
  BY <1>2, IdleOp
<1>11. obs'.kind \in ObsKinds
  <2>1. done.kind \in {"edited", "wrote"}
    BY Zenon DEF done
  <2>2. QED
    BY <1>2, <2>1 DEF ObsKinds
<1>12. ev' \in [gen : Nat, dirty : BOOLEAN, failed : BOOLEAN] /\ ev'.gen = ev.gen + 1 /\ ~ev'.dirty
  BY <1>2, <1>5
<1>13. spent' \in Nat /\ spent' <= job'.ops /\ ev'.gen + (IF op'.kind = "none" THEN 0 ELSE 1) <= spent'
  BY <1>2, <1>5, <1>10, <1>12
<1>14. Typed'
  BY <1>2, <1>5, <1>6, <1>9, <1>10, <1>11, <1>12, <1>13 DEF Typed
<1>15. Writing' /\ Editing'
  BY <1>9, <1>10, <1>12 DEF Writing, Editing
<1>16. QED
  BY <1>14, <1>15 DEF FilesInv

(* A write fails.                                                           *)
LEMMA FilesLandFails ==
    ASSUME FilesInv, LandFails
    PROVE  FilesInv'
<1>1. Typed /\ Writing
  BY DEF FilesInv
<1>2. op.kind \in Landing /\ UNCHANGED <<duty, pager, spent>>
      /\ ev' = [ev EXCEPT !.dirty = @ \/ disk' # disk, !.failed = TRUE] /\ want' = [want EXCEPT !.known = FALSE]
  BY Zenon DEF LandFails, Landing
<1>3. op' = OpIdle /\ obs'.kind = "error"
  <2>1. \E kind : op' = OpIdle /\ obs' = [kind |-> "error", error |-> kind]
    BY Zenon DEF LandFails, Fails
  <2>2. QED
    BY <2>1
<1>4. disk' \in IF op.kind = "appendInPlace" THEN {old(disk) \o SubSeq(op.body, 1, n) : n \in 0..Len(op.body)} \cup {disk}
                ELSE torn(op.body, disk)
  BY Zenon DEF LandFails
<1>5. /\ duty \in DOMAIN Jobs /\ disk \in Text /\ op.body \in Text /\ job' = job
      /\ want \in [known : BOOLEAN, text : Text] /\ ev \in [gen : Nat, dirty : BOOLEAN, failed : BOOLEAN]
      /\ spent \in Nat /\ spent <= job.ops /\ ev.gen \in Nat /\ ev.gen <= spent
  BY <1>1, <1>2 DEF Typed, Ops, job
<1>6. disk' \in Text
  <2>1. CASE op.kind = "appendInPlace"
    <3>1. disk' = disk \/ \E n \in 0..Len(op.body) : disk' = old(disk) \o SubSeq(op.body, 1, n)
      BY <1>4, <2>1
    <3>2. old(disk) \in Text /\ \A n \in 0..Len(op.body) : SubSeq(op.body, 1, n) \in Text
      BY <1>5, OldText, TextOps
    <3>3. \A n \in 0..Len(op.body) : old(disk) \o SubSeq(op.body, 1, n) \in Text
      BY <3>2, TextOps
    <3>4. QED
      BY <1>5, <3>1, <3>3
  <2>2. CASE op.kind # "appendInPlace"
    BY <1>4, <1>5, <2>2, TornText
  <2>3. QED
    BY <2>1, <2>2
<1>7. op' \in Ops /\ op'.kind = "none" /\ obs'.kind \in ObsKinds
  BY <1>3, IdleOp DEF ObsKinds
<1>8. ev' \in [gen : Nat, dirty : BOOLEAN, failed : BOOLEAN] /\ ev'.gen = ev.gen /\ ev'.failed
  BY <1>2, <1>5
<1>9. want' \in [known : BOOLEAN, text : Text] /\ ~want'.known
  BY <1>2, <1>5
<1>10. spent' \in Nat /\ spent' <= job'.ops /\ ev'.gen + (IF op'.kind = "none" THEN 0 ELSE 1) <= spent'
  BY <1>2, <1>5, <1>7, <1>8
<1>11. Typed'
  BY <1>2, <1>5, <1>6, <1>7, <1>8, <1>9, <1>10 DEF Typed
<1>12. Writing' /\ Editing'
  BY <1>7, <1>8, <1>9 DEF Writing, Editing
<1>13. QED
  BY <1>11, <1>12 DEF FilesInv

(* Somebody else writes the file: nothing is known of it any more, and an   *)
(* edit under way is marked.                                                *)
LEMMA FilesOutside ==
    ASSUME FilesInv, OutsideWrites
    PROVE  FilesInv'
<1>1. Typed /\ Writing /\ Editing
  BY DEF FilesInv
<1>2. UNCHANGED <<duty, obs, pager, ev, spent>> /\ want' = [want EXCEPT !.known = FALSE]
      /\ ((op' = op /\ op.kind = "none") \/ op' = Touched(op))
  BY Zenon DEF OutsideWrites, Touched, Free
<1>3. disk' \in job.outside
  BY Zenon DEF OutsideWrites
<1>4. /\ duty \in DOMAIN Jobs /\ op \in Ops /\ job' = job
      /\ want \in [known : BOOLEAN, text : Text]
      /\ spent \in Nat /\ spent <= job.ops /\ ev.gen \in Nat /\ ev.gen + (IF op.kind = "none" THEN 0 ELSE 1) <= spent
  BY <1>1, <1>2 DEF Typed, job
<1>5. disk' \in Text
  BY <1>3, <1>4, JobTexts DEF job
<1>6. want' \in [known : BOOLEAN, text : Text] /\ ~want'.known
  BY <1>2, <1>4
<1>7. /\ op' \in Ops /\ op'.kind = op.kind /\ op'.args = op.args
      /\ op'.kind # "none" => op'.touched
      /\ op'.reading = op.reading /\ op'.old = op.old /\ op'.new = op.new /\ op'.base = op.base /\ op'.body = op.body
  <2>1. CASE op' = op /\ op.kind = "none"
    BY <1>4, <2>1
  <2>2. CASE op' = Touched(op)
    <3>1. /\ Touched(op) \in Ops /\ Touched(op).kind = op.kind /\ Touched(op).args = op.args
          /\ Touched(op).reading = op.reading /\ Touched(op).touched
          /\ Touched(op).old = op.old /\ Touched(op).new = op.new
          /\ Touched(op).base = op.base /\ Touched(op).body = op.body
      BY <1>4, TouchedOp
    <3>2. QED
      BY <2>2, <3>1, Zenon
  <2>3. QED
    BY <1>2, <2>1, <2>2
<1>8. spent' \in Nat /\ spent' <= job'.ops /\ ev'.gen + (IF op'.kind = "none" THEN 0 ELSE 1) <= spent'
  BY <1>2, <1>4, <1>7
<1>9. Typed'
  BY <1>1, <1>2, <1>4, <1>5, <1>6, <1>7, <1>8 DEF Typed
<1>10. Writing'
  BY <1>1, <1>2, <1>6, <1>7 DEF Writing
<1>11. Editing'
  <2> SUFFICES ASSUME op'.kind \in {"try", "edit"}
               PROVE  Editing'
    BY DEF Editing
  <2>1. op.kind \in {"try", "edit"} /\ op'.touched
    BY <1>7
  <2>2. /\ op.reading # "stripped" => op.old = First(op.args).old /\ op.new = First(op.args).new
        /\ op.reading = "stripped" =>
              /\ op.args.text /\ strips(First(op.args).old, First(op.args).new)
              /\ op.old = stripped(First(op.args).old, First(op.args).new).old
              /\ op.new = stripped(First(op.args).old, First(op.args).new).new
        /\ op.kind = "edit" =>
              /\ op.old # <<>> /\ Len(matches(op.base, op.old)) = 1
              /\ op.body = splice(op.base, op.old, op.new, op.args.mode, matches(op.base, op.old)[1])
    BY <1>1, <2>1, Zenon DEF Editing
  <2>3. QED
    BY <1>7, <2>1, <2>2, Zenon DEF Editing
<1>12. QED
  BY <1>9, <1>10, <1>11 DEF FilesInv

(* Every step of the tools keeps it.                                        *)
LEMMA FilesStep == FilesInv /\ [ToolsNext]_tvars => FilesInv'
<1> SUFFICES ASSUME FilesInv, [ToolsNext]_tvars PROVE FilesInv'
  OBVIOUS
<1>1. CASE ReadFile \/ FollowFooter
  BY <1>1, FilesRead
<1>2. CASE WriteFile
  BY <1>2, FilesWrite
<1>3. CASE EditFile
  BY <1>3, FilesEdit
<1>4. CASE TryEdit
  BY <1>4, FilesTry
<1>5. CASE Land
  BY <1>5, FilesLand
<1>6. CASE LandFails
  BY <1>6, FilesLandFails
<1>7. CASE OutsideWrites
  BY <1>7, FilesOutside
<1>8. CASE UNCHANGED tvars
  BY <1>8 DEF tvars, FilesInv, Typed, Writing, Editing, job
<1>9. QED
  BY <1>1, <1>2, <1>3, <1>4, <1>5, <1>6, <1>7, <1>8 DEF ToolsNext

(* The tools' state has its type, and the mutation generation never counts  *)
(* more mutations than calls were made (tools.go, evidence.go).             *)
THEOREM ToolsTypes == ToolsSpec => []ToolsTypeOK
<1>1. FilesInv => ToolsTypeOK
  <2> SUFFICES ASSUME FilesInv PROVE ToolsTypeOK
    OBVIOUS
  <2>1. /\ duty \in DOMAIN Jobs /\ op \in Ops /\ obs.kind \in ObsKinds
        /\ ev \in [gen : Nat, dirty : BOOLEAN, failed : BOOLEAN] /\ spent \in Nat /\ spent <= job.ops
        /\ ev.gen + (IF op.kind = "none" THEN 0 ELSE 1) <= spent
    BY Zenon DEF FilesInv, Typed
  <2>2. job.ops \in Nat
    BY <2>1, JobTexts DEF job
  <2>3. op.kind \in OpKinds /\ op.reading \in {"raw", "quotes", "stripped"}
    BY <2>1 DEF Ops
  <2>4. spent \in 0..job.ops /\ ev.gen \in 0..job.ops
    BY <2>1, <2>2
  <2>5. QED
    BY <2>1, <2>3, <2>4 DEF ToolsTypeOK, OpKinds, ObsKinds
<1>2. QED
  BY <1>1, FilesInit, FilesStep, PTL DEF ToolsSpec

(* What the successful writes of a run add up to is what the file holds,    *)
(* between calls and in the middle of them, and the mutation generation     *)
(* lags behind the file only after a failed write (writeFileOp, editFileOp).*)
THEOREM WritesHold == ToolsSpec => []WritesAddUp
<1>1. FilesInv => WritesAddUp
  BY DEF FilesInv, Writing, WritesAddUp
<1>2. QED
  BY <1>1, FilesInit, FilesStep, PTL DEF ToolsSpec

-----------------------------------------------------------------------------
(* Paging.                                                                  *)

Shown == {line(d, n) : d \in Text, n \in Int}

(* n lines of a text, from line lo.                                         *)
Consecutive(data, lo, n) == [k \in 1..n |-> line(data, lo + k - 1)]

(* They are a sequence of lines, and so many.                               *)
LEMMA ConsecutiveType ==
    ASSUME NEW data \in Text, NEW lo \in Int, NEW n \in Nat
    PROVE  /\ Consecutive(data, lo, n) \in Seq(Shown) /\ Len(Consecutive(data, lo, n)) = n
           /\ \A k \in 1..n : Consecutive(data, lo, n)[k] = line(data, lo + k - 1)
<1> DEFINE f == [k \in 1..n |-> line(data, lo + k - 1)]
<1>1. \A k \in 1..n : line(data, lo + k - 1) \in Shown
  BY DEF Shown
<1>2. f \in [1..n -> Shown] /\ \A k \in 1..n : f[k] = line(data, lo + k - 1)
  BY <1>1
<1> HIDE DEF f
<1>3. f \in Seq(Shown) /\ Len(f) = n
  BY <1>2
<1>4. Consecutive(data, lo, n) = f
  BY Zenon DEF Consecutive, f
<1>5. QED
  BY <1>2, <1>3, <1>4, Zenon

(* A page after another is one longer page.                                 *)
LEMMA ConsecutiveJoin ==
    ASSUME NEW data \in Text, NEW lo \in Int, NEW n \in Nat, NEW m \in Nat
    PROVE  Consecutive(data, lo, n) \o Consecutive(data, lo + n, m) = Consecutive(data, lo, n + m)
<1> DEFINE x == Consecutive(data, lo, n)
           y == Consecutive(data, lo + n, m)
           z == Consecutive(data, lo, n + m)
           w == x \o y
<1>1. x \in Seq(Shown) /\ Len(x) = n /\ \A k \in 1..n : x[k] = line(data, lo + k - 1)
  BY ConsecutiveType
<1>2. y \in Seq(Shown) /\ Len(y) = m /\ \A k \in 1..m : y[k] = line(data, (lo + n) + k - 1)
  BY ConsecutiveType
<1>3. z \in Seq(Shown) /\ Len(z) = n + m /\ \A k \in 1..(n + m) : z[k] = line(data, lo + k - 1)
  BY ConsecutiveType
<1> HIDE DEF x, y, z
<1>4. w \in Seq(Shown) /\ Len(w) = n + m /\ \A k \in 1..(n + m) : w[k] = IF k <= n THEN x[k] ELSE y[k - n]
  <2>1. w \in Seq(Shown) /\ Len(w) = Len(x) + Len(y)
        /\ \A k \in 1..(Len(x) + Len(y)) : w[k] = IF k <= Len(x) THEN x[k] ELSE y[k - Len(x)]
    BY <1>1, <1>2, ConcatProperties, Zenon
  <2>2. QED
    BY <1>1, <1>2, <2>1
<1>5. \A k \in 1..(n + m) : w[k] = z[k]
  <2> SUFFICES ASSUME NEW k \in 1..(n + m) PROVE w[k] = z[k]
    OBVIOUS
  <2>1. CASE k <= n
    <3>1. k \in 1..n
      BY <2>1
    <3>2. QED
      BY <1>1, <1>3, <1>4, <2>1, <3>1, Zenon
  <2>2. CASE ~(k <= n)
    <3>1. k - n \in 1..m /\ (lo + n) + (k - n) - 1 = lo + k - 1
      BY <2>2
    <3>2. y[k - n] = line(data, lo + k - 1)
      BY <1>2, <3>1
    <3>3. QED
      BY <1>3, <1>4, <2>2, <3>2, Zenon
  <2>3. QED
    BY <2>1, <2>2
<1> HIDE DEF w
<1>6. w = z
  BY <1>3, <1>4, <1>5, SeqEqual
<1>7. QED
  BY <1>6 DEF w, x, y, z

(* Windows show something, and a closed range's no less.                    *)
LEMMA Windows ==
    ASSUME duty \in DOMAIN Jobs
    PROVE  window(FALSE) \in Nat \ {0} /\ window(TRUE) \in Nat \ {0} /\ window(FALSE) <= window(TRUE)
<1>1. job.window \in Nat
  BY JobTexts DEF job
<1>2. readLineCap \in Nat \ {0} /\ readLineCapExplicit \in Nat \ {0} /\ readLineCap <= readLineCapExplicit
  BY ToolsAssumption
<1>3. QED
  BY <1>1, <1>2 DEF window

(* The last line a read asks for, whether its window clips it, and the last *)
(* line it shows.                                                           *)
Asked(total, to) == IF to <= 0 \/ to > total THEN total ELSE to
Clips(total, lo, to) == Asked(total, to) - lo + 1 > window(to > 0)
LastShown(total, lo, to) == IF Clips(total, lo, to) THEN lo + window(to > 0) - 1 ELSE Asked(total, to)

(* The footer of a clipped read.                                            *)
Offer(total, lo, to) ==
    <<LastShown(total, lo, to) + 1, IF to > 0 THEN Asked(total, to) ELSE LastShown(total, lo, to) + window(to > 0)>>

(* What a read of lines that are there returns.                             *)
LinesRead(total, lo, to) ==
    [kind |-> "lines", lo |-> lo, hi |-> LastShown(total, lo, to), asked |-> Asked(total, to),
     next |-> IF Clips(total, lo, to) THEN Offer(total, lo, to) ELSE <<>>]

(* The fields of it.                                                        *)
LEMMA LinesReadFields ==
    ASSUME NEW total, NEW lo, NEW to
    PROVE  /\ LinesRead(total, lo, to).kind = "lines" /\ LinesRead(total, lo, to).lo = lo
           /\ LinesRead(total, lo, to).hi = LastShown(total, lo, to)
           /\ LinesRead(total, lo, to).asked = Asked(total, to)
           /\ LinesRead(total, lo, to).next = IF Clips(total, lo, to) THEN Offer(total, lo, to) ELSE <<>>
BY Zenon DEF LinesRead

(* What a read of lines that are there shows, leaves and offers.            *)
LEMMA ReadLines ==
    ASSUME duty \in DOMAIN Jobs, NEW text \in Text, There(text), NEW from \in Int, NEW to \in Int,
           NEW lo \in Int, lo = (IF from < 1 THEN 1 ELSE from),
           NEW total, total = lineCount(readBounded(text).data), lo <= total,
           NEW o, o = read(text, from, to)
    PROVE  /\ total \in Nat /\ lo >= 1 /\ LastShown(total, lo, to) \in Int
           /\ \E c \in Nat :
                 /\ c = IF LastShown(total, lo, to) >= lo THEN LastShown(total, lo, to) - lo + 1 ELSE 0
                 /\ shows(text, o) = Consecutive(readBounded(text).data, lo, c)
           /\ left(o) = Asked(total, to) - LastShown(total, lo, to)
           /\ next(o) = IF Clips(total, lo, to) THEN Offer(total, lo, to) ELSE <<>>
<1> DEFINE data == readBounded(text).data
           hi == LastShown(total, lo, to)
           c == IF hi >= lo THEN hi - lo + 1 ELSE 0
<1>1. data \in Text /\ total \in Nat /\ lo >= 1 /\ total # 0
  <2>1. data \in Text
    BY ReadBounded
  <2>2. total \in Nat
    BY <2>1, LineCount
  <2>3. lo >= 1
    OBVIOUS
  <2>4. QED
    BY <2>1, <2>2, <2>3
<1>2. Asked(total, to) \in Int /\ window(to > 0) \in Int
  <2>1. window(TRUE) \in Nat \ {0} /\ window(FALSE) \in Nat \ {0}
    BY Windows, Zenon
  <2>2. (to > 0) = TRUE \/ (to > 0) = FALSE
    OBVIOUS
  <2>3. window(to > 0) \in Nat \ {0}
    BY <2>1, <2>2, Zenon
  <2>4. Asked(total, to) \in Int
    BY <1>1 DEF Asked
  <2>5. QED
    BY <2>3, <2>4
<1>3. hi \in Int
  BY <1>2 DEF LastShown
<1>4. o = LinesRead(total, lo, to)
  <2>1. o = readFileOp(data, from, to)
    BY Zenon DEF read
  <2>2. ~(lo > total)
    BY <1>1
  <2>3. QED
    BY <1>1, <2>1, <2>2, Zenon DEF readFileOp, footer, Asked, Clips, LastShown, LinesRead, Offer
<1>5. /\ o.kind = "lines" /\ o.lo = lo /\ o.hi = hi /\ o.asked = Asked(total, to)
      /\ o.next = IF Clips(total, lo, to) THEN Offer(total, lo, to) ELSE <<>>
  BY <1>4, LinesReadFields
<1>6. left(o) = Asked(total, to) - hi /\ next(o) = IF Clips(total, lo, to) THEN Offer(total, lo, to) ELSE <<>>
  BY <1>5, Zenon DEF left, next
<1>7. shows(text, o) = [k \in 1..(hi - lo + 1) |-> line(data, lo + k - 1)]
  BY <1>5, Zenon DEF shows
<1> HIDE DEF hi
<1>8. c \in Nat /\ 1..(hi - lo + 1) = 1..c
  BY <1>3
<1>9. shows(text, o) = Consecutive(data, lo, c)
  BY <1>7, <1>8, Zenon DEF Consecutive
<1>10. QED
  BY <1>1, <1>3, <1>6, <1>8, <1>9, Zenon DEF hi

(* A read of any kind shows lines, leaves a number and offers a range.      *)
Offers == {<<>>} \cup (Int \X Int)

LEMMA ReadShape ==
    ASSUME duty \in DOMAIN Jobs, NEW text \in Text, NEW from \in Int, NEW to \in Int, NEW o, o = read(text, from, to)
    PROVE  shows(text, o) \in Seq(Shown) /\ left(o) \in Int /\ next(o) \in Offers
<1> DEFINE data == readBounded(text).data
           total == lineCount(data)
           lo == IF from < 1 THEN 1 ELSE from
<1>1. data \in Text /\ total \in Nat /\ lo \in Int
  <2>1. data \in Text
    BY ReadBounded
  <2>2. QED
    BY <2>1, LineCount
<1>2. CASE There(text) /\ lo <= total
  <2>1. /\ LastShown(total, lo, to) \in Int
        /\ \E c \in Nat : shows(text, o) = Consecutive(data, lo, c)
        /\ left(o) = Asked(total, to) - LastShown(total, lo, to)
        /\ next(o) = IF Clips(total, lo, to) THEN Offer(total, lo, to) ELSE <<>>
    <3> HIDE DEF lo
    <3>1. lo \in Int /\ lo = IF from < 1 THEN 1 ELSE from
      BY <1>1 DEF lo
    <3> HIDE DEF total
    <3>2. total = lineCount(readBounded(text).data) /\ lo <= total
      BY <1>2 DEF total
    <3>3. QED
      BY <1>2, <3>1, <3>2, ReadLines
  <2> HIDE DEF data, total, lo
  <2>2. Asked(total, to) \in Int /\ window(to > 0) \in Int
    <3>1. window(TRUE) \in Nat \ {0} /\ window(FALSE) \in Nat \ {0}
      BY Windows, Zenon
    <3>2. (to > 0) = TRUE \/ (to > 0) = FALSE
      OBVIOUS
    <3>3. window(to > 0) \in Nat \ {0}
      BY <3>1, <3>2, Zenon
    <3>4. Asked(total, to) \in Int
      BY <1>1 DEF Asked
    <3>5. QED
      BY <3>3, <3>4
  <2>3. shows(text, o) \in Seq(Shown)
    BY <1>1, <2>1, ConsecutiveType
  <2>4. Offer(total, lo, to) \in Int \X Int
    BY <2>1, <2>2 DEF Offer
  <2>5. QED
    BY <2>1, <2>2, <2>3, <2>4 DEF Offers
<1>3. CASE ~(There(text) /\ lo <= total)
  <2>1. o.kind # "lines"
    <3>1. CASE ~There(text)
      <4>1. o = [kind |-> "noSuchFile"]
        BY <3>1, Zenon DEF read
      <4>2. QED
        BY <4>1
    <3>2. CASE There(text) /\ ~(lo <= total)
      <4>1. o = readFileOp(data, from, to)
        BY <3>2, Zenon DEF read
      <4>2. lo > total
        BY <1>1, <3>2
      <4>3. o = [kind |-> "empty"] \/ o = [kind |-> "pastEnd"]
        BY <4>1, <4>2, Zenon DEF readFileOp
      <4>4. QED
        BY <4>3
    <3>3. QED
      BY <1>3, <3>1, <3>2
  <2>2. shows(text, o) = <<>> /\ left(o) = 0 /\ next(o) = <<>>
    BY <2>1, Zenon DEF shows, left, next
  <2>3. <<>> \in Seq(Shown)
    OBVIOUS
  <2>4. QED
    BY <2>2, <2>3 DEF Offers
<1>4. QED
  BY <1>2, <1>3

(* Where a reader stands that was shown got lines from line lo on: what is  *)
(* left and offered of a closed range, and of an open one, whose second     *)
(* window is the last.                                                      *)
Pagers == [lo : Int, hi : Int, closed : BOOLEAN, shown : Seq(Shown), left : Int, next : Offers, base : Text]

End(total, lo, hi) ==
    LET last == IF hi < lo THEN lo - 1 ELSE hi IN IF hi > 0 /\ last < total THEN last ELSE total

Stands(total, lo, hi, got, rest, offer, win) ==
    /\ lo + got - 1 <= total
    /\ hi > 0 => /\ lo + got - 1 + rest = End(total, lo, hi)
                 /\ offer # <<>> => offer = <<lo + got, End(total, lo, hi)>> /\ lo + got <= End(total, lo, hi)
    /\ ~(hi > 0) => /\ offer # <<>> => got = win /\ lo + got <= total /\ offer = <<lo + got, lo + got - 1 + win>>
                    /\ offer = <<>> => got >= 2 * win \/ lo + got - 1 = total

Paged(p, win) ==
    /\ p \in Pagers /\ p.closed = (p.hi > 0)
    /\ (There(p.base) /\ p.lo \in 1..lineCount(readBounded(p.base).data)) =>
          /\ p.shown = Consecutive(readBounded(p.base).data, p.lo, Len(p.shown))
          /\ Stands(lineCount(readBounded(p.base).data), p.lo, p.hi, Len(p.shown), p.left, p.next, win)

Paging == Paged(pager, window(FALSE))

(* The first page.                                                          *)
LEMMA FirstPage ==
    ASSUME NEW total \in Nat, NEW lo \in 1..total, NEW to \in Int, duty \in DOMAIN Jobs
    PROVE  Stands(total, lo, to, IF LastShown(total, lo, to) >= lo THEN LastShown(total, lo, to) - lo + 1 ELSE 0,
                  Asked(total, to) - LastShown(total, lo, to),
                  IF Clips(total, lo, to) THEN Offer(total, lo, to) ELSE <<>>, window(FALSE))
<1> DEFINE W == window(FALSE)
           X == window(TRUE)
           hi == LastShown(total, lo, to)
           got == IF hi >= lo THEN hi - lo + 1 ELSE 0
           asked == Asked(total, to)
           offer == IF Clips(total, lo, to) THEN Offer(total, lo, to) ELSE <<>>
           end == End(total, lo, to)
<1>1. W \in Nat \ {0} /\ X \in Nat \ {0} /\ W <= X
  BY Windows, Zenon
<1>2. CASE to > 0
  <2>1. (to > 0) = TRUE
    BY <1>2
  <2>2. /\ asked = (IF to > total THEN total ELSE to)
        /\ hi = (IF asked - lo + 1 > X THEN lo + X - 1 ELSE asked)
        /\ offer = (IF asked - lo + 1 > X THEN <<hi + 1, asked>> ELSE <<>>)
    <3>1. asked = (IF to > total THEN total ELSE to)
      BY <1>2 DEF Asked
    <3> HIDE DEF asked
    <3>2. Clips(total, lo, to) = (asked - lo + 1 > X)
      BY <2>1, Zenon DEF Clips, asked
    <3>3. hi = (IF Clips(total, lo, to) THEN lo + X - 1 ELSE asked)
      BY <2>1, Zenon DEF LastShown, asked
    <3>4. Offer(total, lo, to) = <<hi + 1, asked>>
      BY <1>2, Zenon DEF Offer, asked
    <3>5. QED
      BY <3>1, <3>2, <3>3, <3>4
  <2>3. end = (IF (IF to < lo THEN lo - 1 ELSE to) < total THEN (IF to < lo THEN lo - 1 ELSE to) ELSE total)
    BY <1>2 DEF End
  <2> HIDE DEF W, X, hi, asked, offer, end
  <2>4. /\ lo + got - 1 <= total
        /\ lo + got - 1 + (asked - hi) = end
        /\ offer # <<>> => offer = <<lo + got, end>> /\ lo + got <= end
    <3>1. CASE asked - lo + 1 > X
      <4>1. asked \in Int /\ hi = lo + X - 1 /\ hi \in Int /\ got = X /\ offer = <<hi + 1, asked>>
        BY <1>1, <2>2, <3>1
      <4>2. asked = end /\ lo + got = hi + 1 /\ lo + got <= end /\ end <= total
        BY <1>1, <2>2, <2>3, <3>1, <4>1
      <4>3. QED
        BY <1>1, <4>1, <4>2
    <3>2. CASE ~(asked - lo + 1 > X)
      BY <1>1, <2>2, <2>3, <3>2
    <3>3. QED
      BY <3>1, <3>2
  <2>5. QED
    BY <1>2, <2>4 DEF Stands, W, X, hi, asked, offer, end
<1>3. CASE ~(to > 0)
  <2>1. (to > 0) = FALSE
    BY <1>3
  <2>2. /\ asked = total
        /\ hi = (IF total - lo + 1 > W THEN lo + W - 1 ELSE total)
        /\ offer = (IF total - lo + 1 > W THEN <<hi + 1, hi + W>> ELSE <<>>)
    <3>1. asked = total
      BY <1>3 DEF Asked
    <3> HIDE DEF asked
    <3>2. Clips(total, lo, to) = (asked - lo + 1 > W)
      BY <2>1, Zenon DEF Clips, asked
    <3>3. hi = (IF Clips(total, lo, to) THEN lo + W - 1 ELSE asked)
      BY <2>1, Zenon DEF LastShown, asked
    <3>4. Offer(total, lo, to) = <<hi + 1, hi + W>>
      BY <1>3, <2>1, Zenon DEF Offer
    <3>5. QED
      BY <3>1, <3>2, <3>3, <3>4
  <2> HIDE DEF W, X, hi, asked, offer, end
  <2>3. /\ lo + got - 1 <= total
        /\ offer # <<>> => got = W /\ lo + got <= total /\ offer = <<lo + got, lo + got - 1 + W>>
        /\ offer = <<>> => got >= 2 * W \/ lo + got - 1 = total
    <3>1. CASE total - lo + 1 > W
      <4>1. hi = lo + W - 1 /\ got = W /\ offer = <<hi + 1, hi + W>>
        BY <1>1, <2>2, <3>1
      <4>2. hi + 1 = lo + got /\ hi + W = lo + got - 1 + W /\ lo + got <= total
        BY <1>1, <3>1, <4>1
      <4>3. offer # <<>>
        BY <4>1
      <4>4. QED
        BY <1>1, <4>1, <4>2, <4>3
    <3>2. CASE ~(total - lo + 1 > W)
      BY <1>1, <2>2, <3>2
    <3>3. QED
      BY <3>1, <3>2
  <2>4. QED
    BY <1>3, <2>3 DEF Stands, W, hi, asked, offer
<1>4. QED
  BY <1>2, <1>3

(* How many lines the page from lo to to shows, and what it offers.         *)
PageSize(total, lo, to) == IF LastShown(total, lo, to) >= lo THEN LastShown(total, lo, to) - lo + 1 ELSE 0
PageOffer(total, lo, to) == IF Clips(total, lo, to) THEN Offer(total, lo, to) ELSE <<>>

(* Another page: it begins where the last one ended.                        *)
LEMMA NextPage ==
    ASSUME NEW total \in Nat, NEW lo \in 1..total, NEW hi \in Int, NEW got \in Nat, NEW rest \in Int,
           NEW a \in Int, NEW b \in Int, duty \in DOMAIN Jobs,
           Stands(total, lo, hi, got, rest, <<a, b>>, window(FALSE))
    PROVE  /\ a = lo + got /\ a \in 1..total
           /\ Stands(total, lo, hi, got + PageSize(total, a, b), Asked(total, b) - LastShown(total, a, b),
                     PageOffer(total, a, b), window(FALSE))
<1> DEFINE W == window(FALSE)
           X == window(TRUE)
           offer == <<a, b>>
           upto == LastShown(total, a, b)
           n == IF upto >= a THEN upto - a + 1 ELSE 0
           asked == Asked(total, b)
           again == IF Clips(total, a, b) THEN Offer(total, a, b) ELSE <<>>
           end == End(total, lo, hi)
<1>1. W \in Nat \ {0} /\ X \in Nat \ {0} /\ W <= X
  BY Windows, Zenon
<1>2. offer # <<>> /\ end \in Int /\ end <= total
  <2>1. offer # <<>>
    <3>1. <<a, b>> \in Seq(Int) /\ Len(<<a, b>>) = 2 /\ Len(<<>>) = 0
      OBVIOUS
    <3>2. QED
      BY <3>1
  <2>2. end = IF hi > 0 /\ (IF hi < lo THEN lo - 1 ELSE hi) < total THEN IF hi < lo THEN lo - 1 ELSE hi ELSE total
    BY Zenon DEF End
  <2> HIDE DEF end
  <2>3. end \in Int /\ end <= total
    BY <2>2
  <2>4. QED
    BY <2>1, <2>3
<1>3. /\ hi > 0 => /\ lo + got - 1 + rest = end
                   /\ offer = <<lo + got, end>> /\ lo + got <= end
      /\ ~(hi > 0) => got = W /\ lo + got <= total /\ offer = <<lo + got, lo + got - 1 + W>>
  BY <1>2, Zenon DEF Stands
<1> HIDE DEF W, X, end
<1>4. /\ a = lo + got /\ a \in Int /\ 1 <= a /\ a <= total
      /\ hi > 0 => b = end /\ a <= b
      /\ ~(hi > 0) => b = a - 1 + W /\ got = W
  BY <1>1, <1>2, <1>3
<1>5. b \in Int /\ b > 0 /\ a <= b
  BY <1>1, <1>2, <1>4
<1>6. /\ asked = (IF b > total THEN total ELSE b)
      /\ upto = (IF asked - a + 1 > X THEN a + X - 1 ELSE asked)
      /\ again = (IF asked - a + 1 > X THEN <<upto + 1, asked>> ELSE <<>>)
  <2>1. (b > 0) = TRUE
    BY <1>5
  <2>2. asked = (IF b > total THEN total ELSE b)
    BY <1>5 DEF Asked
  <2> HIDE DEF asked
  <2>3. Clips(total, a, b) = (asked - a + 1 > X)
    BY <2>1, Zenon DEF Clips, asked, X
  <2>4. upto = (IF Clips(total, a, b) THEN a + X - 1 ELSE asked)
    BY <2>1, Zenon DEF LastShown, asked, X
  <2>5. Offer(total, a, b) = <<upto + 1, asked>>
    BY <1>5, Zenon DEF Offer, asked
  <2>6. QED
    BY <2>2, <2>3, <2>4, <2>5
<1> HIDE DEF upto, asked, again
<1>7. asked \in Int /\ a <= asked /\ asked <= total
  BY <1>4, <1>5, <1>6
<1> DEFINE Thus == Stands(total, lo, hi, got + n, asked - upto, again, W)
<1>8. Thus \/ ~(hi > 0)
  <2> SUFFICES ASSUME hi > 0 PROVE Thus
    OBVIOUS
  <2>1. /\ lo + (got + n) - 1 <= total
        /\ lo + (got + n) - 1 + (asked - upto) = end
        /\ again # <<>> => again = <<lo + (got + n), end>> /\ lo + (got + n) <= end
    <3>1. asked = end
      BY <1>2, <1>4, <1>6
    <3>2. CASE asked - a + 1 > X
      <4>1. upto = a + X - 1 /\ n = X /\ again = <<upto + 1, asked>>
        <5>1. upto = a + X - 1 /\ again = <<upto + 1, asked>>
          BY <1>6, <3>2, Zenon
        <5>2. n = X
          BY <1>1, <1>4, <5>1
        <5>3. QED
          BY <5>1, <5>2
      <4>2. upto + 1 = lo + (got + n) /\ lo + (got + n) <= end
        BY <1>1, <1>4, <1>7, <3>1, <3>2, <4>1
      <4>3. QED
        BY <1>1, <1>2, <1>4, <1>7, <3>1, <4>1, <4>2
    <3>3. CASE ~(asked - a + 1 > X)
      <4>1. upto = asked /\ n = asked - a + 1 /\ again = <<>>
        BY <1>4, <1>6, <1>7, <3>3
      <4>2. QED
        BY <1>4, <1>7, <3>1, <4>1
    <3>4. QED
      BY <3>2, <3>3
  <2> HIDE DEF n
  <2>2. QED
    BY <2>1, Zenon DEF Stands, end
<1>9. Thus \/ hi > 0
  <2> SUFFICES ASSUME ~(hi > 0) PROVE Thus
    OBVIOUS
  <2>1. ~(asked - a + 1 > X)
    BY <1>1, <1>4, <1>6, <1>7
  <2>2. upto = asked /\ n = asked - a + 1 /\ again = <<>>
    BY <1>4, <1>6, <1>7, <2>1
  <2>3. lo + (got + n) - 1 = asked /\ asked <= total
    BY <1>4, <1>7, <2>2
  <2>4. got + n >= 2 * W \/ lo + (got + n) - 1 = total
    BY <1>1, <1>4, <1>6, <1>7, <2>2, <2>3
  <2>5. lo + (got + n) - 1 <= total
    BY <2>3
  <2> HIDE DEF n
  <2>6. QED
    BY <2>2, <2>4, <2>5, Zenon DEF Stands
<1>10. a = lo + got /\ a \in 1..total
  BY <1>4
<1>11. QED
  BY <1>8, <1>9, <1>10, Zenon DEF W, upto, asked, again, PageSize, PageOffer

(* The range an argument asks for is none, or a pair of numbers.            *)
LEMMA ReadArgs ==
    ASSUME duty \in DOMAIN Jobs, NEW spec \in job.reads, parseReadArg(spec) # <<>>
    PROVE  parseReadArg(spec) \in Int \X Int
<1>1. spec.a \in Int /\ spec.b \in Int
  BY JobsAssumption DEF job
<1>2. parseReadArg(spec) \in {<<0, 0>>, <<spec.a, spec.a>>, <<spec.a, 0>>, <<spec.a, spec.b>>, <<>>}
  BY DEF parseReadArg
<1>3. QED
  BY <1>1, <1>2

(* The reader begins with nothing.                                          *)
LEMMA PagingInit == ToolsInit => Paging
<1> SUFFICES ASSUME ToolsInit PROVE Paging
  OBVIOUS
<1>1. pager = NoPager
  BY Zenon DEF ToolsInit
<1>2. /\ pager.lo = 0 /\ pager.hi = 0 /\ pager.closed = FALSE /\ pager.shown = <<>> /\ pager.left = 0
      /\ pager.next = <<>> /\ pager.base = <<>>
  BY <1>1, Zenon DEF NoPager
<1>3. <<>> \in Seq(Shown) /\ <<>> \in Text /\ <<>> \in Offers
  BY TextOps DEF Offers
<1> HIDE DEF Shown
<1>4. pager \in Pagers
  BY <1>1, <1>3 DEF Pagers, NoPager
<1>5. pager.closed = (pager.hi > 0) /\ ~(pager.lo \in 1..lineCount(readBounded(pager.base).data))
  <2>1. pager.closed = (pager.hi > 0)
    <3>1. (0 > 0) = FALSE
      OBVIOUS
    <3>2. QED
      BY <1>2, <3>1, Zenon
  <2>2. \A n : ~(0 \in 1..n)
    OBVIOUS
  <2>3. ~(pager.lo \in 1..lineCount(readBounded(pager.base).data))
    BY <1>2, <2>2, Zenon
  <2>4. QED
    BY <2>1, <2>3
<1>6. QED
  BY <1>4, <1>5 DEF Paging, Paged

(* What a reader is after the first page.                                   *)
FirstPager(lo, hi, text, o) ==
    [lo |-> lo, hi |-> hi, closed |-> hi > 0, shown |-> shows(text, o), left |-> left(o), next |-> next(o), base |-> text]

(* The fields of it.                                                        *)
LEMMA FirstPagerFields ==
    ASSUME NEW lo \in Int, NEW hi \in Int, NEW text \in Text, NEW o,
           shows(text, o) \in Seq(Shown), left(o) \in Int, next(o) \in Offers
    PROVE  /\ FirstPager(lo, hi, text, o) \in Pagers
           /\ FirstPager(lo, hi, text, o).lo = lo /\ FirstPager(lo, hi, text, o).hi = hi
           /\ FirstPager(lo, hi, text, o).closed = (hi > 0)
           /\ FirstPager(lo, hi, text, o).shown = shows(text, o)
           /\ FirstPager(lo, hi, text, o).left = left(o)
           /\ FirstPager(lo, hi, text, o).next = next(o)
           /\ FirstPager(lo, hi, text, o).base = text
<1> DEFINE s == shows(text, o)
           r == left(o)
           n == next(o)
           c == hi > 0
<1>1. s \in Seq(Shown) /\ r \in Int /\ n \in Offers /\ c \in BOOLEAN
  OBVIOUS
<1> HIDE DEF s, r, n, c
<1>2. FirstPager(lo, hi, text, o)
        = [lo |-> lo, hi |-> hi, closed |-> c, shown |-> s, left |-> r, next |-> n, base |-> text]
  BY Zenon DEF FirstPager, s, r, n, c
<1>3. /\ FirstPager(lo, hi, text, o) \in Pagers
      /\ FirstPager(lo, hi, text, o).lo = lo /\ FirstPager(lo, hi, text, o).hi = hi
      /\ FirstPager(lo, hi, text, o).closed = c /\ FirstPager(lo, hi, text, o).shown = s
      /\ FirstPager(lo, hi, text, o).left = r /\ FirstPager(lo, hi, text, o).next = n
      /\ FirstPager(lo, hi, text, o).base = text
  <2> HIDE DEF Shown, Offers
  <2>1. FirstPager(lo, hi, text, o) \in Pagers
    BY <1>1, <1>2 DEF Pagers
  <2>2. /\ FirstPager(lo, hi, text, o).lo = lo /\ FirstPager(lo, hi, text, o).hi = hi
        /\ FirstPager(lo, hi, text, o).closed = c /\ FirstPager(lo, hi, text, o).shown = s
        /\ FirstPager(lo, hi, text, o).left = r /\ FirstPager(lo, hi, text, o).next = n
        /\ FirstPager(lo, hi, text, o).base = text
    BY <1>2
  <2>3. QED
    BY <2>1, <2>2, Zenon
<1>4. QED
  BY <1>3, Zenon DEF s, r, n, c

(* What a reader is after another page, of the file it has read from as     *)
(* long as that is what is there.                                           *)
KeptBase(p, text) == IF p.base = text THEN p.base ELSE Missing
NextPager(p, text, o) ==
    [p EXCEPT !.shown = @ \o shows(text, o), !.left = left(o), !.next = next(o),
              !.base = IF @ = text THEN @ ELSE Missing]

(* The fields of it.                                                        *)
LEMMA NextPagerFields ==
    ASSUME NEW p \in Pagers, NEW text \in Text, NEW o,
           shows(text, o) \in Seq(Shown), left(o) \in Int, next(o) \in Offers
    PROVE  /\ NextPager(p, text, o) \in Pagers
           /\ NextPager(p, text, o).lo = p.lo /\ NextPager(p, text, o).hi = p.hi
           /\ NextPager(p, text, o).closed = p.closed
           /\ NextPager(p, text, o).shown = p.shown \o shows(text, o)
           /\ NextPager(p, text, o).left = left(o) /\ NextPager(p, text, o).next = next(o)
           /\ NextPager(p, text, o).base = KeptBase(p, text)
<1> DEFINE s == p.shown \o shows(text, o)
           r == left(o)
           n == next(o)
           b == KeptBase(p, text)
<1>1. s \in Seq(Shown) /\ r \in Int /\ n \in Offers /\ b \in Text
  <2>1. p.shown \in Seq(Shown) /\ p.base \in Text
    BY Zenon DEF Pagers
  <2>2. s \in Seq(Shown)
    BY <2>1, ConcatProperties, Zenon
  <2>3. Missing \in Text
    BY DEF Missing, Text, Symbols
  <2>4. QED
    BY <2>1, <2>2, <2>3, Zenon DEF KeptBase
<1> HIDE DEF s, r, n, b
<1>2. NextPager(p, text, o) = [p EXCEPT !.shown = s, !.left = r, !.next = n, !.base = b]
  BY Zenon DEF NextPager, KeptBase, s, r, n, b
<1>3. /\ NextPager(p, text, o) \in Pagers
      /\ NextPager(p, text, o).lo = p.lo /\ NextPager(p, text, o).hi = p.hi
      /\ NextPager(p, text, o).closed = p.closed /\ NextPager(p, text, o).shown = s
      /\ NextPager(p, text, o).left = r /\ NextPager(p, text, o).next = n
      /\ NextPager(p, text, o).base = b
  BY <1>1, <1>2, Zenon DEF Pagers
<1>4. QED
  BY <1>3, Zenon DEF s, r, n, b

(* A read begins a reader that adds up.                                     *)
LEMMA BeginPaging ==
    ASSUME duty \in DOMAIN Jobs, NEW text \in Text, NEW from \in Int, NEW to \in Int,
           NEW o, o = read(text, from, to), NEW lo \in Int, lo = (IF from < 1 THEN 1 ELSE from)
    PROVE  Paged(FirstPager(lo, to, text, o), window(FALSE))
<1> DEFINE data == readBounded(text).data
           total == lineCount(data)
           p == FirstPager(lo, to, text, o)
<1>1. shows(text, o) \in Seq(Shown) /\ left(o) \in Int /\ next(o) \in Offers
  BY ReadShape
<1>2. /\ p \in Pagers /\ p.lo = lo /\ p.hi = to /\ p.closed = (to > 0) /\ p.shown = shows(text, o)
      /\ p.left = left(o) /\ p.next = next(o) /\ p.base = text
  BY <1>1, FirstPagerFields
<1> HIDE DEF p
<1>3. data \in Text /\ total \in Nat
  <2>1. data \in Text
    BY ReadBounded
  <2>2. QED
    BY <2>1, LineCount
<1>4. ASSUME There(text), lo \in 1..total
      PROVE  /\ p.shown = Consecutive(data, lo, Len(p.shown))
             /\ Stands(total, lo, to, Len(p.shown), p.left, p.next, window(FALSE))
  <2> HIDE DEF total
  <2>1. total = lineCount(readBounded(text).data) /\ lo <= total
    BY <1>3, <1>4 DEF total
  <2>2. PICK c \in Nat :
             /\ c = IF LastShown(total, lo, to) >= lo THEN LastShown(total, lo, to) - lo + 1 ELSE 0
             /\ shows(text, o) = Consecutive(readBounded(text).data, lo, c)
    BY <1>4, <2>1, ReadLines
  <2>3. /\ left(o) = Asked(total, to) - LastShown(total, lo, to)
        /\ next(o) = IF Clips(total, lo, to) THEN Offer(total, lo, to) ELSE <<>>
    BY <1>4, <2>1, ReadLines
  <2>4. Len(p.shown) = c /\ p.shown = Consecutive(data, lo, c)
    <3>1. p.shown = Consecutive(data, lo, c)
      BY <1>2, <2>2, Zenon
    <3> HIDE DEF data
    <3>2. Len(Consecutive(data, lo, c)) = c
      BY <1>3, ConsecutiveType
    <3>3. QED
      BY <3>1, <3>2, Zenon
  <2>5. Stands(total, lo, to, IF LastShown(total, lo, to) >= lo THEN LastShown(total, lo, to) - lo + 1 ELSE 0,
               Asked(total, to) - LastShown(total, lo, to),
               IF Clips(total, lo, to) THEN Offer(total, lo, to) ELSE <<>>, window(FALSE))
    BY <1>3, <1>4, FirstPage, Zenon
  <2>6. QED
    BY <1>2, <2>2, <2>3, <2>4, <2>5, Zenon
<1>5. QED
  BY <1>2, <1>4, Zenon DEF Paged, p

(* Following a footer carries it on, if the file is what it was.            *)
LEMMA GoOnPaging ==
    ASSUME duty \in DOMAIN Jobs, NEW text \in Text, NEW p \in Pagers, Paged(p, window(FALSE)), p.next # <<>>,
           NEW o, o = read(text, p.next[1], p.next[2])
    PROVE  Paged(NextPager(p, text, o), window(FALSE))
<1> DEFINE from == p.next[1]
           to == p.next[2]
           data == readBounded(text).data
           total == lineCount(data)
           q == NextPager(p, text, o)
<1>1. p.next \in Int \X Int /\ from \in Int /\ to \in Int /\ p.shown \in Seq(Shown) /\ Len(p.shown) \in Nat
      /\ p.left \in Int /\ p.lo \in Int /\ p.hi \in Int
  <2>1. p.next \in Offers /\ p.shown \in Seq(Shown) /\ p.left \in Int /\ p.lo \in Int /\ p.hi \in Int
    BY Zenon DEF Pagers
  <2> HIDE DEF Shown
  <2>2. p.next \in Int \X Int
    BY <2>1 DEF Offers
  <2>3. QED
    BY <2>1, <2>2
<1>2. shows(text, o) \in Seq(Shown) /\ left(o) \in Int /\ next(o) \in Offers
  BY <1>1, ReadShape
<1>3. /\ q \in Pagers /\ q.lo = p.lo /\ q.hi = p.hi /\ q.closed = p.closed
      /\ q.shown = p.shown \o shows(text, o) /\ q.left = left(o) /\ q.next = next(o)
      /\ q.base = KeptBase(p, text)
  BY <1>2, NextPagerFields, ZenonT(40)
<1> HIDE DEF q
<1>4. data \in Text /\ total \in Nat
  <2>1. data \in Text
    BY ReadBounded
  <2>2. QED
    BY <2>1, LineCount
<1>5. ASSUME There(q.base), q.lo \in 1..lineCount(readBounded(q.base).data)
      PROVE  /\ q.shown = Consecutive(readBounded(q.base).data, q.lo, Len(q.shown))
             /\ Stands(lineCount(readBounded(q.base).data), q.lo, q.hi, Len(q.shown), q.left, q.next, window(FALSE))
  <2>1. p.base = text /\ q.base = text
    BY <1>3, <1>5, Zenon DEF There, KeptBase
  <2>2. There(text) /\ p.lo \in 1..total
    BY <1>3, <1>5, <2>1, Zenon
  <2>3. /\ p.shown = Consecutive(data, p.lo, Len(p.shown))
        /\ Stands(total, p.lo, p.hi, Len(p.shown), p.left, p.next, window(FALSE))
    BY <2>1, <2>2, Zenon DEF Paged
  <2> HIDE DEF total, data
  <2>4. /\ from = p.lo + Len(p.shown) /\ from \in 1..total
        /\ Stands(total, p.lo, p.hi, Len(p.shown) + PageSize(total, from, to),
                  Asked(total, to) - LastShown(total, from, to), PageOffer(total, from, to), window(FALSE))
    <3> DEFINE n == Len(p.shown)
               f == from
               g == to
               l == p.lo
               h == p.hi
               r == p.left
    <3>1. p.next = <<f, g>>
      BY <1>1
    <3>2. n \in Nat /\ f \in Int /\ g \in Int /\ l \in 1..total /\ h \in Int /\ r \in Int
          /\ Stands(total, l, h, n, r, <<f, g>>, window(FALSE))
      BY <1>1, <2>2, <2>3, <3>1, Zenon
    <3> HIDE DEF n, f, g, l, h, r
    <3>3. /\ f = l + n /\ f \in 1..total
          /\ Stands(total, l, h, n + PageSize(total, f, g), Asked(total, g) - LastShown(total, f, g),
                    PageOffer(total, f, g), window(FALSE))
      BY <1>4, <3>2, NextPage
    <3>4. QED
      BY <3>3, Zenon DEF n, f, g, l, h, r
  <2> HIDE DEF from, to
  <2>5. total = lineCount(readBounded(text).data) /\ from <= total /\ from = (IF from < 1 THEN 1 ELSE from)
        /\ o = read(text, from, to)
    BY <1>4, <2>4, <1>1 DEF total, data, from, to
  <2>6. PICK c \in Nat :
             /\ c = IF LastShown(total, from, to) >= from THEN LastShown(total, from, to) - from + 1 ELSE 0
             /\ shows(text, o) = Consecutive(readBounded(text).data, from, c)
    BY <1>1, <2>2, <2>5, ReadLines
  <2>7. /\ left(o) = Asked(total, to) - LastShown(total, from, to)
        /\ next(o) = IF Clips(total, from, to) THEN Offer(total, from, to) ELSE <<>>
    BY <1>1, <2>2, <2>5, ReadLines
  <2>8. q.shown = Consecutive(data, p.lo, Len(p.shown) + c) /\ Len(q.shown) = Len(p.shown) + c
    <3> DEFINE n == Len(p.shown)
    <3>1. shows(text, o) = Consecutive(data, p.lo + n, c)
      BY <2>4, <2>6, Zenon DEF data
    <3>2. q.shown = Consecutive(data, p.lo, n) \o Consecutive(data, p.lo + n, c)
      BY <1>3, <2>3, <3>1, Zenon
    <3>3. n \in Nat
      BY <1>1
    <3> HIDE DEF n
    <3>4. q.shown = Consecutive(data, p.lo, n + c)
      <4> DEFINE l == p.lo
      <4>1. l \in Int
        BY <1>1
      <4> HIDE DEF l
      <4>2. Consecutive(data, l, n) \o Consecutive(data, l + n, c) = Consecutive(data, l, n + c)
        BY <1>4, <3>3, <4>1, ConsecutiveJoin
      <4>3. QED
        BY <3>2, <4>2, Zenon DEF l
    <3>5. n + c \in Nat
      BY <3>3
    <3>6. Len(q.shown) = n + c
      <4> DEFINE l == p.lo
                 m == n + c
      <4>1. l \in Int /\ m \in Nat
        BY <1>1, <3>5
      <4> HIDE DEF l, m
      <4>2. Len(Consecutive(data, l, m)) = m
        BY <1>4, <4>1, ConsecutiveType
      <4>3. QED
        BY <3>4, <4>2, Zenon DEF l, m
    <3>7. QED
      BY <3>4, <3>6 DEF n
  <2>9. q.shown = Consecutive(data, q.lo, Len(q.shown))
        /\ Stands(total, q.lo, q.hi, Len(q.shown), q.left, q.next, window(FALSE))
    BY <1>3, <2>4, <2>6, <2>7, <2>8, Zenon DEF PageSize, PageOffer
  <2>10. QED
    BY <2>1, <2>9, Zenon DEF total, data
<1>6. q.closed = (q.hi > 0)
  BY <1>3, Zenon DEF Paged
<1>7. QED
  BY <1>3, <1>5, <1>6, Zenon DEF Paged, q

(* Every step keeps the reader's pages adding up.                           *)
LEMMA PagingStep == FilesInv /\ Paging /\ [ToolsNext]_tvars => Paging'
<1> SUFFICES ASSUME FilesInv, Paging, [ToolsNext]_tvars PROVE Paging'
  OBVIOUS
<1>1. duty \in DOMAIN Jobs /\ disk \in Text
  BY Zenon DEF FilesInv, Typed
<1>2. window(FALSE)' = window(FALSE)
  <2>1. duty' = duty
    BY Zenon DEF ToolsNext, ReadFile, FollowFooter, WriteFile, EditFile, TryEdit, Land, LandFails, OutsideWrites, tvars
  <2>2. QED
    BY <2>1, Zenon DEF window, job
<1>3. pager \in Pagers /\ Paged(pager, window(FALSE))
  BY Zenon DEF Paging, Paged
<1>4. Paged(pager', window(FALSE))
  <2>1. CASE pager' = pager
    BY <1>3, <2>1, Zenon
  <2>2. CASE ReadFile
    <3>1. PICK spec \in job.reads :
            LET r == parseReadArg(spec)
            IN  IF r = <<>> THEN pager' = pager
                ELSE /\ obs' = read(disk, r[1], r[2])
                     /\ pager' = [lo |-> IF r[1] < 1 THEN 1 ELSE r[1], hi |-> r[2], closed |-> r[2] > 0,
                                  shown |-> shows(disk, obs'), left |-> left(obs'), next |-> next(obs'), base |-> disk]
      BY <2>2, Zenon DEF ReadFile
    <3>2. CASE parseReadArg(spec) = <<>>
      BY <1>3, <3>1, <3>2, Zenon
    <3>3. CASE parseReadArg(spec) # <<>>
      <4> DEFINE r == parseReadArg(spec)
                 from == r[1]
                 to == r[2]
                 lo == IF from < 1 THEN 1 ELSE from
      <4>1. r \in Int \X Int
        BY <1>1, <3>3, ReadArgs
      <4> HIDE DEF r
      <4>2. from \in Int /\ to \in Int /\ lo \in Int
        BY <4>1
      <4>3. obs' = read(disk, from, to) /\ pager' = FirstPager(lo, to, disk, obs')
        BY <3>1, <3>3, Zenon DEF FirstPager, r
      <4> HIDE DEF from, to
      <4>4. Paged(FirstPager(lo, to, disk, obs'), window(FALSE))
        <5> DEFINE n == lo
        <5>1. n \in Int /\ n = (IF from < 1 THEN 1 ELSE from)
          BY <4>2
        <5> HIDE DEF n
        <5>2. Paged(FirstPager(n, to, disk, obs'), window(FALSE))
          BY <1>1, <4>2, <4>3, <5>1, BeginPaging
        <5>3. QED
          BY <5>2 DEF n
      <4>5. QED
        BY <4>3, <4>4, Zenon
    <3>4. QED
      BY <3>2, <3>3
  <2>3. CASE FollowFooter
    <3>1. pager.next # <<>> /\ obs' = read(disk, pager.next[1], pager.next[2]) /\ pager' = NextPager(pager, disk, obs')
      BY <2>3, Zenon DEF FollowFooter, NextPager
    <3>2. QED
      BY <1>1, <1>3, <3>1, GoOnPaging
  <2>4. QED
    BY <2>1, <2>2, <2>3, Zenon DEF ToolsNext, WriteFile, EditFile, TryEdit, Land, LandFails, OutsideWrites, tvars
<1>5. QED
  BY <1>2, <1>4, Zenon DEF Paging

(* A reader who follows the footers is shown consecutive lines, each once,  *)
(* the count of what is left never lies, a closed range is delivered to its *)
(* end and an open one for two windows; and the writes add up (readFileOp,  *)
(* writeFileOp, editFileOp).                                                *)
THEOREM FilesHold == ToolsSpec => []FilesAddUp
<1>1. FilesInv /\ Paging => FilesAddUp
  <2> SUFFICES ASSUME FilesInv, Paging PROVE FilesAddUp
    OBVIOUS
  <2> DEFINE data == readBounded(pager.base).data
             total == lineCount(data)
             got == Len(pager.shown)
             last == IF pager.hi < pager.lo THEN pager.lo - 1 ELSE pager.hi
             end == IF pager.closed /\ last < total THEN last ELSE total
  <2>1. pager \in Pagers /\ pager.closed = (pager.hi > 0)
    BY Zenon DEF Paging, Paged
  <2>2. ASSUME There(pager.base), pager.lo \in 1..total
        PROVE  /\ pager.lo + got - 1 <= total
               /\ pager.shown = [k \in 1..got |-> line(data, pager.lo + k - 1)]
               /\ pager.closed => pager.lo + got - 1 + pager.left = end
               /\ (pager.next = <<>> /\ ~pager.closed) => got >= 2 * window(FALSE) \/ pager.lo + got - 1 = total
    <3>1. pager.shown = Consecutive(data, pager.lo, got)
          /\ Stands(total, pager.lo, pager.hi, got, pager.left, pager.next, window(FALSE))
      BY <2>2, Zenon DEF Paging, Paged
    <3>2. pager.shown = [k \in 1..got |-> line(data, pager.lo + k - 1)]
      BY <3>1, Zenon DEF Consecutive
    <3>3. end = End(total, pager.lo, pager.hi)
      BY <2>1, Zenon DEF End
    <3> HIDE DEF total, data, got, end
    <3>4. QED
      BY <2>1, <3>1, <3>2, <3>3, Zenon DEF Stands
  <2>3. ReadsAddUp
    BY <2>2, Zenon DEF ReadsAddUp
  <2>4. WritesAddUp
    BY DEF FilesInv, Writing, WritesAddUp
  <2>5. QED
    BY <2>3, <2>4 DEF FilesAddUp
<1>2. QED
  BY <1>1, FilesInit, PagingInit, FilesStep, PagingStep, PTL DEF ToolsSpec

-----------------------------------------------------------------------------
(* Edits.                                                                   *)

(* What the fields of an edit say, at the reading it was made at, and what  *)
(* is known of the file if that is not the best one.                        *)
LEMMA ReadingMade ==
    ASSUME FilesInv, op.kind = "edit"
    PROVE  \E k \in DOMAIN Readings(op.args) :
              /\ Readings(op.args)[k].old = op.old /\ Readings(op.args)[k].new = op.new
              /\ (k = 2 /\ ~op.touched) => occurrences(op.base, Readings(op.args)[1].old) = {}
<1>1. duty \in DOMAIN Jobs /\ op.args \in Jobs[duty].edits
  BY Zenon DEF FilesInv, Typed, job
<1>2. op.args.old \in Text /\ op.args.new \in Text
  BY <1>1, JobTexts
<1>3. /\ op.reading # "stripped" => op.old = First(op.args).old /\ op.new = First(op.args).new
      /\ op.reading = "stripped" =>
            /\ op.args.text /\ strips(First(op.args).old, First(op.args).new)
            /\ op.old = stripped(First(op.args).old, First(op.args).new).old
            /\ op.new = stripped(First(op.args).old, First(op.args).new).new
            /\ ~op.touched => occurrences(op.base, First(op.args).old) = {}
  BY Zenon DEF FilesInv, Editing
<1>4. /\ 1 \in DOMAIN Readings(op.args)
      /\ (op.args.text /\ strips(First(op.args).old, First(op.args).new)) =>
            2 \in DOMAIN Readings(op.args) /\ Readings(op.args)[2] = stripped(First(op.args).old, First(op.args).new)
  BY <1>2, ReadingsOf, Zenon
<1>5. CASE op.reading # "stripped"
  <2>1. 1 # 2
    OBVIOUS
  <2>2. QED
    BY <1>3, <1>4, <1>5, <2>1, Zenon DEF First
<1>6. CASE op.reading = "stripped"
  BY <1>3, <1>4, <1>6, Zenon DEF First
<1>7. QED
  BY <1>5, <1>6

(* The write of an edit lands.                                              *)
LEMMA LandSurgical ==
    ASSUME FilesInv, Land, op.kind = "edit"
    PROVE  EditsOnePlace
<1> DEFINE i == matches(op.base, op.old)[1]
           mode == op.args.mode
           L == Len(op.old)
<1>1. op.base \in Text /\ op.old \in Text /\ op.new \in Text
  BY Zenon DEF FilesInv, Typed, Ops
<1>2. op.old # <<>> /\ Len(matches(op.base, op.old)) = 1 /\ op.body = splice(op.base, op.old, op.new, mode, i)
  BY Zenon DEF FilesInv, Editing
<1>3. disk' = op.body
  BY Zenon DEF Land
<1>4. obs'.echo = editEcho(op.base, op.body, op.old, op.new, mode, i)
  <2>1. obs' = done
    BY Zenon DEF Land
  <2>2. QED
    BY <2>1, Zenon DEF done
<1>5. DOMAIN matches(op.base, op.old) = 1..1
  BY <1>1, <1>2, MatchesFound
<1>6. i \in DOMAIN op.base /\ at(op.base, op.old, i)
  <2>1. 1 \in DOMAIN matches(op.base, op.old)
    BY <1>5
  <2>2. QED
    BY <1>1, <1>2, <2>1, MatchesFound, Zenon
<1>7. L \in Nat /\ L > 0 /\ i \in Nat
  <2>1. L \in Nat /\ L > 0
    BY <1>1, <1>2 DEF Text
  <2>2. DOMAIN op.base = 1..Len(op.base) /\ Len(op.base) \in Nat
    BY <1>1, TextOps, Zenon
  <2> HIDE DEF i, L
  <2>3. QED
    BY <1>6, <2>1, <2>2
<1>8. \A j \in occurrences(op.base, op.old) : j # i => j < i + L /\ i < j + L
  <2> SUFFICES ASSUME NEW j \in occurrences(op.base, op.old) PROVE j < i + L /\ i < j + L
    OBVIOUS
  <2>1. \E k \in DOMAIN matches(op.base, op.old) :
           matches(op.base, op.old)[k] <= j /\ j < matches(op.base, op.old)[k] + Len(op.old)
    BY <1>1, <1>2, MatchesFound, Zenon
  <2>2. \A k \in 1..1 : k = 1
    OBVIOUS
  <2>3. i <= j /\ j < i + L
    BY <1>5, <2>1, <2>2, Zenon
  <2>4. j \in Nat
    <3>1. j \in DOMAIN op.base
      BY Zenon DEF occurrences
    <3>2. DOMAIN op.base = 1..Len(op.base) /\ Len(op.base) \in Nat
      BY <1>1, TextOps, Zenon
    <3>3. QED
      BY <3>1, <3>2
  <2> HIDE DEF i, L
  <2>5. QED
    BY <1>7, <2>3, <2>4
<1>9. PICK k \in DOMAIN Readings(op.args) :
         /\ Readings(op.args)[k].old = op.old /\ Readings(op.args)[k].new = op.new
         /\ (k = 2 /\ ~op.touched) => occurrences(op.base, Readings(op.args)[1].old) = {}
  BY ReadingMade
<1> HIDE DEF i, mode
<1>10. /\ op.base = Before(op.base, i) \o op.old \o From(op.base, i + Len(op.old))
       /\ op.body = Before(op.base, i) \o Spliced(op.old, op.new, mode) \o From(op.base, i + Len(op.old))
       /\ editEcho(op.base, op.body, op.old, op.new, mode, i).from
             \in 1..(editEcho(op.base, op.body, op.old, op.new, mode, i).to + 1)
       /\ editEcho(op.base, op.body, op.old, op.new, mode, i).to <= lineCount(op.body)
       /\ editEcho(op.base, op.body, op.old, op.new, mode, i).to
            < editEcho(op.base, op.body, op.old, op.new, mode, i).from => op.body = <<>>
  <2> DEFINE src == op.base
             anchor == op.old
             new == op.new
             body == splice(src, anchor, new, mode, i)
             e == editEcho(src, body, anchor, new, mode, i)
  <2>1. src \in Text /\ anchor \in Text /\ anchor # <<>> /\ new \in Text /\ i \in DOMAIN src /\ at(src, anchor, i)
    BY <1>1, <1>2, <1>6, Zenon
  <2> HIDE DEF src, anchor, new
  <2> HIDE DEF body
  <2>2. /\ src = Before(src, i) \o anchor \o From(src, i + Len(anchor))
        /\ body = Before(src, i) \o Spliced(anchor, new, mode) \o From(src, i + Len(anchor))
    <3>1. splice(src, anchor, new, mode, i) =
              Before(src, i) \o Spliced(anchor, new, mode) \o From(src, i + Len(anchor))
      BY <2>1, SpliceKeeps
    <3>2. src = Before(src, i) \o anchor \o From(src, i + Len(anchor))
      BY <2>1, <3>1, SpliceKeeps
    <3>3. QED
      BY <3>1, <3>2, Zenon DEF body
  <2>3. /\ e.from \in 1..(e.to + 1) /\ e.to <= lineCount(body)
        /\ e.to < e.from => body = <<>>
    BY <2>1, EchoFits DEF body
  <2>4. op.body = body
    BY <1>2, Zenon DEF src, anchor, new, body
  <2>5. QED
    BY <2>2, <2>3, <2>4, Zenon DEF src, anchor, new, body
<1>11. /\ obs'.echo.from \in 1..(obs'.echo.to + 1) /\ obs'.echo.to <= lineCount(disk')
       /\ obs'.echo.to < obs'.echo.from => disk' \in {<<>>}
  BY <1>3, <1>4, <1>10, Zenon
<1> DEFINE r == Readings(op.args)[k]
           pre == SubSeq(op.base, 1, i - 1)
           post == SubSeq(op.base, i + Len(r.old), Len(op.base))
<1>12. /\ op.base = pre \o r.old \o post
       /\ disk' = pre \o (CASE op.args.mode = "insert_before" -> r.new \o r.old
                            [] op.args.mode = "insert_after"  -> r.old \o r.new
                            [] OTHER -> r.new) \o post
  BY <1>3, <1>9, <1>10, Zenon DEF Before, From, Spliced, mode
<1>13. /\ \A j \in occurrences(op.base, r.old) : j # i => j < i + Len(r.old) /\ i < j + Len(r.old)
       /\ (k = 2 /\ ~op.touched) => occurrences(op.base, Readings(op.args)[1].old) = {}
  BY <1>8, <1>9, Zenon
<1>14. QED
  BY <1>6, <1>9, <1>11, <1>12, <1>13, Zenon DEF EditsOnePlace

(* An edit that reports success changed one place of the file it read and   *)
(* nothing else, at a place that stands alone, by the best reading of the   *)
(* fields that the file allows, and echoes lines of the file it wrote       *)
(* (toolEditFile, editFileOp, echoRegion).                                  *)
THEOREM EditsSurgical == ToolsSpec => EditIsSurgical
<1>1. FilesInv /\ [ToolsNext]_tvars => [EditsOnePlace]_tvars
  <2> SUFFICES ASSUME FilesInv, ToolsNext PROVE EditsOnePlace
    OBVIOUS
  <2>1. CASE Land /\ op.kind = "edit"
    BY <2>1, LandSurgical
  <2>2. CASE Land /\ op.kind # "edit"
    <3>1. obs' = [kind |-> "wrote"]
      BY <2>2, Zenon DEF Land, done
    <3>2. obs'.kind # "edited"
      BY <3>1
    <3>3. QED
      BY <3>2, Zenon DEF EditsOnePlace
  <2>3. CASE ReadFile \/ FollowFooter
    <3>1. obs'.kind # "edited"
      <4>1. CASE FollowFooter
        <5>1. obs' = read(disk, pager.next[1], pager.next[2])
          BY <4>1, Zenon DEF FollowFooter
        <5>2. QED
          BY <5>1, ReadKinds
      <4>2. CASE ReadFile
        <5>1. PICK spec \in job.reads :
                LET r == parseReadArg(spec)
                IN  IF r = <<>>
                    THEN obs' = [kind |-> IF spec.form = "line" THEN "noSuchFile" ELSE "badRange"]
                    ELSE obs' = read(disk, r[1], r[2])
          BY <4>2, Zenon DEF ReadFile
        <5>2. obs' = [kind |-> "noSuchFile"] \/ obs' = [kind |-> "badRange"]
              \/ obs' = read(disk, parseReadArg(spec)[1], parseReadArg(spec)[2])
          BY <5>1, Zenon
        <5>3. QED
          BY <5>2, ReadKinds
      <4>3. QED
        BY <2>3, <4>1, <4>2
    <3>2. QED
      BY <3>1, Zenon DEF EditsOnePlace
  <2>4. CASE WriteFile \/ EditFile \/ TryEdit \/ LandFails \/ OutsideWrites
    <3>1. obs' = obs \/ \E kind : obs' = [kind |-> "error", error |-> kind]
      BY <2>4, Zenon DEF WriteFile, EditFile, TryEdit, LandFails, OutsideWrites, Fails
    <3>2. obs' = obs \/ obs'.kind = "error"
      BY <3>1
    <3>3. QED
      BY <3>2 DEF EditsOnePlace
  <2>5. QED
    BY <2>1, <2>2, <2>3, <2>4, Zenon DEF ToolsNext
<1>2. QED
  BY <1>1, FilesInit, FilesStep, PTL DEF ToolsSpec, EditIsSurgical
=============================================================================
