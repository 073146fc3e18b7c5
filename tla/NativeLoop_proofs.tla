-------------------------- MODULE NativeLoop_proofs --------------------------
(***************************************************************************)
(* Proofs about the turn loops, NativeLoop and TextLoop, for every scenario *)
(* and every value of the bounds.  In order: what one model call may cost   *)
(* (RequestInv); the types (LoopInv, on which the rest builds); that the    *)
(* text loop executes what was written (ParsedInv); that reads are answered *)
(* with what the file holds (ReadsInv); that the transcript is well formed  *)
(* (TranscriptInv); that evictions lose neither its opening message nor its *)
(* last turn; and that the detectors cut exactly the stalls (StallInv).     *)
(***************************************************************************)
EXTENDS FiniteSetTheorems, SequenceTheorems, WellFoundedInduction, TextLoop, TLAPS

RequestOK == req \in [attempt : Nat, retry : Nat, dropped : BOOLEAN, sends : Nat]

(* The scrub of rejected reasoning buys one attempt beyond the evictions'. *)
AttemptsBounded == req.attempt <= evictionMaxRetries + (IF req.dropped THEN 1 ELSE 0)

RetriesBounded == req.retry <= transientMaxRetries

(* Every attempt that is over paid for its own retries at most. *)
SendsCharged == req.sends <= req.attempt * (transientMaxRetries + 1) + req.retry

RequestInv == RequestOK /\ AttemptsBounded /\ RetriesBounded /\ SendsCharged

-----------------------------------------------------------------------------
(* The two facts of multiplication the invariant needs. *)
LEMMA OneMoreAttempt ==
    ASSUME NEW a \in Nat, NEW t \in Nat
    PROVE  (a + 1) * (t + 1) = a * (t + 1) + t + 1
  OBVIOUS

(* Fewer attempts pay for fewer sends. *)
LEMMA FewerAttempts ==
    ASSUME NEW a \in Nat, NEW b \in Nat, NEW t \in Nat, a <= b
    PROVE  a * (t + 1) <= b * (t + 1)
<1>1. PICK d \in Nat : b = a + d
  <2>1. b - a \in Nat /\ b = a + (b - a)
    OBVIOUS
  <2> QED BY <2>1
<1>2. b * (t + 1) = a * (t + 1) + d * (t + 1)
  BY <1>1
<1>3. d * (t + 1) \in Nat /\ a * (t + 1) \in Nat
  OBVIOUS
<1> QED BY <1>2, <1>3

(* The retry bounds are counts (LoopAssumption). *)
LEMMA RetryBoundsAreCounts ==
    evictionMaxRetries \in Nat /\ transientMaxRetries \in Nat
  BY LoopAssumption DEF LoopAssumption

(* The next attempt of generateWithEviction starts its retries over and is    *)
(* charged to the one before.                                                *)
LEMMA NextAttemptCharged ==
    ASSUME RequestInv, NEW r,
           r \in [attempt : Nat, retry : Nat, dropped : BOOLEAN, sends : Nat],
           r.attempt = req.attempt, r.retry = req.retry, r.sends = req.sends,
           r.attempt < evictionMaxRetries + (IF r.dropped THEN 1 ELSE 0),
           again(r)
    PROVE  RequestInv'
<1> DEFINE t == transientMaxRetries
<1>1. t \in Nat /\ evictionMaxRetries \in Nat
  BY RetryBoundsAreCounts
<1>2. req' = [attempt |-> r.attempt + 1, retry |-> 0, dropped |-> r.dropped, sends |-> r.sends + 1]
  BY DEF again
<1>3. RequestOK' /\ RetriesBounded'
  BY <1>1, <1>2 DEF RequestOK, RetriesBounded
<1>4. AttemptsBounded'
  BY <1>1, <1>2 DEF AttemptsBounded
<1>5. SendsCharged'
  <2>1. r.sends <= r.attempt * (t + 1) + r.retry /\ r.retry <= t
    BY DEF RequestInv, SendsCharged, RetriesBounded
  <2>2. (r.attempt + 1) * (t + 1) = r.attempt * (t + 1) + t + 1
    BY OneMoreAttempt, <1>1
  <2>3. r.attempt * (t + 1) \in Nat
    BY <1>1
  <2>4. r.sends + 1 <= (r.attempt + 1) * (t + 1) + 0
    <3> HIDE DEF t
    <3> QED BY <1>1, <2>1, <2>2, <2>3
  <2> QED BY <1>2, <2>4 DEF SendsCharged
<1> QED BY <1>3, <1>4, <1>5 DEF RequestInv

(* A run starts with nothing sent. *)
LEMMA RequestInvInit == LoopInit => RequestInv
  BY RetryBoundsAreCounts
  DEF LoopInit, RequestInv, RequestOK, AttemptsBounded, RetriesBounded, SendsCharged

(* A step that leaves the request alone keeps its accounts. *)
LEMMA RequestInvUnchanged == RequestInv /\ UNCHANGED req => RequestInv'
  BY DEF RequestInv, RequestOK, AttemptsBounded, RetriesBounded, SendsCharged

(* Every step of the native loop keeps the accounts: a retry, a replay     *)
(* without reasoning and an eviction each pay for one send.                *)
LEMMA RequestInvStep == RequestInv /\ [LoopNext]_loopVars => RequestInv'
<1> SUFFICES ASSUME RequestInv, [LoopNext]_loopVars PROVE RequestInv'
  OBVIOUS
<1>1. CASE turnStarts
  <2>1. UNCHANGED req \/ req' = [attempt |-> 0, retry |-> 0, dropped |-> FALSE, sends |-> 0]
    BY <1>1 DEF turnStarts
  <2>2. CASE req' = [attempt |-> 0, retry |-> 0, dropped |-> FALSE, sends |-> 0]
    BY <2>2, RetryBoundsAreCounts
    DEF RequestInv, RequestOK, AttemptsBounded, RetriesBounded, SendsCharged
  <2> QED BY <2>1, <2>2, RequestInvUnchanged
<1>2. CASE generateWithRetry
  <2>1. \/ UNCHANGED req
        \/ req.retry < transientMaxRetries /\ req' = [req EXCEPT !.retry = @ + 1, !.sends = @ + 1]
    BY <1>2 DEF generateWithRetry
  <2>2. CASE req.retry < transientMaxRetries /\ req' = [req EXCEPT !.retry = @ + 1, !.sends = @ + 1]
    <3>1. req' = [attempt |-> req.attempt, retry |-> req.retry + 1, dropped |-> req.dropped,
                  sends |-> req.sends + 1]
      BY <2>2 DEF RequestInv, RequestOK
    <3>2. req.attempt * (transientMaxRetries + 1) \in Nat
      BY RetryBoundsAreCounts DEF RequestInv, RequestOK
    <3> QED BY <2>2, <3>1, <3>2, RetryBoundsAreCounts
        DEF RequestInv, RequestOK, AttemptsBounded, RetriesBounded, SendsCharged
  <2> QED BY <2>1, <2>2, RequestInvUnchanged
<1>3. CASE replayRejected
  <2>1. UNCHANGED req \/ (~req.dropped /\ again([req EXCEPT !.dropped = TRUE]))
    BY <1>3 DEF replayRejected
  <2>2. CASE ~req.dropped /\ again([req EXCEPT !.dropped = TRUE])
    <3> DEFINE r == [req EXCEPT !.dropped = TRUE]
    <3>1. /\ r \in [attempt : Nat, retry : Nat, dropped : BOOLEAN, sends : Nat]
          /\ r.attempt = req.attempt /\ r.retry = req.retry /\ r.sends = req.sends /\ r.dropped = TRUE
      BY DEF RequestInv, RequestOK
    <3>2. r.attempt < evictionMaxRetries + (IF r.dropped THEN 1 ELSE 0)
      BY <2>2, <3>1, RetryBoundsAreCounts DEF RequestInv, RequestOK, AttemptsBounded
    <3> HIDE DEF r
    <3> QED BY <2>2, <3>1, <3>2, NextAttemptCharged DEF r
  <2> QED BY <2>1, <2>2, RequestInvUnchanged
<1>4. CASE generateWithEviction
  <2>1. UNCHANGED req \/ (req.attempt < evictionMaxRetries /\ again(req))
    BY <1>4 DEF generateWithEviction
  <2>2. CASE req.attempt < evictionMaxRetries /\ again(req)
    <3>1. req.attempt < evictionMaxRetries + (IF req.dropped THEN 1 ELSE 0)
      BY <2>2, RetryBoundsAreCounts DEF RequestInv, RequestOK
    <3> QED BY <2>2, <3>1, NextAttemptCharged DEF RequestInv, RequestOK
  <2> QED BY <2>1, <2>2, RequestInvUnchanged
<1>5. CASE generateOnce \/ generateFails \/ silentTurn \/ answerTurn
  BY <1>5, RequestInvUnchanged DEF generateOnce, generateFails, silentTurn, answerTurn
<1>6. CASE finishTurn \/ finishDispatch \/ finishReturns
  BY <1>6, RequestInvUnchanged DEF finishTurn, finishDispatch, finishReturns
<1>7. CASE killRepeat \/ killSpiral \/ commitTurn \/ killStagnant
  BY <1>7, RequestInvUnchanged DEF killRepeat, killSpiral, commitTurn, killStagnant
<1>8. CASE skipCall \/ dispatchCall
  BY <1>8, RequestInvUnchanged DEF skipCall, dispatchCall, observeCall
<1>9. CASE turnEnds \/ cancel
  BY <1>9, RequestInvUnchanged DEF turnEnds, cancel
<1>10. CASE UNCHANGED loopVars
  BY <1>10, RequestInvUnchanged DEF loopVars
<1> QED BY <1>1, <1>2, <1>3, <1>4, <1>5, <1>6, <1>7, <1>8, <1>9, <1>10
    DEF LoopNext, loopStep, modelStep

(* The text loop sends nothing by itself: its turn shares the model call.    *)
LEMMA RequestInvBoth == RequestInv /\ [bothStep \/ cancel]_loopVars => RequestInv'
<1> SUFFICES ASSUME RequestInv, [bothStep \/ cancel]_loopVars PROVE RequestInv'
  OBVIOUS
<1>1. CASE sharedStep \/ nativeStep \/ cancel \/ UNCHANGED loopVars
  BY <1>1, RequestInvStep DEF sharedStep, nativeStep, LoopNext, loopStep, modelStep
<1>2. CASE textStep
  BY <1>2, RequestInvUnchanged DEF textStep, textGenerate, textAnswer, textKillRepeat, textKillSpiral, textAct, textTurnEnds
<1> QED BY <1>1, <1>2 DEF bothStep

(* The accounts bound the sends of one turn. *)
LEMMA RequestInvImpliesBound == RequestInv => SendsBounded
<1> SUFFICES ASSUME RequestInv PROVE SendsBounded
  OBVIOUS
<1> DEFINE t == transientMaxRetries
           e == evictionMaxRetries
<1>1. t \in Nat /\ e \in Nat /\ e + 1 \in Nat
  BY RetryBoundsAreCounts
<1>2. req.attempt \in Nat /\ req.retry \in Nat /\ req.sends \in Nat /\ req.attempt <= e + 1
  BY <1>1 DEF RequestInv, RequestOK, AttemptsBounded
<1>3. req.attempt * (t + 1) <= (e + 1) * (t + 1)
  BY <1>1, <1>2, FewerAttempts
<1>4. (t + 1) * (e + 2) = (e + 1) * (t + 1) + t + 1
  BY <1>1
<1>5. req.sends <= req.attempt * (t + 1) + req.retry /\ req.retry <= t
  BY DEF RequestInv, SendsCharged, RetriesBounded
<1>6. (e + 1) * (t + 1) \in Nat /\ req.attempt * (t + 1) \in Nat /\ (t + 1) * (e + 2) \in Nat
  BY <1>1, <1>2
<1>7. req.sends < (t + 1) * (e + 2)
  <2> HIDE DEF t, e
  <2> QED BY <1>1, <1>2, <1>3, <1>4, <1>5, <1>6
<1> QED BY <1>7 DEF SendsBounded

(* SendsBounded holds of every run of the native loop: whatever order        *)
(* transient faults, rejected replays and overflows come in,                 *)
(* generateWithEviction re-sends one turn fewer than                         *)
(* (transientMaxRetries + 1) * (evictionMaxRetries + 2) times.               *)
THEOREM NativeModelCallCostBounded == LoopSpec => []SendsBounded
<1> QED BY RequestInvInit, RequestInvStep, RequestInvImpliesBound, PTL DEF LoopSpec

(* And of every run of either loop, which share generateWithEviction.        *)
THEOREM ModelCallCostBounded == BothLoops => []SendsBounded
<1> QED BY RequestInvInit, RequestInvBoth, RequestInvImpliesBound, PTL DEF BothLoops

-----------------------------------------------------------------------------
(* Evictions: evictOldestTurns takes whole turns out of a transcript, and  *)
(* keeps its opening message and its last turn.                            *)

(* A set of indices has a least one. *)
LEMMA SmallestIndex ==
    ASSUME NEW S \in SUBSET Nat, S # {}
    PROVE  \E n \in S : \A m \in S : n <= m
<1> DEFINE R == OpToRel(<, Nat)
<1>1. IsWellFoundedOn(R, Nat)
  BY NatLessThanWellFounded
<1>2. \A m, n \in Nat : m < n => <<m, n>> \in R
  BY DEF OpToRel
<1> HIDE DEF R
<1>3. PICK n \in S : \A m \in S : <<m, n>> \notin R
  BY <1>1, WFMin
<1>4. \A m \in S : m \in Nat /\ n \in Nat /\ ~(m < n)
  BY <1>2, <1>3, Zenon
<1>5. QED
  BY <1>4

(* A set of positions in a sequence has a last one. *)
LEMMA LargestIndex ==
    ASSUME NEW n \in Nat, NEW S \in SUBSET (0..n), S # {}
    PROVE  \E m \in S : \A i \in S : i <= m
<1> DEFINE T == {n - i : i \in S}
<1>0. \A i \in S : i \in 0..n /\ n - i \in Nat
  OBVIOUS
<1>1. T \in SUBSET Nat /\ T # {}
  <2> DEFINE dist(i) == n - i
  <2>1. \A i \in S : dist(i) \in Nat
    BY <1>0
  <2>2. T = {dist(i) : i \in S}
    OBVIOUS
  <2> HIDE DEF dist, T
  <2> QED BY <2>1, <2>2, Zenon
<1>2. PICK t \in T : \A u \in T : t <= u
  BY <1>1, SmallestIndex
<1>3. PICK m \in S : t = n - m
  BY <1>2
<1>4. ASSUME NEW i \in S PROVE i <= m
  <2>1. n - i \in T
    OBVIOUS
  <2>2. n - m <= n - i
    BY <1>2, <1>3, <2>1
  <2>3. i \in 0..n /\ m \in 0..n
    BY <1>0
  <2> QED BY <2>2, <2>3
<1> QED BY <1>4

(* Every rank below the size of a finite set of positions is taken. *)
LEMMA RankTaken ==
    ASSUME NEW n \in Nat, NEW S \in SUBSET (0..n), NEW j \in Nat, j < Cardinality(S)
    PROVE  \E i \in S : Cardinality({h \in S : h < i}) = j
<1> DEFINE below(i) == {h \in S : h < i}
           rank(i) == Cardinality(below(i))
<1>1. IsFiniteSet(S) /\ \A i \in S : IsFiniteSet(below(i)) /\ rank(i) \in Nat
  <2>1. IsFiniteSet(0..n)
    BY FS_Interval
  <2>2. \A U \in SUBSET (0..n) : IsFiniteSet(U) /\ Cardinality(U) \in Nat
    BY <2>1, FS_Subset, FS_CardinalityType, Zenon
  <2>3. \A i \in S : below(i) \in SUBSET (0..n)
    BY Zenon
  <2> QED BY <2>2, <2>3, Zenon
<1>0. \A i \in S : i \in 0..n
  OBVIOUS
<1>2. S # {}
  BY FS_EmptySet
<1>3. ASSUME NEW i \in S, NEW U \in SUBSET (0..n), IsFiniteSet(U), NEW p \in U,
             \A h \in U : h <= p, p \in S, U = below(p) \cup {p}
      PROVE  Cardinality(U) = rank(p) + 1
  <2>1. p \notin below(p)
    OBVIOUS
  <2> QED BY <1>1, <1>3, <2>1, FS_AddElement
<1> HIDE DEF rank
<1>4. PICK top \in S : \A i \in S : i <= top
  BY <1>2, LargestIndex
<1>5. Cardinality(S) = rank(top) + 1
  <2>1. \A i \in S : i < top \/ i = top
    BY <1>0, <1>4
  <2>1a. S = below(top) \cup {top}
    BY <1>4, <2>1, Zenon
  <2> QED BY <1>1, <1>3, <1>4, <2>1a
<1> DEFINE T == {i \in S : rank(i) >= j}
<1>6. PICK i \in T : \A h \in T : i <= h
  <2>1. top \in T
    <3>1. rank(top) >= j
      <4>1. rank(top) \in Nat
        BY <1>1, <1>4, Zenon
      <4> QED BY <1>5, <4>1
    <3> QED BY <1>4, <3>1, Zenon
  <2>2. T \in SUBSET Nat
    <3>1. \A i \in S : i \in Nat
      BY <1>0
    <3> QED BY <3>1, Zenon
  <2> QED BY <2>1, <2>2, SmallestIndex
<1>7. CASE rank(i) = j
  BY <1>6, <1>7 DEF rank
<1>8. CASE rank(i) # j
  <2>1. below(i) # {}
    <3>1. rank(i) # 0
      BY <1>1, <1>6, <1>8
    <3> QED BY <3>1, FS_EmptySet DEF rank
  <2>2. PICK p \in below(i) : \A h \in below(i) : h <= p
    <3>1. below(i) \in SUBSET (0..n)
      OBVIOUS
    <3> QED BY <2>1, <3>1, LargestIndex
  <2>3. below(i) = below(p) \cup {p}
    <3>1. \A h \in S : h < i <=> (h < p \/ h = p)
      BY <1>0, <1>6, <2>2
    <3> QED BY <2>2, <3>1, Zenon
  <2>4. rank(i) = rank(p) + 1
    BY <1>1, <1>3, <1>6, <2>2, <2>3 DEF rank
  <2>5. p \in T
    <3>1. rank(i) >= j /\ rank(i) \in Nat /\ rank(p) \in Nat
      BY <1>1, <1>6, <2>2, Zenon
    <3>2. rank(p) >= j
      BY <1>8, <2>4, <3>1
    <3> QED BY <2>2, <3>2, Zenon
  <2> QED BY <1>6, <2>2, <2>5
<1> QED BY <1>7, <1>8

(* The j-th turn of m from its oldest, counting from 0. *)
nthTurn(m, j) == CHOOSE i \in turnBegins(m) : Cardinality({h \in turnBegins(m) : h < i}) = j

(* There is a j-th turn for every j below the number of turns. *)
LEMMA NthTurn ==
    ASSUME NEW m \in Seq(Message), NEW j \in Nat, j < Cardinality(turnBegins(m))
    PROVE  /\ nthTurn(m, j) \in turnBegins(m)
           /\ Cardinality({h \in turnBegins(m) : h < nthTurn(m, j)}) = j
<1>1. Len(m) \in Nat /\ turnBegins(m) \in SUBSET (0..Len(m))
  BY DEF turnBegins
<1>2. \E i \in turnBegins(m) : Cardinality({h \in turnBegins(m) : h < i}) = j
  BY <1>1, RankTaken
<1> QED BY <1>2, Zenon DEF nthTurn

(* What evictOldestTurns does when it does something: the block from the     *)
(* first turn up to a later one is cut out.                                  *)
LEMMA EvictionCuts ==
    ASSUME NEW m \in Seq(Message), evictOldestTurns(m) # m
    PROVE  \E a, b \in turnBegins(m) :
              /\ a < b /\ \A h \in turnBegins(m) : a <= h
              /\ evictOldestTurns(m) = SubSeq(m, 1, a - 1) \o SubSeq(m, b, Len(m))
<1> DEFINE T == turnBegins(m)
           rm == Cardinality(T) - 1
           n == (rm + 1) \div 2
           a == nthTurn(m, 0)
           b == nthTurn(m, n)
           rank(i) == Cardinality({h \in T : h < i})
<1>1. T \in SUBSET (2..Len(m)) /\ Len(m) \in Nat
  BY DEF turnBegins
<1>2. IsFiniteSet(T) /\ Cardinality(T) \in Nat
  <2>1. IsFiniteSet(2..Len(m))
    BY <1>1, FS_Interval
  <2> QED BY <1>1, <2>1, FS_Subset, FS_CardinalityType
<1>3. ~(rm <= 0) /\ evictOldestTurns(m) = evictOldest(m, n)
  BY DEF evictOldestTurns
<1>4. n \in Nat /\ 0 < n /\ n < Cardinality(T) /\ 0 < Cardinality(T)
  BY <1>2, <1>3
<1>5. /\ a \in T /\ rank(a) = 0
      /\ b \in T /\ rank(b) = n
  <2> HIDE DEF n
  <2> QED BY <1>4, NthTurn
<1>6. evictOldest(m, n) = SubSeq(m, 1, a - 1) \o SubSeq(m, b, Len(m))
  <2> HIDE DEF n
  <2> QED BY Zenon DEF evictOldest, nthTurn
<1> HIDE DEF a, b, n
<1>7. \A h \in T : a <= h
  <2>1. {h \in T : h < a} = {}
    <3>1. IsFiniteSet({h \in T : h < a})
      BY <1>2, FS_Subset
    <3> QED BY <1>5, <3>1, FS_EmptySet
  <2>2. \A h \in T : ~(h < a)
    BY <2>1, Zenon
  <2>3. \A h \in T : h \in Int
    BY <1>1
  <2> HIDE DEF T
  <2> QED BY <1>5, <2>2, <2>3
<1>8. a # b
  <2> HIDE DEF rank
  <2> QED BY <1>4, <1>5
<1>9. a < b
  <2>1. a \in Int /\ b \in Int /\ a <= b
    BY <1>1, <1>5, <1>7
  <2> QED BY <1>8, <2>1
<1> QED BY <1>3, <1>5, <1>6, <1>7, <1>9, Zenon

(* The transcript after the cut, position by position. *)
Spliced(m, e, a, b) ==
    /\ e \in Seq(Message) /\ Len(e) = Len(m) - (b - a)
    /\ \A i \in 1..(a - 1) : e[i] = m[i]
    /\ \A i \in a..Len(e) : e[i] = m[i + (b - a)]

(* evictOldestTurns takes out whole turns, from the first assistant        *)
(* message.                                                                *)
LEMMA EvictionSplices ==
    ASSUME NEW m \in Seq(Message), evictOldestTurns(m) # m
    PROVE  \E a, b \in turnBegins(m) :
              /\ a < b /\ \A h \in turnBegins(m) : a <= h
              /\ Spliced(m, evictOldestTurns(m), a, b)
<1>1. PICK a, b \in turnBegins(m) :
              /\ a < b /\ \A h \in turnBegins(m) : a <= h
              /\ evictOldestTurns(m) = SubSeq(m, 1, a - 1) \o SubSeq(m, b, Len(m))
  BY EvictionCuts
<1>2. /\ Len(m) \in Nat /\ a \in 2..Len(m) /\ b \in 2..Len(m)
  BY DEF turnBegins
<1> DEFINE p == SubSeq(m, 1, a - 1)
           q == SubSeq(m, b, Len(m))
           e == p \o q
<1>3. p \in Seq(Message) /\ Len(p) = a - 1 /\ \A i \in 1..(a - 1) : p[i] = m[i]
  <2>1. \A i \in 1..(a - 1) : m[i] \in Message
    BY <1>2
  <2> QED BY <1>2, <2>1, SubSeqProperties
<1>4. q \in Seq(Message) /\ Len(q) = Len(m) - b + 1
      /\ \A i \in 1..(Len(m) - b + 1) : q[i] = m[b + i - 1]
  <2>1. \A i \in b..Len(m) : m[i] \in Message
    BY <1>2
  <2> QED BY <1>2, <2>1, SubSeqProperties
<1> HIDE DEF p, q
<1>5. e \in Seq(Message) /\ Len(e) = Len(m) - (b - a)
  <2>1. e \in Seq(Message) /\ Len(e) = Len(p) + Len(q)
    BY <1>3, <1>4, ConcatProperties
  <2> QED BY <1>2, <1>3, <1>4, <2>1
<1>6. \A i \in 1..(a - 1) : e[i] = m[i]
  BY <1>2, <1>3, <1>4
<1>7. \A i \in a..Len(e) : e[i] = m[i + (b - a)]
  <2> SUFFICES ASSUME NEW i \in a..Len(e) PROVE e[i] = m[i + (b - a)]
    OBVIOUS
  <2>1. e[i] = q[i - (a - 1)]
    BY <1>2, <1>3, <1>4, <1>5, SMTT(30)
  <2>2. i - (a - 1) \in 1..(Len(m) - b + 1)
    BY <1>2, <1>5
  <2>3. q[i - (a - 1)] = m[b + (i - (a - 1)) - 1]
    BY <1>4, <2>2
  <2> QED BY <1>2, <2>1, <2>3
<1>8. Spliced(m, evictOldestTurns(m), a, b)
  BY <1>1, <1>5, <1>6, <1>7 DEF Spliced, p, q
<1> QED BY <1>1, <1>8, Zenon

(* The most recent turn and the opening message are never among what is cut. *)
LEMMA EvictionKeepsEnds ==
    ASSUME NEW m \in Seq(Message), evictOldestTurns(m) # m
    PROVE  /\ evictOldestTurns(m) \in Seq(Message)
           /\ evictOldestTurns(m)[1] = m[1]
           /\ lastTurnOf(evictOldestTurns(m)) = lastTurnOf(m)
<1> DEFINE e == evictOldestTurns(m)
<1>1. PICK a, b \in turnBegins(m) :
              /\ a < b /\ \A h \in turnBegins(m) : a <= h /\ Spliced(m, e, a, b)
  BY EvictionSplices
<1> HIDE DEF e
<1>2. /\ Len(m) \in Nat /\ a \in 2..Len(m) /\ b \in 2..Len(m) /\ m[b].role = "assistant"
  BY DEF turnBegins
<1>3. /\ e \in Seq(Message) /\ Len(e) = Len(m) - (b - a)
      /\ \A i \in 1..(a - 1) : e[i] = m[i]
      /\ \A i \in a..Len(e) : e[i] = m[i + (b - a)]
  BY <1>1 DEF Spliced
<1>4. e[1] = m[1]
  BY <1>2, <1>3
<1>5. \A i \in turnBegins(e) : i \in a..Len(e) /\ i + (b - a) \in turnBegins(m)
  <2> SUFFICES ASSUME NEW i \in 2..Len(e), e[i].role = "assistant"
               PROVE  i \in a..Len(e) /\ i + (b - a) \in turnBegins(m)
    BY DEF turnBegins
  <2>1. ~(i < a)
    <3> SUFFICES ASSUME i < a PROVE FALSE
      OBVIOUS
    <3>1. m[i].role = "assistant" /\ i \in 2..Len(m)
      BY <1>2, <1>3
    <3>2. a <= i
      BY <1>1, <3>1 DEF turnBegins
    <3> QED BY <1>2, <3>2
  <2>2. i \in a..Len(e) /\ i + (b - a) \in 2..Len(m)
    BY <1>2, <1>3, <2>1
  <2> QED BY <1>3, <2>2 DEF turnBegins
<1>6. \A i \in turnBegins(m) : i >= b => i - (b - a) \in turnBegins(e)
  <2> SUFFICES ASSUME NEW i \in 2..Len(m), m[i].role = "assistant", i >= b
               PROVE  i - (b - a) \in turnBegins(e)
    BY DEF turnBegins
  <2>1. i - (b - a) \in a..Len(e) /\ i - (b - a) \in 2..Len(e) /\ (i - (b - a)) + (b - a) = i
    BY <1>2, <1>3
  <2> QED BY <1>3, <2>1 DEF turnBegins
<1> DEFINE ending(s) == {j \in DOMAIN s : \A h \in turnBegins(s) : h <= j}
<1>7. \A j \in ending(e) : j + (b - a) \in ending(m) /\ e[j] = m[j + (b - a)]
  <2> SUFFICES ASSUME NEW j \in DOMAIN e, \A h \in turnBegins(e) : h <= j
               PROVE  /\ j + (b - a) \in DOMAIN m /\ e[j] = m[j + (b - a)]
                      /\ \A h \in turnBegins(m) : h <= j + (b - a)
    OBVIOUS
  <2>1. a \in turnBegins(e)
    BY <1>2, <1>6
  <2>2. j \in a..Len(e)
    BY <1>3, <2>1
  <2>3. j + (b - a) \in DOMAIN m /\ e[j] = m[j + (b - a)]
    BY <1>2, <1>3, <2>2
  <2>4. ASSUME NEW h \in turnBegins(m) PROVE h <= j + (b - a)
    <3>1. h \in 2..Len(m)
      BY DEF turnBegins
    <3>2. CASE h >= b
      <4>1. h - (b - a) <= j
        BY <1>6, <3>2
      <4> QED BY <1>2, <2>2, <3>1, <4>1
    <3> QED BY <1>2, <2>2, <3>1, <3>2
  <2> QED BY <2>3, <2>4
<1>8. \A j \in ending(m) : j - (b - a) \in ending(e) /\ m[j] = e[j - (b - a)]
  <2> SUFFICES ASSUME NEW j \in DOMAIN m, \A h \in turnBegins(m) : h <= j
               PROVE  /\ j - (b - a) \in DOMAIN e /\ m[j] = e[j - (b - a)]
                      /\ \A h \in turnBegins(e) : h <= j - (b - a)
    OBVIOUS
  <2>1. j \in b..Len(m)
    BY <1>2
  <2>2. j - (b - a) \in a..Len(e) /\ j - (b - a) \in DOMAIN e /\ (j - (b - a)) + (b - a) = j
    BY <1>2, <1>3, <2>1
  <2>3. m[j] = e[j - (b - a)]
    BY <1>3, <2>2
  <2>4. ASSUME NEW h \in turnBegins(e) PROVE h <= j - (b - a)
    <3>1. h \in a..Len(e) /\ h + (b - a) <= j
      BY <1>5
    <3> QED BY <1>2, <2>1, <3>1
  <2> QED BY <2>2, <2>3, <2>4
<1> HIDE DEF ending
<1>9. {e[i] : i \in ending(e)} = {m[i] : i \in ending(m)}
  <2>1. \A j \in ending(e) : \E i \in ending(m) : e[j] = m[i]
    BY <1>7, Zenon
  <2>2. \A j \in ending(m) : \E i \in ending(e) : m[j] = e[i]
    BY <1>8, Zenon
  <2> QED BY <2>1, <2>2
<1> QED BY <1>3, <1>4, <1>9, Zenon DEF e, ending, lastTurnOf

-----------------------------------------------------------------------------
(* What executing a call may return, and the types of what is made of it. *)

Result    == [saw : STRING, ws : Versions, tag : STRING]
Memory    == [sig : Seq(Call), thought : STRING, repeats : Nat, readSig : Call, readSaw : STRING,
              execSig : Call, answerNudged : BOOLEAN, sayNudged : BOOLEAN]
Committed == [kind : STRING, calls : Seq(Call), adv : BOOLEAN, obs : Seq(Seq(STRING))]

(* What LoopAssumption says of the scenario of a run. *)
LEMMA ScenarioTyped ==
    ASSUME scen \in DOMAIN Scenarios
    PROVE  /\ sc \in Scenario /\ maxIter \in Nat \ {0} /\ sc.thoughts \subseteq STRING
           /\ \A r \in sc.replies : r.calls \in Seq(Call)
           /\ sc.finishTool \in BOOLEAN /\ sc.flaky \in BOOLEAN
<1>1. sc \in Scenario
  BY LoopAssumption, Zenon DEF LoopAssumption, sc
<1>2. sc.maxIter \in Nat \ {0} /\ sc.thoughts \in SUBSET STRING
      /\ sc.replies \in SUBSET [calls : Seq([name : STRING, arg : STRING]), empty : BOOLEAN]
      /\ sc.finishTool \in BOOLEAN /\ sc.flaky \in BOOLEAN
  BY <1>1, Zenon DEF Scenario
<1> QED BY <1>1, <1>2, Zenon DEF maxIter, Call

(* What executing a call can return. *)
LEMMA RanTyped ==
    ASSUME NEW s \in STRING, NEW w \in Versions, NEW t \in STRING
    PROVE  Ran(s, w, t) \in Result /\ Ran(s, w, t).saw = s /\ Ran(s, w, t).ws = w /\ Ran(s, w, t).tag = t
  BY Zenon DEF Ran, Result

Tags == {"plain", "1ms", "2ms"}

(* What executing a call returns: a typed result, and a read leaves the    *)
(* workspace alone.                                                        *)
LEMMA Dispatched ==
    ASSUME ws \in Versions, NEW c, NEW r \in dispatchNative(c)
    PROVE  /\ r \in Result /\ r.tag \in Tags
           /\ c.name = "run" => r.saw \in RunSaw
           /\ readOnly(c) => r.ws = ws
<1> DEFINE Ok(x) == /\ x \in Result /\ x.tag \in Tags
                    /\ c.name = "run" => x.saw \in RunSaw
                    /\ readOnly(c) => x.ws = ws
           durations == IF sc.flaky THEN {"1ms", "2ms"} ELSE {"1ms"}
<1>1. /\ Versions \subseteq STRING /\ Missing \subseteq Versions
      /\ \A w \in Versions : RunOut[w] \in RunSaw
      /\ RunSaw \subseteq STRING
  BY LoopAssumption, WordsAssumption DEF LoopAssumption, WordsAssumption, Words, RunSaw
<1>1a. {"error", "fewer", "names", "done", "plain", "1ms", "2ms"} \subseteq STRING
  BY WordsAssumption DEF WordsAssumption, Words
<1>2. ASSUME NEW s \in STRING, NEW w \in Versions, NEW t \in Tags,
             c.name = "run" => s \in RunSaw, readOnly(c) => w = ws
      PROVE  Ok(Ran(s, w, t))
  <2>1. t \in STRING
    BY <1>1a DEF Tags
  <2> QED BY <1>2, <2>1, RanTyped
<1> SUFFICES Ok(r)
  OBVIOUS
<1> HIDE DEF Ok
<1>3. Ok(Ran("error", ws, "plain"))
  <2>1. "error" \in STRING /\ "error" \in RunSaw /\ "plain" \in Tags
    BY <1>1a DEF RunSaw, Tags
  <2> QED BY <1>2, <2>1
<1>4. CASE r = Ran("error", ws, "plain")
  BY <1>3, <1>4
<1> DEFINE other == r # Ran("error", ws, "plain")
<1>5. ASSUME other, c.name = "read_file" PROVE Ok(r)
  <2>1. r = Ran(IF ws \in Missing THEN "error" ELSE ws, ws, "plain")
    BY <1>5, SMT DEF dispatchNative, discovery
  <2>2. "plain" \in Tags /\ ws \in STRING /\ "error" \in STRING
    BY <1>1, <1>1a DEF Tags
  <2> QED BY <1>2, <1>5, <2>1, <2>2
<1>6. ASSUME other, discovery(c) PROVE Ok(r)
  <2>1. r = Ran(IF ws \in Missing THEN "fewer" ELSE "names", ws, "plain")
    BY <1>6, SMT DEF dispatchNative, discovery
  <2>2. "plain" \in Tags /\ "fewer" \in STRING /\ "names" \in STRING /\ c.name # "run"
    BY <1>1a, <1>6 DEF Tags, discovery
  <2> QED BY <1>2, <2>1, <2>2
<1>7. ASSUME other, c.name \in {"edit_file", "write_file"} PROVE Ok(r)
  <2>1. \E w \in Versions \ Missing : r = Ran("done", w, "plain")
    BY <1>7, SMT DEF dispatchNative, discovery
  <2>2. "plain" \in Tags /\ "done" \in STRING /\ c.name # "run" /\ ~readOnly(c)
    BY <1>1a, <1>7 DEF Tags, readOnly
  <2> QED BY <1>2, <2>1, <2>2
<1>8. ASSUME other, c.name = "finish" PROVE Ok(r)
  <2>1. r = Ran("done", ws, "plain")
    BY <1>8, SMT DEF dispatchNative, discovery
  <2>2. "plain" \in Tags /\ "done" \in STRING
    BY <1>1a DEF Tags
  <2> QED BY <1>2, <1>8, <2>1, <2>2
<1>9. ASSUME other, c.name = "run" PROVE Ok(r)
  <2>1. \E out \in {RunOut[ws]} \cup (IF sc.flaky THEN {"infra"} ELSE {}),
           w \in IF c.arg = "test" THEN {ws} ELSE Versions,
           d \in IF sc.flaky THEN {"1ms", "2ms"} ELSE {"1ms"} : r = Ran(out, w, d)
    BY <1>9, SMT DEF dispatchNative, discovery
  <2>2. PICK out \in RunSaw, w \in Versions, d \in Tags : r = Ran(out, w, d)
    BY <1>1, <2>1 DEF RunSaw, Tags
  <2>3. out \in STRING /\ ~readOnly(c)
    BY <1>1, <1>9 DEF readOnly
  <2> QED BY <1>2, <2>2, <2>3
<1>10. ASSUME other, c.name \notin {"read_file", "edit_file", "write_file", "finish", "run"}, ~discovery(c)
       PROVE  FALSE
  BY <1>10, SMT DEF dispatchNative
<1> QED BY <1>4, <1>5, <1>6, <1>7, <1>8, <1>9, <1>10

(* An observation is a sequence of strings. *)
LEMMA ObservedTyped ==
    ASSUME NEW c \in Call, NEW r \in Result
    PROVE  Observed(c, r) \in Seq(STRING)
  BY DEF Observed, Call, Result

-----------------------------------------------------------------------------
(* The detectors and nudges keep the tracker's types. *)
LEMMA ObserveRunTyped ==
    ASSUME NEW t \in TrackerState, NEW out \in RunSaw
    PROVE  observeRun(t, out) \in TrackerState
<1> DEFINE failed == isRunFailure(out)
           passed == isRunSuccess(out)
           z == [t EXCEPT !.lastRunFailed = failed /\ ~isInfraFault(out), !.lastRunPassed = passed,
                            !.editsSinceGreen = IF passed THEN 0 ELSE @]
<1>1. t.failRuns + 1 \in Nat /\ t.stagnant + 1 \in Nat /\ t.greenRepeat + 1 \in Nat
      /\ t.failRuns \in Nat /\ t.stagnant \in Nat /\ t.greenRepeat \in Nat /\ t.editsSinceGreen \in Nat
      /\ 0 \in Nat /\ 1 \in Nat
  BY DEF TrackerState
<1>2. failed \in BOOLEAN /\ passed \in BOOLEAN /\ isInfraFault(out) \in BOOLEAN
  BY DEF isRunFailure, isRunSuccess, isInfraFault
<1> HIDE DEF failed, passed
<1>3. z \in TrackerState /\ z.failRuns = t.failRuns /\ z.stagnant = t.stagnant /\ z.greenRepeat = t.greenRepeat
  BY <1>1, <1>2, Zenon DEF TrackerState
<1> DEFINE fr == IF failed THEN t.failRuns + 1 ELSE t.failRuns
           st == IF ~failed THEN 0 ELSE IF out = t.runFP THEN t.stagnant + 1 ELSE 1
           fp == IF failed THEN out ELSE "none"
           gr == IF ~passed THEN 0 ELSE IF out = t.greenFP THEN t.greenRepeat + 1 ELSE 1
           gp == IF passed THEN out ELSE "none"
<1>4. fr \in Nat /\ st \in Nat /\ gr \in Nat /\ fp \in RunSaw \cup {"none"} /\ gp \in RunSaw \cup {"none"}
  BY <1>1, Zenon
<1>5. observeRun(t, out) = IF failed /\ isInfraFault(out) THEN z
         ELSE [z EXCEPT !.failRuns = fr, !.stagnant = st, !.runFP = fp, !.greenRepeat = gr, !.greenFP = gp]
  <2>1. observeRun(t, out) = IF failed /\ isInfraFault(out) THEN z
         ELSE [z EXCEPT !.failRuns = IF failed THEN z.failRuns + 1 ELSE z.failRuns,
                        !.stagnant = IF ~failed THEN 0 ELSE IF out = t.runFP THEN z.stagnant + 1 ELSE 1,
                        !.runFP = fp,
                        !.greenRepeat = IF ~passed THEN 0 ELSE IF out = t.greenFP THEN z.greenRepeat + 1 ELSE 1,
                        !.greenFP = gp]
    BY Zenon DEF observeRun, failed, passed
  <2> HIDE DEF z
  <2> QED BY <1>3, <2>1
<1> HIDE DEF z, fr, st, fp, gr, gp
<1> DEFINE y == [z EXCEPT !.failRuns = fr, !.stagnant = st]
           x == [y EXCEPT !.runFP = fp, !.greenRepeat = gr]
           v == [x EXCEPT !.greenFP = gp]
<1>6. y \in TrackerState
  BY <1>3, <1>4, Zenon DEF TrackerState
<1> HIDE DEF y
<1>7. x \in TrackerState
  BY <1>4, <1>6, Zenon DEF TrackerState
<1> HIDE DEF x
<1>8. v \in TrackerState
  BY <1>4, <1>7, Zenon DEF TrackerState
<1>9. v = [z EXCEPT !.failRuns = fr, !.stagnant = st, !.runFP = fp, !.greenRepeat = gr, !.greenFP = gp]
  BY Zenon DEF x, y
<1> HIDE DEF v
<1> QED BY <1>3, <1>5, <1>8, <1>9, Zenon

(* The tracker stays typed as it records an action, *)
LEMMA ObserveActionTyped ==
    ASSUME NEW t \in TrackerState, NEW i \in Nat, NEW verb
    PROVE  observeAction(t, i, verb) \in TrackerState
<1>1. t.edits \in Nat /\ t.edits + 1 \in Nat /\ t.editsSinceGreen + 1 \in Nat /\ 0 \in Nat
  BY DEF TrackerState
<1> QED BY <1>1, Zenon DEF observeAction, TrackerState

(* the nudges about its observations, *)
LEMMA NudgesTyped ==
    ASSUME NEW t \in TrackerState
    PROVE  observationNudges(t) \in TrackerState
<1>1. churnDue(t) \in BOOLEAN /\ greenRepeatDue(t) \in BOOLEAN
  BY DEF churnDue, greenRepeatDue
<1> QED BY <1>1, ZenonT(40) DEF observationNudges, TrackerState

(* the fingerprint of a turn, *)
LEMMA ToolObservationTyped ==
    ASSUME NEW t \in TrackerState, NEW fp \in Seq(Seq(STRING))
    PROVE  observeToolObservation(t, fp) \in TrackerState
<1>1. t.obsRepeat + 1 \in Nat /\ 1 \in Nat
  BY DEF TrackerState
<1> QED BY <1>1, Zenon DEF observeToolObservation, TrackerState

(* and the latches of the finish nudge and of a green build. *)
LEMMA TrackerLatches ==
    ASSUME NEW t \in TrackerState, NEW b \in BOOLEAN
    PROVE  /\ [t EXCEPT !.editsSinceGreen = 0] \in TrackerState
           /\ [t EXCEPT !.finishNudged = @ \/ b] \in TrackerState
<1>1. 0 \in Nat
  OBVIOUS
<1> QED BY <1>1, Zenon DEF TrackerState

(* The messages the loops write are messages. *)
LEMMA MessagesTyped ==
    ASSUME iter \in Nat, reply.calls \in Seq(Call), reply.thought \in STRING
    PROVE  /\ Assistant \in Message
           /\ \A w \in STRING : User(w) \in Message
           /\ \A j \in Nat, w \in Seq(STRING), x \in Nat : ToolResult(j, w, x) \in Message
           /\ \A n \in Nat : said(n) \in Message
<1>1. Len(reply.calls) \in Nat /\ 0 \in Nat
  OBVIOUS
<1>2. "none" \in STRING
  BY WordsAssumption DEF WordsAssumption, Words
<1>3. /\ <<reply.thought>> \in Seq(STRING) /\ <<"none">> \in Seq(STRING)
      /\ \A w \in STRING : <<w>> \in Seq(STRING)
  BY <1>2
<1>4. Assistant \in Message
  BY <1>1, <1>3, Zenon DEF Assistant, Message
<1>5. \A w \in STRING : User(w) \in Message
  BY <1>1, <1>3, Zenon DEF User, Message
<1>6. \A j \in Nat, w \in Seq(STRING), x \in Nat : ToolResult(j, w, x) \in Message
  BY Zenon DEF ToolResult, Message
<1>7. \A n \in Nat : said(n) \in Message
  BY <1>1, <1>3, Zenon DEF said, Message
<1> QED BY <1>4, <1>5, <1>6, <1>7

(* The finish call a finish turn is about. *)
LEMMA FindCall ==
    ASSUME reply.calls \in Seq(Call), callsFinish
    PROVE  findCall \in DOMAIN reply.calls /\ finishCall(reply.calls[findCall])
<1> DEFINE S == {j \in DOMAIN reply.calls : finishCall(reply.calls[j])}
<1>1. S \in SUBSET Nat /\ S # {}
  BY DEF callsFinish
<1>2. PICK j \in S : \A m \in S : j <= m
  BY <1>1, SmallestIndex
<1>3. \A h \in 1..(j - 1) : ~finishCall(reply.calls[h])
  <2> SUFFICES ASSUME NEW h \in 1..(j - 1), finishCall(reply.calls[h]) PROVE FALSE
    OBVIOUS
  <2>1. h \in S
    BY <1>1
  <2> QED BY <1>2, <2>1
<1>4. \E i \in DOMAIN reply.calls :
        finishCall(reply.calls[i]) /\ \A h \in 1..(i - 1) : ~finishCall(reply.calls[h])
  BY <1>2, <1>3, Zenon
<1> QED BY <1>4, Zenon DEF findCall

(* What the text protocol makes of a reply is a call. *)
LEMMA ActionTyped ==
    ASSUME NEW t \in DOMAIN Written, t \in STRING
    PROVE  parseAction(t) \in Call
<1> DEFINE lines == Written[t]
           found == {i \in DOMAIN lines : yields(lines, i)}
           first == CHOOSE i \in found : \A j \in found : i <= j
<1>1. lines \in Seq(Line) /\ "" \in STRING
  BY TextAssumption, WordsAssumption DEF TextAssumption, WordsAssumption, Words
<1>1a. parseAction(t) = IF found = {} THEN [name |-> "", arg |-> t]
                        ELSE [name |-> lines[first].verb, arg |-> argumentOf(lines, first)]
  BY Zenon DEF parseAction
<1> HIDE DEF lines
<1>1b. Len(lines) \in Nat /\ DOMAIN lines = 1..Len(lines) /\ lines \in [1..Len(lines) -> Line]
  BY <1>1, LenProperties, Zenon
<1>2. \A i \in DOMAIN lines : lines[i].verb \in STRING /\ lines[i].arg \in STRING /\ lines[i].text \in STRING
  <2>1. \A l \in Line : l.verb \in STRING /\ l.arg \in STRING /\ l.text \in STRING
    BY DEF Line
  <2>2. \A i \in DOMAIN lines : lines[i] \in Line
    BY <1>1b, Zenon
  <2> QED BY <2>1, <2>2, Zenon
<1>3. CASE found = {}
  <2>1. parseAction(t) = [name |-> "", arg |-> t]
    BY <1>1a, <1>3, Zenon
  <2>2. \A x, y \in STRING : [name |-> x, arg |-> y] \in Call
    BY Zenon DEF Call
  <2>3. "" \in STRING /\ t \in STRING
    BY <1>1
  <2> QED BY <2>1, <2>2, <2>3
<1>4. CASE found # {}
  <2>1. first \in found
    <3>1. found \in SUBSET Nat
      BY <1>1b
    <3> QED BY <1>4, <3>1, SmallestIndex
  <2>2. parseAction(t) = [name |-> lines[first].verb, arg |-> argumentOf(lines, first)]
    BY <1>1a, <1>4, Zenon
  <2> HIDE DEF first
  <2>3. first \in DOMAIN lines
    BY <2>1, Zenon
  <2>4. pickupArgument(lines, first) \in STRING
    <3> DEFINE later == {j \in (first + 1)..Len(lines) : ~structural(lines[j])}
               next  == CHOOSE j \in later : \A h \in later : j <= h
    <3>1. pickupArgument(lines, first) = IF later = {} THEN "" ELSE lines[next].text
      BY Zenon DEF pickupArgument
    <3>2. ASSUME later # {} PROVE next \in DOMAIN lines
      <4>1. later \in SUBSET Nat /\ later \subseteq DOMAIN lines
        BY <1>1b, <2>3
      <4>2. next \in later
        BY <3>2, <4>1, SmallestIndex
      <4> HIDE DEF next, later
      <4> QED BY <4>1, <4>2, Zenon
    <3> HIDE DEF next, later
    <3> QED BY <1>1, <1>2, <3>1, <3>2, Zenon
  <2>5. argumentOf(lines, first) \in STRING
    BY <1>2, <2>3, <2>4, Zenon DEF argumentOf
  <2> HIDE DEF found
  <2> QED BY <1>2, <2>2, <2>3, <2>5 DEF Call
<1> QED BY <1>3, <1>4

-----------------------------------------------------------------------------
(* What a call may return depends on the workspace and the cancel alone. *)
LEMMA DispatchStable ==
    ASSUME UNCHANGED <<scen, ws, canceled>>, NEW c
    PROVE  dispatchNative(c)' = dispatchNative(c')
  BY SMT DEF dispatchNative, sc, Ran, readOnly, discovery

(* The leading reads are fetched ahead, each from what the call can return. *)
LEMMA Prefetched ==
    ASSUME reply.calls \in Seq(Call), ws \in Versions, NEW p \in prefetchLeadingReadOnly
    PROVE  /\ p \in Seq(Result) /\ Len(p) <= Len(reply.calls)
           /\ \A j \in 1..Len(p) : readOnly(reply.calls[j]) /\ p[j] \in dispatchNative(reply.calls[j])
<1> DEFINE Leads(h) == /\ \A j \in 1..h : parallelSafe(reply.calls[j])
                       /\ h < Len(reply.calls) => ~parallelSafe(reply.calls[h + 1])
           n == CHOOSE h \in 0..Len(reply.calls) : Leads(h)
           S == {h \in 0..Len(reply.calls) : h < Len(reply.calls) => ~parallelSafe(reply.calls[h + 1])}
<1>1. Len(reply.calls) \in Nat /\ DOMAIN reply.calls = 1..Len(reply.calls)
  OBVIOUS
<1>2. PICK h \in S : \A m \in S : h <= m
  <2>1. S \in SUBSET Nat /\ Len(reply.calls) \in S
    BY <1>1
  <2> QED BY <2>1, SmallestIndex
<1>3. \A j \in 1..h : parallelSafe(reply.calls[j])
  <2> SUFFICES ASSUME NEW j \in 1..h, ~parallelSafe(reply.calls[j]) PROVE FALSE
    OBVIOUS
  <2>1. j - 1 \in 0..Len(reply.calls) /\ (j - 1) + 1 = j /\ h \in Nat
    BY <1>1, <1>2
  <2>2. j - 1 \in S
    BY <2>1
  <2> QED BY <1>2, <2>1, <2>2
<1>4. h \in 0..Len(reply.calls) /\ Leads(h)
  BY <1>2, <1>3
<1>5. n \in 0..Len(reply.calls) /\ Leads(n)
  <2> HIDE DEF Leads
  <2> QED BY <1>4, Zenon
<1>6. \/ p = <<>>
      \/ /\ p \in [1..n -> UNION {dispatchNative(reply.calls[j]) : j \in 1..n}]
         /\ \A j \in 1..n : p[j] \in dispatchNative(reply.calls[j])
  BY Zenon DEF prefetchLeadingReadOnly
<1> HIDE DEF n
<1>7. CASE p = <<>>
  BY <1>1, <1>7
<1>8. CASE /\ p \in [1..n -> UNION {dispatchNative(reply.calls[j]) : j \in 1..n}]
           /\ \A j \in 1..n : p[j] \in dispatchNative(reply.calls[j])
  <2>1. \A j \in 1..n : p[j] \in Result
    BY <1>8, Dispatched, Zenon
  <2>2. p \in [1..n -> Result] /\ n \in Nat
    BY <1>5, <1>8, <2>1
  <2>3. p \in Seq(Result) /\ Len(p) = n
    BY <2>2
  <2> QED BY <1>5, <1>8, <2>3 DEF parallelSafe
<1> QED BY <1>6, <1>7, <1>8

-----------------------------------------------------------------------------
(* The type invariant of both loops, as an inductive invariant. *)

(* The run and its surroundings. *)
EnvOK == /\ scen \in DOMAIN Scenarios /\ iter \in 1..maxIter /\ ws \in Versions
         /\ canceled \in BOOLEAN /\ evicted \in BOOLEAN

ReplyOK == reply.calls \in Seq(Call) /\ reply.thought \in STRING /\ reply.adv \in BOOLEAN

(* What is sent, and what the dedup knows of it. *)
SentOK == msgs \in Seq(Message) /\ seen \in SUBSET (Seq(STRING) \X Nat)

(* What the turns leave behind them. *)
TracesOK == fps \in Seq(Seq(STRING)) /\ tr \in TrackerState /\ mem \in Memory /\ pre \in Seq(Result)

(* Where the loop is: calls are observed one after the other, a text turn    *)
(* has one, and only a turn that calls the finish tool is a finish turn.     *)
ControlOK ==
    /\ phase \in Phases /\ outcome \in Outcomes /\ (phase = "done" <=> outcome # "none")
    /\ k \in Nat \ {0}
    /\ phase = "dispatch" => k \in 1..Len(reply.calls) /\ Len(fps) = k - 1
    /\ phase = "endTurn" => Len(fps) = Len(reply.calls)
    /\ isText => phase \notin {"finishing", "dispatch"}
    /\ isText /\ phase \in {"reply", "endTurn"} => Len(reply.calls) = 1
    /\ phase = "finishing" => callsFinish

(* What was fetched ahead are leading reads, and the results not yet         *)
(* delivered are what their calls would return now.                          *)
PrefetchOK ==
    phase = "dispatch" =>
        /\ Len(pre) <= Len(reply.calls)
        /\ \A j \in 1..Len(pre) : readOnly(reply.calls[j])
        /\ \A j \in 1..Len(pre) : j >= k => pre[j] \in dispatchNative(reply.calls[j])

LoopInv == EnvOK /\ ReplyOK /\ SentOK /\ TracesOK /\ ControlOK /\ PrefetchOK

-----------------------------------------------------------------------------

(* The environment of a run: what the steps may change of it, and how. *)
LEMMA EnvStays ==
    ASSUME EnvOK, UNCHANGED scen, iter' \in 1..maxIter, ws' \in Versions,
           canceled' \in BOOLEAN, evicted' \in BOOLEAN
    PROVE  EnvOK'
  BY Zenon DEF EnvOK, maxIter, sc

(* A step that ends the run leaves the loop with an outcome. *)
LEMMA LoopEnded ==
    ASSUME ControlOK, NEW o \in Outcomes, o # "none", end(o), k' \in Nat \ {0}
    PROVE  ControlOK' /\ UNCHANGED iter /\ phase' = "done"
  BY SMT DEF ControlOK, end, Phases

(* The next turn starts, or the turns run out: the counter stays in        *)
(* bounds.                                                                 *)
LEMMA TurnFollows ==
    ASSUME EnvOK, ControlOK, phase # "done", nextTurn, UNCHANGED <<scen, k>>
    PROVE  ControlOK' /\ iter' \in 1..maxIter /\ phase' \in {"top", "done"} /\ iter' \in iter..(iter + 1)
<1>1. maxIter \in Nat \ {0}
  BY ScenarioTyped DEF EnvOK
<1>2. CASE iter < maxIter
  <2>1. phase' = "top" /\ iter' = iter + 1 /\ UNCHANGED outcome
    BY <1>2 DEF nextTurn
  <2>2. ControlOK'
    BY <2>1 DEF ControlOK, Phases
  <2> QED BY <1>1, <1>2, <2>1, <2>2 DEF EnvOK
<1>3. CASE ~(iter < maxIter)
  <2>1. end("HitCap") /\ "HitCap" \in Outcomes
    BY <1>3 DEF nextTurn, Outcomes
  <2> QED BY <1>1, <2>1, LoopEnded DEF EnvOK, ControlOK
<1> QED BY <1>2, <1>3

(* A message more leaves the transcript typed. *)
LEMMA Sends ==
    ASSUME SentOK, NEW m \in Message
    PROVE  Append(msgs, m) \in Seq(Message)
  BY DEF SentOK

(* The messages of the loops are typed in every state of a run. *)
LEMMA MessagesOK ==
    ASSUME EnvOK, ReplyOK
    PROVE  /\ Assistant \in Message
           /\ \A w \in Words : User(w) \in Message
           /\ \A j \in Nat, w \in Seq(STRING), x \in Nat : ToolResult(j, w, x) \in Message
           /\ \A n \in Nat : said(n) \in Message
           /\ \A due \in BOOLEAN : hint(due) \in Seq(Message)
<1>1. iter \in Nat /\ maxIter \in Nat
  BY ScenarioTyped DEF EnvOK
<1>2. /\ Assistant \in Message
      /\ \A w \in STRING : User(w) \in Message
      /\ \A j \in Nat, w \in Seq(STRING), x \in Nat : ToolResult(j, w, x) \in Message
      /\ \A n \in Nat : said(n) \in Message
  BY <1>1, MessagesTyped DEF ReplyOK
<1>3. \A w \in Words : User(w) \in Message
  BY <1>2, WordsAssumption DEF WordsAssumption
<1>4. \A due \in BOOLEAN : hint(due) \in Seq(Message)
  <2>1. "hint" \in Words
    BY DEF Words
  <2> QED BY <1>3, <2>1 DEF hint
<1> QED BY <1>2, <1>3, <1>4

(* How an observation goes out: in full, or as a reference to an iteration   *)
(* the dedup knows.                                                          *)
LEMMA Stubbed ==
    ASSUME EnvOK, ReplyOK, SentOK, k \in Nat, NEW obs \in Seq(STRING), NEW rest \in Seq(Message), stub(obs, rest)
    PROVE  /\ \E ref \in Nat : /\ msgs' = Append(msgs, ToolResult(k, obs, ref)) \o rest
                               /\ \/ ref = 0 /\ seen' \in {seen, seen \cup {<<obs, iter>>}}
                                  \/ <<obs, ref>> \in seen /\ UNCHANGED seen
           /\ SentOK'
<1>1. iter \in Nat /\ maxIter \in Nat
  BY ScenarioTyped DEF EnvOK
<1> DEFINE first == {p \in seen : p[1] = obs}
           one == CHOOSE p \in first : TRUE
           ref == IF first = {} THEN 0 ELSE one[2]
<1>2. first # {} => one \in seen /\ one[1] = obs
  BY Zenon
<1>3. first # {} => one = <<obs, ref>> /\ ref \in Nat
  <2>1. one \in seen => one \in Seq(STRING) \X Nat
    BY DEF SentOK
  <2> HIDE DEF one
  <2> QED BY <1>2, <2>1
<1>4. /\ seen' = IF dedupable(obs) /\ ref = 0 THEN seen \cup {<<obs, iter>>} ELSE seen
      /\ msgs' = Append(msgs, ToolResult(k, obs, ref)) \o rest
  BY Zenon DEF stub
<1> HIDE DEF one
<1>5. ref \in Nat
  BY <1>3
<1>6. ref # 0 => <<obs, ref>> \in seen
  BY <1>2, <1>3
<1>7. SentOK'
  <2>1. Append(msgs, ToolResult(k, obs, ref)) \in Seq(Message)
    BY <1>5, Sends, MessagesOK
  <2>2. msgs' \in Seq(Message)
    BY <1>4, <2>1, ConcatProperties
  <2>3. <<obs, iter>> \in Seq(STRING) \X Nat
    BY <1>1
  <2>4. seen' \in SUBSET (Seq(STRING) \X Nat)
    BY <1>4, <2>3 DEF SentOK
  <2> QED BY <2>2, <2>4 DEF SentOK
<1>8. \/ ref = 0 /\ seen' \in {seen, seen \cup {<<obs, iter>>}}
      \/ <<obs, ref>> \in seen /\ UNCHANGED seen
  <2> HIDE DEF ref
  <2>1. CASE ref = 0
    <3>1. seen' = seen \/ seen' = seen \cup {<<obs, iter>>}
      BY <1>4, Zenon
    <3> QED BY <2>1, <3>1, Zenon
  <2>2. CASE ref # 0
    BY <1>4, <1>6, <2>2, Zenon
  <2> QED BY <2>1, <2>2
<1> HIDE DEF ref
<1> QED BY <1>4, <1>5, <1>7, <1>8, Zenon

-----------------------------------------------------------------------------

(* LoopInv holds when a run starts. *)
LEMMA LoopInvInit == LoopInit => LoopInv
<1> SUFFICES ASSUME LoopInit PROVE LoopInv
  OBVIOUS
<1>1. scen \in DOMAIN Scenarios /\ maxIter \in Nat \ {0} /\ sc.priorTurns \in Nat
  <2>1. scen \in DOMAIN Scenarios
    BY DEF LoopInit
  <2> QED BY <2>1, ScenarioTyped DEF Scenario
<1>2. EnvOK
  <2>1. iter \in 1..maxIter
    BY <1>1 DEF LoopInit
  <2>2. ws \in Versions /\ canceled \in BOOLEAN /\ evicted \in BOOLEAN
    BY DEF LoopInit
  <2> QED BY <1>1, <2>1, <2>2 DEF EnvOK
<1>3. "none" \in STRING /\ "history" \in STRING /\ "t0" \in STRING /\ "task" \in STRING
  BY WordsAssumption DEF WordsAssumption, Words
<1>4. ReplyOK
  BY <1>3 DEF LoopInit, ReplyOK
<1>5. msgs \in Seq(Message)
  <2> DEFINE n == sc.priorTurns
             prior == [role |-> "user", at |-> 0, n |-> 0, what |-> <<"history">>, ref |-> 0]
             replied == [prior EXCEPT !.role = "assistant", !.what = <<"t0">>]
             task == [prior EXCEPT !.what = <<"task">>]
             e(i) == IF i = 2 * n + 1 THEN task ELSE IF i % 2 = 1 THEN prior ELSE replied
  <2>1. 2 * n + 1 \in Nat
    BY <1>1
  <2>2. prior \in Message /\ replied \in Message /\ task \in Message
    <3>1. <<"history">> \in Seq(STRING) /\ <<"t0">> \in Seq(STRING) /\ <<"task">> \in Seq(STRING)
      BY <1>3
    <3>2. prior \in Message
      BY <3>1, Zenon DEF Message
    <3> HIDE DEF prior
    <3> QED BY <3>1, <3>2, Zenon DEF Message
  <2>3. msgs = [i \in 1..(2 * n + 1) |-> e(i)]
    BY Zenon DEF LoopInit, seedMessages
  <2> HIDE DEF prior, replied, task, n
  <2>4. \A i \in 1..(2 * n + 1) : e(i) \in Message
    BY <2>2, Zenon
  <2> HIDE DEF e
  <2> QED BY <2>1, <2>3, <2>4, IsASeq
<1>6. SentOK
  BY <1>5 DEF LoopInit, SentOK
<1>7. TracesOK
  <2>1. newTurnTracker \in TrackerState
    <3>1. <<>> \in Seq(Seq(STRING)) /\ 0 \in Nat /\ "none" \in RunSaw \cup {"none"}
      OBVIOUS
    <3> QED BY <3>1, Zenon DEF newTurnTracker, TrackerState
  <2>2. mem \in Memory
    <3>1. NoCall \in Call /\ <<>> \in Seq(Call) /\ 0 \in Nat
      BY <1>3 DEF NoCall, Call
    <3>2. mem = [sig |-> <<>>, thought |-> "none", repeats |-> 0, readSig |-> NoCall, readSaw |-> "none",
              execSig |-> NoCall, answerNudged |-> FALSE, sayNudged |-> FALSE]
      BY DEF LoopInit
    <3> QED BY <1>3, <3>1, <3>2, Zenon DEF Memory
  <2> QED BY <2>1, <2>2 DEF LoopInit, TracesOK
<1>8. ControlOK /\ PrefetchOK
  BY DEF LoopInit, ControlOK, PrefetchOK, Phases, Outcomes
<1> QED BY <1>2, <1>4, <1>6, <1>7, <1>8 DEF LoopInv

(* The parts of LoopInv depend on these variables alone: the reply, *)
LEMMA ReplyStays == ReplyOK /\ UNCHANGED reply => ReplyOK'
  BY Zenon DEF ReplyOK

(* the transcript and the dedup, *)
LEMMA SentStays == SentOK /\ UNCHANGED <<msgs, seen>> => SentOK'
  BY Zenon DEF SentOK

(* the traces, *)
LEMMA TracesStay == TracesOK /\ UNCHANGED <<fps, tr, mem, pre>> => TracesOK'
  BY Zenon DEF TracesOK

(* and the control; *)
LEMMA ControlStays == ControlOK /\ UNCHANGED <<phase, outcome, k, reply, fps, scen>> => ControlOK'
  BY Zenon DEF ControlOK, callsFinish, sc, isText

(* and there is a prefetch only while a turn is dispatched. *)
LEMMA NoPrefetch == phase' # "dispatch" => PrefetchOK'
  BY Zenon DEF PrefetchOK

(* A move outside the dispatch of a turn. *)
LEMMA ControlMoves ==
    ASSUME ControlOK, phase # "done", phase' \in {"top", "generate", "reply"}, UNCHANGED <<outcome, k>>,
           isText' /\ phase' = "reply" => Len(reply'.calls) = 1
    PROVE  ControlOK'
  BY SMT DEF ControlOK, Phases

(* The replayed reasoning goes, the messages stay. *)
LEMMA ReasoningDropped ==
    ASSUME NEW m \in Seq(Message)
    PROVE  /\ dropReplayReasoning(m) \in Seq(Message) /\ Len(dropReplayReasoning(m)) = Len(m)
           /\ \A i \in DOMAIN m : /\ dropReplayReasoning(m)[i].role = m[i].role
                                  /\ dropReplayReasoning(m)[i].at = m[i].at
                                  /\ dropReplayReasoning(m)[i].n = m[i].n
                                  /\ dropReplayReasoning(m)[i].ref = m[i].ref
                                  /\ m[i].role # "assistant" => dropReplayReasoning(m)[i].what = m[i].what
<1> DEFINE e(i) == IF m[i].role = "assistant" THEN [m[i] EXCEPT !.what = <<"none">>] ELSE m[i]
<1>1. <<"none">> \in Seq(STRING)
  <2>1. "none" \in STRING
    BY WordsAssumption DEF WordsAssumption, Words
  <2> QED BY <2>1
<1>2. \A x \in Message : /\ [x EXCEPT !.what = <<"none">>] \in Message
                         /\ [x EXCEPT !.what = <<"none">>].role = x.role
                         /\ [x EXCEPT !.what = <<"none">>].at = x.at
                         /\ [x EXCEPT !.what = <<"none">>].n = x.n
                         /\ [x EXCEPT !.what = <<"none">>].ref = x.ref
  BY <1>1, Zenon DEF Message
<1>3. Len(m) \in Nat /\ DOMAIN m = 1..Len(m) /\ \A i \in 1..Len(m) : m[i] \in Message
  OBVIOUS
<1>4. \A i \in 1..Len(m) : /\ e(i) \in Message /\ e(i).role = m[i].role /\ e(i).at = m[i].at
                           /\ e(i).n = m[i].n /\ e(i).ref = m[i].ref
                           /\ m[i].role # "assistant" => e(i).what = m[i].what
  BY <1>2, <1>3, Zenon
<1>5. dropReplayReasoning(m) = [i \in 1..Len(m) |-> e(i)]
  BY <1>3, Zenon DEF dropReplayReasoning
<1> HIDE DEF e
<1>6. [i \in 1..Len(m) |-> e(i)] \in Seq(Message)
  BY <1>3, <1>4, IsASeq
<1> QED BY <1>3, <1>4, <1>5, <1>6

(* The killed text turn: its call is taken back, the rest stays. *)
LEMMA UnpairedLast ==
    ASSUME NEW m \in Seq(Message)
    PROVE  LET e == [m EXCEPT ![Len(m)].n = 0]
           IN  /\ e \in Seq(Message) /\ Len(e) = Len(m)
               /\ \A i \in 1..Len(m) : /\ i # Len(m) => e[i] = m[i]
                                       /\ e[i].role = m[i].role /\ e[i].at = m[i].at /\ e[i].ref = m[i].ref
                                       /\ e[i].what = m[i].what
               /\ m # <<>> => e[Len(m)].n = 0
<1> DEFINE l == Len(m)
           x == [m[l] EXCEPT !.n = 0]
           e == [m EXCEPT ![l] = x]
<1>1. l \in Nat /\ DOMAIN m = 1..l /\ \A i \in 1..l : m[i] \in Message
  OBVIOUS
<1>2. l \in 1..l => /\ x \in Message /\ x.n = 0 /\ x.role = m[l].role /\ x.at = m[l].at /\ x.ref = m[l].ref
                    /\ x.what = m[l].what
  <2>1. 0 \in Nat
    OBVIOUS
  <2> QED BY <1>1, <2>1, Zenon DEF Message
<1> HIDE DEF x
<1>3. e = [i \in 1..l |-> IF i = l THEN x ELSE m[i]]
  BY <1>1
<1>4. \A i \in 1..l : e[i] = IF i = l THEN x ELSE m[i]
  BY <1>3
<1>5. e \in Seq(Message) /\ Len(e) = l
  <2> DEFINE f(i) == IF i = l THEN x ELSE m[i]
  <2>1. \A i \in 1..l : f(i) \in Message
    BY <1>1, <1>2
  <2>2. e = [i \in 1..l |-> f(i)]
    BY <1>3
  <2> HIDE DEF f, e
  <2>3. e \in [1..l -> Message]
    BY <2>1, <2>2
  <2> QED BY <1>1, <2>3
<1> HIDE DEF e
<1>6. m # <<>> => l \in 1..l
  BY <1>1
<1> QED BY <1>1, <1>2, <1>4, <1>5, <1>6 DEF e, x

-----------------------------------------------------------------------------
(* The turn's start and the model call, which both loops share.              *)
LEMMA SharedStepInv ==
    ASSUME LoopInv, sharedStep
    PROVE  LoopInv'
<1> USE DEF LoopInv
<1>0. maxIter \in Nat \ {0}
  BY ScenarioTyped DEF EnvOK
<1>1. CASE turnStarts
  <2>1. /\ phase = "top" /\ UNCHANGED <<scen, ws, canceled, evicted, reply, seen, fps, tr, mem, pre, k>>
        /\ \/ UNCHANGED msgs /\ \E o \in {"Canceled", "HitDeadline", "HitBudget"} : end(o)
           \/ /\ phase' = "generate" /\ UNCHANGED <<iter, outcome>>
              /\ msgs' \in {msgs, Append(msgs, User("standing"))}
    BY <1>1 DEF turnStarts
  <2>2. "standing" \in Words /\ {"Canceled", "HitDeadline", "HitBudget"} \subseteq Outcomes
    BY DEF Words, Outcomes
  <2>3. SentOK'
    <3>1. Append(msgs, User("standing")) \in Seq(Message)
      BY <2>2, Sends, MessagesOK
    <3> QED BY <2>1, <3>1 DEF SentOK
  <2>4. ControlOK' /\ UNCHANGED iter /\ phase' # "dispatch"
    <3>1. CASE \E o \in {"Canceled", "HitDeadline", "HitBudget"} : end(o)
      <4>1. k' \in Nat \ {0}
        BY <2>1 DEF ControlOK
      <4> QED BY <2>2, <3>1, <4>1, LoopEnded
    <3>2. CASE phase' = "generate" /\ UNCHANGED <<iter, outcome>>
      BY <2>1, <3>2, ControlMoves
    <3> QED BY <2>1, <3>1, <3>2
  <2>5. EnvOK'
    <3>1. iter' \in 1..maxIter /\ ws' \in Versions /\ canceled' \in BOOLEAN /\ evicted' \in BOOLEAN
      BY <2>1, <2>4 DEF EnvOK
    <3> QED BY <2>1, <3>1, EnvStays
  <2> QED BY <2>1, <2>3, <2>4, <2>5, ReplyStays, TracesStay, NoPrefetch
<1>2. ASSUME phase = "generate", UNCHANGED <<reply, requestVars>>, evicted' \in BOOLEAN,
             msgs' \in Seq(Message),
             \/ UNCHANGED <<iter, phase, outcome>>
             \/ \E o \in Outcomes \ {"none"} : end(o)
      PROVE  LoopInv'
  <2>1. UNCHANGED <<scen, ws, canceled, reply, seen, fps, tr, mem, pre, k>>
    BY <1>2 DEF requestVars
  <2>2. SentOK'
    BY <1>2, <2>1 DEF SentOK
  <2>3. ControlOK' /\ UNCHANGED iter /\ phase' # "dispatch"
    <3>1. CASE \E o \in Outcomes \ {"none"} : end(o)
      <4>1. k' \in Nat \ {0}
        BY <2>1 DEF ControlOK
      <4> QED BY <3>1, <4>1, LoopEnded
    <3>2. CASE UNCHANGED <<iter, phase, outcome>>
      BY <1>2, <2>1, <3>2, ControlStays
    <3> QED BY <1>2, <3>1, <3>2
  <2>4. EnvOK'
    <3>1. iter' \in 1..maxIter /\ ws' \in Versions /\ canceled' \in BOOLEAN
      BY <2>1, <2>3 DEF EnvOK
    <3> QED BY <1>2, <2>1, <3>1, EnvStays
  <2> QED BY <2>1, <2>2, <2>3, <2>4, ReplyStays, TracesStay, NoPrefetch
<1>3. \A err \in {"fatal", "transient", "rejected", "overflow"} :
         classifyGenerateErr(err) \subseteq Outcomes \ {"none"}
  BY DEF classifyGenerateErr, Outcomes
<1>4. msgs \in Seq(Message) /\ evicted \in BOOLEAN
  BY DEF SentOK, EnvOK
<1>5. CASE generateFails
  <2>1. /\ phase = "generate" /\ UNCHANGED <<msgs, reply, evicted, requestVars>>
        /\ \E o \in classifyGenerateErr("fatal") : end(o)
    BY <1>5, Zenon DEF generateFails
  <2> QED BY <1>2, <1>3, <1>4, <2>1
<1>6. CASE generateWithRetry
  <2>1. /\ phase = "generate" /\ UNCHANGED <<msgs, reply, evicted, requestVars>>
        /\ \/ UNCHANGED <<iter, phase, outcome>>
           \/ \E o \in classifyGenerateErr("transient") : end(o)
           \/ end("HitDeadline")
    BY <1>6, Zenon DEF generateWithRetry
  <2>2. "HitDeadline" \in Outcomes \ {"none"}
    BY DEF Outcomes
  <2> QED BY <1>2, <1>3, <1>4, <2>1, <2>2
<1>7. CASE replayRejected
  <2>1. /\ phase = "generate" /\ UNCHANGED <<reply, evicted, requestVars>>
        /\ \/ msgs' = dropReplayReasoning(msgs) /\ UNCHANGED <<iter, phase, outcome>>
           \/ UNCHANGED msgs /\ \E o \in classifyGenerateErr("rejected") : end(o)
    BY <1>7, Zenon DEF replayRejected
  <2>2. msgs' \in Seq(Message)
    BY <1>4, <2>1, ReasoningDropped
  <2> QED BY <1>2, <1>3, <1>4, <2>1, <2>2
<1>8. CASE generateWithEviction
  <2>1. /\ phase = "generate" /\ UNCHANGED <<reply, requestVars>>
        /\ \/ /\ evictOldestTurns(msgs) # msgs
              /\ msgs' = evictOldestTurns(msgs) /\ evicted' = TRUE /\ UNCHANGED <<iter, phase, outcome>>
           \/ UNCHANGED <<msgs, evicted>> /\ \E o \in classifyGenerateErr("overflow") : end(o)
    BY <1>8, Zenon DEF generateWithEviction
  <2>2. msgs' \in Seq(Message) /\ evicted' \in BOOLEAN
    BY <1>4, <2>1, EvictionKeepsEnds
  <2> QED BY <1>2, <1>3, <2>1, <2>2
<1> QED BY <1>1, <1>5, <1>6, <1>7, <1>8 DEF sharedStep

(* gates.finish: fed back with turns left, stopped, or accepted. *)
LEMMA GatesAnswered ==
    ASSUME LoopInv, NEW m \in Seq(Message), gatesFinish(m), phase # "done",
           UNCHANGED <<scen, k, ws, canceled, evicted>>
    PROVE  /\ ControlOK' /\ EnvOK' /\ phase' \in {"top", "done"}
           /\ msgs' \in {m, Append(m, User("feedback"))} /\ msgs' \in Seq(Message)
<1> USE DEF LoopInv
<1>1. Append(m, User("feedback")) \in Seq(Message)
  <2>1. "feedback" \in Words
    BY DEF Words
  <2>2. User("feedback") \in Message
    BY <2>1, MessagesOK
  <2> QED BY <2>2
<1>2. CASE msgs' = Append(m, User("feedback")) /\ nextTurn
  <2>1. ControlOK' /\ iter' \in 1..maxIter /\ phase' \in {"top", "done"}
    BY <1>2, TurnFollows
  <2> QED BY <1>1, <1>2, <2>1, EnvStays DEF EnvOK
<1>3. CASE msgs' = m /\ \E o \in {"Stopped", "Answered"} : end(o)
  <2>1. {"Stopped", "Answered"} \subseteq Outcomes /\ k' \in Nat \ {0}
    BY DEF Outcomes, ControlOK
  <2>2. ControlOK' /\ UNCHANGED iter /\ phase' = "done"
    BY <1>3, <2>1, LoopEnded
  <2>3. iter' \in 1..maxIter /\ ws' \in Versions /\ canceled' \in BOOLEAN /\ evicted' \in BOOLEAN
    BY <2>2 DEF EnvOK
  <2> QED BY <1>3, <2>2, <2>3, EnvStays
<1> QED BY <1>2, <1>3 DEF gatesFinish

(* Turns that answer, are silent, or are cut before they are committed. *)
LEMMA ReplyStepInv ==
    ASSUME LoopInv, ~isText, generateOnce \/ silentTurn \/ answerTurn \/ finishTurn \/ killRepeat \/ killSpiral
    PROVE  LoopInv'
<1> USE DEF LoopInv
<1>0. maxIter \in Nat \ {0} /\ sc.thoughts \subseteq STRING /\ \A r \in sc.replies : r.calls \in Seq(Call)
  BY ScenarioTyped DEF EnvOK
<1>a. iter \in 1..maxIter /\ ws \in Versions /\ canceled \in BOOLEAN /\ evicted \in BOOLEAN
  BY DEF EnvOK
<1>b. k \in Nat \ {0} /\ Assistant \in Message /\ Append(msgs, Assistant) \in Seq(Message)
  BY MessagesOK, Sends DEF ControlOK
<1>1. CASE generateOnce
  <2>1. /\ phase = "generate" /\ phase' = "reply"
        /\ UNCHANGED <<scen, ws, canceled, evicted, iter, outcome, msgs, seen, fps, tr, mem, pre, k>>
    BY <1>1, Zenon DEF generateOnce, requestVars
  <2>2. ReplyOK'
    <3>1. PICK r \in sc.replies, th \in sc.thoughts :
             reply' = [calls |-> r.calls, empty |-> r.empty, thought |-> th,
                       adv |-> th # "none" /\ th # mem.thought]
      BY <1>1, Zenon DEF generateOnce
    <3>2. reply'.calls = r.calls /\ reply'.thought = th /\ reply'.adv \in BOOLEAN
      BY <3>1
    <3> QED BY <1>0, <3>2 DEF ReplyOK
  <2>3. ControlOK'
    <3>1. ~isText'
      BY <2>1 DEF isText
    <3> QED BY <2>1, <3>1, ControlMoves
  <2> QED BY <1>a, <2>1, <2>2, <2>3, EnvStays, SentStays, TracesStay, NoPrefetch
<1>2. CASE silentTurn
  <2>1. /\ phase = "reply" /\ nextTurn
        /\ UNCHANGED <<scen, ws, canceled, evicted, reply, seen, fps, tr, pre, k>>
        /\ mem' \in {mem, [mem EXCEPT !.thought = reply.thought]}
        /\ msgs' \in {Append(msgs, Assistant) \o <<>>, Append(msgs, Assistant) \o <<User("hint")>>}
    BY <1>2 DEF silentTurn
  <2>2. SentOK'
    <3>1. "hint" \in Words
      BY DEF Words
    <3>2. User("hint") \in Message
      BY <3>1, MessagesOK
    <3>3. <<>> \in Seq(Message) /\ <<User("hint")>> \in Seq(Message)
      BY <3>2
    <3>4. msgs' \in Seq(Message)
      <4>1. \A rest \in Seq(Message) : Append(msgs, Assistant) \o rest \in Seq(Message)
        BY <1>b, ConcatProperties
      <4> QED BY <2>1, <3>3, <4>1, Zenon
    <3> QED BY <2>1, <3>4 DEF SentOK
  <2>3. TracesOK'
    <3>1. [mem EXCEPT !.thought = reply.thought] \in Memory
      BY Zenon DEF TracesOK, Memory, ReplyOK
    <3> QED BY <2>1, <3>1 DEF TracesOK
  <2>4. ControlOK' /\ iter' \in 1..maxIter /\ phase' \in {"top", "done"}
    BY <2>1, TurnFollows
  <2> QED BY <1>a, <2>1, <2>2, <2>3, <2>4, EnvStays, ReplyStays, NoPrefetch
<1>3. CASE answerTurn
  <2>1. /\ phase = "reply" /\ gatesFinish(Append(msgs, Assistant))
        /\ UNCHANGED <<scen, ws, canceled, evicted, reply, seen, fps, tr, mem, pre, k>>
    BY <1>3 DEF answerTurn
  <2>2. ControlOK' /\ EnvOK' /\ phase' \in {"top", "done"} /\ msgs' \in Seq(Message)
    BY <1>b, <2>1, GatesAnswered
  <2>3. SentOK'
    BY <2>1, <2>2 DEF SentOK
  <2> QED BY <2>1, <2>2, <2>3, ReplyStays, TracesStay, NoPrefetch
<1>4. CASE finishTurn
  <2>1. /\ phase = "reply" /\ callsFinish /\ phase' = "finishing" /\ k' = 1 /\ fps' = <<>>
        /\ msgs' = Append(msgs, Assistant)
        /\ UNCHANGED <<scen, ws, canceled, evicted, iter, outcome, reply, seen, tr, mem, pre>>
    BY <1>4 DEF finishTurn
  <2>2. SentOK' /\ TracesOK'
    BY <1>b, <2>1 DEF SentOK, TracesOK
  <2>3. ControlOK'
    <3>1. ~isText' /\ callsFinish'
      BY <2>1, Zenon DEF isText, callsFinish, sc
    <3> QED BY <2>1, <3>1 DEF ControlOK, Phases
  <2> QED BY <1>a, <2>1, <2>2, <2>3, EnvStays, ReplyStays, NoPrefetch
<1>5. CASE killRepeat
  <2>1. /\ end("repeat")
        /\ UNCHANGED <<scen, ws, canceled, evicted, msgs, reply, seen, fps, tr, mem, pre, k>>
    BY <1>5 DEF killRepeat
  <2>2. ControlOK' /\ UNCHANGED iter /\ phase' = "done"
    <3>1. "repeat" \in Outcomes /\ k' \in Nat \ {0}
      BY <1>b, <2>1 DEF Outcomes, Killed
    <3> QED BY <2>1, <3>1, LoopEnded
  <2> QED BY <1>a, <2>1, <2>2, EnvStays, ReplyStays, SentStays, TracesStay, NoPrefetch
<1>6. CASE killSpiral
  <2>1. /\ end(spiralKill(spiralAfter)) /\ spiralKill(spiralAfter) # "none" /\ mem' = memAfter
        /\ UNCHANGED <<scen, ws, canceled, evicted, msgs, reply, seen, fps, tr, pre, k>>
    BY <1>6 DEF killSpiral
  <2>2. ControlOK' /\ UNCHANGED iter /\ phase' = "done"
    <3>1. spiralKill(spiralAfter) \in {"spiral_cycle", "spiral_wander", "none"}
      BY DEF spiralKill
    <3>2. spiralKill(spiralAfter) \in Outcomes /\ k' \in Nat \ {0}
      BY <1>b, <2>1, <3>1 DEF Outcomes, Killed
    <3> QED BY <2>1, <3>2, LoopEnded
  <2>3. TracesOK'
    <3>1. repeats \in Nat
      BY DEF repeats, TracesOK, Memory
    <3>2. memAfter \in Memory
      BY <3>1, Zenon DEF memAfter, TracesOK, Memory, ReplyOK
    <3> QED BY <2>1, <3>2 DEF TracesOK
  <2> QED BY <1>a, <2>1, <2>2, <2>3, EnvStays, ReplyStays, SentStays, NoPrefetch
<1> QED BY <1>1, <1>2, <1>3, <1>4, <1>5, <1>6

(* A finish turn, whose other calls run first. *)
LEMMA FinishStepInv ==
    ASSUME LoopInv, finishDispatch \/ finishReturns
    PROVE  LoopInv'
<1> USE DEF LoopInv
<1>0. maxIter \in Nat \ {0}
  BY ScenarioTyped DEF EnvOK
<1>a. iter \in 1..maxIter /\ ws \in Versions /\ canceled \in BOOLEAN /\ evicted \in BOOLEAN
  BY DEF EnvOK
<1>b. k \in Nat \ {0}
  BY DEF ControlOK
<1>1. CASE finishDispatch
  <2> DEFINE c == reply.calls[k]
  <2>1. /\ phase = "finishing" /\ k \in DOMAIN reply.calls /\ k' = k + 1
        /\ UNCHANGED <<scen, phase, canceled, evicted, iter, outcome, reply, seen, mem, pre>>
        /\ \/ UNCHANGED <<ws, tr, msgs, fps>>
           \/ \E r \in dispatchNative(c) :
                 /\ ws' = r.ws
                 /\ tr' = IF c.name = "run" THEN observeRun(tr, r.saw) ELSE tr
                 /\ msgs' = Append(msgs, ToolResult(k, Observed(c, r), 0))
                 /\ fps' = Append(fps, Observed(c, r))
    BY <1>1, Zenon DEF finishDispatch
  <2>2. c \in Call
    BY <2>1 DEF ReplyOK
  <2> HIDE DEF c
  <2>3. ws' \in Versions /\ SentOK' /\ TracesOK'
    <3>1. CASE UNCHANGED <<ws, tr, msgs, fps>>
      BY <1>a, <2>1, <3>1, SentStays, TracesStay
    <3>2. ASSUME NEW r \in dispatchNative(c), ws' = r.ws,
                 tr' = IF c.name = "run" THEN observeRun(tr, r.saw) ELSE tr,
                 msgs' = Append(msgs, ToolResult(k, Observed(c, r), 0)),
                 fps' = Append(fps, Observed(c, r))
          PROVE  ws' \in Versions /\ SentOK' /\ TracesOK'
      <4>1. r \in Result /\ (c.name = "run" => r.saw \in RunSaw)
        BY <1>a, <3>2, Dispatched
      <4>2. r.ws \in Versions
        BY <4>1 DEF Result
      <4>3. Observed(c, r) \in Seq(STRING)
        BY <2>2, <4>1, ObservedTyped
      <4>4. ToolResult(k, Observed(c, r), 0) \in Message
        BY <1>b, <4>3, MessagesOK
      <4>5. SentOK'
        BY <2>1, <3>2, <4>4 DEF SentOK
      <4>6. tr' \in TrackerState
        BY <3>2, <4>1, ObserveRunTyped DEF TracesOK
      <4>7. TracesOK'
        BY <2>1, <3>2, <4>3, <4>6 DEF TracesOK
      <4> QED BY <3>2, <4>2, <4>5, <4>7
    <3> QED BY <2>1, <3>1, <3>2
  <2>4. ControlOK'
    <3>1. callsFinish' = callsFinish /\ isText' = isText
      BY <2>1, Zenon DEF isText, callsFinish, sc
    <3> QED BY <1>b, <2>1, <3>1 DEF ControlOK, Phases
  <2> QED BY <1>a, <2>1, <2>3, <2>4, EnvStays, ReplyStays, NoPrefetch
<1>2. CASE finishReturns
  <2>1. /\ phase = "finishing" /\ gatesFinish(Append(msgs, ToolResult(findCall, <<"finish">>, 0)))
        /\ UNCHANGED <<scen, ws, canceled, evicted, reply, seen, fps, tr, mem, pre, k>>
    BY <1>2 DEF finishReturns
  <2>2. Append(msgs, ToolResult(findCall, <<"finish">>, 0)) \in Seq(Message)
    <3>1. findCall \in Nat
      <4>1. findCall \in DOMAIN reply.calls
        BY <2>1, FindCall DEF ControlOK, ReplyOK
      <4> QED BY <4>1 DEF ReplyOK
    <3>2. "finish" \in STRING
      BY WordsAssumption DEF WordsAssumption, Words
    <3>3. <<"finish">> \in Seq(STRING)
      BY <3>2
    <3> QED BY <3>1, <3>3, MessagesOK, Sends
  <2>3. ControlOK' /\ EnvOK' /\ phase' \in {"top", "done"} /\ msgs' \in Seq(Message)
    BY <2>1, <2>2, GatesAnswered
  <2>4. SentOK'
    BY <2>1, <2>3 DEF SentOK
  <2> QED BY <2>1, <2>3, <2>4, ReplyStays, TracesStay, NoPrefetch
<1> QED BY <1>1, <1>2

(* A prefetched result is what the call would return now. *)
LEMMA Executed ==
    ASSUME LoopInv, phase = "dispatch", NEW r \in executions
    PROVE  r \in dispatchNative(reply.calls[k])
<1>1. k \in Nat /\ Len(pre) \in Nat
  BY DEF LoopInv, ControlOK, TracesOK
<1>2. CASE k <= Len(pre)
  <2>1. k \in 1..Len(pre) /\ r = pre[k]
    BY <1>1, <1>2 DEF executions, LoopInv, ControlOK
  <2> QED BY <1>1, <2>1 DEF LoopInv, PrefetchOK
<1>3. CASE ~(k <= Len(pre))
  BY <1>3, Zenon DEF executions
<1> QED BY <1>2, <1>3

(* The memory of reads, after a call. *)
LEMMA MemoryTyped ==
    ASSUME mem \in Memory, NEW c \in Call, NEW r \in Result
    PROVE  memOf(c, r) \in Memory
<1>1. r.saw \in STRING
  BY DEF Result
<1> QED BY <1>1, Zenon DEF memOf, Memory

(* One call is observed, and the next one is due. *)
LEMMA ObserveInv ==
    ASSUME LoopInv, phase = "dispatch", NEW c, c = reply.calls[k], NEW r \in Result,
           c.name = "run" => r.saw \in RunSaw, readOnly(c) => r.ws = ws,
           NEW m \in Memory, observeCall(c, r, m)
    PROVE  LoopInv'
<1> USE DEF LoopInv
<1> DEFINE obs == Observed(c, r)
           ran == IF c.name = "run" THEN observeRun(tr, r.saw) ELSE tr
           acted == observeAction(ran, iter, c.name)
<1>0. maxIter \in Nat \ {0}
  BY ScenarioTyped DEF EnvOK
<1>a. iter \in 1..maxIter /\ ws \in Versions /\ canceled \in BOOLEAN /\ evicted \in BOOLEAN
  BY DEF EnvOK
<1>b. k \in Nat \ {0} /\ k \in 1..Len(reply.calls) /\ Len(reply.calls) \in Nat /\ Len(fps) = k - 1 /\ ~isText
  BY DEF ControlOK, ReplyOK
<1>1. /\ ws' = r.ws /\ mem' = m /\ tr' = observationNudges(acted) /\ fps' = Append(fps, obs)
      /\ stub(obs, <<>>) /\ k' = k + 1
      /\ phase' = IF k = Len(reply.calls) THEN "endTurn" ELSE "dispatch"
      /\ UNCHANGED <<scen, iter, reply, pre, canceled, outcome, evicted>>
  BY Zenon DEF observeCall
<1>2. c \in Call /\ obs \in Seq(STRING)
  <2>1. c \in Call
    BY <1>b DEF ReplyOK
  <2> QED BY <2>1, ObservedTyped
<1>3. tr' \in TrackerState
  <2>1. ran \in TrackerState
    BY ObserveRunTyped DEF TracesOK
  <2>2. iter \in Nat
    BY <1>0, <1>a
  <2> HIDE DEF ran
  <2>3. acted \in TrackerState
    BY <2>1, <2>2, ObserveActionTyped
  <2> HIDE DEF acted
  <2> QED BY <1>1, <2>3, NudgesTyped
<1> HIDE DEF obs, ran, acted
<1>4. SentOK'
  <2>1. <<>> \in Seq(Message)
    OBVIOUS
  <2> QED BY <1>1, <1>2, <1>b, <2>1, Stubbed
<1>5. TracesOK'
  BY <1>1, <1>2, <1>3 DEF TracesOK
<1>6. EnvOK'
  <2>1. ws' \in Versions
    BY <1>1 DEF Result
  <2> QED BY <1>1, <1>a, <2>1, EnvStays
<1>7. ControlOK'
  <2>1. Len(fps') = k
    BY <1>1, <1>2, <1>b DEF TracesOK
  <2>2. ~isText'
    BY <1>1, <1>b, Zenon DEF isText
  <2>3. phase' \in {"endTurn", "dispatch"} /\ outcome' = "none"
    BY <1>1 DEF ControlOK
  <2> QED BY <1>1, <1>b, <2>1, <2>2, <2>3 DEF ControlOK, Phases
<1>8. PrefetchOK'
  <2> SUFFICES ASSUME phase' = "dispatch"
               PROVE  /\ Len(pre) <= Len(reply.calls)
                      /\ \A j \in 1..Len(pre) : readOnly(reply.calls[j])
                      /\ \A j \in 1..Len(pre) : j >= k + 1 => pre[j] \in dispatchNative(reply.calls[j])'
    BY <1>1, Zenon DEF PrefetchOK, readOnly
  <2>1. /\ Len(pre) <= Len(reply.calls) /\ Len(pre) \in Nat
        /\ \A j \in 1..Len(pre) : readOnly(reply.calls[j])
        /\ \A j \in 1..Len(pre) : j >= k => pre[j] \in dispatchNative(reply.calls[j])
    BY DEF PrefetchOK, TracesOK
  <2>2. ASSUME NEW j \in 1..Len(pre), j >= k + 1 PROVE pre[j] \in dispatchNative(reply.calls[j])'
    <3>1. j >= k /\ k \in 1..Len(pre)
      BY <1>b, <2>1, <2>2
    <3>2. readOnly(c)
      BY <2>1, <3>1
    <3>3. UNCHANGED <<scen, ws, canceled>>
      BY <1>1, <3>2
    <3>4. dispatchNative(reply.calls[j])' = dispatchNative(reply.calls[j])
      BY <1>1, <3>3, DispatchStable
    <3> QED BY <2>1, <3>1, <3>4
  <2> QED BY <2>1, <2>2
<1> QED BY <1>1, <1>4, <1>5, <1>6, <1>7, <1>8, ReplyStays

(* One element makes a sequence. *)
LEMMA Singleton ==
    ASSUME NEW S, NEW w \in S
    PROVE  <<w>> \in Seq(S)
  OBVIOUS

(* What a committed turn remembers is typed, in either loop. *)
LEMMA StepsTyped ==
    ASSUME LoopInv
    PROVE  repeats \in Nat /\ memAfter \in Memory /\ textMem \in Memory
<1>1. repeats \in Nat
  BY DEF LoopInv, TracesOK, Memory, repeats
<1>2. mem \in Memory /\ reply.calls \in Seq(Call) /\ reply.thought \in STRING
  BY DEF LoopInv, TracesOK, ReplyOK
<1> QED BY <1>1, <1>2, Zenon DEF memAfter, textMem, Memory

(* A turn is committed, and its calls run, are skipped or cut. *)
LEMMA DispatchStepInv ==
    ASSUME LoopInv, ~isText, commitTurn \/ skipCall \/ dispatchCall \/ killStagnant
    PROVE  LoopInv'
<1> USE DEF LoopInv
<1>0. maxIter \in Nat \ {0}
  BY ScenarioTyped DEF EnvOK
<1>a. iter \in 1..maxIter /\ ws \in Versions /\ canceled \in BOOLEAN /\ evicted \in BOOLEAN
  BY DEF EnvOK
<1>b. k \in Nat \ {0} /\ Assistant \in Message /\ Append(msgs, Assistant) \in Seq(Message)
  BY MessagesOK, Sends DEF ControlOK
<1>c. phase = "dispatch" => k \in 1..Len(reply.calls) /\ Len(reply.calls) \in Nat /\ reply.calls[k] \in Call
  BY DEF ControlOK, ReplyOK
<1>1. CASE commitTurn
  <2>1. /\ phase = "reply" /\ reply.calls # <<>> /\ mem' = memAfter /\ msgs' = Append(msgs, Assistant)
        /\ pre' \in prefetchLeadingReadOnly /\ phase' = "dispatch" /\ k' = 1 /\ fps' = <<>>
        /\ UNCHANGED <<scen, iter, ws, reply, tr, seen, canceled, outcome, evicted>>
    BY <1>1 DEF commitTurn, isToolTurn
  <2>2. /\ pre' \in Seq(Result) /\ Len(pre') <= Len(reply.calls)
        /\ \A j \in 1..Len(pre') : readOnly(reply.calls[j]) /\ pre'[j] \in dispatchNative(reply.calls[j])
    BY <1>a, <2>1, Prefetched DEF ReplyOK
  <2>3. SentOK' /\ TracesOK'
    BY <1>b, <2>1, <2>2, StepsTyped DEF SentOK, TracesOK
  <2>4. ControlOK'
    <3>1. ~isText' /\ 1 \in 1..Len(reply.calls)
      BY <2>1 DEF isText, ReplyOK
    <3> QED BY <2>1, <3>1 DEF ControlOK, Phases
  <2>5. PrefetchOK'
    <3>1. \A j \in 1..Len(pre') : dispatchNative(reply.calls[j])' = dispatchNative(reply.calls[j])
      BY <2>1, DispatchStable
    <3>2. \A j \in 1..Len(pre') : pre'[j] \in dispatchNative(reply.calls[j])'
      BY <2>2, <3>1
    <3> QED BY <2>1, <2>2, <3>2, Zenon DEF PrefetchOK, readOnly
  <2> QED BY <1>a, <2>1, <2>3, <2>4, <2>5, EnvStays, ReplyStays
<1>2. CASE skipCall
  <2> DEFINE r == Ran(mem.readSaw, ws, "skipped")
  <2>1. phase = "dispatch" /\ skips(reply.calls[k], mem) /\ observeCall(reply.calls[k], r, mem)
    BY <1>2 DEF skipCall
  <2>2. mem.readSaw \in STRING /\ "skipped" \in STRING /\ mem \in Memory
    BY WordsAssumption DEF WordsAssumption, Words, TracesOK, Memory
  <2>3. r \in Result /\ r.ws = ws
    <3>1. \A s, t \in STRING : Ran(s, ws, t) \in Result /\ Ran(s, ws, t).ws = ws
      BY <1>a, RanTyped
    <3> QED BY <2>2, <3>1, Zenon
  <2>4. reply.calls[k].name # "run"
    BY <2>1 DEF skips, readOnly
  <2> HIDE DEF r
  <2> QED BY <2>1, <2>2, <2>3, <2>4, ObserveInv
<1>3. CASE dispatchCall
  <2>1. phase = "dispatch"
    BY <1>3 DEF dispatchCall
  <2>2. PICK r \in executions : observeCall(reply.calls[k], r, memOf(reply.calls[k], r))
    BY <1>3 DEF dispatchCall
  <2>3. r \in dispatchNative(reply.calls[k])
    BY <2>1, <2>2, Executed
  <2>4. /\ r \in Result /\ (reply.calls[k].name = "run" => r.saw \in RunSaw)
        /\ (readOnly(reply.calls[k]) => r.ws = ws)
    BY <1>a, <2>3, Dispatched
  <2>5. memOf(reply.calls[k], r) \in Memory
    BY <1>c, <2>1, <2>4, MemoryTyped DEF TracesOK
  <2> QED BY <2>1, <2>2, <2>4, <2>5, ObserveInv
<1>4. CASE killStagnant
  <2> DEFINE c == reply.calls[k]
             n == Len(reply.calls) - k
             rest == [j \in 1..(Len(reply.calls) - k) |-> ToolResult(k + j, <<"not executed">>, 0)]
  <2>1. /\ phase = "dispatch" /\ c.name = "run" /\ end("stagnant")
        /\ UNCHANGED <<scen, reply, k, pre, canceled, evicted>>
    BY <1>4, Zenon DEF killStagnant
  <2>2. PICK r \in executions :
           /\ ws' = r.ws /\ tr' = observeRun(tr, r.saw) /\ mem' = memOf(c, r)
           /\ fps' = Append(fps, Observed(c, r)) /\ stub(Observed(c, r), rest)
    BY <1>4, Zenon DEF killStagnant
  <2>3. r \in Result /\ r.saw \in RunSaw
    BY <1>a, <2>1, <2>2, Executed, Dispatched
  <2>4. Observed(c, r) \in Seq(STRING) /\ c \in Call
    BY <1>c, <2>1, <2>3, ObservedTyped
  <2>5. rest \in Seq(Message)
    <3>1. "not executed" \in STRING
      BY WordsAssumption DEF WordsAssumption, Words
    <3>2. <<"not executed">> \in Seq(STRING)
      BY <3>1, Singleton, Zenon
    <3>2a. n \in Nat /\ \A j \in 1..n : k + j \in Nat
      BY <1>b, <1>c, <2>1
    <3> DEFINE e(j) == ToolResult(k + j, <<"not executed">>, 0)
    <3>3. \A j \in 1..n : e(j) \in Message
      BY <3>2, <3>2a, MessagesOK
    <3>4. rest = [j \in 1..n |-> e(j)]
      OBVIOUS
    <3> HIDE DEF e, n, rest
    <3>5. rest \in [1..n -> Message]
      BY <3>3, <3>4
    <3> QED BY <3>2a, <3>5
  <2> HIDE DEF rest, c
  <2>6. SentOK'
    BY <1>b, <2>2, <2>4, <2>5, Stubbed
  <2>7. TracesOK'
    <3>1. tr' \in TrackerState
      BY <2>2, <2>3, ObserveRunTyped DEF TracesOK
    <3>2. mem' \in Memory
      BY <2>2, <2>3, <2>4, MemoryTyped DEF TracesOK
    <3> QED BY <2>1, <2>2, <2>4, <3>1, <3>2 DEF TracesOK
  <2>8. ControlOK' /\ UNCHANGED iter /\ phase' = "done"
    <3>1. "stagnant" \in Outcomes /\ k' \in Nat \ {0}
      BY <1>b, <2>1 DEF Outcomes, Killed
    <3> QED BY <2>1, <3>1, LoopEnded
  <2>9. EnvOK'
    <3>1. ws' \in Versions
      BY <2>2, <2>3 DEF Result
    <3> QED BY <1>a, <2>1, <2>8, <3>1, EnvStays
  <2> QED BY <2>1, <2>6, <2>7, <2>8, <2>9, ReplyStays, NoPrefetch
<1> QED BY <1>1, <1>2, <1>3, <1>4

(* The end of a dispatched turn. *)
LEMMA TurnEndsInv ==
    ASSUME LoopInv, turnEnds
    PROVE  LoopInv'
<1> USE DEF LoopInv
<1>0. maxIter \in Nat \ {0}
  BY ScenarioTyped DEF EnvOK
<1>a. iter \in 1..maxIter /\ ws \in Versions /\ canceled \in BOOLEAN /\ evicted \in BOOLEAN
  BY DEF EnvOK
<1>b. k \in Nat \ {0}
  BY DEF ControlOK
<1> DEFINE seenObs == observeToolObservation(tr, fps)
<1>1. seenObs \in TrackerState
  BY ToolObservationTyped DEF TracesOK
<1>2. /\ phase = "endTurn" /\ UNCHANGED <<fps, scen, ws, reply, k, pre, seen, canceled, evicted>>
      /\ \/ tr' = seenObs /\ end("tool_obs_repeat") /\ UNCHANGED <<msgs, mem>>
         \/ /\ nextTurn
            /\ \E a, s \in BOOLEAN : mem' = [mem EXCEPT !.answerNudged = @ \/ a, !.sayNudged = @ \/ s]
            /\ \E checked \in {seenObs, [seenObs EXCEPT !.editsSinceGreen = 0]}, f \in BOOLEAN :
                  tr' = [checked EXCEPT !.finishNudged = @ \/ f]
            /\ \E d1, d2, d3, d4, d5 \in BOOLEAN :
                  msgs' = msgs \o hint(d1) \o hint(d2) \o hint(d3) \o hint(d4) \o hint(d5)
  <2> DEFINE edited  == \E j \in DOMAIN reply.calls : mutates(reply.calls[j].name)
             answer  == /\ ~mem.answerNudged /\ sc.observeOnly /\ AnswerNudgeWindow > 0
                        /\ iter < maxIter /\ maxIter - iter <= AnswerNudgeWindow
             say     == /\ ~mem.sayNudged /\ sc.finishTool
                        /\ iter < maxIter /\ maxIter - iter <= finishToolNudgeWindow
             next(build) == IF build = "clean" THEN [seenObs EXCEPT !.editsSinceGreen = 0] ELSE seenObs
             fin(build) == finishNudgeDue(next(build), iter, maxIter)
  <2>1. /\ phase = "endTurn" /\ UNCHANGED <<fps, scen, ws, reply, k, pre, seen, canceled, evicted>>
        /\ \/ tr' = seenObs /\ end("tool_obs_repeat") /\ UNCHANGED <<msgs, mem>>
           \/ /\ nextTurn
              /\ mem' = [mem EXCEPT !.answerNudged = @ \/ answer, !.sayNudged = @ \/ say]
              /\ \E build \in IF edited /\ diagnosticsDue(seenObs) THEN {"clean", "dirty", "unknown"}
                              ELSE {"unchecked"} :
                   /\ tr' = [next(build) EXCEPT !.finishNudged = @ \/ fin(build)]
                   /\ msgs' = msgs \o hint(escalatingRepeatNudge(seenObs.obsRepeat))
                                   \o hint(build = "dirty") \o hint(fin(build)) \o hint(answer) \o hint(say)
    BY Zenon DEF turnEnds
  <2>2. /\ answer \in BOOLEAN /\ say \in BOOLEAN /\ escalatingRepeatNudge(seenObs.obsRepeat) \in BOOLEAN
        /\ \A build : (build = "dirty") \in BOOLEAN /\ fin(build) \in BOOLEAN
    BY DEF escalatingRepeatNudge, finishNudgeDue
  <2>3. \A build : next(build) \in {seenObs, [seenObs EXCEPT !.editsSinceGreen = 0]}
    BY Zenon
  <2> HIDE DEF seenObs, edited, answer, say, next, fin
  <2>4. ASSUME NEW build,
               mem' = [mem EXCEPT !.answerNudged = @ \/ answer, !.sayNudged = @ \/ say],
               tr' = [next(build) EXCEPT !.finishNudged = @ \/ fin(build)],
               msgs' = msgs \o hint(escalatingRepeatNudge(seenObs.obsRepeat))
                            \o hint(build = "dirty") \o hint(fin(build)) \o hint(answer) \o hint(say)
        PROVE  /\ \E a, s \in BOOLEAN : mem' = [mem EXCEPT !.answerNudged = @ \/ a, !.sayNudged = @ \/ s]
               /\ \E checked \in {seenObs, [seenObs EXCEPT !.editsSinceGreen = 0]}, f \in BOOLEAN :
                    tr' = [checked EXCEPT !.finishNudged = @ \/ f]
               /\ \E d1, d2, d3, d4, d5 \in BOOLEAN :
                    msgs' = msgs \o hint(d1) \o hint(d2) \o hint(d3) \o hint(d4) \o hint(d5)
    <3>1. \E a, s \in BOOLEAN : mem' = [mem EXCEPT !.answerNudged = @ \/ a, !.sayNudged = @ \/ s]
      BY <2>2, <2>4, ZenonT(40)
    <3>2. \E checked \in {seenObs, [seenObs EXCEPT !.editsSinceGreen = 0]}, f \in BOOLEAN :
            tr' = [checked EXCEPT !.finishNudged = @ \/ f]
      BY <2>2, <2>3, <2>4, ZenonT(40)
    <3>3. \E d1, d2, d3, d4, d5 \in BOOLEAN :
            msgs' = msgs \o hint(d1) \o hint(d2) \o hint(d3) \o hint(d4) \o hint(d5)
      BY <2>2, <2>4, ZenonT(40)
    <3> QED BY <3>1, <3>2, <3>3
  <2>5. CASE tr' = seenObs /\ end("tool_obs_repeat") /\ UNCHANGED <<msgs, mem>>
    BY <2>1, <2>5, Zenon
  <2>6. CASE ~(tr' = seenObs /\ end("tool_obs_repeat") /\ UNCHANGED <<msgs, mem>>)
    <3>1. PICK build :
                   /\ tr' = [next(build) EXCEPT !.finishNudged = @ \/ fin(build)]
                   /\ msgs' = msgs \o hint(escalatingRepeatNudge(seenObs.obsRepeat))
                                   \o hint(build = "dirty") \o hint(fin(build)) \o hint(answer) \o hint(say)
      BY <2>1, <2>6, Zenon
    <3>2. nextTurn /\ mem' = [mem EXCEPT !.answerNudged = @ \/ answer, !.sayNudged = @ \/ say]
      BY <2>1, <2>6, Zenon
    <3> QED BY <2>1, <2>4, <3>1, <3>2, Zenon
  <2> QED BY <2>5, <2>6, Zenon
<1> HIDE DEF seenObs
<1>3. CASE tr' = seenObs /\ end("tool_obs_repeat") /\ UNCHANGED <<msgs, mem>>
  <2>1. ControlOK' /\ UNCHANGED iter /\ phase' = "done"
    <3>1. "tool_obs_repeat" \in Outcomes /\ k' \in Nat \ {0}
      BY <1>b, <1>2 DEF Outcomes, Killed
    <3> QED BY <1>3, <3>1, LoopEnded
  <2>2. SentOK' /\ TracesOK'
    BY <1>1, <1>2, <1>3, SentStays DEF TracesOK
  <2> QED BY <1>a, <1>2, <2>1, <2>2, EnvStays, ReplyStays, NoPrefetch
<1>4. CASE /\ nextTurn
           /\ \E a, s \in BOOLEAN : mem' = [mem EXCEPT !.answerNudged = @ \/ a, !.sayNudged = @ \/ s]
           /\ \E checked \in {seenObs, [seenObs EXCEPT !.editsSinceGreen = 0]}, f \in BOOLEAN :
                  tr' = [checked EXCEPT !.finishNudged = @ \/ f]
           /\ \E d1, d2, d3, d4, d5 \in BOOLEAN :
                  msgs' = msgs \o hint(d1) \o hint(d2) \o hint(d3) \o hint(d4) \o hint(d5)
  <2>1. ControlOK' /\ iter' \in 1..maxIter /\ phase' \in {"top", "done"}
    BY <1>2, <1>4, TurnFollows
  <2>2. mem' \in Memory
    <3>1. PICK a, s \in BOOLEAN : mem' = [mem EXCEPT !.answerNudged = @ \/ a, !.sayNudged = @ \/ s]
      BY <1>4
    <3> QED BY <3>1, Zenon DEF TracesOK, Memory
  <2>3. tr' \in TrackerState
    <3>1. \A checked \in {seenObs, [seenObs EXCEPT !.editsSinceGreen = 0]} : checked \in TrackerState
      BY <1>1, TrackerLatches, Zenon
    <3>2. PICK checked \in {seenObs, [seenObs EXCEPT !.editsSinceGreen = 0]}, f \in BOOLEAN :
             tr' = [checked EXCEPT !.finishNudged = @ \/ f]
      BY <1>4
    <3>3. checked \in TrackerState
      BY <3>1, <3>2, Zenon
    <3> QED BY <3>2, <3>3, TrackerLatches
  <2>4. msgs' \in Seq(Message)
    <3>1. \A m \in Seq(Message), due \in BOOLEAN : m \o hint(due) \in Seq(Message)
      BY MessagesOK, ConcatProperties
    <3>2. msgs \in Seq(Message)
      BY DEF SentOK
    <3>3. PICK d1, d2, d3, d4, d5 \in BOOLEAN :
             msgs' = msgs \o hint(d1) \o hint(d2) \o hint(d3) \o hint(d4) \o hint(d5)
      BY <1>4
    <3>4. msgs \o hint(d1) \in Seq(Message)
      BY <3>1, <3>2, Zenon
    <3>5. msgs \o hint(d1) \o hint(d2) \in Seq(Message)
      BY <3>1, <3>4, Zenon
    <3>6. msgs \o hint(d1) \o hint(d2) \o hint(d3) \in Seq(Message)
      BY <3>1, <3>5, Zenon
    <3> QED BY <3>1, <3>3, <3>6, Zenon
  <2>5. SentOK' /\ TracesOK'
    BY <1>2, <2>2, <2>3, <2>4 DEF SentOK, TracesOK
  <2> QED BY <1>a, <1>2, <2>1, <2>5, EnvStays, ReplyStays, NoPrefetch
<1> QED BY <1>2, <1>3, <1>4

(* The caller's cancel only adds to what a call may return. *)
LEMMA CancelInv ==
    ASSUME LoopInv, cancel
    PROVE  LoopInv'
<1> USE DEF LoopInv
<1>1. /\ canceled' = TRUE
      /\ UNCHANGED <<scen, phase, iter, ws, msgs, reply, k, pre, fps, tr, mem, seen, outcome, evicted>>
  BY DEF cancel
<1>2. EnvOK'
  <2>1. iter' \in 1..maxIter /\ ws' \in Versions /\ canceled' \in BOOLEAN /\ evicted' \in BOOLEAN
    BY <1>1 DEF EnvOK
  <2> QED BY <1>1, <2>1, EnvStays
<1>3. PrefetchOK'
  <2>1. \A c : dispatchNative(c) \subseteq dispatchNative(c)'
    BY <1>1, SMT DEF dispatchNative, sc, Ran, readOnly, discovery
  <2> QED BY <1>1, <2>1 DEF PrefetchOK, readOnly
<1> QED BY <1>1, <1>2, <1>3, ReplyStays, SentStays, TracesStay, ControlStays

(* What a text turn may observe: the skip, or what its action returned. *)
LEMMA TextObserved ==
    ASSUME LoopInv, act \in Call, NEW o \in textObserved
    PROVE  /\ o[1] \in Result /\ (act.name = "run" => o[1].saw \in RunSaw)
           /\ o[2] \in Memory
<1> USE DEF LoopInv
<1>1. ws \in Versions /\ mem \in Memory /\ mem.readSaw \in STRING /\ textMem \in Memory
      /\ "skipped" \in STRING /\ "plain" \in STRING /\ "error" \in STRING /\ "error" \in RunSaw
  BY StepsTyped, WordsAssumption DEF WordsAssumption, Words, EnvOK, TracesOK, Memory, RunSaw
<1>2. CASE skips(act, mem)
  <2>1. o = <<Ran(mem.readSaw, ws, "skipped"), textMem>> /\ act.name # "run"
    BY <1>2 DEF textObserved, skips, readOnly
  <2>2. \A s, t \in STRING : Ran(s, ws, t) \in Result
    BY <1>1, RanTyped
  <2> QED BY <1>1, <2>1, <2>2
<1>3. CASE ~skips(act, mem)
  <2> DEFINE rem(r) == [textMem EXCEPT !.execSig = act,
                               !.readSig = IF readOnly(act) /\ r.saw # "error" THEN act ELSE @,
                               !.readSaw = IF readOnly(act) /\ r.saw # "error" THEN r.saw ELSE @]
  <2>1. PICK r \in dispatch(act) : o = <<r, rem(r)>>
    BY <1>3, Zenon DEF textObserved
  <2>2. r \in Result /\ (act.name = "run" => r.saw \in RunSaw)
    <3>1. CASE r \in dispatchNative(act)
      BY <1>1, <3>1, Dispatched
    <3>2. CASE r = Ran("error", ws, "plain")
      <4>1. \A s, t \in STRING : Ran(s, ws, t) \in Result /\ Ran(s, ws, t).saw = s
        BY <1>1, RanTyped
      <4> QED BY <1>1, <3>2, <4>1
    <3> QED BY <2>1, <3>1, <3>2 DEF dispatch
  <2>3. rem(r) \in Memory
    <3>1. r.saw \in STRING
      BY <2>2 DEF Result
    <3> QED BY <1>1, <3>1, Zenon DEF Memory
  <2> HIDE DEF rem
  <2> QED BY <2>1, <2>2, <2>3
<1> QED BY <1>2, <1>3

(* The steps of the text loop, *)
LEMMA TextStepInv ==
    ASSUME LoopInv, textGenerate \/ textAnswer \/ textKillRepeat \/ textKillSpiral \/ textAct
    PROVE  LoopInv'
<1> USE DEF LoopInv
<1>0. maxIter \in Nat \ {0} /\ sc.thoughts \subseteq STRING /\ \A r \in sc.replies : r.calls \in Seq(Call)
  BY ScenarioTyped DEF EnvOK
<1>a. iter \in 1..maxIter /\ ws \in Versions /\ canceled \in BOOLEAN /\ evicted \in BOOLEAN
  BY DEF EnvOK
<1>b. k \in Nat \ {0}
  BY DEF ControlOK
<1>c. \A n \in Nat : Append(msgs, said(n)) \in Seq(Message)
  BY MessagesOK, Sends
<1>1. CASE textGenerate
  <2>1. /\ isText /\ phase = "generate" /\ phase' = "reply"
        /\ UNCHANGED <<scen, ws, canceled, evicted, iter, outcome, msgs, seen, fps, tr, pre, k>>
    BY <1>1, Zenon DEF textGenerate
  <2>2. PICK r \in sc.replies, th \in sc.thoughts :
             /\ reply' = [calls |-> <<parseAction(r.calls[1].arg)>>, empty |-> FALSE, thought |-> th,
                          adv |-> th # "none" /\ th # mem.thought, text |-> r.calls[1].arg]
             /\ mem' = [mem EXCEPT !.thought = th]
    BY <1>1, Zenon DEF textGenerate
  <2>3. /\ reply'.calls = <<parseAction(r.calls[1].arg)>> /\ reply'.thought = th /\ reply'.adv \in BOOLEAN
    BY <2>2
  <2>4. parseAction(r.calls[1].arg) \in Call
    <3>1. r \in Scenarios[scen].replies /\ scen \in TextRuns
      BY <2>1, <2>2 DEF sc, isText
    <3>2. Len(r.calls) = 1 /\ r.calls[1].arg \in DOMAIN Written
      BY <3>1, TextAssumption DEF TextAssumption
    <3>3. r.calls[1] \in Call
      BY <1>0, <2>2, <3>2
    <3>4. r.calls[1].arg \in STRING
      BY <3>3 DEF Call
    <3> QED BY <3>2, <3>4, ActionTyped
  <2>5. ReplyOK' /\ Len(reply'.calls) = 1
    BY <1>0, <2>2, <2>3, <2>4 DEF ReplyOK
  <2>6. TracesOK'
    <3>1. th \in STRING
      BY <1>0, <2>2
    <3>2. mem' \in Memory
      BY <2>2, <3>1, Zenon DEF TracesOK, Memory
    <3> QED BY <2>1, <3>2 DEF TracesOK
  <2>7. ControlOK'
    BY <2>1, <2>5, ControlMoves
  <2> QED BY <1>a, <2>1, <2>5, <2>6, <2>7, EnvStays, SentStays, NoPrefetch
<1>2. CASE textAnswer
  <2>1. /\ phase = "reply" /\ gatesFinish(Append(msgs, said(0))) /\ fps' = <<>>
        /\ UNCHANGED <<scen, ws, canceled, evicted, reply, seen, tr, mem, pre, k>>
    BY <1>2 DEF textAnswer
  <2>2. ControlOK' /\ EnvOK' /\ phase' \in {"top", "done"} /\ msgs' \in Seq(Message)
    BY <1>c, <2>1, GatesAnswered
  <2>3. SentOK' /\ TracesOK'
    BY <2>1, <2>2 DEF SentOK, TracesOK
  <2> QED BY <2>1, <2>2, <2>3, ReplyStays, NoPrefetch
<1>3. CASE textKillRepeat
  <2>1. /\ end("repeat") /\ msgs' = Append(msgs, said(0))
        /\ UNCHANGED <<scen, ws, canceled, evicted, reply, seen, fps, tr, mem, pre, k>>
    BY <1>3 DEF textKillRepeat
  <2>2. ControlOK' /\ UNCHANGED iter /\ phase' = "done"
    <3>1. "repeat" \in Outcomes /\ k' \in Nat \ {0}
      BY <1>b, <2>1 DEF Outcomes, Killed
    <3> QED BY <2>1, <3>1, LoopEnded
  <2>3. SentOK'
    BY <1>c, <2>1 DEF SentOK
  <2> QED BY <1>a, <2>1, <2>2, <2>3, EnvStays, ReplyStays, TracesStay, NoPrefetch
<1>4. CASE textKillSpiral
  <2>1. /\ end(spiralKill(spiralAfter)) /\ spiralKill(spiralAfter) # "none" /\ mem' = textMem
        /\ msgs' = Append(msgs, said(0))
        /\ UNCHANGED <<scen, ws, canceled, evicted, reply, seen, fps, tr, pre, k>>
    BY <1>4 DEF textKillSpiral
  <2>2. ControlOK' /\ UNCHANGED iter /\ phase' = "done"
    <3>1. spiralKill(spiralAfter) \in {"spiral_cycle", "spiral_wander", "none"}
      BY DEF spiralKill
    <3>2. spiralKill(spiralAfter) \in Outcomes /\ k' \in Nat \ {0}
      BY <1>b, <2>1, <3>1 DEF Outcomes, Killed
    <3> QED BY <2>1, <3>2, LoopEnded
  <2>3. SentOK' /\ TracesOK'
    BY <1>c, <2>1, StepsTyped DEF SentOK, TracesOK
  <2> QED BY <1>a, <2>1, <2>2, <2>3, EnvStays, ReplyStays, NoPrefetch
<1>5. CASE textAct
  <2>1. isText /\ phase = "reply" /\ k' = 1 /\ UNCHANGED <<scen, reply, pre, seen, canceled, evicted>>
    BY <1>5, Zenon DEF textAct, isTextTool
  <2>2. act \in Call /\ Len(reply.calls) = 1
    BY <2>1 DEF act, ControlOK, ReplyOK
  <2>3. PICK o \in textObserved :
          /\ ws' = o[1].ws /\ mem' = o[2] /\ fps' = <<Observed(act, o[1])>>
          /\ \/ /\ act.name = "run" /\ tr' = observeRun(tr, o[1].saw)
                /\ msgs' = Append(msgs, said(0)) /\ end("stagnant")
             \/ /\ tr' = observeAction(IF act.name = "run" THEN observeRun(tr, o[1].saw) ELSE tr, iter, act.name)
                /\ msgs' = Append(msgs, said(1)) /\ phase' = "endTurn"
                /\ UNCHANGED <<iter, outcome>>
    BY <1>5, Zenon DEF textAct
  <2>4. o[1] \in Result /\ (act.name = "run" => o[1].saw \in RunSaw) /\ o[2] \in Memory
    BY <2>2, TextObserved
  <2>5. Observed(act, o[1]) \in Seq(STRING)
    BY <2>2, <2>4, ObservedTyped
  <2>6. fps' \in Seq(Seq(STRING)) /\ Len(fps') = 1
    BY <2>3, <2>5
  <2>7. SentOK'
    BY <1>c, <2>1, <2>3 DEF SentOK
  <2>8. tr' \in TrackerState
    <3> DEFINE ran == IF act.name = "run" THEN observeRun(tr, o[1].saw) ELSE tr
    <3>1. ran \in TrackerState
      BY <2>4, ObserveRunTyped DEF TracesOK
    <3>2. iter \in Nat
      BY <1>0, <1>a
    <3>3. observeAction(ran, iter, act.name) \in TrackerState
      <4> HIDE DEF ran
      <4> QED BY <3>1, <3>2, ObserveActionTyped
    <3>4. tr' = ran \/ tr' = observeAction(ran, iter, act.name)
      BY <2>3
    <3> HIDE DEF ran
    <3> QED BY <3>1, <3>3, <3>4
  <2>9. TracesOK'
    BY <2>1, <2>3, <2>4, <2>6, <2>8 DEF TracesOK
  <2>10. ControlOK' /\ UNCHANGED iter /\ phase' # "dispatch"
    <3>1. CASE end("stagnant")
      <4>1. "stagnant" \in Outcomes /\ k' \in Nat \ {0}
        BY <1>b, <2>1 DEF Outcomes, Killed
      <4> QED BY <3>1, <4>1, LoopEnded
    <3>2. CASE phase' = "endTurn" /\ UNCHANGED <<iter, outcome>>
      BY <2>1, <2>2, <2>6, <3>2 DEF ControlOK, Phases
    <3> QED BY <2>3, <3>1, <3>2
  <2>11. ws' \in Versions
    BY <2>3, <2>4 DEF Result
  <2> QED BY <1>a, <2>1, <2>7, <2>9, <2>10, <2>11, EnvStays, ReplyStays, NoPrefetch
<1> QED BY <1>1, <1>2, <1>3, <1>4, <1>5

(* and the end of its turn. *)
LEMMA TextTurnEndsInv ==
    ASSUME LoopInv, textTurnEnds
    PROVE  LoopInv'
<1> USE DEF LoopInv
<1>0. maxIter \in Nat \ {0}
  BY ScenarioTyped DEF EnvOK
<1>a. iter \in 1..maxIter /\ ws \in Versions /\ canceled \in BOOLEAN /\ evicted \in BOOLEAN
  BY DEF EnvOK
<1>b. k \in Nat \ {0}
  BY DEF ControlOK
<1>1. isText /\ phase = "endTurn" /\ UNCHANGED <<scen, ws, reply, k, pre, mem, canceled, evicted>>
  BY Zenon DEF textTurnEnds
<1>2. PICK build \in {"clean", "dirty", "unknown", "unchecked"},
           checked \in {tr, [tr EXCEPT !.editsSinceGreen = 0]}, due \in BOOLEAN :
        LET hinted  == [observationNudges(checked) EXCEPT !.finishNudged = @ \/ due]
            seenObs == observeToolObservation(hinted, fingerprint(fps[1], build))
        IN  /\ tr' = seenObs /\ fps' = <<Append(fps[1], build)>>
            /\ \/ end("tool_obs_repeat") /\ msgs' = [msgs EXCEPT ![Len(msgs)].n = 0] /\ UNCHANGED seen
               \/ stub(fps[1], hint(escalatingRepeatNudge(seenObs.obsRepeat))) /\ nextTurn
  <2> DEFINE next(build) == IF build = "clean" THEN [tr EXCEPT !.editsSinceGreen = 0] ELSE tr
             fin(build) == finishNudgeDue(next(build), iter, maxIter)
             hinted(c, d) == [observationNudges(c) EXCEPT !.finishNudged = @ \/ d]
             seenObs(c, d, build) == observeToolObservation(hinted(c, d), fingerprint(fps[1], build))
             rest(c, d, build) ==
                   /\ tr' = seenObs(c, d, build) /\ fps' = <<Append(fps[1], build)>>
                   /\ \/ end("tool_obs_repeat") /\ msgs' = [msgs EXCEPT ![Len(msgs)].n = 0] /\ UNCHANGED seen
                      \/ stub(fps[1], hint(escalatingRepeatNudge(seenObs(c, d, build).obsRepeat))) /\ nextTurn
  <2>1. \E build \in IF mutates(act.name) /\ diagnosticsDue(tr) THEN {"clean", "dirty", "unknown"} ELSE {"unchecked"} :
           rest(next(build), fin(build), build)
    BY Zenon DEF textTurnEnds
  <2>2. \A build : next(build) \in {tr, [tr EXCEPT !.editsSinceGreen = 0]} /\ fin(build) \in BOOLEAN
    BY DEF finishNudgeDue
  <2>3. \E build \in {"clean", "dirty", "unknown", "unchecked"},
           checked \in {tr, [tr EXCEPT !.editsSinceGreen = 0]}, due \in BOOLEAN : rest(checked, due, build)
    <3> HIDE DEF rest, next, fin
    <3>1. PICK build \in {"clean", "dirty", "unknown", "unchecked"} : rest(next(build), fin(build), build)
      BY <2>1
    <3> QED BY <2>2, <3>1, Zenon
  <2> QED BY <2>3
<1> DEFINE hinted  == [observationNudges(checked) EXCEPT !.finishNudged = @ \/ due]
           seenObs == observeToolObservation(hinted, fingerprint(fps[1], build))
<1>3. fps[1] \in Seq(STRING) /\ Append(fps[1], build) \in Seq(STRING)
  <2>1. 1 \in 1..Len(fps)
    <3>1. Len(fps) = Len(reply.calls) /\ Len(reply.calls) = 1
      BY <1>1, Zenon DEF ControlOK
    <3> QED BY <3>1
  <2>2. fps[1] \in Seq(STRING)
    BY <2>1 DEF TracesOK
  <2>3. build \in STRING
    BY WordsAssumption DEF WordsAssumption, Words
  <2> QED BY <2>2, <2>3
<1>4. fps' \in Seq(Seq(STRING)) /\ fingerprint(fps[1], build) \in Seq(Seq(STRING))
  BY <1>2, <1>3, Singleton DEF fingerprint
<1>5. tr' \in TrackerState
  <2>1. checked \in TrackerState
    BY TrackerLatches DEF TracesOK
  <2>2. observationNudges(checked) \in TrackerState
    BY <2>1, NudgesTyped
  <2>3. hinted \in TrackerState
    BY <2>2, TrackerLatches
  <2> HIDE DEF hinted
  <2>4. seenObs \in TrackerState
    BY <1>4, <2>3, ToolObservationTyped
  <2> QED BY <1>2, <2>4 DEF hinted
<1>6. \/ end("tool_obs_repeat") /\ msgs' = [msgs EXCEPT ![Len(msgs)].n = 0] /\ UNCHANGED seen
      \/ stub(fps[1], hint(escalatingRepeatNudge(seenObs.obsRepeat))) /\ nextTurn
  BY <1>2, Zenon
<1> HIDE DEF hinted, seenObs
<1>7. TracesOK'
  BY <1>1, <1>4, <1>5 DEF TracesOK
<1>8. CASE end("tool_obs_repeat") /\ msgs' = [msgs EXCEPT ![Len(msgs)].n = 0] /\ UNCHANGED seen
  <2>1. ControlOK' /\ UNCHANGED iter /\ phase' = "done"
    <3>1. "tool_obs_repeat" \in Outcomes /\ k' \in Nat \ {0}
      BY <1>1, <1>b DEF Outcomes, Killed
    <3> QED BY <1>8, <3>1, LoopEnded
  <2>2. SentOK'
    BY <1>8, UnpairedLast DEF SentOK
  <2> QED BY <1>1, <1>7, <1>a, <2>1, <2>2, EnvStays, ReplyStays, NoPrefetch
<1>9. CASE stub(fps[1], hint(escalatingRepeatNudge(seenObs.obsRepeat))) /\ nextTurn
  <2>1. ControlOK' /\ iter' \in 1..maxIter /\ phase' \in {"top", "done"}
    BY <1>1, <1>9, TurnFollows
  <2>2. SentOK'
    <3>1. escalatingRepeatNudge(seenObs.obsRepeat) \in BOOLEAN
      BY DEF escalatingRepeatNudge
    <3>2. hint(escalatingRepeatNudge(seenObs.obsRepeat)) \in Seq(Message)
      BY <3>1, MessagesOK
    <3> QED BY <1>3, <1>9, <1>b, <3>2, Stubbed
  <2> QED BY <1>1, <1>7, <1>a, <2>1, <2>2, EnvStays, ReplyStays, NoPrefetch
<1> QED BY <1>6, <1>8, <1>9

(* The invariant holds of every run of either loop. *)
LEMMA LoopInvStep == LoopInv /\ [bothStep \/ cancel]_loopVars => LoopInv'
<1> SUFFICES ASSUME LoopInv, [bothStep \/ cancel]_loopVars PROVE LoopInv'
  OBVIOUS
<1>1. CASE sharedStep
  BY <1>1, SharedStepInv
<1>2. CASE nativeStep
  BY <1>2, ReplyStepInv, FinishStepInv, DispatchStepInv, TurnEndsInv DEF nativeStep
<1>3. CASE textStep
  BY <1>3, TextStepInv, TextTurnEndsInv DEF textStep
<1>4. CASE cancel
  BY <1>4, CancelInv
<1>5. CASE UNCHANGED loopVars
  <2>1. UNCHANGED <<scen, phase, iter, ws, msgs, reply, k, pre, fps, tr, mem, seen, canceled, outcome, evicted>>
    BY <1>5 DEF loopVars
  <2>2. EnvOK'
    BY <2>1, Zenon DEF LoopInv, EnvOK, maxIter, sc
  <2>3. PrefetchOK'
    <3>1. \A c : dispatchNative(c)' = dispatchNative(c)
      BY <2>1, DispatchStable
    <3> QED BY <2>1, <3>1 DEF LoopInv, PrefetchOK, readOnly
  <2> QED BY <2>1, <2>2, <2>3, ReplyStays, SentStays, TracesStay, ControlStays DEF LoopInv
<1> QED BY <1>1, <1>2, <1>3, <1>4, <1>5 DEF bothStep

(* LoopInv is at least as strong as the types. *)
LEMMA LoopInvTypes == LoopInv => LoopTypeOK
<1> SUFFICES ASSUME LoopInv PROVE LoopTypeOK
  OBVIOUS
<1>1. mem.readSig \in Call /\ mem.execSig \in Call /\ mem.repeats \in Nat
  BY DEF LoopInv, TracesOK, Memory
<1>2. phase = "dispatch" => k \in DOMAIN reply.calls /\ Len(fps) = k - 1 /\ Len(pre) <= Len(reply.calls)
  BY DEF LoopInv, ControlOK, ReplyOK, PrefetchOK
<1> QED BY <1>1, <1>2 DEF LoopInv, EnvOK, ReplyOK, SentOK, TracesOK, ControlOK, LoopTypeOK

(* Both loops keep their types: the turn counter within maxIterations, the *)
(* index of the next call within the turn, an outcome exactly when the run *)
(* is over.                                                                *)
THEOREM LoopTypeCorrect == BothLoops => []LoopTypeOK
<1> QED BY LoopInvInit, LoopInvStep, LoopInvTypes, PTL DEF BothLoops

-----------------------------------------------------------------------------
(* The text loop executes what the model wrote. *)

(* parseAction, on what the model wrote. *)
owns(L, i) == isAction(L[i]) /\ (L[i].arg # "" \/ (L[i].form \in {"plain", "json"} /\ ~L[i].junk))
firstBelow(L, i, j) == j > i /\ ~structural(L[j]) /\ \A h \in (i + 1)..(j - 1) : structural(L[h])

(* A line with an argument of its own yields an action. *)
LEMMA OwnsYields ==
    ASSUME NEW L, NEW i, owns(L, i)
    PROVE  yields(L, i)
  BY Zenon DEF owns, yields, argumentOf

(* The argument that is nowhere; the solver cannot read the literal. *)
Nothing == ""

(* pickupArgument finds the first line below that is not template          *)
(* structure.                                                              *)
LEMMA PickedUp ==
    ASSUME NEW L, Len(L) \in Nat, DOMAIN L = 1..Len(L), NEW i \in 1..Len(L), pickupArgument(L, i) # Nothing
    PROVE  \E j \in DOMAIN L : firstBelow(L, i, j) /\ pickupArgument(L, i) = L[j].text
<1> DEFINE later == {j \in (i + 1)..Len(L) : ~structural(L[j])}
           next  == CHOOSE j \in later : \A h \in later : j <= h
<1>1. later \in SUBSET Nat
  OBVIOUS
<1>2. pickupArgument(L, i) = L[next].text /\ later # {}
  BY Zenon DEF pickupArgument, Nothing
<1>3. next \in later /\ \A h \in later : next <= h
  <2>1. \E j \in later : \A h \in later : j <= h
    BY <1>1, <1>2, SmallestIndex
  <2> HIDE DEF later
  <2> QED BY <2>1, Zenon
<1> HIDE DEF next
<1>4. next \in DOMAIN L /\ next > i /\ ~structural(L[next])
  BY <1>3
<1>5. \A h \in (i + 1)..(next - 1) : structural(L[h])
  <2> SUFFICES ASSUME NEW h \in (i + 1)..(next - 1), ~structural(L[h]) PROVE FALSE
    OBVIOUS
  <2>1. h \in later /\ ~(next <= h)
    BY <1>4
  <2> QED BY <1>3, <2>1
<1> QED BY <1>2, <1>4, <1>5, Zenon DEF firstBelow

(* parseAction returns what heads a line, with the argument written for    *)
(* it.                                                                     *)
LEMMA ActionParsed ==
    ASSUME NEW t \in DOMAIN Written
    PROVE  LET L == Written[t]
               a == parseAction(t)
           IN  IF a.name = "" THEN \A i \in DOMAIN L : ~owns(L, i)
               ELSE \E i \in DOMAIN L :
                       /\ isAction(L[i]) /\ L[i].verb = a.name
                       /\ \A h \in 1..(i - 1) : ~owns(L, h)
                       /\ \/ a.arg = L[i].arg
                          \/ ~owns(L, i) /\ L[i].arg = "" /\ \E j \in DOMAIN L : firstBelow(L, i, j) /\ a.arg = L[j].text
<1> DEFINE L == Written[t]
           a == parseAction(t)
           found == {i \in DOMAIN L : yields(L, i)}
           first == CHOOSE i \in found : \A j \in found : i <= j
<1>1. L \in Seq(Line) /\ "" \notin Known
  BY TextAssumption DEF TextAssumption
<1>2. a = IF found = {} THEN [name |-> "", arg |-> t]
          ELSE [name |-> L[first].verb, arg |-> argumentOf(L, first)]
  BY Zenon DEF parseAction
<1> HIDE DEF L, a
<1>3. Len(L) \in Nat /\ DOMAIN L = 1..Len(L)
  BY <1>1, LenProperties
<1> DEFINE Goal == IF a.name = "" THEN \A i \in DOMAIN L : ~owns(L, i)
               ELSE \E i \in DOMAIN L :
                       /\ isAction(L[i]) /\ L[i].verb = a.name
                       /\ \A h \in 1..(i - 1) : ~owns(L, h)
                       /\ \/ a.arg = L[i].arg
                          \/ ~owns(L, i) /\ L[i].arg = "" /\ \E j \in DOMAIN L : firstBelow(L, i, j) /\ a.arg = L[j].text
<1>4. CASE found = {}
  <2>1. a.name = ""
    <3>1. a = [name |-> "", arg |-> t]
      BY <1>2, <1>4
    <3> QED BY <3>1
  <2>2. \A i \in DOMAIN L : ~owns(L, i)
    BY <1>4, OwnsYields, Zenon
  <2> QED BY <2>1, <2>2, Zenon DEF L, a
<1>5. CASE found # {}
  <2>1. first \in found /\ \A j \in found : first <= j
    <3>1. found \in SUBSET Nat
      BY <1>3
    <3>2. \E i \in found : \A j \in found : i <= j
      BY <1>5, <3>1, SmallestIndex
    <3> HIDE DEF found
    <3> QED BY <3>2, Zenon
  <2>2. a = [name |-> L[first].verb, arg |-> argumentOf(L, first)]
    BY <1>2, <1>5, Zenon
  <2> HIDE DEF first
  <2>3. a.name = L[first].verb /\ a.arg = argumentOf(L, first)
    BY <2>2
  <2>4. first \in DOMAIN L /\ yields(L, first) /\ isAction(L[first])
    BY <2>1, Zenon DEF yields
  <2>5. a.name # ""
    BY <1>1, <2>3, <2>4, Zenon DEF isAction
  <2>6. \A h \in 1..(first - 1) : ~owns(L, h)
    <3> SUFFICES ASSUME NEW h \in 1..(first - 1), owns(L, h) PROVE FALSE
      OBVIOUS
    <3>1. h \in DOMAIN L /\ ~(first <= h)
      BY <1>3, <2>4
    <3>2. h \in found
      BY <3>1, OwnsYields, Zenon
    <3> QED BY <2>1, <3>1, <3>2
  <2>7. \/ a.arg = L[first].arg
        \/ ~owns(L, first) /\ L[first].arg = "" /\ \E j \in DOMAIN L : firstBelow(L, first, j) /\ a.arg = L[j].text
    <3>1. CASE argumentOf(L, first) = L[first].arg
      BY <2>3, <3>1
    <3>2. CASE argumentOf(L, first) # L[first].arg
      <4>1. /\ L[first].form # "json" /\ L[first].arg = ""
            /\ ~(L[first].form = "plain" /\ (L[first].verb = "answer" \/ ~L[first].junk))
            /\ argumentOf(L, first) = pickupArgument(L, first)
        BY <3>2, Zenon DEF argumentOf
      <4>2. ~owns(L, first)
        BY <4>1, Zenon DEF owns
      <4>3. argumentOf(L, first) # ""
        BY <3>2, <4>1
      <4>4. \E j \in DOMAIN L : firstBelow(L, first, j) /\ pickupArgument(L, first) = L[j].text
        <5>1. first \in 1..Len(L)
          BY <1>3, <2>4
        <5>2. pickupArgument(L, first) # Nothing
          BY <4>1, <4>3, Zenon DEF Nothing
        <5> QED BY <1>3, <5>1, <5>2, PickedUp
      <4> QED BY <2>3, <4>1, <4>2, <4>4, Zenon
    <3> QED BY <3>1, <3>2
  <2> QED BY <2>3, <2>4, <2>5, <2>6, <2>7, Zenon DEF L, a
<1> QED BY <1>4, <1>5

(* The turn at hand is what was parsed. *)
ParsedInv ==
    (isText /\ phase = "reply") => reply.text \in DOMAIN Written /\ reply.calls = <<parseAction(reply.text)>>

(* The call of a text turn is the parse of the text it came from. *)
LEMMA ParsedInvStep == LoopInv /\ ParsedInv /\ [bothStep \/ cancel]_loopVars => ParsedInv'
<1> SUFFICES ASSUME LoopInv, ParsedInv, [bothStep \/ cancel]_loopVars PROVE ParsedInv'
  OBVIOUS
<1>1. CASE UNCHANGED <<scen, phase, reply>>
  BY <1>1, Zenon DEF ParsedInv, isText
<1>2. CASE phase' # "reply"
  BY <1>2, Zenon DEF ParsedInv
<1>3. CASE UNCHANGED scen /\ ~isText
  BY <1>3, Zenon DEF ParsedInv, isText
<1>4. CASE sharedStep
  <2>1. phase \in {"top", "generate"} /\ (phase' \in {"generate", "done"} \/ UNCHANGED phase)
    BY <1>4 DEF sharedStep, turnStarts, generateFails, generateWithRetry, replayRejected, generateWithEviction, end
  <2> QED BY <1>2, <2>1
<1>5. CASE nativeStep
  <2>1. ~isText /\ UNCHANGED scen
    BY <1>5, Zenon DEF nativeStep, generateOnce, requestVars, silentTurn, answerTurn, finishTurn, finishDispatch,
       finishReturns, killRepeat, killSpiral, commitTurn, skipCall, dispatchCall, observeCall, killStagnant, turnEnds
  <2> QED BY <1>3, <2>1
<1>6. CASE textGenerate
  <2>1. isText /\ UNCHANGED scen
    BY <1>6, Zenon DEF textGenerate
  <2>2. PICK r \in sc.replies, th \in sc.thoughts :
             reply' = [calls |-> <<parseAction(r.calls[1].arg)>>, empty |-> FALSE, thought |-> th,
                          adv |-> th # "none" /\ th # mem.thought, text |-> r.calls[1].arg]
    BY <1>6, Zenon DEF textGenerate
  <2>3. reply'.calls = <<parseAction(r.calls[1].arg)>> /\ reply'.text = r.calls[1].arg
    BY <2>2
  <2>4. r.calls[1].arg \in DOMAIN Written
    <3>1. r \in Scenarios[scen].replies /\ scen \in TextRuns
      BY <2>1, <2>2 DEF sc, isText
    <3> QED BY <3>1, TextAssumption DEF TextAssumption
  <2> QED BY <2>3, <2>4, Zenon DEF ParsedInv
<1>7. CASE textAnswer \/ textKillRepeat \/ textKillSpiral \/ textAct \/ textTurnEnds
  <2>1. phase' \in {"top", "done", "endTurn"}
    BY <1>7, Zenon DEF textAnswer, gatesFinish, nextTurn, end, textKillRepeat, textKillSpiral, textAct, textTurnEnds
  <2> QED BY <1>2, <2>1
<1>8. CASE cancel \/ UNCHANGED loopVars
  <2>1. UNCHANGED <<scen, phase, reply>>
    BY <1>8 DEF cancel, loopVars
  <2> QED BY <1>1, <2>1
<1> QED BY <1>4, <1>5, <1>6, <1>7, <1>8 DEF bothStep, textStep

(* What was parsed was written. *)
LEMMA ParsedIsWritten == ParsedInv => ActionIsWritten
<1> SUFFICES ASSUME ParsedInv, isText, phase = "reply"
             PROVE  LET L == Written[reply.text]
                    IN  IF act.name = "" THEN \A i \in DOMAIN L : ~owns(L, i)
                        ELSE \E i \in DOMAIN L :
                               /\ isAction(L[i]) /\ L[i].verb = act.name
                               /\ \A h \in 1..(i - 1) : ~owns(L, h)
                               /\ \/ act.arg = L[i].arg
                                  \/ /\ ~owns(L, i) /\ L[i].arg = ""
                                     /\ \E j \in DOMAIN L : firstBelow(L, i, j) /\ act.arg = L[j].text
  BY Zenon DEF ActionIsWritten, owns, firstBelow
<1>1. reply.text \in DOMAIN Written /\ act = parseAction(reply.text)
  <2>1. reply.text \in DOMAIN Written /\ reply.calls = <<parseAction(reply.text)>>
    BY Zenon DEF ParsedInv
  <2> QED BY <2>1 DEF act
<1> QED BY <1>1, ActionParsed, Zenon

(* The text loop executes the action the model wrote: parseAction takes    *)
(* the first line with an argument of its own, or an argument from below   *)
(* it.                                                                     *)
THEOREM TextActionsAreWritten == BothLoops => []ActionIsWritten
<1>1. LoopInit => ParsedInv
  BY DEF LoopInit, ParsedInv
<1> QED BY <1>1, LoopInvInit, LoopInvStep, ParsedInvStep, ParsedIsWritten, PTL DEF BothLoops

-----------------------------------------------------------------------------
(* Reads are answered with what the file holds: ReadsInv. *)

(* No read or search failed in an observed turn. *)
Clean(obs) == \A j \in DOMAIN obs : ~failedRead(obs[j])

(* The condition of ReadsAreCurrent. *)
NoLapse == (\A i \in DOMAIN steps : steps[i].kind = "tools" /\ Clean(steps[i].obs)) /\ Clean(fps)

(* A turn that is over has left its observations in the history. *)
FpsRecorded ==
    phase \in {"top", "generate", "reply"} => fps = <<>> \/ \E i \in DOMAIN steps : steps[i].obs = fps

(* An observation in the making is a call, what it saw and how it ran. *)
FpsShape == phase \in {"dispatch", "endTurn"} => \A j \in DOMAIN fps : Len(fps[j]) = 4

(* The identical-read skip fires on the last executed call alone: as long as *)
(* it is a read, nothing has moved the workspace since.                      *)
MemCurrent ==
    (NoLapse /\ phase # "finishing" /\ readOnly(mem.readSig) /\ mem.readSig = mem.execSig) =>
        \E r \in dispatchNative(mem.readSig) : r.saw = mem.readSaw

SkipInv == NoLapse => SkipIsCurrent

ReadsInv == steps \in Seq(Committed) /\ FpsRecorded /\ FpsShape /\ MemCurrent /\ SkipInv

-----------------------------------------------------------------------------
(* A history that grows without a lapse had none. *)
LEMMA LapsesStay ==
    ASSUME steps \in Seq(Committed), NEW s \in Committed, steps' = Append(steps, s), NoLapse'
    PROVE  s.kind = "tools" /\ Clean(s.obs) /\ \A i \in DOMAIN steps : steps[i].kind = "tools" /\ Clean(steps[i].obs)
<1>1. Len(steps) \in Nat /\ DOMAIN steps = 1..Len(steps)
  OBVIOUS
<1>2. DOMAIN steps' = 1..(Len(steps) + 1) /\ steps'[Len(steps) + 1] = s
      /\ \A i \in 1..Len(steps) : steps'[i] = steps[i] /\ i \in 1..(Len(steps) + 1)
  BY <1>1
<1>3. \A i \in DOMAIN steps' : steps'[i].kind = "tools" /\ Clean(steps'[i].obs)
  BY Zenon DEF NoLapse, Clean
<1>4. Len(steps) + 1 \in 1..(Len(steps) + 1)
  BY <1>1
<1> QED BY <1>1, <1>2, <1>3, <1>4, Zenon

(* A turn on record is typed. *)
LEMMA StepTyped ==
    ASSUME reply.calls \in Seq(Call), reply.adv \in BOOLEAN, fps' \in Seq(Seq(STRING)), NEW kind \in {"tools", "finish"}
    PROVE  Step(kind) \in Committed /\ Step(kind).kind = kind /\ Step(kind).obs = fps'
<1>1. kind \in STRING
  BY WordsAssumption DEF WordsAssumption, Words
<1> QED BY <1>1, Zenon DEF Step, Committed

(* When the turn at hand has not begun to observe, fps is in the history. *)
LEMMA LapseRecorded ==
    ASSUME FpsRecorded, phase \in {"top", "generate", "reply"},
           \A i \in DOMAIN steps : steps[i].kind = "tools" /\ Clean(steps[i].obs)
    PROVE  NoLapse
<1>1. CASE fps = <<>>
  BY <1>1 DEF NoLapse, Clean
<1>2. CASE \E i \in DOMAIN steps : steps[i].obs = fps
  BY <1>2, Zenon DEF NoLapse
<1> QED BY <1>1, <1>2 DEF FpsRecorded

(* A cancel only adds to what a call may return. *)
LEMMA DispatchGrows ==
    ASSUME UNCHANGED <<scen, ws>>, canceled => canceled'
    PROVE  \A c : dispatchNative(c) \subseteq dispatchNative(c)'
  BY SMT DEF dispatchNative, sc, Ran, readOnly, discovery

(* A step that executes nothing. *)
LEMMA MemoryStays ==
    ASSUME MemCurrent, UNCHANGED <<scen, ws>>, canceled => canceled', phase # "finishing", NoLapse' => NoLapse,
           mem'.readSig = mem.readSig, mem'.readSaw = mem.readSaw, mem'.execSig = mem.execSig
    PROVE  MemCurrent'
<1> SUFFICES ASSUME NoLapse', readOnly(mem.readSig)', (mem.readSig = mem.execSig)'
             PROVE  (\E r \in dispatchNative(mem.readSig) : r.saw = mem.readSaw)'
  BY Zenon DEF MemCurrent
<1>1. readOnly(mem.readSig)
  BY Zenon DEF readOnly
<1>2. PICK r \in dispatchNative(mem.readSig) : r.saw = mem.readSaw
  BY <1>1, Zenon DEF MemCurrent
<1>3. r \in dispatchNative(mem.readSig)'
  BY DispatchGrows
<1> QED BY <1>2, <1>3

(* A step between turns. *)
LEMMA ReadsQuiet ==
    ASSUME ReadsInv, UNCHANGED <<scen, ws, steps, fps>>, canceled => canceled',
           phase \in {"top", "generate", "reply"}, phase' \in {"top", "generate", "reply", "done"},
           mem'.readSig = mem.readSig, mem'.readSaw = mem.readSaw, mem'.execSig = mem.execSig
    PROVE  ReadsInv'
<1>1. NoLapse' => NoLapse
  BY Zenon DEF NoLapse
<1>2. MemCurrent'
  BY <1>1, MemoryStays DEF ReadsInv
<1>3. FpsRecorded'
  BY Zenon DEF ReadsInv, FpsRecorded
<1>4. FpsShape' /\ SkipInv'
  BY DEF FpsShape, SkipInv, SkipIsCurrent
<1> QED BY <1>2, <1>3, <1>4 DEF ReadsInv

(* An executed call is remembered for what it is worth. *)
LEMMA Remembered ==
    ASSUME ws \in Versions, NEW c, NEW r, r \in dispatchNative(c) \/ r.saw = "error", ws' = r.ws,
           UNCHANGED <<scen, canceled>>, mem'.execSig = c,
           mem'.readSig = IF readOnly(c) /\ r.saw # "error" THEN c ELSE mem.readSig,
           mem'.readSaw = IF readOnly(c) /\ r.saw # "error" THEN r.saw ELSE mem.readSaw,
           NoLapse' => ~failedRead(Observed(c, r))
    PROVE  MemCurrent'
<1> SUFFICES ASSUME NoLapse', readOnly(mem.readSig)', (mem.readSig = mem.execSig)'
             PROVE  (\E x \in dispatchNative(mem.readSig) : x.saw = mem.readSaw)'
  BY Zenon DEF MemCurrent
<1>1. readOnly(c) /\ mem'.readSig = c
  <2>1. readOnly(mem.readSig)' <=> mem'.readSig.name \in {"read_file", "search", "list_dir"}
    BY DEF readOnly
  <2> QED BY <2>1, Zenon DEF readOnly
<1>2. r.saw # "error"
  BY <1>1 DEF failedRead, Observed, readOnly
<1>3. r \in dispatchNative(c) /\ ws' = ws /\ mem'.readSaw = r.saw
  BY <1>1, <1>2, Dispatched
<1>4. r \in dispatchNative(mem.readSig)'
  <2>1. dispatchNative(c)' = dispatchNative(c)
    BY <1>3, SMT DEF dispatchNative, sc, Ran, readOnly, discovery
  <2>2. dispatchNative(mem.readSig)' = dispatchNative(c)'
    BY <1>1
  <2> QED BY <1>3, <2>1, <2>2
<1> QED BY <1>3, <1>4

(* The observation of a call is clean, and those before it. *)
LEMMA CleanAppend ==
    ASSUME NEW f \in Seq(Seq(STRING)), NEW obs \in Seq(STRING), Clean(Append(f, obs))
    PROVE  Clean(f) /\ ~failedRead(obs)
<1>1. Len(f) \in Nat /\ DOMAIN f = 1..Len(f) /\ DOMAIN Append(f, obs) = 1..(Len(f) + 1)
      /\ Append(f, obs)[Len(f) + 1] = obs /\ \A i \in 1..Len(f) : Append(f, obs)[i] = f[i]
  OBVIOUS
<1>2. Len(f) + 1 \in 1..(Len(f) + 1) /\ \A i \in 1..Len(f) : i \in 1..(Len(f) + 1)
  BY <1>1
<1> QED BY <1>1, <1>2, Zenon DEF Clean

(* The fields of an observation. *)
LEMMA Observation ==
    ASSUME NEW c \in Call, NEW r \in Result
    PROVE  /\ Observed(c, r) \in Seq(STRING) /\ Len(Observed(c, r)) = 4
           /\ Observed(c, r)[1] = c.name /\ Observed(c, r)[3] = r.saw /\ Observed(c, r)[4] = r.tag
<1>1. Observed(c, r) \in Seq(STRING)
  BY ObservedTyped
<1> QED BY <1>1 DEF Observed

(* The steps shared by both loops. *)
LEMMA SharedReads ==
    ASSUME LoopInv, ReadsInv, sharedStep
    PROVE  ReadsInv'
<1>1. /\ phase \in {"top", "generate"} /\ phase' \in {phase, "generate", "done"}
      /\ UNCHANGED <<scen, ws, steps, fps, mem, canceled>>
  BY DEF sharedStep, turnStarts, generateFails, generateWithRetry, replayRejected, generateWithEviction,
     end, requestVars
<1> QED BY <1>1, ReadsQuiet

(* The model replies, and turns that call nothing end. *)
LEMMA ReplyReads ==
    ASSUME LoopInv, ReadsInv, \/ generateOnce \/ silentTurn \/ answerTurn \/ killRepeat \/ killSpiral
                              \/ textGenerate \/ textKillRepeat \/ textKillSpiral
    PROVE  ReadsInv'
<1>1. /\ phase \in {"generate", "reply"} /\ phase' \in {"top", "reply", "done"}
      /\ UNCHANGED <<scen, ws, steps, fps, canceled>>
  BY Zenon DEF generateOnce, requestVars, silentTurn, answerTurn, gatesFinish, nextTurn, end, killRepeat, killSpiral,
     isToolTurn, isTextTool, textGenerate, textKillRepeat, textKillSpiral
<1>2. \/ UNCHANGED mem \/ \E t : mem' = [mem EXCEPT !.thought = t]
      \/ mem' = memAfter \/ mem' = textMem
  BY Zenon DEF generateOnce, requestVars, silentTurn, answerTurn, killRepeat, killSpiral,
     textGenerate, textKillRepeat, textKillSpiral
<1>3. mem'.readSig = mem.readSig /\ mem'.readSaw = mem.readSaw /\ mem'.execSig = mem.execSig
  <2>1. mem \in Memory
    BY DEF LoopInv, TracesOK
  <2>2. \A t : LET m == [mem EXCEPT !.thought = t]
               IN  m.readSig = mem.readSig /\ m.readSaw = mem.readSaw /\ m.execSig = mem.execSig
    BY <2>1, Zenon DEF Memory
  <2>3. memAfter.readSig = mem.readSig /\ memAfter.readSaw = mem.readSaw /\ memAfter.execSig = mem.execSig
    BY <2>1, Zenon DEF Memory, memAfter
  <2>4. textMem.readSig = mem.readSig /\ textMem.readSaw = mem.readSaw /\ textMem.execSig = mem.execSig
    BY <2>1, Zenon DEF Memory, textMem
  <2> QED BY <1>2, <2>2, <2>3, <2>4, Zenon
<1> QED BY <1>1, <1>3, ReadsQuiet

(* A finish turn, and an answer of the text protocol, is a lapse. *)
LEMMA FinishReads ==
    ASSUME LoopInv, LoopInv', ReadsInv, finishTurn \/ finishDispatch \/ finishReturns \/ textAnswer
    PROVE  ReadsInv'
<1>1. CASE finishTurn \/ finishDispatch
  <2>1. phase' = "finishing" /\ UNCHANGED steps
    BY <1>1, Zenon DEF finishTurn, finishDispatch
  <2> QED BY <2>1 DEF ReadsInv, FpsRecorded, FpsShape, MemCurrent, SkipInv, SkipIsCurrent
<1>2. CASE finishReturns \/ textAnswer
  <2>1. phase' \in {"top", "done"} /\ steps' = Append(steps, Step("finish"))
    BY <1>2, Zenon DEF finishReturns, textAnswer, gatesFinish, nextTurn, end
  <2>2. Step("finish") \in Committed /\ Step("finish").kind = "finish" /\ Step("finish").obs = fps'
    BY StepTyped DEF LoopInv, ReplyOK, TracesOK
  <2>3. ~NoLapse'
    BY <2>1, <2>2, LapsesStay DEF ReadsInv
  <2>4. steps' \in Seq(Committed) /\ \E i \in DOMAIN steps' : steps'[i].obs = fps'
    <3> DEFINE s == Step("finish")
    <3> HIDE DEF s
    <3>1. steps' = Append(steps, s) /\ s \in Committed /\ s.obs = fps'
      BY <2>1, <2>2 DEF s
    <3>2. Len(steps) + 1 \in DOMAIN steps' /\ steps'[Len(steps) + 1] = s /\ steps' \in Seq(Committed)
      BY <3>1 DEF ReadsInv
    <3> QED BY <3>1, <3>2
  <2> QED BY <2>1, <2>3, <2>4 DEF ReadsInv, FpsRecorded, FpsShape, MemCurrent, SkipInv, SkipIsCurrent
<1> QED BY <1>1, <1>2

(* The read and skip half of observing a call. *)
LEMMA ObserveReads ==
    ASSUME LoopInv, ReadsInv, phase = "dispatch", NEW c, c = reply.calls[k], NEW r \in Result, NEW m \in Memory,
           observeCall(c, r, m), NoLapse' => MemCurrent',
           r.tag = "skipped" => r.ws = ws /\ (NoLapse => \E x \in dispatchNative(c) : x.saw = r.saw)
    PROVE  ReadsInv'
<1>1. /\ fps' = Append(fps, Observed(c, r)) /\ phase' \in {"dispatch", "endTurn"}
      /\ UNCHANGED <<scen, canceled, steps, reply>>
  BY Zenon DEF observeCall
<1>2. /\ fps \in Seq(Seq(STRING)) /\ Len(fps) = k - 1 /\ k \in Nat \ {0} /\ c \in Call
  BY DEF LoopInv, TracesOK, ControlOK, ReplyOK
<1> DEFINE obs == Observed(c, r)
<1>3. obs \in Seq(STRING) /\ Len(obs) = 4 /\ obs[3] = r.saw /\ obs[4] = r.tag
  BY <1>2, Observation
<1> HIDE DEF obs
<1>4. /\ Len(fps') = k /\ DOMAIN fps = 1..(k - 1) /\ DOMAIN fps' = 1..k
      /\ fps'[k] = obs /\ (\A j \in 1..(k - 1) : fps'[j] = fps[j])
  BY <1>1, <1>2, <1>3 DEF obs
<1>5. Last(fps') = obs /\ \A j \in 1..k : j \in 1..(k - 1) \/ j = k
  BY <1>2, <1>4 DEF Last
<1>6. NoLapse' => NoLapse
  <2>1. Clean(fps') => Clean(fps)
    BY <1>1, <1>2, <1>3, CleanAppend DEF obs
  <2>2. NoLapse' => Clean(fps') /\ \A i \in DOMAIN steps : steps[i].kind = "tools" /\ Clean(steps[i].obs)
    BY <1>1, Zenon DEF NoLapse, Clean
  <2> QED BY <2>1, <2>2, Zenon DEF NoLapse
<1>7. FpsShape'
  <2>1. \A j \in DOMAIN fps' : Len(fps'[j]) = 4
    BY <1>3, <1>4, <1>5, Zenon DEF ReadsInv, FpsShape
  <2> QED BY <2>1 DEF FpsShape
<1>8. SkipInv'
  <2> SUFFICES ASSUME NoLapse', Last(fps')[4] = "skipped"
               PROVE  (\E x \in dispatchNative(reply.calls[Len(fps)]) : x.saw = Last(fps)[3])'
    BY Zenon DEF SkipInv, SkipIsCurrent
  <2>1. r.tag = "skipped" /\ NoLapse /\ Last(fps')[3] = r.saw
    BY <1>3, <1>5, <1>6
  <2>2. PICK x \in dispatchNative(c)' : x.saw = r.saw
    <3>1. PICK x \in dispatchNative(c) : x.saw = r.saw
      BY <2>1
    <3>2. UNCHANGED <<scen, ws, canceled>>
      BY <1>1, <2>1, Zenon DEF observeCall
    <3> QED BY <3>1, <3>2, DispatchGrows
  <2>3. dispatchNative(reply.calls[Len(fps)])' = dispatchNative(c)'
    BY <1>1, <1>4
  <2> QED BY <2>1, <2>2, <2>3
<1>9. FpsRecorded'
  BY <1>1 DEF FpsRecorded
<1>10. MemCurrent'
  BY DEF MemCurrent
<1> QED BY <1>1, <1>7, <1>8, <1>9, <1>10 DEF ReadsInv

(* The calls of a turn run: what the memory holds of a read stays what the *)
(* file holds, unless the workspace changed and the memory was             *)
(* overwritten.                                                            *)
LEMMA DispatchReads ==
    ASSUME LoopInv, LoopInv', ReadsInv, commitTurn \/ skipCall \/ dispatchCall \/ killStagnant
    PROVE  ReadsInv'
<1>0. mem \in Memory /\ ws \in Versions
  BY DEF LoopInv, TracesOK, EnvOK
<1>1. CASE commitTurn
  <2>1. /\ phase = "reply" /\ phase' = "dispatch" /\ fps' = <<>> /\ mem' = memAfter
        /\ UNCHANGED <<scen, ws, canceled, steps>>
    BY <1>1, Zenon DEF commitTurn, isToolTurn
  <2>2. mem'.readSig = mem.readSig /\ mem'.readSaw = mem.readSaw /\ mem'.execSig = mem.execSig
    BY <1>0, <2>1, Zenon DEF Memory, memAfter
  <2>3. NoLapse' => NoLapse
    <3>1. NoLapse' => \A i \in DOMAIN steps : steps[i].kind = "tools" /\ Clean(steps[i].obs)
      BY <2>1, Zenon DEF NoLapse, Clean
    <3> QED BY <2>1, <3>1, LapseRecorded DEF ReadsInv
  <2>4. MemCurrent'
    BY <2>1, <2>2, <2>3, MemoryStays DEF ReadsInv
  <2> QED BY <2>1, <2>4 DEF ReadsInv, FpsRecorded, FpsShape, SkipInv, SkipIsCurrent
<1>2. CASE skipCall
  <2> DEFINE c == reply.calls[k]
             r == Ran(mem.readSaw, ws, "skipped")
  <2>1. phase = "dispatch" /\ skips(c, mem) /\ observeCall(c, r, mem)
    BY <1>2 DEF skipCall
  <2>2. mem.readSaw \in STRING /\ "skipped" \in STRING
    BY <1>0, WordsAssumption DEF WordsAssumption, Words, Memory
  <2>3. r \in Result /\ r.ws = ws /\ r.saw = mem.readSaw
    <3>1. \A s, t \in STRING : Ran(s, ws, t) \in Result /\ Ran(s, ws, t).ws = ws /\ Ran(s, ws, t).saw = s
      BY <1>0, RanTyped
    <3> QED BY <2>2, <3>1, Zenon
  <2>4. UNCHANGED <<scen, canceled, ws, mem, reply, steps>> /\ fps' = Append(fps, Observed(c, r))
    BY <2>1, <2>3, Zenon DEF observeCall
  <2>5. readOnly(c) /\ c = mem.readSig /\ c = mem.execSig
    BY <2>1 DEF skips
  <2>6. NoLapse => \E x \in dispatchNative(c) : x.saw = r.saw
    <3> SUFFICES ASSUME NoLapse PROVE \E x \in dispatchNative(c) : x.saw = r.saw
      OBVIOUS
    <3>1. phase # "finishing"
      BY <2>1
    <3>2. readOnly(mem.readSig) /\ mem.readSig = mem.execSig
      BY <2>5
    <3>3. PICK x \in dispatchNative(mem.readSig) : x.saw = mem.readSaw
      BY <3>1, <3>2, Zenon DEF ReadsInv, MemCurrent
    <3> QED BY <2>3, <2>5, <3>3
  <2>7. c \in Call /\ fps \in Seq(Seq(STRING))
    BY <2>1 DEF LoopInv, ControlOK, ReplyOK, TracesOK
  <2>8. NoLapse' => NoLapse
    <3>1. Observed(c, r) \in Seq(STRING)
      BY <2>3, <2>7, Observation
    <3>2. Clean(fps') => Clean(fps)
      BY <2>4, <2>7, <3>1, CleanAppend
    <3> QED BY <2>4, <3>2, Zenon DEF NoLapse, Clean
  <2>9. MemCurrent'
    <3> HIDE DEF c, r
    <3>1. phase # "finishing"
      BY <2>1
    <3> QED BY <2>4, <2>8, <3>1, MemoryStays DEF ReadsInv
  <2> HIDE DEF r
  <2> QED BY <1>0, <2>1, <2>3, <2>6, <2>9, ObserveReads
<1>3. CASE dispatchCall
  <2> DEFINE c == reply.calls[k]
  <2>1. phase = "dispatch"
    BY <1>3 DEF dispatchCall
  <2>2. PICK r \in executions : observeCall(c, r, memOf(c, r))
    BY <1>3 DEF dispatchCall
  <2>3. r \in dispatchNative(c)
    BY <2>1, <2>2, Executed
  <2>4. r \in Result /\ r.tag \in Tags
    BY <1>0, <2>3, Dispatched
  <2>5. c \in Call /\ fps \in Seq(Seq(STRING))
    BY <2>1 DEF LoopInv, ControlOK, ReplyOK, TracesOK
  <2> HIDE DEF c
  <2>6. /\ ws' = r.ws /\ mem' = memOf(c, r) /\ fps' = Append(fps, Observed(c, r))
        /\ UNCHANGED <<scen, canceled>>
    BY <2>2, Zenon DEF observeCall
  <2>7. memOf(c, r) \in Memory
    BY <1>0, <2>4, <2>5, MemoryTyped
  <2>8. NoLapse' => MemCurrent'
    <3>1. Observed(c, r) \in Seq(STRING)
      BY <2>4, <2>5, Observation
    <3>2. NoLapse' => ~failedRead(Observed(c, r))
      BY <2>5, <2>6, <3>1, CleanAppend DEF NoLapse
    <3>3. /\ mem'.execSig = c
          /\ mem'.readSig = IF readOnly(c) /\ r.saw # "error" THEN c ELSE mem.readSig
          /\ mem'.readSaw = IF readOnly(c) /\ r.saw # "error" THEN r.saw ELSE mem.readSaw
      BY <1>0, <2>6, Zenon DEF memOf, Memory
    <3> QED BY <1>0, <2>3, <2>6, <3>2, <3>3, Remembered
  <2>9. r.tag # "skipped"
    BY <2>4 DEF Tags
  <2> QED BY <2>1, <2>2, <2>4, <2>7, <2>8, <2>9, ObserveReads DEF c
<1>4. CASE killStagnant
  <2> DEFINE c == reply.calls[k]
  <2>1. /\ phase = "dispatch" /\ phase' = "done" /\ steps' = Append(steps, Step("tools"))
        /\ UNCHANGED <<scen, canceled>>
    BY <1>4, Zenon DEF killStagnant, end
  <2>2. PICK r \in executions : ws' = r.ws /\ mem' = memOf(c, r) /\ fps' = Append(fps, Observed(c, r))
    BY <1>4, Zenon DEF killStagnant
  <2>3. r \in dispatchNative(c) /\ r \in Result
    BY <1>0, <2>1, <2>2, Executed, Dispatched
  <2>4. c \in Call /\ fps \in Seq(Seq(STRING))
    BY <2>1 DEF LoopInv, ControlOK, ReplyOK, TracesOK
  <2> HIDE DEF c
  <2>5. Step("tools") \in Committed
    BY StepTyped DEF LoopInv, ReplyOK, TracesOK
  <2>6. MemCurrent'
    <3>1. Observed(c, r) \in Seq(STRING)
      BY <2>3, <2>4, Observation
    <3>2. NoLapse' => ~failedRead(Observed(c, r))
      BY <2>2, <2>4, <3>1, CleanAppend DEF NoLapse
    <3>3. /\ mem'.execSig = c
          /\ mem'.readSig = IF readOnly(c) /\ r.saw # "error" THEN c ELSE mem.readSig
          /\ mem'.readSaw = IF readOnly(c) /\ r.saw # "error" THEN r.saw ELSE mem.readSaw
      BY <1>0, <2>2, Zenon DEF memOf, Memory
    <3> QED BY <1>0, <2>1, <2>2, <2>3, <3>2, <3>3, Remembered
  <2>7. steps' \in Seq(Committed)
    BY <2>1, <2>5 DEF ReadsInv
  <2> QED BY <2>1, <2>6, <2>7 DEF ReadsInv, FpsRecorded, FpsShape, SkipInv, SkipIsCurrent
<1> QED BY <1>1, <1>2, <1>3, <1>4

(* A turn that ends: its observations go to the history. *)
LEMMA TurnEndsReads ==
    ASSUME LoopInv, LoopInv', ReadsInv, turnEnds \/ textTurnEnds
    PROVE  ReadsInv'
<1> DEFINE s == Step("tools")
<1>1. /\ phase = "endTurn" /\ phase' \in {"top", "done"} /\ steps' = Append(steps, s)
      /\ UNCHANGED <<scen, ws, canceled>>
  BY Zenon DEF turnEnds, textTurnEnds, nextTurn, end
<1>2. s \in Committed /\ s.obs = fps'
  BY StepTyped DEF LoopInv, ReplyOK, TracesOK
<1> HIDE DEF s
<1>3. steps' \in Seq(Committed) /\ \E i \in DOMAIN steps' : steps'[i].obs = fps'
  <2>1. Len(steps) + 1 \in DOMAIN steps' /\ steps'[Len(steps) + 1] = s /\ steps' \in Seq(Committed)
    BY <1>1, <1>2 DEF ReadsInv
  <2> QED BY <1>2, <2>1
<1>4. mem'.readSig = mem.readSig /\ mem'.readSaw = mem.readSaw /\ mem'.execSig = mem.execSig
  <2>1. UNCHANGED mem \/ \E a, b : mem' = [mem EXCEPT !.answerNudged = a, !.sayNudged = b]
    BY Zenon DEF turnEnds, textTurnEnds
  <2>2. mem \in Memory
    BY DEF LoopInv, TracesOK
  <2> QED BY <2>1, <2>2, Zenon DEF Memory
<1>5. Clean(fps') => Clean(fps)
  <2>1. CASE turnEnds
    <3>1. fps' = fps
      BY <2>1 DEF turnEnds
    <3> QED BY <3>1
  <2>2. CASE textTurnEnds
    <3>1. isText /\ \E build : fps' = <<Append(fps[1], build)>>
      BY <2>2, Zenon DEF textTurnEnds
    <3>2. Len(fps) = 1 /\ fps \in Seq(Seq(STRING)) /\ Len(fps[1]) = 4
      <4>1. Len(fps) = 1 /\ fps \in Seq(Seq(STRING))
        BY <1>1, <3>1 DEF LoopInv, ControlOK, TracesOK
      <4> QED BY <1>1, <4>1 DEF ReadsInv, FpsShape
    <3>3. PICK build : fps' = <<Append(fps[1], build)>>
      BY <3>1
    <3>4. Append(fps[1], build)[1] = fps[1][1] /\ Append(fps[1], build)[3] = fps[1][3]
      <4> DEFINE o == fps[1]
      <4>1. o \in Seq(STRING) /\ Len(o) = 4
        BY <3>2
      <4> HIDE DEF o
      <4>2. o \in Seq(STRING \cup {build})
        BY <4>1
      <4>3. Append(o, build)[1] = o[1] /\ Append(o, build)[3] = o[3]
        <5>1. \A i \in 1..Len(o) : Append(o, build)[i] = o[i]
          BY <4>2, AppendProperties
        <5>2. 1 \in 1..Len(o) /\ 3 \in 1..Len(o)
          BY <4>1
        <5> QED BY <5>1, <5>2, Zenon
      <4> QED BY <4>3 DEF o
    <3>5. Clean(fps') => ~failedRead(Append(fps[1], build))
      <4> DEFINE o == Append(fps[1], build)
      <4> HIDE DEF o
      <4>1. fps' = <<o>>
        BY <3>3 DEF o
      <4>2. 1 \in DOMAIN fps' /\ fps'[1] = o
        BY <4>1
      <4> QED BY <4>2, Zenon DEF Clean, o
    <3>6. DOMAIN fps = {1}
      BY <3>2
    <3> QED BY <3>4, <3>5, <3>6 DEF Clean, failedRead
  <2> QED BY <2>1, <2>2
<1>6. NoLapse' => NoLapse
  BY <1>1, <1>2, <1>5, LapsesStay DEF NoLapse, ReadsInv
<1>7. MemCurrent'
  BY <1>1, <1>4, <1>6, MemoryStays DEF ReadsInv
<1> QED BY <1>1, <1>3, <1>7 DEF ReadsInv, FpsRecorded, FpsShape, SkipInv, SkipIsCurrent

(* A text turn acts. *)
LEMMA TextActReads ==
    ASSUME LoopInv, LoopInv', ReadsInv, textAct
    PROVE  ReadsInv'
<1>0. mem \in Memory /\ ws \in Versions /\ textMem \in Memory
  BY StepsTyped DEF LoopInv, TracesOK, EnvOK
<1>1. /\ isText /\ phase = "reply" /\ phase' \in {"endTurn", "done"} /\ UNCHANGED <<scen, canceled, reply>>
      /\ UNCHANGED steps \/ steps' = Append(steps, Step("tools"))
      /\ \E o \in textObserved : ws' = o[1].ws /\ mem' = o[2] /\ fps' = <<Observed(act, o[1])>>
  BY Zenon DEF textAct, isTextTool, end
<1>2. act \in Call
  BY <1>1 DEF LoopInv, ControlOK, ReplyOK, act
<1>3. PICK o \in textObserved : ws' = o[1].ws /\ mem' = o[2] /\ fps' = <<Observed(act, o[1])>>
  BY <1>1
<1> DEFINE r == o[1]
           obs == Observed(act, r)
<1>4. r \in Result
  BY <1>2, TextObserved
<1>5. obs \in Seq(STRING) /\ Len(obs) = 4 /\ obs[3] = r.saw /\ obs[4] = r.tag
  BY <1>2, <1>4, Observation
<1> HIDE DEF r
<1>6. fps' = <<obs>> /\ ws' = r.ws /\ mem' = o[2]
  BY <1>3 DEF r
<1> HIDE DEF obs
<1>7. Step("tools") \in Committed
  BY StepTyped DEF LoopInv, ReplyOK, TracesOK
<1>8. steps' \in Seq(Committed)
  BY <1>1, <1>7 DEF ReadsInv
<1>9. NoLapse' => NoLapse /\ ~failedRead(obs)
  <2>1. Clean(fps') => ~failedRead(obs)
    BY <1>6 DEF Clean
  <2>2. NoLapse' => \A i \in DOMAIN steps : steps[i].kind = "tools" /\ Clean(steps[i].obs)
    <3>1. CASE UNCHANGED steps
      BY <3>1, Zenon DEF NoLapse, Clean
    <3>2. CASE steps' = Append(steps, Step("tools"))
      BY <1>7, <3>2, LapsesStay DEF ReadsInv
    <3> QED BY <1>1, <3>1, <3>2
  <2>3. NoLapse' => NoLapse
    BY <1>1, <2>2, LapseRecorded DEF ReadsInv
  <2> QED BY <2>1, <2>3 DEF NoLapse
<1>10. FpsShape' /\ FpsRecorded'
  BY <1>1, <1>5, <1>6 DEF FpsShape, FpsRecorded
<1>11. CASE skips(act, mem)
  <2>1. o = <<Ran(mem.readSaw, ws, "skipped"), textMem>>
    BY <1>3, <1>11 DEF textObserved
  <2>2. mem.readSaw \in STRING /\ "skipped" \in STRING
    BY <1>0, WordsAssumption DEF WordsAssumption, Words, Memory
  <2>3. r.ws = ws /\ r.saw = mem.readSaw /\ o[2] = textMem
    <3>1. \A s, t \in STRING : Ran(s, ws, t).ws = ws /\ Ran(s, ws, t).saw = s
      BY <1>0, RanTyped
    <3>2. r = Ran(mem.readSaw, ws, "skipped") /\ o[2] = textMem
      BY <2>1 DEF r
    <3> QED BY <2>2, <3>1, <3>2, Zenon
  <2>4. mem'.readSig = mem.readSig /\ mem'.readSaw = mem.readSaw /\ mem'.execSig = mem.execSig
    BY <1>0, <1>6, <2>3, Zenon DEF Memory, textMem
  <2>5. MemCurrent'
    BY <1>1, <1>6, <1>9, <2>3, <2>4, MemoryStays DEF ReadsInv
  <2>6. SkipInv'
    <3> SUFFICES ASSUME NoLapse'
                 PROVE  (\E x \in dispatchNative(reply.calls[Len(fps)]) : x.saw = Last(fps)[3])'
      BY Zenon DEF SkipInv, SkipIsCurrent
    <3>1. readOnly(act) /\ act = mem.readSig /\ act = mem.execSig
      BY <1>11 DEF skips
    <3>2. NoLapse /\ phase # "finishing" /\ readOnly(mem.readSig) /\ mem.readSig = mem.execSig
      BY <1>1, <1>9, <3>1
    <3>3. PICK x \in dispatchNative(mem.readSig) : x.saw = mem.readSaw
      BY <3>2, Zenon DEF ReadsInv, MemCurrent
    <3>4. x \in dispatchNative(act)
      BY <3>1, <3>3
    <3>5. x \in dispatchNative(act)'
      <4>1. act' = act
        BY <1>1 DEF act
      <4>2. \A c : dispatchNative(c) \subseteq dispatchNative(c)'
        BY <1>1, <1>6, <2>3, DispatchGrows
      <4> QED BY <3>4, <4>1, <4>2
    <3>6. Last(fps') = obs /\ Len(fps') = 1
      BY <1>6 DEF Last
    <3>7. dispatchNative(reply.calls[Len(fps)])' = dispatchNative(act)'
      BY <3>6 DEF act
    <3> QED BY <1>5, <2>3, <3>3, <3>5, <3>6, <3>7
  <2> QED BY <1>8, <1>10, <2>5, <2>6 DEF ReadsInv
<1>12. CASE ~skips(act, mem)
  <2> DEFINE rem(x) == [textMem EXCEPT !.execSig = act,
                               !.readSig = IF readOnly(act) /\ x.saw # "error" THEN act ELSE @,
                               !.readSaw = IF readOnly(act) /\ x.saw # "error" THEN x.saw ELSE @]
  <2>1. PICK x \in dispatch(act) : o = <<x, rem(x)>>
    BY <1>12, Zenon DEF textObserved
  <2> HIDE DEF rem
  <2>2. r \in dispatch(act) /\ o[2] = rem(r)
    BY <2>1 DEF r
  <2>3. (r \in dispatchNative(act) /\ r.tag # "skipped") \/ (r.saw = "error" /\ r.tag = "plain")
    <3>1. CASE r \in dispatchNative(act)
      <4>1. r.tag \in Tags
        BY <1>0, <3>1, Dispatched
      <4> QED BY <3>1, <4>1 DEF Tags
    <3>2. CASE r = Ran("error", ws, "plain")
      BY <3>2 DEF Ran
    <3> QED BY <2>2, <3>1, <3>2 DEF dispatch
  <2>4. /\ mem'.execSig = act
        /\ mem'.readSig = IF readOnly(act) /\ r.saw # "error" THEN act ELSE mem.readSig
        /\ mem'.readSaw = IF readOnly(act) /\ r.saw # "error" THEN r.saw ELSE mem.readSaw
    <3>1. /\ rem(r).execSig = act
          /\ rem(r).readSig = IF readOnly(act) /\ r.saw # "error" THEN act ELSE textMem.readSig
          /\ rem(r).readSaw = IF readOnly(act) /\ r.saw # "error" THEN r.saw ELSE textMem.readSaw
      BY <1>0, Zenon DEF rem, Memory
    <3>2. textMem.readSig = mem.readSig /\ textMem.readSaw = mem.readSaw
      BY <1>0, Zenon DEF textMem, Memory
    <3> QED BY <1>6, <2>2, <3>1, <3>2
  <2>5. MemCurrent'
    <3> DEFINE c == act
    <3>1. r \in dispatchNative(c) \/ r.saw = "error"
      BY <2>3
    <3>2. NoLapse' => ~failedRead(Observed(c, r))
      BY <1>9 DEF obs
    <3> HIDE DEF c
    <3> QED BY <1>0, <1>1, <1>6, <2>4, <3>1, <3>2, Remembered DEF c
  <2>6. SkipInv'
    <3>1. Last(fps')[4] # "skipped"
      <4>1. Last(fps') = obs
        BY <1>6 DEF Last
      <4>2. obs[4] # "skipped"
        BY <1>5, <2>3
      <4> QED BY <4>1, <4>2
    <3> QED BY <3>1, Zenon DEF SkipInv, SkipIsCurrent
  <2> QED BY <1>8, <1>10, <2>5, <2>6 DEF ReadsInv
<1> QED BY <1>11, <1>12

(* Every step of either loop keeps ReadsInv. *)
LEMMA ReadsInvStep == LoopInv /\ LoopInv' /\ ReadsInv /\ [bothStep \/ cancel]_loopVars => ReadsInv'
<1> SUFFICES ASSUME LoopInv, LoopInv', ReadsInv, [bothStep \/ cancel]_loopVars PROVE ReadsInv'
  OBVIOUS
<1>1. CASE sharedStep
  BY <1>1, SharedReads
<1>2. CASE nativeStep
  BY <1>2, ReplyReads, FinishReads, DispatchReads, TurnEndsReads DEF nativeStep
<1>3. CASE textStep
  BY <1>3, ReplyReads, FinishReads, TextActReads, TurnEndsReads DEF textStep
<1>4. CASE cancel \/ UNCHANGED loopVars
  <2>1. UNCHANGED <<scen, phase, ws, reply, fps, steps, mem>> /\ (canceled => canceled')
    BY <1>4 DEF cancel, loopVars
  <2>2. NoLapse' = NoLapse
    BY <2>1, Zenon DEF NoLapse
  <2>3. \A c : dispatchNative(c) \subseteq dispatchNative(c)'
    BY <2>1, DispatchGrows
  <2>4. FpsRecorded' /\ FpsShape' /\ MemCurrent'
    BY <2>1, <2>2, <2>3 DEF ReadsInv, FpsRecorded, FpsShape, MemCurrent, readOnly
  <2>5. SkipInv'
    BY <2>1, <2>2, <2>3 DEF ReadsInv, SkipInv, SkipIsCurrent
  <2> QED BY <2>1, <2>4, <2>5 DEF ReadsInv
<1> QED BY <1>1, <1>2, <1>3, <1>4 DEF bothStep

(* ReadsInv holds when a run starts. *)
LEMMA ReadsInvInit == LoopInit => ReadsInv
<1> SUFFICES ASSUME LoopInit PROVE ReadsInv
  OBVIOUS
<1>1. phase = "top" /\ fps = <<>> /\ steps = <<>> /\ mem.readSig = NoCall
  BY DEF LoopInit
<1>2. ~readOnly(mem.readSig)
  BY <1>1 DEF readOnly, NoCall
<1> QED BY <1>1, <1>2 DEF ReadsInv, FpsRecorded, FpsShape, MemCurrent, SkipInv, SkipIsCurrent

(* ReadsInv is at least as strong as ReadsAreCurrent. *)
LEMMA ReadsInvCurrent == LoopInv /\ ReadsInv => ReadsAreCurrent
<1> SUFFICES ASSUME LoopInv, ReadsInv PROVE ReadsAreCurrent
  OBVIOUS
<1>1. PrefetchIsInvisible
  <2> SUFFICES ASSUME phase = "dispatch", k <= Len(pre) PROVE pre[k] \in dispatchNative(reply.calls[k])
    BY DEF PrefetchIsInvisible
  <2>1. k \in 1..Len(pre) /\ k >= k
    BY DEF LoopInv, ControlOK, TracesOK
  <2> QED BY <2>1 DEF LoopInv, PrefetchOK
<1>2. NoLapse => SkipIsCurrent
  BY DEF ReadsInv, SkipInv
<1> QED BY <1>1, <1>2, Zenon DEF ReadsAreCurrent, NoLapse, Clean

(* No read is answered with something else than what the file holds when its *)
(* turn comes, whether it was fetched ahead (prefetchLeadingReadOnly) or     *)
(* skipped as identical, in every run of either loop in which no read failed *)
(* and no finish was sent back.                                             *)
THEOREM ReadsAreAnsweredAsIs == BothLoops => []ReadsAreCurrent
<1> QED BY LoopInvInit, LoopInvStep, ReadsInvInit, ReadsInvStep, ReadsInvCurrent, PTL DEF BothLoops

-----------------------------------------------------------------------------
(* The transcript is well formed: TranscriptInv. *)

(* The first l messages of m pair up: every call has its result behind it,   *)
(* and no result stands elsewhere.                                           *)
PairedTo(m, l) ==
    /\ \A i \in 1..l : m[i].role = "assistant" =>
          /\ i + m[i].n <= l
          /\ {m[i + j].n : j \in 1..m[i].n} = 1..m[i].n
          /\ \A j \in 1..m[i].n : m[i + j].role = "tool" /\ m[i + j].at = m[i].at
    /\ \A i \in 1..l : m[i].role = "tool" =>
          \E h \in 1..(i - 1) : m[h].role = "assistant" /\ i - h <= m[h].n

(* What pairs up goes by roles, turns and numbers. *)
LEMMA PairedPrefix ==
    ASSUME NEW l \in Nat, NEW m, NEW e, \A i \in 1..l : m[i].n \in Nat,
           \A i \in 1..l : e[i].role = m[i].role /\ e[i].at = m[i].at /\ e[i].n = m[i].n,
           PairedTo(m, l)
    PROVE  PairedTo(e, l)
<1>1. ASSUME NEW i \in 1..l, e[i].role = "assistant"
      PROVE  /\ i + e[i].n <= l
             /\ {e[i + j].n : j \in 1..e[i].n} = 1..e[i].n
             /\ \A j \in 1..e[i].n : e[i + j].role = "tool" /\ e[i + j].at = e[i].at
  <2>1. /\ i + m[i].n <= l /\ m[i].n \in Nat
        /\ {m[i + j].n : j \in 1..m[i].n} = 1..m[i].n
        /\ \A j \in 1..m[i].n : m[i + j].role = "tool" /\ m[i + j].at = m[i].at
    BY <1>1, Zenon DEF PairedTo
  <2>2. \A j \in 1..m[i].n : i + j \in 1..l
    BY <2>1
  <2>3. {e[i + j].n : j \in 1..m[i].n} = {m[i + j].n : j \in 1..m[i].n}
    BY <2>2, Zenon
  <2>4. e[i].n = m[i].n /\ e[i].at = m[i].at
    BY Zenon
  <2>5. \A j \in 1..e[i].n : e[i + j].role = "tool" /\ e[i + j].at = e[i].at
    BY <2>1, <2>2, <2>4
  <2> QED BY <2>1, <2>3, <2>4, <2>5
<1>2. ASSUME NEW i \in 1..l, e[i].role = "tool"
      PROVE  \E h \in 1..(i - 1) : e[h].role = "assistant" /\ i - h <= e[h].n
  <2>1. PICK h \in 1..(i - 1) : m[h].role = "assistant" /\ i - h <= m[h].n
    BY <1>2, Zenon DEF PairedTo
  <2>2. h \in 1..l
    OBVIOUS
  <2> QED BY <2>1, <2>2
<1> QED BY <1>1, <1>2, Zenon DEF PairedTo

(* Messages without calls may follow. *)
LEMMA PairedPlain ==
    ASSUME NEW l \in Nat, NEW l2 \in Nat, l <= l2, NEW m, PairedTo(m, l), \A i \in 1..l : m[i].n \in Nat,
           \A i \in (l + 1)..l2 : m[i].role = "user" \/ (m[i].role = "assistant" /\ m[i].n = 0)
    PROVE  PairedTo(m, l2)
<1>0. \A i \in 1..l2 : i \in 1..l \/ i \in (l + 1)..l2
  OBVIOUS
<1>1. ASSUME NEW i \in 1..l2, m[i].role = "assistant"
      PROVE  /\ i + m[i].n <= l2
             /\ {m[i + j].n : j \in 1..m[i].n} = 1..m[i].n
             /\ \A j \in 1..m[i].n : m[i + j].role = "tool" /\ m[i + j].at = m[i].at
  <2>1. CASE i \in 1..l
    <3>1. /\ i + m[i].n <= l
          /\ {m[i + j].n : j \in 1..m[i].n} = 1..m[i].n
          /\ \A j \in 1..m[i].n : m[i + j].role = "tool" /\ m[i + j].at = m[i].at
      BY <1>1, <2>1, Zenon DEF PairedTo
    <3>2. i + m[i].n <= l2
      BY <2>1, <3>1
    <3> QED BY <3>1, <3>2
  <2>2. CASE i \in (l + 1)..l2
    <3>1. m[i].n = 0
      BY <1>1, <2>2
    <3>2. 1..m[i].n = {} /\ i + m[i].n <= l2
      BY <3>1, <2>2
    <3> QED BY <3>2
  <2> QED BY <1>0, <2>1, <2>2
<1>2. ASSUME NEW i \in 1..l2, m[i].role = "tool"
      PROVE  \E h \in 1..(i - 1) : m[h].role = "assistant" /\ i - h <= m[h].n
  <2>1. i \in 1..l
    BY <1>0, <1>2
  <2> QED BY <1>2, <2>1, Zenon DEF PairedTo
<1> QED BY <1>1, <1>2, Zenon DEF PairedTo

(* A turn with all its results. *)
LEMMA PairedTurn ==
    ASSUME NEW l \in Nat, NEW N \in Nat, NEW m, PairedTo(m, l), \A i \in 1..l : m[i].n \in Nat,
           m[l + 1].role = "assistant", m[l + 1].n = N,
           {m[l + 1 + j].n : j \in 1..N} = 1..N,
           \A j \in 1..N : m[l + 1 + j].role = "tool" /\ m[l + 1 + j].at = m[l + 1].at
    PROVE  PairedTo(m, l + 1 + N)
<1>0. \A i \in 1..(l + 1 + N) : i \in 1..l \/ i = l + 1 \/ (i - (l + 1) \in 1..N /\ i = l + 1 + (i - (l + 1)))
  OBVIOUS
<1>1. ASSUME NEW i \in 1..(l + 1 + N), m[i].role = "assistant"
      PROVE  /\ i + m[i].n <= l + 1 + N
             /\ {m[i + j].n : j \in 1..m[i].n} = 1..m[i].n
             /\ \A j \in 1..m[i].n : m[i + j].role = "tool" /\ m[i + j].at = m[i].at
  <2>1. CASE i \in 1..l
    <3>1. /\ i + m[i].n <= l /\ m[i].n \in Nat
          /\ {m[i + j].n : j \in 1..m[i].n} = 1..m[i].n
          /\ \A j \in 1..m[i].n : m[i + j].role = "tool" /\ m[i + j].at = m[i].at
      BY <1>1, <2>1, Zenon DEF PairedTo
    <3>2. i + m[i].n <= l + 1 + N
      BY <3>1
    <3> QED BY <3>1, <3>2
  <2>2. CASE i = l + 1
    <3>1. m[i].n = N /\ m[i].at = m[l + 1].at /\ \A j \in 1..N : m[i + j] = m[l + 1 + j]
      BY <2>2
    <3>2. {m[i + j].n : j \in 1..N} = {m[l + 1 + j].n : j \in 1..N}
      <4> DEFINE u(j) == m[i + j].n
                 v(j) == m[l + 1 + j].n
      <4>1. \A j \in 1..N : u(j) = v(j)
        BY <3>1
      <4> HIDE DEF u, v
      <4>2. {u(j) : j \in 1..N} = {v(j) : j \in 1..N}
        BY <4>1, SMT
      <4> QED BY <4>2 DEF u, v
    <3>3. i + N <= l + 1 + N
      BY <2>2
    <3> QED BY <3>1, <3>2, <3>3
  <2>3. CASE i - (l + 1) \in 1..N /\ i = l + 1 + (i - (l + 1))
    <3>1. m[i].role = "tool"
      BY <2>3
    <3> QED BY <1>1, <3>1
  <2> QED BY <1>0, <2>1, <2>2, <2>3
<1>2. ASSUME NEW i \in 1..(l + 1 + N), m[i].role = "tool"
      PROVE  \E h \in 1..(i - 1) : m[h].role = "assistant" /\ i - h <= m[h].n
  <2>1. CASE i \in 1..l
    BY <1>2, <2>1, Zenon DEF PairedTo
  <2>2. CASE ~(i \in 1..l)
    <3>1. i # l + 1
      BY <1>2
    <3>2. l + 1 \in 1..(i - 1) /\ i - (l + 1) <= N
      BY <1>0, <2>2, <3>1
    <3> QED BY <3>2
  <2> QED BY <2>1, <2>2
<1> QED BY <1>1, <1>2, Zenon DEF PairedTo

(* Dropping whole turns drops calls with their results. *)
LEMMA PairedSplice ==
    ASSUME NEW m \in Seq(Message), NEW e, NEW a \in turnBegins(m), NEW b \in turnBegins(m), a < b,
           Spliced(m, e, a, b), PairedTo(m, Len(m))
    PROVE  PairedTo(e, Len(e))
<1>1. /\ Len(m) \in Nat /\ a \in 2..Len(m) /\ b \in 2..Len(m)
      /\ m[a].role = "assistant" /\ m[b].role = "assistant"
  BY DEF turnBegins
<1>2. /\ e \in Seq(Message) /\ Len(e) = Len(m) - (b - a)
      /\ \A i \in 1..(a - 1) : e[i] = m[i]
      /\ \A i \in a..Len(e) : e[i] = m[i + (b - a)]
  BY DEF Spliced
<1>3. \A i \in 1..Len(m) : m[i].n \in Nat
  <2>1. \A x \in Message : x.n \in Nat
    BY Zenon DEF Message
  <2>2. \A i \in 1..Len(m) : m[i] \in Message
    OBVIOUS
  <2> QED BY <2>1, <2>2, Zenon
<1> DEFINE d == b - a
<1>4. d \in Nat /\ b = a + d /\ a + d <= Len(m) /\ Len(e) = Len(m) - d
  BY <1>1, <1>2
<1>5. \A i \in a..Len(e) : e[i] = m[i + d] /\ i + d \in b..Len(m) /\ i + d \in 1..Len(m)
  BY <1>1, <1>2
<1> HIDE DEF d
<1>6. ASSUME NEW i \in 1..Len(e), e[i].role = "assistant"
      PROVE  /\ i + e[i].n <= Len(e)
             /\ {e[i + j].n : j \in 1..e[i].n} = 1..e[i].n
             /\ \A j \in 1..e[i].n : e[i + j].role = "tool" /\ e[i + j].at = e[i].at
  <2>1. CASE i \in 1..(a - 1)
    <3>0. e[i] = m[i]
      BY <1>2, <2>1, Zenon
    <3>1. e[i] = m[i] /\ i \in 1..Len(m)
      BY <1>1, <2>1, <3>0
    <3>2. /\ i + m[i].n <= Len(m) /\ m[i].n \in Nat
          /\ {m[i + j].n : j \in 1..m[i].n} = 1..m[i].n
          /\ \A j \in 1..m[i].n : m[i + j].role = "tool" /\ m[i + j].at = m[i].at
      BY <1>3, <1>6, <3>1, Zenon DEF PairedTo
    <3>3. i + m[i].n < a
      <4> SUFFICES ASSUME i + m[i].n >= a PROVE FALSE
        BY <1>1, <3>2
      <4>1. a - i \in 1..m[i].n /\ i + (a - i) = a
        BY <1>1, <2>1, <3>2
      <4>2. m[a].role = "tool"
        BY <3>2, <4>1
      <4> QED BY <1>1, <4>2
    <3>4. \A j \in 1..m[i].n : i + j \in 1..(a - 1)
      BY <1>1, <2>1, <3>2, <3>3
    <3>5. \A j \in 1..m[i].n : e[i + j] = m[i + j]
      BY <1>2, <3>4
    <3>6. {e[i + j].n : j \in 1..m[i].n} = {m[i + j].n : j \in 1..m[i].n}
      BY <3>5, Zenon
    <3>7. i + m[i].n <= Len(e)
      BY <1>1, <1>4, <3>2, <3>3
    <3> QED BY <3>1, <3>2, <3>5, <3>6, <3>7
  <2>2. CASE i \in a..Len(e)
    <3>1. e[i] = m[i + d] /\ i + d \in 1..Len(m)
      BY <1>5, <2>2
    <3> DEFINE p == i + d
    <3>2. /\ p + m[p].n <= Len(m) /\ m[p].n \in Nat
          /\ {m[p + j].n : j \in 1..m[p].n} = 1..m[p].n
          /\ \A j \in 1..m[p].n : m[p + j].role = "tool" /\ m[p + j].at = m[p].at
      BY <1>3, <1>6, <3>1, Zenon DEF PairedTo
    <3>3. e[i].n = m[p].n /\ e[i].at = m[p].at
      BY <3>1
    <3>4. \A j \in 1..m[p].n : i + j \in a..Len(e) /\ p + j = (i + j) + d
      <4> DEFINE n == m[p].n
      <4>1. p = i + d /\ n \in Nat /\ p + n <= Len(m)
        BY <3>2
      <4> HIDE DEF n, p
      <4>2. \A j \in 1..n : i + j \in a..Len(e) /\ p + j = (i + j) + d
        BY <1>1, <1>4, <2>2, <4>1
      <4> QED BY <4>2 DEF n
    <3>5. \A j \in 1..m[p].n : e[i + j] = m[p + j]
      BY <1>5, <3>4
    <3>6. {e[i + j].n : j \in 1..m[p].n} = {m[p + j].n : j \in 1..m[p].n}
      BY <3>5, Zenon
    <3>7. i + m[p].n <= Len(e)
      BY <1>1, <1>4, <2>2, <3>2
    <3> HIDE DEF p
    <3> QED BY <3>2, <3>3, <3>5, <3>6, <3>7
  <2> QED BY <1>1, <2>1, <2>2
<1>7. ASSUME NEW i \in 1..Len(e), e[i].role = "tool"
      PROVE  \E h \in 1..(i - 1) : e[h].role = "assistant" /\ i - h <= e[h].n
  <2>1. CASE i \in 1..(a - 1)
    <3>0. e[i] = m[i]
      BY <1>2, <2>1, Zenon
    <3>1. e[i] = m[i] /\ i \in 1..Len(m)
      BY <1>1, <2>1, <3>0
    <3>2. PICK h \in 1..(i - 1) : m[h].role = "assistant" /\ i - h <= m[h].n
      BY <1>7, <3>1, Zenon DEF PairedTo
    <3>3. h \in 1..(a - 1)
      BY <1>1, <2>1
    <3> QED BY <1>2, <3>2, <3>3
  <2>2. CASE i \in a..Len(e)
    <3>1. e[i] = m[i + d] /\ i + d \in 1..Len(m) /\ i + d >= b
      BY <1>1, <1>5, <2>2
    <3> DEFINE p == i + d
    <3>a. p \in 1..Len(m) /\ m[p].role = "tool"
      BY <1>7, <3>1
    <3> HIDE DEF p
    <3>b. PICK h \in 1..(p - 1) : m[h].role = "assistant" /\ p - h <= m[h].n
      BY <3>a, Zenon DEF PairedTo
    <3> USE DEF p
    <3>2. h \in 1..((i + d) - 1) /\ m[h].role = "assistant" /\ (i + d) - h <= m[h].n
      BY <3>b
    <3>3. h >= b
      <4> SUFFICES ASSUME h < b PROVE FALSE
        BY <1>1, <3>2
      <4>1. h \in 1..Len(m) /\ m[h].n \in Nat
        BY <1>1, <1>3, <3>1
      <4>2. b - h \in 1..m[h].n /\ h + (b - h) = b
        BY <1>1, <1>4, <2>2, <3>1, <3>2, <4>1
      <4>3. \A j \in 1..m[h].n : m[h + j].role = "tool"
        BY <3>2, <4>1, Zenon DEF PairedTo
      <4>4. m[b].role = "tool"
        BY <4>2, <4>3
      <4> QED BY <1>1, <4>4
    <3>4. h - d \in a..Len(e) /\ (h - d) + d = h /\ h - d \in 1..(i - 1)
      BY <1>1, <1>4, <2>2, <3>2, <3>3
    <3>5. e[h - d] = m[h]
      BY <1>5, <3>4
    <3>6. i - (h - d) = (i + d) - h
      BY <1>1, <1>4, <2>2, <3>2
    <3> QED BY <3>2, <3>4, <3>5, <3>6
  <2> QED BY <1>1, <2>1, <2>2
<1> QED BY <1>6, <1>7, Zenon DEF PairedTo

(* The turn at hand: its call message, and behind it the q results it has so *)
(* far, for every call in order but the one numbered f.                      *)
OpenTurn(m, q, f, N, it) ==
    LET a == Len(m) - q
    IN  /\ a \in 1..Len(m) /\ PairedTo(m, a - 1)
        /\ m[a].role = "assistant" /\ m[a].n = N /\ m[a].at = it
        /\ \A j \in 1..q : m[a + j].role = "tool" /\ m[a + j].at = it
                           /\ m[a + j].n = IF j < f THEN j ELSE j + 1

(* What the dedup knows of an observation is in the transcript, and so is    *)
(* what a reference stands for, ahead of it.                                 *)
Original(m, obs, it, j) == m[j].role = "tool" /\ m[j].at = it /\ m[j].ref = 0 /\ m[j].what = obs

Resolved(m, sn) ==
    /\ \A i \in DOMAIN m : m[i].ref # 0 => m[i].role = "tool" /\
                                           \E j \in 1..(i - 1) : Original(m, m[i].what, m[i].ref, j)
    /\ \A p \in sn : \E j \in DOMAIN m : Original(m, p[1], p[2], j)

(* The transcript through the phases of a turn. *)
TranscriptInv ==
    /\ phase \in {"top", "generate", "reply", "done"} => PairedTo(msgs, Len(msgs))
    /\ phase \in {"dispatch", "endTurn"} =>
          OpenTurn(msgs, k - 1, Len(reply.calls) + 1, Len(reply.calls), iter)
    /\ phase = "endTurn" => k = IF isText THEN 1 ELSE Len(reply.calls) + 1
    /\ phase = "finishing" =>
          /\ k <= Len(reply.calls) + 1
          /\ OpenTurn(msgs, IF k > findCall THEN k - 2 ELSE k - 1, findCall, Len(reply.calls), iter)
    /\ ~evicted => Resolved(msgs, seen)

-----------------------------------------------------------------------------
Grows(m, e) == e \in Seq(Message) /\ Len(e) >= Len(m) /\ \A i \in 1..Len(m) : e[i] = m[i]

Plain(x) == x.ref = 0 /\ (x.role = "user" \/ (x.role = "assistant" /\ x.n = 0))

(* Messages of a transcript carry numbers. *)
LEMMA Numbers ==
    ASSUME NEW m \in Seq(Message)
    PROVE  /\ Len(m) \in Nat /\ DOMAIN m = 1..Len(m)
           /\ \A i \in 1..Len(m) : m[i] \in Message /\ m[i].n \in Nat
<1>1. \A x \in Message : x.n \in Nat
  BY Zenon DEF Message
<1>2. Len(m) \in Nat /\ DOMAIN m = 1..Len(m) /\ \A i \in 1..Len(m) : m[i] \in Message
  OBVIOUS
<1> QED BY <1>1, <1>2, Zenon

(* A closed transcript stays closed when messages without calls follow. *)
LEMMA ClosedGrows ==
    ASSUME NEW m \in Seq(Message), NEW e, Grows(m, e), PairedTo(m, Len(m)),
           \A i \in (Len(m) + 1)..Len(e) : Plain(e[i])
    PROVE  PairedTo(e, Len(e))
<1>1. /\ Len(m) \in Nat /\ Len(e) \in Nat /\ Len(m) <= Len(e)
      /\ \A i \in 1..Len(m) : e[i] = m[i] /\ m[i].n \in Nat
  BY Numbers DEF Grows
<1>2. PairedTo(e, Len(m))
  <2> DEFINE l == Len(m)
  <2>1. l \in Nat /\ PairedTo(m, l) /\ \A i \in 1..l : e[i] = m[i] /\ m[i].n \in Nat
    BY <1>1
  <2> HIDE DEF l
  <2>2. PairedTo(e, l)
    BY <2>1, PairedPrefix
  <2> QED BY <2>2 DEF l
<1>3. \A i \in 1..Len(m) : e[i].n \in Nat
  BY <1>1
<1> QED BY <1>1, <1>2, <1>3, PairedPlain DEF Plain

(* References resolve in what follows, too. *)
LEMMA ResolvedGrows ==
    ASSUME NEW m \in Seq(Message), NEW e, Grows(m, e), NEW sn, Resolved(m, sn),
           \A i \in (Len(m) + 1)..Len(e) : e[i].ref = 0
    PROVE  Resolved(e, sn)
<1>1. /\ Len(m) \in Nat /\ Len(e) \in Nat /\ Len(m) <= Len(e) /\ DOMAIN m = 1..Len(m) /\ DOMAIN e = 1..Len(e)
      /\ \A i \in 1..Len(m) : e[i] = m[i]
  BY Numbers DEF Grows
<1>2. \A i \in 1..Len(e) : i \in 1..Len(m) \/ i \in (Len(m) + 1)..Len(e)
  BY <1>1
<1>3. \A i \in 1..Len(m) : i \in 1..Len(e) /\ \A j \in 1..(i - 1) : j \in 1..Len(m)
  BY <1>1
<1>4. ASSUME NEW i \in DOMAIN e, e[i].ref # 0
      PROVE  e[i].role = "tool" /\ \E j \in 1..(i - 1) : Original(e, e[i].what, e[i].ref, j)
  <2>1. i \in 1..Len(m) /\ e[i] = m[i]
    BY <1>1, <1>2, <1>4
  <2>2. m[i].role = "tool" /\ \E j \in 1..(i - 1) : Original(m, m[i].what, m[i].ref, j)
    BY <1>1, <1>4, <2>1, Zenon DEF Resolved
  <2>3. PICK j \in 1..(i - 1) : Original(m, m[i].what, m[i].ref, j)
    BY <2>2
  <2>4. e[j] = m[j]
    BY <1>1, <1>3, <2>1
  <2> QED BY <2>1, <2>2, <2>3, <2>4, Zenon DEF Original
<1>5. ASSUME NEW p \in sn PROVE \E j \in DOMAIN e : Original(e, p[1], p[2], j)
  <2>1. PICK j \in DOMAIN m : Original(m, p[1], p[2], j)
    BY Zenon DEF Resolved
  <2>2. e[j] = m[j] /\ j \in DOMAIN e
    BY <1>1, <1>3, <2>1
  <2> QED BY <2>1, <2>2, Zenon DEF Original
<1> QED BY <1>4, <1>5, Zenon DEF Resolved

(* An observation goes out: in full and known from then on, or as a          *)
(* reference to one that is known.                                           *)
LEMMA ResolvedStub ==
    ASSUME NEW m \in Seq(Message), NEW e, Grows(m, e), NEW sn, NEW sn2, Resolved(m, sn),
           NEW obs, NEW it, NEW ref, Len(e) > Len(m),
           e[Len(m) + 1].role = "tool", e[Len(m) + 1].at = it, e[Len(m) + 1].what = obs, e[Len(m) + 1].ref = ref,
           \/ ref = 0 /\ sn2 \in {sn, sn \cup {<<obs, it>>}}
           \/ <<obs, ref>> \in sn /\ sn2 = sn,
           \A i \in (Len(m) + 2)..Len(e) : e[i].ref = 0
    PROVE  Resolved(e, sn2)
<1> DEFINE l == Len(m)
<1>1. /\ l \in Nat /\ Len(e) \in Nat /\ l < Len(e) /\ DOMAIN m = 1..l /\ DOMAIN e = 1..Len(e)
      /\ \A i \in 1..l : e[i] = m[i]
  BY Numbers DEF Grows
<1>0. /\ e[l + 1].role = "tool" /\ e[l + 1].at = it /\ e[l + 1].what = obs /\ e[l + 1].ref = ref
      /\ \A i \in (l + 2)..Len(e) : e[i].ref = 0
  OBVIOUS
<1> HIDE DEF l
<1>2. \A i \in 1..Len(e) : i \in 1..l \/ i = l + 1 \/ i \in (l + 2)..Len(e)
  BY <1>1
<1>3. \A i \in 1..l : i \in 1..Len(e) /\ \A j \in 1..(i - 1) : j \in 1..l
  BY <1>1
<1>a. l + 1 \in 1..Len(e) /\ (l + 1) - 1 = l
  BY <1>1
<1>4. ASSUME NEW p \in sn PROVE \E j \in 1..l : Original(e, p[1], p[2], j)
  <2>1. PICK j \in 1..l : Original(m, p[1], p[2], j)
    BY <1>1, Zenon DEF Resolved
  <2>2. e[j] = m[j]
    BY <1>1
  <2> QED BY <2>1, <2>2, Zenon DEF Original
<1>5. ASSUME NEW i \in DOMAIN e, e[i].ref # 0
      PROVE  e[i].role = "tool" /\ \E j \in 1..(i - 1) : Original(e, e[i].what, e[i].ref, j)
  <2>1. CASE i \in 1..l
    <3>1. e[i] = m[i]
      BY <1>1, <2>1
    <3>2. m[i].role = "tool" /\ \E j \in 1..(i - 1) : Original(m, m[i].what, m[i].ref, j)
      BY <1>1, <1>5, <2>1, <3>1, Zenon DEF Resolved
    <3>3. PICK j \in 1..(i - 1) : Original(m, m[i].what, m[i].ref, j)
      BY <3>2
    <3>4. e[j] = m[j]
      BY <1>1, <1>3, <2>1
    <3> QED BY <3>1, <3>2, <3>3, <3>4, Zenon DEF Original
  <2>2. CASE i = l + 1
    <3>1. ref # 0 /\ e[i].what = obs /\ e[i].ref = ref /\ e[i].role = "tool"
      BY <1>0, <1>5, <2>2
    <3>2. <<obs, ref>> \in sn
      BY <3>1
    <3>3. PICK j \in 1..l : Original(e, <<obs, ref>>[1], <<obs, ref>>[2], j)
      BY <1>4, <3>2
    <3>4. Original(e, obs, ref, j)
      BY <3>3
    <3>5. j \in 1..(i - 1)
      BY <1>a, <2>2
    <3> QED BY <3>1, <3>4, <3>5
  <2>3. CASE i \in (l + 2)..Len(e)
    BY <1>0, <1>5, <2>3
  <2> QED BY <1>1, <1>2, <2>1, <2>2, <2>3
<1>6. ASSUME NEW p \in sn2 PROVE \E j \in DOMAIN e : Original(e, p[1], p[2], j)
  <2>1. CASE p \in sn
    <3>1. \A j \in 1..l : j \in DOMAIN e
      BY <1>1, <1>3
    <3> QED BY <1>4, <2>1, <3>1, Zenon
  <2>2. CASE p \notin sn
    <3>1. ref = 0 /\ p = <<obs, it>>
      BY <2>2
    <3>2. Original(e, p[1], p[2], l + 1)
      BY <1>0, <3>1 DEF Original
    <3> QED BY <1>1, <1>a, <3>2
  <2> QED BY <2>1, <2>2
<1> QED BY <1>5, <1>6, Zenon DEF Resolved

(* The results of a turn come one after the other. *)
LEMMA SubtractBack ==
    ASSUME NEW l \in Nat, NEW q \in Nat, NEW a \in 1..l, a = l - q
    PROVE  a + q = l /\ a \in Nat
OBVIOUS


(* An open turn stays open while its own results are appended in order.      *)
LEMMA OpenGrows ==
    ASSUME NEW m \in Seq(Message), NEW e, Grows(m, e), NEW q \in Nat, NEW f \in Nat, NEW N, NEW it,
           OpenTurn(m, q, f, N, it), NEW x \in Nat, Len(e) = Len(m) + x,
           \A i \in 1..x : /\ e[Len(m) + i].role = "tool" /\ e[Len(m) + i].at = it
                           /\ e[Len(m) + i].n = IF q + i < f THEN q + i ELSE q + i + 1
    PROVE  OpenTurn(e, q + x, f, N, it)
<1> DEFINE l == Len(m)
           a == Len(m) - q
<1>1. /\ a \in 1..l /\ PairedTo(m, a - 1)
      /\ m[a].role = "assistant" /\ m[a].n = N /\ m[a].at = it
      /\ \A j \in 1..q : m[a + j].role = "tool" /\ m[a + j].at = it /\ m[a + j].n = IF j < f THEN j ELSE j + 1
  BY Zenon DEF OpenTurn
<1>2. /\ l \in Nat /\ a + q = l /\ a \in Nat
      /\ \A i \in 1..l : e[i] = m[i] /\ m[i].n \in Nat
      /\ Len(e) = l + x /\ Len(e) - (q + x) = a
  <2>1. l \in Nat /\ \A i \in 1..l : e[i] = m[i] /\ m[i].n \in Nat
    BY Numbers DEF Grows
  <2>2. a = l - q /\ Len(e) = l + x
    OBVIOUS
  <2>3. a \in 1..l
    BY <1>1
  <2> HIDE DEF l, a
  <2>4. a + q = l /\ a \in Nat
    BY <2>1, <2>2, <2>3, SubtractBack, Zenon
  <2>5. Len(e) - (q + x) = a
    <3> DEFINE L == Len(e)
    <3>1. L = l + x /\ a + q = l /\ a \in Nat /\ l \in Nat
      BY <2>1, <2>2, <2>4
    <3> HIDE DEF L
    <3>2. L - (q + x) = a
      BY <3>1
    <3> QED BY <3>2 DEF L
  <2> QED BY <2>1, <2>2, <2>4, <2>5
<1>3. \A i \in 1..x : /\ e[l + i].role = "tool" /\ e[l + i].at = it
                      /\ e[l + i].n = IF q + i < f THEN q + i ELSE q + i + 1
  OBVIOUS
<1>0. OpenTurn(e, q + x, f, N, it) <=>
        /\ Len(e) - (q + x) \in 1..Len(e) /\ PairedTo(e, (Len(e) - (q + x)) - 1)
        /\ e[Len(e) - (q + x)].role = "assistant" /\ e[Len(e) - (q + x)].n = N /\ e[Len(e) - (q + x)].at = it
        /\ \A j \in 1..(q + x) : /\ e[(Len(e) - (q + x)) + j].role = "tool" /\ e[(Len(e) - (q + x)) + j].at = it
                                 /\ e[(Len(e) - (q + x)) + j].n = IF j < f THEN j ELSE j + 1
  BY Zenon DEF OpenTurn
<1> HIDE DEF l, a
<1>4. PairedTo(e, a - 1)
  <2>1. a - 1 \in Nat /\ \A i \in 1..(a - 1) : e[i] = m[i] /\ m[i].n \in Nat
    BY <1>1, <1>2
  <2> DEFINE b == a - 1
  <2>2. b \in Nat /\ (\A i \in 1..b : e[i] = m[i] /\ m[i].n \in Nat) /\ PairedTo(m, b)
    BY <1>1, <2>1
  <2> HIDE DEF b
  <2>3. PairedTo(e, b)
    BY <2>2, PairedPrefix
  <2> QED BY <2>3 DEF b
<1>5. a \in 1..Len(e) /\ e[a] = m[a]
  BY <1>1, <1>2
<1>6. ASSUME NEW j \in 1..(q + x)
      PROVE  e[a + j].role = "tool" /\ e[a + j].at = it /\ e[a + j].n = IF j < f THEN j ELSE j + 1
  <2>1. CASE j \in 1..q
    <3>1. a + j \in 1..l
      BY <1>1, <1>2, <2>1
    <3>2. e[a + j] = m[a + j]
      BY <1>2, <3>1
    <3> QED BY <1>1, <2>1, <3>2
  <2>2. CASE ~(j \in 1..q)
    <3>1. j - q \in 1..x /\ l + (j - q) = a + j /\ q + (j - q) = j
      BY <1>2, <2>2
    <3> QED BY <1>3, <3>1
  <2> QED BY <2>1, <2>2
<1> QED BY <1>0, <1>1, <1>2, <1>4, <1>5, <1>6

(* A call message opens a turn. *)
LEMMA Opened ==
    ASSUME NEW m \in Seq(Message), PairedTo(m, Len(m)), NEW x \in Message, x.role = "assistant"
    PROVE  OpenTurn(Append(m, x), 0, x.n + 1, x.n, x.at) /\ \A f : OpenTurn(Append(m, x), 0, f, x.n, x.at)
<1> DEFINE e == Append(m, x)
           l == Len(m)
<1>1. /\ l \in Nat /\ Len(e) = l + 1 /\ e[l + 1] = x /\ \A i \in 1..l : e[i] = m[i] /\ m[i].n \in Nat
  <2>1. l \in Nat /\ \A i \in 1..l : m[i].n \in Nat
    BY Numbers
  <2> QED BY <2>1
<1>2. l \in Nat /\ PairedTo(m, l)
  BY <1>1
<1> HIDE DEF e, l
<1>3. PairedTo(e, l)
  BY <1>1, <1>2, PairedPrefix
<1>4. Len(e) - 0 = l + 1 /\ l + 1 \in 1..Len(e) /\ (l + 1) - 1 = l /\ 1..0 = {}
  BY <1>1
<1>5. ASSUME NEW f PROVE OpenTurn(e, 0, f, x.n, x.at)
  <2> DEFINE a == Len(e) - 0
  <2>1. a = l + 1
    BY <1>4
  <2> HIDE DEF a
  <2>2. /\ a \in 1..Len(e) /\ PairedTo(e, a - 1)
        /\ e[a].role = "assistant" /\ e[a].n = x.n /\ e[a].at = x.at
        /\ \A j \in 1..0 : e[a + j].role = "tool" /\ e[a + j].at = x.at /\ e[a + j].n = IF j < f THEN j ELSE j + 1
    BY <1>1, <1>3, <1>4, <2>1
  <2> QED BY <2>2, Zenon DEF OpenTurn, a
<1> QED BY <1>5 DEF e

(* With all its results behind it, it is closed: in order, *)
LEMMA OpenCloses ==
    ASSUME NEW m \in Seq(Message), NEW N \in Nat, NEW it, OpenTurn(m, N, N + 1, N, it)
    PROVE  PairedTo(m, Len(m))
<1> DEFINE a == Len(m) - N
           l == a - 1
<1>1. /\ a \in 1..Len(m) /\ PairedTo(m, l)
      /\ m[a].role = "assistant" /\ m[a].n = N /\ m[a].at = it
      /\ \A j \in 1..N : m[a + j].role = "tool" /\ m[a + j].at = it /\ m[a + j].n = IF j < N + 1 THEN j ELSE j + 1
  BY Zenon DEF OpenTurn
<1> HIDE DEF a
<1>2. Len(m) \in Nat /\ a + N = Len(m) /\ l \in Nat /\ a = l + 1 /\ l + 1 + N = Len(m)
      /\ \A i \in 1..l : m[i].n \in Nat
  <2>1. Len(m) \in Nat /\ \A i \in 1..Len(m) : m[i].n \in Nat
    BY Numbers
  <2> QED BY <1>1, <2>1 DEF a
<1>3. \A j \in 1..N : m[a + j].n = j
  BY <1>1
<1> HIDE DEF l
<1>4. \A j \in 1..N : m[l + 1 + j].n = j /\ m[l + 1 + j].role = "tool" /\ m[l + 1 + j].at = m[l + 1].at
  BY <1>1, <1>2, <1>3
<1>4a. {m[l + 1 + j].n : j \in 1..N} = 1..N
  BY <1>4
<1>4b. m[l + 1].role = "assistant" /\ m[l + 1].n = N
  BY <1>1, <1>2
<1>5. PairedTo(m, l + 1 + N)
  BY <1>1, <1>2, <1>4, <1>4a, <1>4b, PairedTurn
<1> QED BY <1>2, <1>5

(* or with the finish call's result last. *)
LEMMA OpenFinishes ==
    ASSUME NEW m \in Seq(Message), NEW N \in Nat, NEW f \in 1..N, NEW it, OpenTurn(m, N - 1, f, N, it),
           NEW x \in Message, x.role = "tool", x.at = it, x.n = f
    PROVE  PairedTo(Append(m, x), Len(m) + 1)
<1> DEFINE e == Append(m, x)
           a == Len(m) - (N - 1)
           l == a - 1
<1>1. /\ a \in 1..Len(m) /\ PairedTo(m, l)
      /\ m[a].role = "assistant" /\ m[a].n = N /\ m[a].at = it
      /\ \A j \in 1..(N - 1) : m[a + j].role = "tool" /\ m[a + j].at = it /\ m[a + j].n = IF j < f THEN j ELSE j + 1
  BY Zenon DEF OpenTurn
<1>2. /\ Len(m) \in Nat /\ Len(e) = Len(m) + 1 /\ e[Len(m) + 1] = x
      /\ \A i \in 1..Len(m) : e[i] = m[i] /\ m[i].n \in Nat
  <2>1. Len(m) \in Nat /\ \A i \in 1..Len(m) : m[i].n \in Nat
    BY Numbers
  <2> QED BY <2>1
<1> HIDE DEF a, e
<1>3. /\ a + N = Len(m) + 1 /\ l \in Nat /\ a = l + 1 /\ l + 1 + N = Len(m) + 1
      /\ \A j \in 1..(N - 1) : a + j \in 1..Len(m)
      /\ \A i \in 1..l : i \in 1..Len(m)
  BY <1>1, <1>2 DEF a
<1>4. e[a] = m[a] /\ \A i \in 1..l : e[i] = m[i] /\ m[i].n \in Nat /\ e[i].n \in Nat
  BY <1>1, <1>2, <1>3
<1> HIDE DEF l
<1>5. \A j \in 1..N : /\ e[a + j].role = "tool" /\ e[a + j].at = it
                      /\ e[a + j].n = IF j = N THEN f ELSE IF j < f THEN j ELSE j + 1
  <2> SUFFICES ASSUME NEW j \in 1..N
               PROVE  /\ e[a + j].role = "tool" /\ e[a + j].at = it
                      /\ e[a + j].n = IF j = N THEN f ELSE IF j < f THEN j ELSE j + 1
    OBVIOUS
  <2>1. CASE j = N
    <3>1. e[a + j] = x
      BY <1>2, <1>3, <2>1
    <3> QED BY <2>1, <3>1
  <2>2. CASE j # N
    <3>1. j \in 1..(N - 1) /\ e[a + j] = m[a + j]
      BY <1>2, <1>3, <2>2
    <3> QED BY <1>1, <2>2, <3>1
  <2> QED BY <2>1, <2>2
<1>6. {e[a + j].n : j \in 1..N} = 1..N
  <2> DEFINE num(j) == IF j = N THEN f ELSE IF j < f THEN j ELSE j + 1
  <2>1. \A j \in 1..N : num(j) \in 1..N
    OBVIOUS
  <2>2. \A n \in 1..N : \E j \in 1..N : num(j) = n
    <3> SUFFICES ASSUME NEW n \in 1..N PROVE \E j \in 1..N : num(j) = n
      OBVIOUS
    <3>1. CASE n = f
      <4>1. N \in 1..N /\ num(N) = n
        BY <3>1
      <4> QED BY <4>1
    <3>2. CASE n < f
      <4>1. num(n) = n
        BY <3>2
      <4> QED BY <4>1
    <3>3. CASE n > f
      <4>1. n - 1 \in 1..N /\ num(n - 1) = n
        BY <3>3
      <4> QED BY <4>1
    <3> QED BY <3>1, <3>2, <3>3
  <2>3. \A j \in 1..N : e[a + j].n = num(j)
    BY <1>5
  <2> HIDE DEF num
  <2>4. {e[a + j].n : j \in 1..N} = {num(j) : j \in 1..N}
    BY <2>3
  <2>5. {num(j) : j \in 1..N} = 1..N
    BY <2>1, <2>2
  <2> QED BY <2>4, <2>5
<1>7. PairedTo(e, l)
  BY <1>1, <1>3, <1>4, PairedPrefix
<1>8. PairedTo(e, l + 1 + N)
  <2>1. e[l + 1].role = "assistant" /\ e[l + 1].n = N /\ e[l + 1].at = it
    BY <1>1, <1>3, <1>4
  <2>2. \A j \in 1..N : e[l + 1 + j].role = "tool" /\ e[l + 1 + j].at = e[l + 1].at /\ e[l + 1 + j].n = e[a + j].n
    BY <1>3, <1>5, <2>1
  <2>3. {e[l + 1 + j].n : j \in 1..N} = 1..N
    <3> DEFINE u(j) == e[l + 1 + j].n
               v(j) == e[a + j].n
    <3>1. (\A j \in 1..N : u(j) = v(j)) /\ {v(j) : j \in 1..N} = 1..N
      BY <1>6, <2>2
    <3> HIDE DEF u, v
    <3>2. {u(j) : j \in 1..N} = 1..N
      BY <3>1, SMT
    <3> QED BY <3>2 DEF u
  <2>4. \A i \in 1..l : e[i].n \in Nat
    BY <1>4
  <2> QED BY <1>3, <1>7, <2>1, <2>2, <2>3, <2>4, PairedTurn
<1> QED BY <1>3, <1>8 DEF e

(* Append grows the transcript by its message, *)
LEMMA GrowsAppend ==
    ASSUME NEW m \in Seq(Message), NEW x \in Message
    PROVE  Grows(m, Append(m, x)) /\ Len(Append(m, x)) = Len(m) + 1 /\ Append(m, x)[Len(m) + 1] = x
<1>1. Append(m, x) \in Seq(Message) /\ Len(m) \in Nat /\ Len(Append(m, x)) = Len(m) + 1
      /\ Append(m, x)[Len(m) + 1] = x /\ \A i \in 1..Len(m) : Append(m, x)[i] = m[i]
  OBVIOUS
<1> QED BY <1>1 DEF Grows

(* and concatenation by its messages. *)
LEMMA GrowsConcat ==
    ASSUME NEW m \in Seq(Message), NEW t \in Seq(Message)
    PROVE  /\ Grows(m, m \o t) /\ Len(m \o t) = Len(m) + Len(t)
           /\ \A i \in 1..Len(t) : (m \o t)[Len(m) + i] = t[i]
<1>1. Len(m) \in Nat /\ Len(t) \in Nat
  BY Numbers
<1>2. /\ m \o t \in Seq(Message) /\ Len(m \o t) = Len(m) + Len(t)
      /\ \A i \in 1..(Len(m) + Len(t)) : (m \o t)[i] = IF i <= Len(m) THEN m[i] ELSE t[i - Len(m)]
  BY ConcatProperties
<1>3. \A i \in 1..Len(m) : (m \o t)[i] = m[i]
  BY <1>1, <1>2
<1>4. \A i \in 1..Len(t) : (m \o t)[Len(m) + i] = t[i]
  <2> SUFFICES ASSUME NEW i \in 1..Len(t) PROVE (m \o t)[Len(m) + i] = t[i]
    OBVIOUS
  <2> DEFINE p == Len(m) + i
  <2>1. p \in 1..(Len(m) + Len(t)) /\ ~(p <= Len(m)) /\ p - Len(m) = i
    BY <1>1
  <2> HIDE DEF p
  <2>2. (m \o t)[p] = t[p - Len(m)]
    BY <1>2, <2>1
  <2> QED BY <2>1, <2>2 DEF p
<1> QED BY <1>1, <1>2, <1>3, <1>4 DEF Grows

(* Messages without calls, results or references. *)
PlainGrows(m, e) == Grows(m, e) /\ \A i \in (Len(m) + 1)..Len(e) : Plain(e[i])

(* A transcript grows plainly into itself, *)
LEMMA PlainSame == ASSUME NEW m \in Seq(Message) PROVE PlainGrows(m, m)
  BY Numbers DEF PlainGrows, Grows

(* in several steps, *)
LEMMA PlainTransitive ==
    ASSUME NEW m \in Seq(Message), NEW e, NEW g, PlainGrows(m, e), PlainGrows(e, g)
    PROVE  PlainGrows(m, g)
<1>1. /\ e \in Seq(Message) /\ Len(e) >= Len(m) /\ \A i \in 1..Len(m) : e[i] = m[i]
      /\ \A i \in (Len(m) + 1)..Len(e) : Plain(e[i])
  BY DEF PlainGrows, Grows
<1>2. /\ g \in Seq(Message) /\ Len(g) >= Len(e) /\ \A i \in 1..Len(e) : g[i] = e[i]
      /\ \A i \in (Len(e) + 1)..Len(g) : Plain(g[i])
  BY DEF PlainGrows, Grows
<1>3. Len(m) \in Nat /\ Len(e) \in Nat /\ Len(g) \in Nat
  BY <1>1, <1>2, Numbers
<1>4. \A i \in 1..Len(m) : g[i] = m[i]
  BY <1>1, <1>2, <1>3
<1>5. \A i \in (Len(m) + 1)..Len(g) : Plain(g[i])
  <2> SUFFICES ASSUME NEW i \in (Len(m) + 1)..Len(g) PROVE Plain(g[i])
    OBVIOUS
  <2>1. (i \in (Len(m) + 1)..Len(e) /\ i \in 1..Len(e)) \/ i \in (Len(e) + 1)..Len(g)
    BY <1>3
  <2>2. CASE i \in (Len(m) + 1)..Len(e) /\ i \in 1..Len(e)
    <3>1. g[i] = e[i] /\ Plain(e[i])
      BY <1>1, <1>2, <2>2
    <3> QED BY <3>1
  <2>3. CASE i \in (Len(e) + 1)..Len(g)
    BY <1>2, <2>3
  <2> QED BY <2>1, <2>2, <2>3
<1> QED BY <1>1, <1>2, <1>3, <1>4, <1>5 DEF PlainGrows, Grows

(* and by a plain message. *)
LEMMA PlainAppend ==
    ASSUME NEW m \in Seq(Message), NEW x \in Message, Plain(x)
    PROVE  PlainGrows(m, Append(m, x))
<1>1. Grows(m, Append(m, x)) /\ Len(Append(m, x)) = Len(m) + 1 /\ Append(m, x)[Len(m) + 1] = x /\ Len(m) \in Nat
  BY GrowsAppend, Numbers
<1>2. \A i \in (Len(m) + 1)..(Len(m) + 1) : i = Len(m) + 1
  BY <1>1
<1> QED BY <1>1, <1>2, Zenon DEF PlainGrows

(* User messages and answers are plain. *)
LEMMA PlainMessages ==
    ASSUME EnvOK, ReplyOK
    PROVE  /\ \A w \in Words : User(w) \in Message /\ Plain(User(w))
           /\ said(0) \in Message /\ Plain(said(0))
           /\ reply.calls = <<>> => Assistant \in Message /\ Plain(Assistant)
<1>1. \A w : User(w).role = "user" /\ User(w).ref = 0
  BY DEF User
<1>2. said(0).role = "assistant" /\ said(0).ref = 0 /\ said(0).n = 0
  BY DEF said
<1>3. Assistant.role = "assistant" /\ Assistant.ref = 0 /\ (reply.calls = <<>> => Assistant.n = 0)
  BY DEF Assistant
<1> QED BY <1>1, <1>2, <1>3, MessagesOK DEF Plain

(* So are hints. *)
LEMMA PlainHint ==
    ASSUME EnvOK, ReplyOK, NEW m \in Seq(Message), NEW due \in BOOLEAN
    PROVE  PlainGrows(m, m \o hint(due)) /\ m \o hint(due) \in Seq(Message)
<1>1. hint(due) \in Seq(Message)
  BY MessagesOK
<1>2. /\ Grows(m, m \o hint(due)) /\ Len(m \o hint(due)) = Len(m) + Len(hint(due))
      /\ \A i \in 1..Len(hint(due)) : (m \o hint(due))[Len(m) + i] = hint(due)[i]
  BY <1>1, GrowsConcat
<1>3. \A i \in 1..Len(hint(due)) : Plain(hint(due)[i])
  <2>1. CASE due = TRUE
    <3>1. hint(due) = <<User("hint")>> /\ "hint" \in Words
      BY <2>1 DEF hint, Words
    <3>2. Plain(User("hint"))
      BY <3>1, PlainMessages
    <3>3. Len(hint(due)) = 1 /\ hint(due)[1] = User("hint")
      BY <3>1
    <3>4. \A i \in 1..1 : i = 1
      OBVIOUS
    <3> QED BY <3>2, <3>3, <3>4, Zenon
  <2>2. CASE due = FALSE
    <3>1. hint(due) = <<>>
      BY <2>2 DEF hint
    <3>2. Len(hint(due)) = 0 /\ 1..0 = {}
      BY <3>1
    <3> QED BY <3>2
  <2> QED BY <2>1, <2>2
<1>4. \A i \in (Len(m) + 1)..Len(m \o hint(due)) : Plain((m \o hint(due))[i])
  <2> DEFINE e == m \o hint(due)
             l == Len(m)
             h == Len(hint(due))
  <2>1. l \in Nat /\ h \in Nat /\ Len(e) = l + h
    BY <1>1, <1>2, Numbers
  <2>2. \A j \in 1..h : e[l + j] = hint(due)[j] /\ Plain(hint(due)[j])
    BY <1>2, <1>3
  <2> HIDE DEF e, l, h
  <2>3. ASSUME NEW i \in (l + 1)..Len(e) PROVE Plain(e[i])
    <3>1. i - l \in 1..h /\ l + (i - l) = i
      BY <2>1
    <3> QED BY <2>2, <3>1
  <2> QED BY <2>3 DEF e, l
<1> QED BY <1>2, <1>4 DEF PlainGrows, Grows

-----------------------------------------------------------------------------
(* A step that leaves the transcript closed. *)
LEMMA TranscriptPlain ==
    ASSUME msgs \in Seq(Message), PairedTo(msgs, Len(msgs)), ~evicted => Resolved(msgs, seen),
           PlainGrows(msgs, msgs'), phase' \in {"top", "generate", "reply", "done"}, UNCHANGED <<seen, evicted>>
    PROVE  TranscriptInv'
<1>1. PairedTo(msgs', Len(msgs'))
  BY ClosedGrows DEF PlainGrows
<1>2. ~evicted => Resolved(msgs', seen)
  BY ResolvedGrows DEF PlainGrows, Plain
<1>3. PairedTo(msgs, Len(msgs))'
  BY <1>1
<1>4. (~evicted => Resolved(msgs, seen))'
  BY <1>2
<1> QED BY <1>3, <1>4 DEF TranscriptInv

(* The top of a turn and the model call: the standing block, the reasoning *)
(* dropped, the oldest turns evicted; the transcript stays closed.         *)
LEMMA SharedTranscript ==
    ASSUME LoopInv, TranscriptInv, sharedStep
    PROVE  TranscriptInv'
<1>0. /\ msgs \in Seq(Message) /\ EnvOK /\ ReplyOK
      /\ phase \in {"top", "generate"} => PairedTo(msgs, Len(msgs))
      /\ ~evicted => Resolved(msgs, seen)
  BY DEF LoopInv, SentOK, TranscriptInv
<1>1. CASE turnStarts
  <2>1. /\ phase = "top" /\ phase' \in {"generate", "done"} /\ UNCHANGED <<seen, evicted>>
        /\ msgs' \in {msgs, Append(msgs, User("standing"))}
    BY <1>1 DEF turnStarts, end
  <2>2. "standing" \in Words
    BY DEF Words
  <2>3. PlainGrows(msgs, msgs')
    BY <1>0, <2>1, <2>2, PlainSame, PlainAppend, PlainMessages
  <2> QED BY <1>0, <2>1, <2>3, TranscriptPlain
<1>2. CASE /\ phase = "generate" /\ phase' \in {"generate", "done"} /\ UNCHANGED <<msgs, seen, evicted>>
  BY <1>0, <1>2, PlainSame, TranscriptPlain
<1>3. CASE generateFails \/ generateWithRetry
  <2>1. phase = "generate" /\ phase' \in {"generate", "done"} /\ UNCHANGED <<msgs, seen, evicted>>
    BY <1>3 DEF generateFails, generateWithRetry, end, requestVars
  <2> QED BY <1>2, <2>1
<1>4. CASE replayRejected
  <2>1. /\ phase = "generate" /\ UNCHANGED <<seen, evicted>>
        /\ \/ msgs' = dropReplayReasoning(msgs) /\ UNCHANGED phase
           \/ UNCHANGED msgs /\ phase' = "done"
    BY <1>4, Zenon DEF replayRejected, end, requestVars
  <2>2. CASE msgs' = dropReplayReasoning(msgs) /\ UNCHANGED phase
    <3> DEFINE e == msgs'
               l == Len(msgs)
    <3>1. /\ e \in Seq(Message) /\ Len(e) = l
          /\ \A i \in 1..l : /\ e[i].role = msgs[i].role /\ e[i].at = msgs[i].at
                             /\ e[i].n = msgs[i].n /\ e[i].ref = msgs[i].ref
                             /\ msgs[i].role # "assistant" => e[i].what = msgs[i].what
      <4>1. DOMAIN msgs = 1..l
        BY <1>0, Numbers
      <4> QED BY <1>0, <2>2, <4>1, ReasoningDropped
    <3>2. l \in Nat /\ (\A i \in 1..l : msgs[i].n \in Nat) /\ PairedTo(msgs, l) /\ DOMAIN msgs = 1..l /\ DOMAIN e = 1..l
      BY <1>0, <2>1, <3>1, Numbers
    <3> HIDE DEF l, e
    <3>3. PairedTo(e, l)
      BY <3>1, <3>2, PairedPrefix
    <3>4. \A x, y : \A j \in 1..l : Original(msgs, x, y, j) => Original(e, x, y, j)
      BY <3>1 DEF Original
    <3>5. ASSUME ~evicted PROVE Resolved(e, seen)
      <4>1. Resolved(msgs, seen)
        BY <1>0, <3>5
      <4>2. ASSUME NEW i \in 1..l, e[i].ref # 0
            PROVE  e[i].role = "tool" /\ \E j \in 1..(i - 1) : Original(e, e[i].what, e[i].ref, j)
        <5>1. e[i].ref = msgs[i].ref /\ e[i].role = msgs[i].role
          BY <3>1
        <5>2. msgs[i].role = "tool" /\ \E j \in 1..(i - 1) : Original(msgs, msgs[i].what, msgs[i].ref, j)
          BY <3>2, <4>1, <4>2, <5>1, Zenon DEF Resolved
        <5>3. PICK j \in 1..(i - 1) : Original(msgs, msgs[i].what, msgs[i].ref, j)
          BY <5>2
        <5>4. j \in 1..l /\ e[i].what = msgs[i].what
          BY <3>1, <3>2, <5>2
        <5>5. Original(e, e[i].what, e[i].ref, j)
          BY <3>4, <5>1, <5>3, <5>4
        <5> QED BY <5>1, <5>2, <5>5
      <4>3. ASSUME NEW p \in seen PROVE \E j \in 1..l : Original(e, p[1], p[2], j)
        <5>1. PICK j \in 1..l : Original(msgs, p[1], p[2], j)
          BY <3>2, <4>1, Zenon DEF Resolved
        <5> QED BY <3>4, <5>1
      <4> QED BY <3>2, <4>2, <4>3, Zenon DEF Resolved
    <3>6. PairedTo(msgs, Len(msgs))'
      BY <3>1, <3>3 DEF e
    <3>7. (~evicted => Resolved(msgs, seen))'
      BY <2>1, <3>5 DEF e
    <3> QED BY <2>1, <2>2, <3>6, <3>7 DEF TranscriptInv
  <2> QED BY <1>2, <2>1, <2>2
<1>5. CASE generateWithEviction
  <2>1. /\ phase = "generate" /\ UNCHANGED seen
        /\ \/ /\ evictOldestTurns(msgs) # msgs /\ msgs' = evictOldestTurns(msgs) /\ evicted' = TRUE /\ UNCHANGED phase
           \/ UNCHANGED <<msgs, evicted>> /\ phase' = "done"
    BY <1>5, Zenon DEF generateWithEviction, end, requestVars
  <2>2. CASE /\ evictOldestTurns(msgs) # msgs /\ msgs' = evictOldestTurns(msgs) /\ evicted' = TRUE /\ UNCHANGED phase
    <3>1. PairedTo(evictOldestTurns(msgs), Len(evictOldestTurns(msgs)))
      <4> DEFINE e == evictOldestTurns(msgs)
      <4>1. PICK a, b \in turnBegins(msgs) : a < b /\ Spliced(msgs, e, a, b)
        BY <1>0, <2>2, EvictionSplices
      <4> HIDE DEF e
      <4>2. PairedTo(e, Len(e))
        BY <1>0, <2>1, <4>1, PairedSplice
      <4> QED BY <4>2 DEF e
    <3>2. PairedTo(msgs, Len(msgs))'
      BY <2>2, <3>1
    <3> QED BY <2>1, <2>2, <3>2 DEF TranscriptInv
  <2> QED BY <1>2, <2>1, <2>2
<1> QED BY <1>1, <1>3, <1>4, <1>5 DEF sharedStep

(* The end of the loop or its next turn. *)
LEMMA TurnOver ==
    ASSUME NEW o, nextTurn \/ end(o)
    PROVE  phase' \in {"top", "done"}
  BY DEF nextTurn, end

(* The gates answer: the transcript as it is, or with their feedback. *)
LEMMA GatesPlain ==
    ASSUME EnvOK, ReplyOK, NEW m \in Seq(Message), gatesFinish(m)
    PROVE  PlainGrows(m, msgs') /\ phase' \in {"top", "done"}
<1>1. "feedback" \in Words
  BY DEF Words
<1>2. PlainGrows(m, m) /\ PlainGrows(m, Append(m, User("feedback")))
  BY <1>1, PlainSame, PlainAppend, PlainMessages
<1>3. /\ msgs' \in {m, Append(m, User("feedback"))}
      /\ phase' \in {"top", "done"}
  BY DEF gatesFinish, nextTurn, end
<1> QED BY <1>2, <1>3

(* The model's reply, and the turns that end on it. *)
LEMMA ReplyTranscript ==
    ASSUME LoopInv, TranscriptInv,
           generateOnce \/ textGenerate \/ silentTurn \/ answerTurn \/ killRepeat \/ killSpiral
    PROVE  TranscriptInv'
<1>0. /\ msgs \in Seq(Message) /\ EnvOK /\ ReplyOK
      /\ phase \in {"generate", "reply"} => PairedTo(msgs, Len(msgs))
      /\ ~evicted => Resolved(msgs, seen)
  BY DEF LoopInv, SentOK, TranscriptInv
<1>1. CASE generateOnce \/ textGenerate \/ killRepeat \/ killSpiral
  <2>1. phase \in {"generate", "reply"} /\ phase' \in {"reply", "done"} /\ UNCHANGED <<msgs, seen, evicted>>
    BY <1>1 DEF generateOnce, textGenerate, killRepeat, killSpiral, isToolTurn, end, requestVars
  <2> QED BY <1>0, <2>1, PlainSame, TranscriptPlain
<1>2. CASE silentTurn
  <2>1. /\ phase = "reply" /\ reply.calls = <<>> /\ nextTurn /\ UNCHANGED <<seen, evicted>>
        /\ \E due \in BOOLEAN : msgs' = Append(msgs, Assistant) \o hint(due)
    <3>1. msgs' = Append(msgs, Assistant) \o hint(TRUE) \/ msgs' = Append(msgs, Assistant) \o hint(FALSE)
      BY <1>2 DEF silentTurn, hint
    <3> QED BY <1>2, <3>1 DEF silentTurn, isSilent
  <2>2. PICK due \in BOOLEAN : msgs' = Append(msgs, Assistant) \o hint(due)
    BY <2>1
  <2>3. PlainGrows(msgs, Append(msgs, Assistant)) /\ Append(msgs, Assistant) \in Seq(Message)
    BY <1>0, <2>1, PlainMessages, PlainAppend
  <2>4. PlainGrows(Append(msgs, Assistant), msgs')
    BY <1>0, <2>2, <2>3, PlainHint
  <2>5. PlainGrows(msgs, msgs')
    BY <1>0, <2>3, <2>4, PlainTransitive
  <2>6. phase' \in {"top", "done"}
    BY <2>1, TurnOver
  <2> QED BY <1>0, <2>1, <2>5, <2>6, TranscriptPlain
<1>3. CASE answerTurn
  <2>1. phase = "reply" /\ reply.calls = <<>> /\ gatesFinish(Append(msgs, Assistant)) /\ UNCHANGED <<seen, evicted>>
    BY <1>3 DEF answerTurn
  <2>2. PlainGrows(msgs, Append(msgs, Assistant)) /\ Append(msgs, Assistant) \in Seq(Message)
    BY <1>0, <2>1, PlainMessages, PlainAppend
  <2>3. PlainGrows(Append(msgs, Assistant), msgs') /\ phase' \in {"top", "done"}
    BY <1>0, <2>1, <2>2, GatesPlain
  <2>4. PlainGrows(msgs, msgs')
    BY <1>0, <2>2, <2>3, PlainTransitive
  <2> QED BY <1>0, <2>1, <2>3, <2>4, TranscriptPlain
<1> QED BY <1>1, <1>2, <1>3

(* A turn with calls opens: its call message goes to the transcript. *)
LEMMA OpenTranscript ==
    ASSUME LoopInv, TranscriptInv, ~isText, finishTurn \/ commitTurn
    PROVE  TranscriptInv'
<1> DEFINE N == Len(reply.calls)
           e == Append(msgs, Assistant)
<1>0. /\ msgs \in Seq(Message) /\ EnvOK /\ ReplyOK /\ N \in Nat
      /\ phase = "reply" => PairedTo(msgs, Len(msgs))
      /\ ~evicted => Resolved(msgs, seen)
  BY DEF LoopInv, SentOK, TranscriptInv, ReplyOK
<1>1. /\ phase = "reply" /\ msgs' = e /\ k' = 1 /\ UNCHANGED <<reply, iter, seen, evicted, scen>>
      /\ (phase' = "finishing" /\ callsFinish) \/ phase' = "dispatch"
  BY DEF finishTurn, commitTurn, isToolTurn
<1>2. Assistant \in Message /\ Assistant.role = "assistant" /\ Assistant.ref = 0 /\ Assistant.n = N /\ Assistant.at = iter
  <2>1. Assistant.role = "assistant" /\ Assistant.ref = 0 /\ Assistant.n = N /\ Assistant.at = iter
    BY DEF Assistant
  <2> QED BY <1>0, <2>1, MessagesOK
<1>3. \A f : OpenTurn(e, 0, f, N, iter)
  BY <1>0, <1>1, <1>2, Opened
<1>4. ~evicted => Resolved(e, seen)
  <2>1. Grows(msgs, e) /\ Len(e) = Len(msgs) + 1 /\ e[Len(msgs) + 1] = Assistant /\ Len(msgs) \in Nat
    BY <1>0, <1>2, GrowsAppend, Numbers
  <2>2. \A i \in (Len(msgs) + 1)..Len(e) : e[i].ref = 0
    <3>1. \A i \in (Len(msgs) + 1)..Len(e) : i = Len(msgs) + 1
      BY <2>1
    <3> QED BY <1>2, <2>1, <3>1, Zenon
  <2> HIDE DEF e
  <2> QED BY <1>0, <2>1, <2>2, ResolvedGrows
<1>5. (~evicted => Resolved(msgs, seen))'
  BY <1>1, <1>4
<1>6. CASE phase' = "dispatch"
  <2>1. OpenTurn(e, k' - 1, N + 1, N, iter)
    <3>1. k' - 1 = 0
      BY <1>1
    <3> QED BY <1>3, <3>1
  <2>2. OpenTurn(msgs, k - 1, Len(reply.calls) + 1, Len(reply.calls), iter)'
    BY <1>1, <2>1
  <2> QED BY <1>5, <1>6, <2>2 DEF TranscriptInv
<1>7. CASE phase' = "finishing" /\ callsFinish
  <2>1. findCall \in 1..N
    BY <1>0, <1>7, FindCall DEF ReplyOK
  <2>2. findCall' = findCall
    BY <1>1 DEF findCall
  <2>3. OpenTurn(e, IF k' > findCall' THEN k' - 2 ELSE k' - 1, findCall', N, iter)
    <3>1. (IF k' > findCall' THEN k' - 2 ELSE k' - 1) = 0
      BY <1>1, <2>1, <2>2
    <3> QED BY <1>3, <3>1
  <2>4. OpenTurn(msgs, IF k > findCall THEN k - 2 ELSE k - 1, findCall, Len(reply.calls), iter)'
    BY <1>1, <2>3
  <2>5. (k <= Len(reply.calls) + 1)'
    BY <1>0, <1>1
  <2> QED BY <1>5, <1>7, <2>4, <2>5 DEF TranscriptInv
<1> QED BY <1>1, <1>6, <1>7

(* One result more, in full: the turn stays open. *)
LEMMA OpenAppend ==
    ASSUME NEW m \in Seq(Message), NEW q \in Nat, NEW f \in Nat, NEW N, NEW it, OpenTurn(m, q, f, N, it),
           NEW x \in Message, x.role = "tool", x.at = it, x.n = IF q + 1 < f THEN q + 1 ELSE q + 2
    PROVE  OpenTurn(Append(m, x), q + 1, f, N, it)
<1> DEFINE e == Append(m, x)
<1>1. Grows(m, e) /\ Len(e) = Len(m) + 1 /\ e[Len(m) + 1] = x
  BY GrowsAppend
<1> HIDE DEF e
<1>2. \A i \in 1..1 : /\ e[Len(m) + i].role = "tool" /\ e[Len(m) + i].at = it
                      /\ e[Len(m) + i].n = IF q + i < f THEN q + i ELSE q + i + 1
  <2>1. \A i \in 1..1 : i = 1
    OBVIOUS
  <2>2. q + 2 = q + 1 + 1
    OBVIOUS
  <2> QED BY <1>1, <2>1, <2>2, Zenon
<1>3. OpenTurn(e, q + 1, f, N, it)
  BY <1>1, <1>2, OpenGrows
<1> QED BY <1>3 DEF e

(* The calls of a finish turn, and its end. *)
LEMMA FinishTranscript ==
    ASSUME LoopInv, TranscriptInv, finishDispatch \/ finishReturns
    PROVE  TranscriptInv'
<1> DEFINE N == Len(reply.calls)
           q == IF k > findCall THEN k - 2 ELSE k - 1
<1>0. /\ msgs \in Seq(Message) /\ EnvOK /\ ReplyOK /\ N \in Nat /\ DOMAIN reply.calls = 1..N
      /\ k \in Nat \ {0} /\ (phase = "finishing" => callsFinish)
      /\ ~evicted => Resolved(msgs, seen)
      /\ phase = "finishing" => k <= N + 1 /\ OpenTurn(msgs, q, findCall, N, iter)
  BY DEF LoopInv, SentOK, ControlOK, TranscriptInv, ReplyOK
<1>a. phase = "finishing"
  BY DEF finishDispatch, finishReturns
<1>d. q = IF k > findCall THEN k - 2 ELSE k - 1
  OBVIOUS
<1> HIDE DEF N, q
<1>b. findCall \in 1..N
  <2>1. reply.calls \in Seq(Call) /\ callsFinish /\ DOMAIN reply.calls = 1..N
    BY <1>0, <1>a DEF ReplyOK
  <2> QED BY <2>1, FindCall
<1>c. q \in Nat /\ k \in Nat /\ findCall \in Nat /\ k <= N + 1
  <2>1. k \in Nat \ {0} /\ k <= N + 1
    BY <1>0, <1>a, Zenon
  <2>2. findCall \in Nat /\ findCall >= 1
    BY <1>0, <1>b
  <2> QED BY <1>d, <2>1, <2>2
<1>1. CASE finishDispatch
  <2> DEFINE c == reply.calls[k]
  <2>1. /\ k \in 1..N /\ k' = k + 1
        /\ UNCHANGED <<phase, evicted, iter, reply, seen>>
        /\ \/ k = findCall /\ UNCHANGED msgs
           \/ k # findCall /\ \E r \in dispatchNative(c) : msgs' = Append(msgs, ToolResult(k, Observed(c, r), 0))
    BY <1>0, <1>1, Zenon DEF finishDispatch
  <2>2. findCall' = findCall
    BY <2>1 DEF findCall
  <2>3. /\ OpenTurn(msgs', IF k + 1 > findCall THEN k - 1 ELSE k, findCall, N, iter)
        /\ ~evicted => Resolved(msgs', seen)
    <3>1. CASE k = findCall /\ UNCHANGED msgs
      <4>1. q = k - 1 /\ (IF k + 1 > findCall THEN k - 1 ELSE k) = q
        BY <1>c, <1>d, <3>1
      <4> QED BY <1>0, <1>a, <3>1, <4>1, Zenon
    <3>2. CASE k # findCall /\ \E r \in dispatchNative(c) : msgs' = Append(msgs, ToolResult(k, Observed(c, r), 0))
      <4>1. PICK r \in dispatchNative(c) : msgs' = Append(msgs, ToolResult(k, Observed(c, r), 0))
        BY <3>2
      <4> DEFINE x == ToolResult(k, Observed(c, r), 0)
      <4>2. x \in Message
        <5>1. ws \in Versions /\ c \in Call
          BY <1>0, <2>1 DEF EnvOK, ReplyOK
        <5>2. r \in Result
          BY <5>1, <4>1, Dispatched
        <5>3. Observed(c, r) \in Seq(STRING)
          <6> HIDE DEF c
          <6> QED BY <5>1, <5>2, ObservedTyped
        <5> QED BY <1>0, <1>c, <5>3, MessagesOK
      <4>3. x.role = "tool" /\ x.at = iter /\ x.n = k /\ x.ref = 0
        BY DEF ToolResult
      <4> HIDE DEF x
      <4>4. k = IF q + 1 < findCall THEN q + 1 ELSE q + 2
        BY <1>c, <1>d, <3>2
      <4>5. q + 1 = IF k + 1 > findCall THEN k - 1 ELSE k
        BY <1>c, <1>d, <3>2
      <4>6. OpenTurn(Append(msgs, x), q + 1, findCall, N, iter)
        BY <1>0, <1>a, <1>b, <1>c, <4>2, <4>3, <4>4, OpenAppend
      <4>7. ~evicted => Resolved(Append(msgs, x), seen)
        <5> DEFINE e == Append(msgs, x)
        <5>1. Grows(msgs, e) /\ Len(e) = Len(msgs) + 1 /\ e[Len(msgs) + 1] = x /\ Len(msgs) \in Nat
          BY <1>0, <4>2, GrowsAppend, Numbers
        <5> HIDE DEF e
        <5>2. \A i \in (Len(msgs) + 1)..Len(e) : i = Len(msgs) + 1
          BY <5>1
        <5>3. \A i \in (Len(msgs) + 1)..Len(e) : e[i].ref = 0
          BY <4>3, <5>1, <5>2, Zenon
        <5>4. ~evicted => Resolved(e, seen)
          BY <1>0, <5>1, <5>3, ResolvedGrows
        <5> QED BY <5>4 DEF e
      <4> QED BY <4>1, <4>5, <4>6, <4>7 DEF x
    <3> QED BY <2>1, <3>1, <3>2
  <2>4. (IF k' > findCall' THEN k' - 2 ELSE k' - 1) = (IF k + 1 > findCall THEN k - 1 ELSE k)
    <3>1. k' - 2 = k - 1 /\ k' - 1 = k
      BY <1>0, <2>1
    <3> QED BY <2>1, <2>2, <3>1
  <2>5. OpenTurn(msgs', IF k' > findCall' THEN k' - 2 ELSE k' - 1, findCall', N, iter)
    BY <2>2, <2>3, <2>4
  <2>6. OpenTurn(msgs, IF k > findCall THEN k - 2 ELSE k - 1, findCall, Len(reply.calls), iter)'
    BY <2>1, <2>5 DEF N
  <2>7. (k <= Len(reply.calls) + 1)' /\ (~evicted => Resolved(msgs, seen))'
    <3>1. k' <= N + 1
      BY <1>0, <2>1
    <3> QED BY <2>1, <2>3, <3>1 DEF N
  <2> QED BY <1>a, <2>1, <2>6, <2>7 DEF TranscriptInv
<1>2. CASE finishReturns
  <2> DEFINE x == ToolResult(findCall, <<"finish">>, 0)
             e == Append(msgs, x)
  <2>1. k \notin DOMAIN reply.calls /\ gatesFinish(e) /\ UNCHANGED <<seen, evicted>>
    BY <1>2 DEF finishReturns
  <2>2. k = N + 1 /\ q = N - 1
    <3>1. N \in Nat /\ findCall \in 1..N /\ k \in Nat \ {0} /\ k \notin 1..N
      BY <1>0, <1>b, <2>1, Zenon
    <3>2. k = N + 1
      BY <1>c, <3>1
    <3> QED BY <1>d, <3>1, <3>2
  <2>3. x \in Message
    <3>1. "finish" \in STRING
      BY WordsAssumption DEF WordsAssumption, Words
    <3>2. <<"finish">> \in Seq(STRING) /\ findCall \in Nat
      BY <1>b, <3>1
    <3> QED BY <1>0, <3>2, MessagesOK
  <2>4. x.role = "tool" /\ x.at = iter /\ x.n = findCall /\ x.ref = 0
    BY DEF ToolResult
  <2> HIDE DEF x
  <2>4a. OpenTurn(msgs, N - 1, findCall, N, iter)
    BY <1>0, <1>a, <2>2, Zenon
  <2>5. PairedTo(e, Len(msgs) + 1) /\ Len(e) = Len(msgs) + 1 /\ e \in Seq(Message)
    <3>1. PairedTo(Append(msgs, x), Len(msgs) + 1)
      BY <1>0, <1>b, <2>3, <2>4, <2>4a, OpenFinishes, Zenon
    <3> QED BY <1>0, <2>3, <3>1, GrowsAppend DEF Grows
  <2>6. ~evicted => Resolved(e, seen)
    <3>1. Grows(msgs, e) /\ Len(e) = Len(msgs) + 1 /\ e[Len(msgs) + 1] = x /\ Len(msgs) \in Nat
      BY <1>0, <2>3, GrowsAppend, Numbers
    <3> HIDE DEF e
    <3>2. \A i \in (Len(msgs) + 1)..Len(e) : i = Len(msgs) + 1
      BY <3>1
    <3>3. \A i \in (Len(msgs) + 1)..Len(e) : e[i].ref = 0
      BY <2>4, <3>1, <3>2, Zenon
    <3> QED BY <1>0, <3>1, <3>3, ResolvedGrows
  <2>7. PlainGrows(e, msgs') /\ phase' \in {"top", "done"}
    BY <1>0, <2>1, <2>5, GatesPlain
  <2> HIDE DEF e
  <2>8. PairedTo(msgs', Len(msgs'))
    BY <2>5, <2>7, ClosedGrows DEF PlainGrows
  <2>9. ~evicted => Resolved(msgs', seen)
    BY <2>5, <2>6, <2>7, ResolvedGrows DEF PlainGrows, Plain
  <2>10. PairedTo(msgs, Len(msgs))' /\ (~evicted => Resolved(msgs, seen))'
    BY <2>1, <2>8, <2>9
  <2> QED BY <2>7, <2>10 DEF TranscriptInv
<1> QED BY <1>1, <1>2

(* The observation of call k goes to the open turn, in full or as a          *)
(* reference that resolves.                                                  *)
LEMMA StubOpens ==
    ASSUME LoopInv, NEW N \in Nat, k <= N, OpenTurn(msgs, k - 1, N + 1, N, iter),
           ~evicted => Resolved(msgs, seen), UNCHANGED evicted,
           NEW obs \in Seq(STRING), NEW rest \in Seq(Message), \A i \in 1..Len(rest) : rest[i].ref = 0,
           stub(obs, rest)
    PROVE  /\ \E e \in Seq(Message) : msgs' = e \o rest /\ OpenTurn(e, k, N + 1, N, iter)
           /\ (~evicted => Resolved(msgs, seen))'
<1>0. /\ EnvOK /\ ReplyOK /\ SentOK /\ k \in Nat \ {0} /\ msgs \in Seq(Message)
  BY DEF LoopInv, SentOK, ControlOK
<1>0a. k \in Nat
  BY <1>0
<1>1. \E ref \in Nat : /\ msgs' = Append(msgs, ToolResult(k, obs, ref)) \o rest
                       /\ \/ ref = 0 /\ seen' \in {seen, seen \cup {<<obs, iter>>}}
                          \/ <<obs, ref>> \in seen /\ UNCHANGED seen
  BY <1>0, <1>0a, Stubbed
<1>2. PICK ref \in Nat : /\ msgs' = Append(msgs, ToolResult(k, obs, ref)) \o rest
                         /\ \/ ref = 0 /\ seen' \in {seen, seen \cup {<<obs, iter>>}}
                            \/ <<obs, ref>> \in seen /\ UNCHANGED seen
  BY <1>1
<1> DEFINE x == ToolResult(k, obs, ref)
           e == Append(msgs, x)
<1>3. x \in Message
  BY <1>0, MessagesOK
<1>4. x.role = "tool" /\ x.at = iter /\ x.n = k /\ x.ref = ref /\ x.what = obs
  BY DEF ToolResult
<1>5. msgs' = e \o rest
  BY <1>2
<1> HIDE DEF x
<1>6. Grows(msgs, e) /\ Len(e) = Len(msgs) + 1 /\ e[Len(msgs) + 1] = x /\ Len(msgs) \in Nat /\ e \in Seq(Message)
  BY <1>0, <1>3, GrowsAppend, Numbers DEF Grows
<1>7. OpenTurn(e, k, N + 1, N, iter)
  <2> DEFINE q == k - 1
  <2>1. q \in Nat /\ q + 1 = k /\ N + 1 \in Nat /\ x.n = IF q + 1 < N + 1 THEN q + 1 ELSE q + 2
    BY <1>0, <1>4
  <2>2. OpenTurn(msgs, q, N + 1, N, iter)
    OBVIOUS
  <2> HIDE DEF q
  <2>3. OpenTurn(Append(msgs, x), q + 1, N + 1, N, iter)
    BY <1>0, <1>3, <1>4, <2>1, <2>2, OpenAppend, Zenon
  <2> QED BY <2>1, <2>3
<1> HIDE DEF e
<1>8. /\ Grows(e, msgs') /\ Len(msgs') = Len(e) + Len(rest)
      /\ \A i \in 1..Len(rest) : msgs'[Len(e) + i] = rest[i]
  BY <1>5, <1>6, GrowsConcat
<1>9. Grows(msgs, msgs') /\ Len(msgs') > Len(msgs) /\ msgs'[Len(msgs) + 1] = x
      /\ \A i \in (Len(msgs) + 2)..Len(msgs') : msgs'[i].ref = 0
  <2>1. Len(rest) \in Nat /\ Len(e) = Len(msgs) + 1 /\ Len(msgs) \in Nat /\ Len(msgs') = Len(e) + Len(rest)
    BY <1>6, <1>8
  <2>2. msgs' \in Seq(Message) /\ (\A i \in 1..Len(e) : msgs'[i] = e[i]) /\ \A i \in 1..Len(msgs) : e[i] = msgs[i]
    BY <1>6, <1>8 DEF Grows
  <2>3. Grows(msgs, msgs') /\ Len(msgs') > Len(msgs) /\ msgs'[Len(msgs) + 1] = x
    BY <1>6, <2>1, <2>2 DEF Grows
  <2>4. ASSUME NEW i \in (Len(msgs) + 2)..Len(msgs') PROVE msgs'[i].ref = 0
    <3>1. i - Len(e) \in 1..Len(rest) /\ Len(e) + (i - Len(e)) = i
      BY <2>1
    <3> QED BY <1>8, <3>1
  <2> QED BY <2>3, <2>4
<1>10. ~evicted => Resolved(msgs', seen')
  <2> SUFFICES ASSUME ~evicted PROVE Resolved(msgs', seen')
    OBVIOUS
  <2>1. Resolved(msgs, seen)
    OBVIOUS
  <2>2. \/ ref = 0 /\ seen' \in {seen, seen \cup {<<obs, iter>>}}
        \/ <<obs, ref>> \in seen /\ seen' = seen
    BY <1>2
  <2> QED BY <1>0, <1>4, <1>9, <2>1, <2>2, ResolvedStub
<1> QED BY <1>5, <1>6, <1>7, <1>10

(* A call of a dispatched turn is observed. *)
LEMMA ObserveTranscript ==
    ASSUME LoopInv, TranscriptInv, phase = "dispatch", NEW r \in Result, NEW m, observeCall(reply.calls[k], r, m)
    PROVE  TranscriptInv'
<1> DEFINE c == reply.calls[k]
           obs == Observed(c, r)
           N == Len(reply.calls)
<1>0. /\ msgs \in Seq(Message) /\ N \in Nat /\ k \in Nat \ {0} /\ k \in 1..N /\ c \in Call /\ ~isText
      /\ OpenTurn(msgs, k - 1, N + 1, N, iter)
      /\ (~evicted => Resolved(msgs, seen))
  BY DEF LoopInv, SentOK, ControlOK, TranscriptInv, ReplyOK
<1>1. /\ stub(obs, <<>>) /\ k' = k + 1
      /\ phase' = IF k = N THEN "endTurn" ELSE "dispatch"
      /\ UNCHANGED <<scen, iter, reply, evicted>>
  BY Zenon DEF observeCall
<1>2. obs \in Seq(STRING)
  <2> HIDE DEF c
  <2> QED BY <1>0, ObservedTyped
<1> HIDE DEF obs, c
<1>3. <<>> \in Seq(Message) /\ \A i \in 1..Len(<<>>) : <<>>[i].ref = 0
  OBVIOUS
<1>4. k <= N
  BY <1>0
<1> HIDE DEF N
<1>5. /\ \E e \in Seq(Message) : msgs' = e \o <<>> /\ OpenTurn(e, k, N + 1, N, iter)
      /\ (~evicted => Resolved(msgs, seen))'
  BY <1>0, <1>1, <1>2, <1>3, <1>4, StubOpens
<1>6. PICK e \in Seq(Message) : msgs' = e \o <<>> /\ OpenTurn(e, k, N + 1, N, iter)
  BY <1>5
<1>7. msgs' = e
  BY <1>6
<1>8. k' - 1 = k
  BY <1>0, <1>1
<1>9. OpenTurn(msgs', k' - 1, N + 1, N, iter)
  BY <1>6, <1>7, <1>8
<1>10. OpenTurn(msgs, k - 1, Len(reply.calls) + 1, Len(reply.calls), iter)'
  BY <1>1, <1>9 DEF N
<1>11. (phase = "endTurn" => k = IF isText THEN 1 ELSE Len(reply.calls) + 1)'
  <2>1. phase' = "endTurn" => k' = N + 1
    BY <1>0, <1>1
  <2>2. ~isText'
    BY <1>0, <1>1, Zenon DEF isText
  <2> QED BY <1>1, <2>1, <2>2 DEF N
<1> QED BY <1>1, <1>5, <1>10, <1>11 DEF TranscriptInv

(* A failure that recurs: its observation, and a result for every call left. *)
LEMMA StagnantRest ==
    ASSUME LoopInv, killStagnant
    PROVE  /\ phase = "dispatch" /\ phase' = "done" /\ UNCHANGED <<reply, iter, evicted>>
           /\ k \in 1..Len(reply.calls)
           /\ \E obs \in Seq(STRING), rest \in Seq(Message) :
                 /\ stub(obs, rest) /\ Len(rest) = Len(reply.calls) - k
                 /\ \A j \in 1..Len(rest) : /\ rest[j].role = "tool" /\ rest[j].at = iter
                                            /\ rest[j].n = k + j /\ rest[j].ref = 0
<1>a. /\ ws \in Versions /\ k \in Nat \ {0} /\ EnvOK /\ ReplyOK
      /\ phase = "dispatch" => k \in 1..Len(reply.calls) /\ Len(reply.calls) \in Nat /\ reply.calls[k] \in Call
  BY DEF LoopInv, EnvOK, ControlOK, ReplyOK
<1> DEFINE c == reply.calls[k]
           N == Len(reply.calls)
           e(j) == ToolResult(k + j, <<"not executed">>, 0)
           rest == [j \in 1..(N - k) |-> e(j)]
<1>1. /\ phase = "dispatch" /\ phase' = "done" /\ UNCHANGED <<reply, iter, evicted>>
      /\ \E r \in executions : stub(Observed(c, r), rest)
  BY Zenon DEF killStagnant, end
<1>2. PICK r \in executions : stub(Observed(c, r), rest)
  BY <1>1
<1>3. Observed(c, r) \in Seq(STRING)
  <2>1. r \in Result
    BY <1>a, <1>1, <1>2, Executed, Dispatched
  <2>2. c \in Call
    BY <1>a, <1>1
  <2> HIDE DEF c
  <2> QED BY <2>1, <2>2, ObservedTyped
<1>4. N \in Nat /\ k \in 1..N /\ N - k \in Nat
  <2>1. N \in Nat /\ k \in 1..N
    BY <1>a, <1>1, Zenon
  <2> HIDE DEF N
  <2> QED BY <2>1
<1>5. \A j \in 1..(N - k) : /\ e(j) \in Message /\ e(j).role = "tool" /\ e(j).at = iter
                            /\ e(j).n = k + j /\ e(j).ref = 0
  <2>1. "not executed" \in STRING
    BY WordsAssumption DEF WordsAssumption, Words
  <2>2. <<"not executed">> \in Seq(STRING)
    BY <2>1, Singleton, Zenon
  <2>3. \A j \in 1..(N - k) : k + j \in Nat
    BY <1>4
  <2>4. \A j \in 1..(N - k) : e(j) \in Message
    BY <1>a, <2>2, <2>3, MessagesOK
  <2>5. \A j : e(j).role = "tool" /\ e(j).at = iter /\ e(j).n = k + j /\ e(j).ref = 0
    BY DEF ToolResult
  <2> QED BY <2>4, <2>5
<1>6. rest \in Seq(Message) /\ Len(rest) = N - k /\ \A j \in 1..(N - k) : rest[j] = e(j)
  <2> DEFINE x == N - k
  <2>1. x \in Nat /\ \A j \in 1..x : e(j) \in Message
    BY <1>4, <1>5
  <2>2. rest = [j \in 1..x |-> e(j)]
    OBVIOUS
  <2> HIDE DEF x, e, rest
  <2>3. rest \in Seq(Message) /\ Len(rest) = x /\ \A j \in 1..x : rest[j] = e(j)
    <3>1. rest \in [1..x -> Message]
      BY <2>1, <2>2
    <3>2. \A j \in 1..x : rest[j] = e(j)
      BY <2>2
    <3> QED BY <2>1, <3>1, <3>2
  <2> QED BY <2>3 DEF x
<1> HIDE DEF rest, e, c
<1>7. \A j \in 1..Len(rest) : /\ rest[j].role = "tool" /\ rest[j].at = iter
                              /\ rest[j].n = k + j /\ rest[j].ref = 0
  BY <1>5, <1>6, Zenon
<1> QED BY <1>1, <1>2, <1>3, <1>4, <1>6, <1>7

(* The dispatch of a turn: its calls are observed in order, or a failure     *)
(* that recurs cuts it, with a result for every call left.                   *)
LEMMA DispatchTranscript ==
    ASSUME LoopInv, LoopInv', TranscriptInv, skipCall \/ dispatchCall \/ killStagnant
    PROVE  TranscriptInv'
<1>a. /\ ws \in Versions /\ k \in Nat \ {0} /\ EnvOK /\ ReplyOK /\ mem \in Memory
      /\ phase = "dispatch" => k \in 1..Len(reply.calls) /\ Len(reply.calls) \in Nat /\ reply.calls[k] \in Call
  BY DEF LoopInv, EnvOK, ControlOK, ReplyOK, TracesOK
<1>1. CASE skipCall
  <2> DEFINE r == Ran(mem.readSaw, ws, "skipped")
  <2>1. phase = "dispatch" /\ observeCall(reply.calls[k], r, mem)
    BY <1>1 DEF skipCall
  <2>2. r \in Result
    <3>1. mem.readSaw \in STRING /\ "skipped" \in STRING
      BY <1>a, WordsAssumption DEF WordsAssumption, Words, Memory
    <3>2. \A s, t \in STRING : Ran(s, ws, t) \in Result
      BY <1>a, RanTyped
    <3> QED BY <3>1, <3>2, Zenon
  <2> HIDE DEF r
  <2> QED BY <2>1, <2>2, ObserveTranscript
<1>2. CASE dispatchCall
  <2>1. phase = "dispatch"
    BY <1>2 DEF dispatchCall
  <2>2. PICK r \in executions : observeCall(reply.calls[k], r, memOf(reply.calls[k], r))
    BY <1>2 DEF dispatchCall
  <2>3. r \in Result
    BY <1>a, <2>1, <2>2, Executed, Dispatched
  <2> QED BY <2>1, <2>2, <2>3, ObserveTranscript
<1>3. CASE killStagnant
  <2> DEFINE N == Len(reply.calls)
  <2>1. /\ phase = "dispatch" /\ phase' = "done" /\ UNCHANGED <<reply, iter, evicted>> /\ k \in 1..N
        /\ \E obs \in Seq(STRING), rest \in Seq(Message) :
              /\ stub(obs, rest) /\ Len(rest) = N - k
              /\ \A j \in 1..Len(rest) : /\ rest[j].role = "tool" /\ rest[j].at = iter
                                         /\ rest[j].n = k + j /\ rest[j].ref = 0
    BY <1>3, StagnantRest
  <2>2. PICK obs \in Seq(STRING), rest \in Seq(Message) :
              /\ stub(obs, rest) /\ Len(rest) = N - k
              /\ \A j \in 1..Len(rest) : /\ rest[j].role = "tool" /\ rest[j].at = iter
                                         /\ rest[j].n = k + j /\ rest[j].ref = 0
    BY <2>1
  <2>7. OpenTurn(msgs, k - 1, N + 1, N, iter) /\ (~evicted => Resolved(msgs, seen)) /\ N \in Nat
    BY <1>a, <2>1, Zenon DEF TranscriptInv
  <2> HIDE DEF N
  <2>9. /\ \E t \in Seq(Message) : msgs' = t \o rest /\ OpenTurn(t, k, N + 1, N, iter)
        /\ (~evicted => Resolved(msgs, seen))'
    <3>1. k <= N
      BY <2>1, <2>7
    <3>2. \A j \in 1..Len(rest) : rest[j].ref = 0
      BY <2>2, Zenon
    <3> QED BY <1>a, <2>1, <2>2, <2>7, <3>1, <3>2, StubOpens, Zenon
  <2>10. PICK t \in Seq(Message) : msgs' = t \o rest /\ OpenTurn(t, k, N + 1, N, iter)
    BY <2>9
  <2>11. PairedTo(msgs', Len(msgs'))
    <3> DEFINE x == N - k
    <3>1. /\ Grows(t, msgs') /\ Len(msgs') = Len(t) + x
          /\ \A i \in 1..x : msgs'[Len(t) + i] = rest[i]
      BY <2>2, <2>10, GrowsConcat
    <3>2. \A i \in 1..x : rest[i].role = "tool" /\ rest[i].at = iter /\ rest[i].n = k + i
      BY <2>2, Zenon
    <3>3. \A i \in 1..x : k + i = IF k + i < N + 1 THEN k + i ELSE k + i + 1
      BY <2>1, <2>7
    <3>4. x \in Nat /\ N \in Nat /\ N + 1 \in Nat /\ k \in Nat /\ k + x = N
      BY <2>1, <2>7
    <3> HIDE DEF x
    <3>5. OpenTurn(msgs', k + x, N + 1, N, iter)
      <4>1. \A i \in 1..x : /\ msgs'[Len(t) + i].role = "tool" /\ msgs'[Len(t) + i].at = iter
                            /\ msgs'[Len(t) + i].n = IF k + i < N + 1 THEN k + i ELSE k + i + 1
        BY <3>1, <3>2, <3>3, Zenon
      <4> QED BY <2>10, <3>1, <3>4, <4>1, OpenGrows
    <3>6. msgs' \in Seq(Message)
      BY <3>1 DEF Grows
    <3> QED BY <3>4, <3>5, <3>6, OpenCloses
  <2>12. PairedTo(msgs, Len(msgs))'
    BY <2>11
  <2> QED BY <2>1, <2>9, <2>12 DEF TranscriptInv
<1> QED BY <1>1, <1>2, <1>3

(* The end of a dispatched turn only adds hints. *)
LEMMA TurnEndsPlain ==
    ASSUME LoopInv, turnEnds
    PROVE  PlainGrows(msgs, msgs')
<1>0. msgs \in Seq(Message) /\ EnvOK /\ ReplyOK
  BY DEF LoopInv, SentOK
<1> DEFINE seenObs == observeToolObservation(tr, fps)
           edited  == \E j \in DOMAIN reply.calls : mutates(reply.calls[j].name)
           answer  == /\ ~mem.answerNudged /\ sc.observeOnly /\ AnswerNudgeWindow > 0
                      /\ iter < maxIter /\ maxIter - iter <= AnswerNudgeWindow
           say     == /\ ~mem.sayNudged /\ sc.finishTool
                      /\ iter < maxIter /\ maxIter - iter <= finishToolNudgeWindow
           next(build) == IF build = "clean" THEN [seenObs EXCEPT !.editsSinceGreen = 0] ELSE seenObs
           fin(build) == finishNudgeDue(next(build), iter, maxIter)
<1>1. \/ UNCHANGED msgs
      \/ \E build : msgs' = msgs \o hint(escalatingRepeatNudge(seenObs.obsRepeat))
                                 \o hint(build = "dirty") \o hint(fin(build)) \o hint(answer) \o hint(say)
  BY Zenon DEF turnEnds
<1>2. /\ answer \in BOOLEAN /\ say \in BOOLEAN /\ escalatingRepeatNudge(seenObs.obsRepeat) \in BOOLEAN
      /\ \A build : (build = "dirty") \in BOOLEAN /\ fin(build) \in BOOLEAN
  BY DEF escalatingRepeatNudge, finishNudgeDue
<1> HIDE DEF seenObs, edited, answer, say, next, fin
<1>3. \A d1, d2, d3, d4, d5 \in BOOLEAN :
         PlainGrows(msgs, msgs \o hint(d1) \o hint(d2) \o hint(d3) \o hint(d4) \o hint(d5))
  <2>1. ASSUME NEW e, e \in Seq(Message), PlainGrows(msgs, e), NEW d \in BOOLEAN
        PROVE  e \o hint(d) \in Seq(Message) /\ PlainGrows(msgs, e \o hint(d))
    <3>1. PlainGrows(e, e \o hint(d)) /\ e \o hint(d) \in Seq(Message)
      BY <1>0, <2>1, PlainHint
    <3> QED BY <1>0, <2>1, <3>1, PlainTransitive
  <2>2. PlainGrows(msgs, msgs)
    BY <1>0, PlainSame
  <2> SUFFICES ASSUME NEW d1 \in BOOLEAN, NEW d2 \in BOOLEAN, NEW d3 \in BOOLEAN,
                      NEW d4 \in BOOLEAN, NEW d5 \in BOOLEAN
               PROVE  PlainGrows(msgs, msgs \o hint(d1) \o hint(d2) \o hint(d3) \o hint(d4) \o hint(d5))
    BY Zenon
  <2>3. msgs \o hint(d1) \in Seq(Message) /\ PlainGrows(msgs, msgs \o hint(d1))
    BY <1>0, <2>1, <2>2, Zenon
  <2>4. msgs \o hint(d1) \o hint(d2) \in Seq(Message) /\ PlainGrows(msgs, msgs \o hint(d1) \o hint(d2))
    BY <2>1, <2>3, Zenon
  <2>5. /\ msgs \o hint(d1) \o hint(d2) \o hint(d3) \in Seq(Message)
        /\ PlainGrows(msgs, msgs \o hint(d1) \o hint(d2) \o hint(d3))
    BY <2>1, <2>4, Zenon
  <2>6. /\ msgs \o hint(d1) \o hint(d2) \o hint(d3) \o hint(d4) \in Seq(Message)
        /\ PlainGrows(msgs, msgs \o hint(d1) \o hint(d2) \o hint(d3) \o hint(d4))
    BY <2>1, <2>5, Zenon
  <2> QED BY <2>1, <2>6, Zenon
<1>4. CASE UNCHANGED msgs
  BY <1>0, <1>4, PlainSame
<1>5. CASE \E build : msgs' = msgs \o hint(escalatingRepeatNudge(seenObs.obsRepeat))
                                 \o hint(build = "dirty") \o hint(fin(build)) \o hint(answer) \o hint(say)
  <2>1. PICK build : msgs' = msgs \o hint(escalatingRepeatNudge(seenObs.obsRepeat))
                                 \o hint(build = "dirty") \o hint(fin(build)) \o hint(answer) \o hint(say)
    BY <1>5
  <2> QED BY <1>2, <1>3, <2>1, Zenon
<1> QED BY <1>1, <1>4, <1>5

(* The end of a dispatched turn: every call has its result, and only hints   *)
(* follow.                                                                   *)
LEMMA TurnEndsTranscript ==
    ASSUME LoopInv, TranscriptInv, ~isText, turnEnds
    PROVE  TranscriptInv'
<1> DEFINE N == Len(reply.calls)
<1>0. /\ msgs \in Seq(Message) /\ EnvOK /\ ReplyOK /\ N \in Nat
      /\ ~evicted => Resolved(msgs, seen)
  BY DEF LoopInv, SentOK, TranscriptInv, ReplyOK
<1>1. phase = "endTurn" /\ UNCHANGED <<seen, evicted>> /\ phase' \in {"top", "done"}
  BY DEF turnEnds, nextTurn, end
<1>2. k = N + 1 /\ OpenTurn(msgs, k - 1, N + 1, N, iter)
  BY <1>1, Zenon DEF TranscriptInv
<1>3. PairedTo(msgs, Len(msgs))
  <2>1. k - 1 = N
    BY <1>0, <1>2
  <2>2. OpenTurn(msgs, N, N + 1, N, iter)
    BY <1>2, <2>1
  <2> HIDE DEF N
  <2> QED BY <1>0, <2>2, OpenCloses
<1>4. PlainGrows(msgs, msgs')
  BY TurnEndsPlain
<1> QED BY <1>0, <1>1, <1>3, <1>4, TranscriptPlain

(* A turn of the text loop: an answer or a kill adds a message without       *)
(* calls; an action opens a turn of one call.                                *)
LEMMA TextTranscript ==
    ASSUME LoopInv, TranscriptInv, textAnswer \/ textKillRepeat \/ textKillSpiral \/ textAct
    PROVE  TranscriptInv'
<1>0. /\ msgs \in Seq(Message) /\ EnvOK /\ ReplyOK
      /\ phase = "reply" => PairedTo(msgs, Len(msgs))
      /\ ~evicted => Resolved(msgs, seen)
  BY DEF LoopInv, SentOK, TranscriptInv
<1>a. PlainGrows(msgs, Append(msgs, said(0))) /\ Append(msgs, said(0)) \in Seq(Message)
  BY <1>0, PlainMessages, PlainAppend
<1>1. CASE textAnswer
  <2>1. phase = "reply" /\ gatesFinish(Append(msgs, said(0))) /\ UNCHANGED <<seen, evicted>>
    BY <1>1 DEF textAnswer
  <2>2. PlainGrows(Append(msgs, said(0)), msgs') /\ phase' \in {"top", "done"}
    BY <1>0, <1>a, <2>1, GatesPlain
  <2>3. PlainGrows(msgs, msgs')
    BY <1>0, <1>a, <2>2, PlainTransitive
  <2> QED BY <1>0, <2>1, <2>2, <2>3, TranscriptPlain
<1>2. ASSUME phase = "reply", phase' = "done", msgs' = Append(msgs, said(0)), UNCHANGED <<seen, evicted>>
      PROVE  TranscriptInv'
  <2>1. PlainGrows(msgs, msgs')
    BY <1>a, <1>2
  <2> QED BY <1>0, <1>2, <2>1, TranscriptPlain
<1>3. CASE textKillRepeat \/ textKillSpiral
  <2>1. phase = "reply" /\ phase' = "done" /\ msgs' = Append(msgs, said(0)) /\ UNCHANGED <<seen, evicted>>
    BY <1>3 DEF textKillRepeat, textKillSpiral, isTextTool, end
  <2> QED BY <1>2, <2>1
<1>4. CASE textAct
  <2>1. /\ isText /\ phase = "reply" /\ k' = 1 /\ UNCHANGED <<scen, reply, seen, evicted>>
        /\ \/ msgs' = Append(msgs, said(0)) /\ phase' = "done"
           \/ msgs' = Append(msgs, said(1)) /\ phase' = "endTurn" /\ UNCHANGED iter
    BY <1>4, Zenon DEF textAct, isTextTool, end
  <2>2. CASE msgs' = Append(msgs, said(0)) /\ phase' = "done"
    BY <1>2, <2>1, <2>2
  <2>3. CASE msgs' = Append(msgs, said(1)) /\ phase' = "endTurn" /\ UNCHANGED iter
    <3> DEFINE x == said(1)
               e == Append(msgs, x)
    <3>1. x \in Message /\ x.role = "assistant" /\ x.n = 1 /\ x.at = iter /\ x.ref = 0
      <4>1. x.role = "assistant" /\ x.n = 1 /\ x.at = iter /\ x.ref = 0
        BY DEF said
      <4> QED BY <1>0, <4>1, MessagesOK
    <3>2. Len(reply.calls) = 1
      BY <2>1 DEF LoopInv, ControlOK
    <3> HIDE DEF x
    <3>3. \A f : OpenTurn(e, 0, f, 1, iter)
      BY <1>0, <2>1, <3>1, Opened
    <3>4. ~evicted => Resolved(e, seen)
      <4>1. Grows(msgs, e) /\ Len(e) = Len(msgs) + 1 /\ e[Len(msgs) + 1] = x /\ Len(msgs) \in Nat
        BY <1>0, <3>1, GrowsAppend, Numbers
      <4> HIDE DEF e
      <4>2. \A i \in (Len(msgs) + 1)..Len(e) : i = Len(msgs) + 1
        BY <4>1
      <4>3. \A i \in (Len(msgs) + 1)..Len(e) : e[i].ref = 0
        BY <3>1, <4>1, <4>2, Zenon
      <4> QED BY <1>0, <4>1, <4>3, ResolvedGrows
    <3>5. msgs' = e
      BY <2>3 DEF x
    <3>6. isText'
      BY <2>1, Zenon DEF isText
    <3> HIDE DEF e
    <3>7. OpenTurn(msgs', k' - 1, Len(reply.calls) + 1, Len(reply.calls), iter)
      <4>1. k' - 1 = 0
        BY <2>1
      <4> QED BY <3>2, <3>3, <3>5, <4>1
    <3>8. OpenTurn(msgs, k - 1, Len(reply.calls) + 1, Len(reply.calls), iter)'
      BY <2>1, <2>3, <3>7
    <3>9. (~evicted => Resolved(msgs, seen))'
      BY <2>1, <3>4, <3>5
    <3> QED BY <2>1, <2>3, <3>6, <3>8, <3>9 DEF TranscriptInv
  <2> QED BY <2>1, <2>2, <2>3
<1> QED BY <1>1, <1>3, <1>4

(* What the end of a text turn sends: nothing, or its observation and hints. *)
LEMMA TextEndShape ==
    ASSUME LoopInv, textTurnEnds
    PROVE  /\ isText /\ phase = "endTurn" /\ UNCHANGED <<scen, reply, k, evicted>> /\ Len(fps) = 1 /\ fps[1] \in Seq(STRING)
           /\ \/ phase' = "done" /\ msgs' = [msgs EXCEPT ![Len(msgs)].n = 0] /\ UNCHANGED seen
              \/ phase' \in {"top", "done"} /\ \E due \in BOOLEAN : stub(fps[1], hint(due))
<1>1. isText /\ phase = "endTurn" /\ UNCHANGED <<scen, reply, k, evicted>>
  BY Zenon DEF textTurnEnds
<1>2. Len(fps) = 1 /\ fps[1] \in Seq(STRING)
  <2>1. Len(reply.calls) = 1 /\ Len(fps) = Len(reply.calls)
    BY <1>1, Zenon DEF LoopInv, ControlOK
  <2>2. Len(fps) = 1
    BY <2>1
  <2>3. 1 \in 1..Len(fps) /\ fps \in Seq(Seq(STRING))
    BY <2>2 DEF LoopInv, TracesOK
  <2>4. fps[1] \in Seq(STRING)
    BY <2>3
  <2> QED BY <2>2, <2>4
<1>3. \/ end("tool_obs_repeat") /\ msgs' = [msgs EXCEPT ![Len(msgs)].n = 0] /\ UNCHANGED seen
      \/ nextTurn /\ \E s : stub(fps[1], hint(escalatingRepeatNudge(s)))
  BY Zenon DEF textTurnEnds
<1>4. (nextTurn => phase' \in {"top", "done"}) /\ (end("tool_obs_repeat") => phase' = "done")
  BY DEF nextTurn, end
<1>5. \A s : escalatingRepeatNudge(s) \in BOOLEAN
  BY DEF escalatingRepeatNudge
<1>6. (\E s : stub(fps[1], hint(escalatingRepeatNudge(s)))) => \E due \in BOOLEAN : stub(fps[1], hint(due))
  BY <1>5, Zenon
<1> QED BY <1>1, <1>2, <1>3, <1>4, <1>6, Zenon

(* Its end: the observation and its hints, or a kill that never sends it.    *)
LEMMA TextEndTranscript ==
    ASSUME LoopInv, TranscriptInv, textTurnEnds
    PROVE  TranscriptInv'
<1>0. /\ msgs \in Seq(Message) /\ EnvOK /\ ReplyOK /\ TracesOK
      /\ ~evicted => Resolved(msgs, seen)
  BY DEF LoopInv, SentOK, TranscriptInv
<1>1. /\ isText /\ phase = "endTurn" /\ UNCHANGED <<scen, reply, k, evicted>> /\ Len(fps) = 1 /\ fps[1] \in Seq(STRING)
      /\ \/ phase' = "done" /\ msgs' = [msgs EXCEPT ![Len(msgs)].n = 0] /\ UNCHANGED seen
         \/ phase' \in {"top", "done"} /\ \E due \in BOOLEAN : stub(fps[1], hint(due))
  BY TextEndShape
<1>2. k = 1 /\ Len(reply.calls) = 1 /\ Len(fps) = 1
  BY <1>1, Zenon DEF TranscriptInv, LoopInv, ControlOK
<1>3. OpenTurn(msgs, 0, 2, 1, iter)
  <2>1. OpenTurn(msgs, k - 1, Len(reply.calls) + 1, Len(reply.calls), iter)
    BY <1>1, Zenon DEF TranscriptInv
  <2>2. k - 1 = 0 /\ Len(reply.calls) + 1 = 2
    BY <1>2
  <2> QED BY <1>2, <2>1, <2>2, Zenon
<1>4. CASE phase' = "done" /\ msgs' = [msgs EXCEPT ![Len(msgs)].n = 0] /\ UNCHANGED seen
  <2> DEFINE e == msgs'
             l == Len(msgs)
  <2>1. l - 0 \in 1..l /\ PairedTo(msgs, (l - 0) - 1) /\ msgs[l - 0].role = "assistant"
    BY <1>3, Zenon DEF OpenTurn
  <2>2. l \in Nat /\ l >= 1 /\ PairedTo(msgs, l - 1) /\ msgs[l].role = "assistant" /\ \A i \in 1..l : msgs[i].n \in Nat
    <3>1. l \in Nat /\ \A i \in 1..l : msgs[i].n \in Nat
      BY <1>0, Numbers
    <3>2. l - 0 = l
      BY <3>1
    <3> QED BY <2>1, <3>1, <3>2
  <2>3. /\ e \in Seq(Message) /\ Len(e) = l
        /\ \A i \in 1..l : /\ i # l => e[i] = msgs[i]
                           /\ e[i].role = msgs[i].role /\ e[i].at = msgs[i].at /\ e[i].ref = msgs[i].ref
                           /\ e[i].what = msgs[i].what
        /\ e[l].n = 0
    <3>1. msgs # <<>>
      BY <2>2
    <3> QED BY <1>0, <1>4, <3>1, UnpairedLast
  <2>3a. DOMAIN msgs = 1..l /\ DOMAIN e = 1..l
    BY <1>0, <2>3, Numbers
  <2> HIDE DEF e, l
  <2>4. PairedTo(e, l - 1)
    <3> DEFINE b == l - 1
    <3>1. b \in Nat /\ PairedTo(msgs, b) /\ (\A i \in 1..b : msgs[i].n \in Nat)
          /\ \A i \in 1..b : e[i].role = msgs[i].role /\ e[i].at = msgs[i].at /\ e[i].n = msgs[i].n
      BY <2>2, <2>3
    <3> HIDE DEF b
    <3>2. PairedTo(e, b)
      BY <3>1, PairedPrefix
    <3> QED BY <3>2 DEF b
  <2>5. PairedTo(e, l)
    <3> DEFINE b == l - 1
    <3>1. b \in Nat /\ b <= l /\ PairedTo(e, b) /\ \A i \in 1..b : e[i].n \in Nat
      BY <2>2, <2>3, <2>4
    <3>2. \A i \in (b + 1)..l : e[i].role = "assistant" /\ e[i].n = 0
      <4>1. \A i \in (b + 1)..l : i = l
        BY <2>2
      <4> QED BY <2>2, <2>3, <4>1
    <3> HIDE DEF b
    <3> QED BY <2>2, <3>1, <3>2, PairedPlain
  <2>6. PairedTo(msgs, Len(msgs))'
    BY <2>3, <2>5 DEF e
  <2>7. ASSUME Resolved(msgs, seen) PROVE Resolved(e, seen)
    <3>1. \A x, y : \A j \in 1..l : Original(msgs, x, y, j) => Original(e, x, y, j)
      BY <2>3 DEF Original
    <3>2. ASSUME NEW i \in 1..l, e[i].ref # 0
          PROVE  e[i].role = "tool" /\ \E j \in 1..(i - 1) : Original(e, e[i].what, e[i].ref, j)
      <4>1. e[i].ref = msgs[i].ref /\ e[i].role = msgs[i].role /\ e[i].what = msgs[i].what
        BY <2>3
      <4>2. msgs[i].role = "tool" /\ \E j \in 1..(i - 1) : Original(msgs, msgs[i].what, msgs[i].ref, j)
        BY <2>3a, <2>7, <3>2, <4>1, Zenon DEF Resolved
      <4>3. PICK j \in 1..(i - 1) : Original(msgs, msgs[i].what, msgs[i].ref, j)
        BY <4>2
      <4>4. j \in 1..l
        BY <2>2
      <4>5. Original(e, e[i].what, e[i].ref, j)
        BY <3>1, <4>1, <4>3, <4>4
      <4> QED BY <4>1, <4>2, <4>5
    <3>3. ASSUME NEW p \in seen PROVE \E j \in 1..l : Original(e, p[1], p[2], j)
      <4>1. PICK j \in 1..l : Original(msgs, p[1], p[2], j)
        BY <2>3a, <2>7, Zenon DEF Resolved
      <4> QED BY <3>1, <4>1
    <3> QED BY <2>3a, <3>2, <3>3, Zenon DEF Resolved
  <2>8. (~evicted => Resolved(msgs, seen))'
    BY <1>0, <1>1, <1>4, <2>7 DEF e
  <2> QED BY <1>4, <2>6, <2>8 DEF TranscriptInv
<1>5. CASE phase' \in {"top", "done"} /\ \E due \in BOOLEAN : stub(fps[1], hint(due))
  <2>1. PICK due \in BOOLEAN : stub(fps[1], hint(due))
    BY <1>5
  <2>2. due \in BOOLEAN
    OBVIOUS
  <2>3. hint(due) \in Seq(Message) /\ \A i \in 1..Len(hint(due)) : hint(due)[i].ref = 0
    <3>1. hint(due) \in Seq(Message)
      BY <1>0, <2>2, MessagesOK
    <3>2. \A i \in DOMAIN hint(due) : hint(due)[i] = User("hint")
      BY <2>2, SMT DEF hint
    <3>3. User("hint").ref = 0
      BY DEF User
    <3>4. DOMAIN hint(due) = 1..Len(hint(due))
      BY <3>1, Numbers
    <3> QED BY <3>1, <3>2, <3>3, <3>4, Zenon
  <2>5. OpenTurn(msgs, k - 1, 1 + 1, 1, iter) /\ k <= 1 /\ 1 \in Nat
    <3>1. k - 1 = 0 /\ 1 + 1 = 2 /\ k <= 1
      BY <1>2
    <3> QED BY <1>3, <3>1
  <2>7. /\ \E e \in Seq(Message) : msgs' = e \o hint(due) /\ OpenTurn(e, k, 1 + 1, 1, iter)
        /\ (~evicted => Resolved(msgs, seen))'
    BY <1>0, <1>1, <2>1, <2>3, <2>5, StubOpens
  <2>8. PICK e \in Seq(Message) : msgs' = e \o hint(due) /\ OpenTurn(e, k, 1 + 1, 1, iter)
    BY <2>7
  <2>9. PairedTo(e, Len(e))
    BY <1>2, <2>8, OpenCloses
  <2>10. PlainGrows(e, msgs')
    BY <1>0, <2>2, <2>8, PlainHint
  <2>11. PairedTo(msgs', Len(msgs'))
    BY <2>9, <2>10, ClosedGrows DEF PlainGrows
  <2>12. PairedTo(msgs, Len(msgs))'
    BY <2>11
  <2> QED BY <1>5, <2>7, <2>12 DEF TranscriptInv
<1> QED BY <1>1, <1>4, <1>5

(* Every step of either loop keeps TranscriptInv. *)
LEMMA TranscriptInvStep ==
    LoopInv /\ LoopInv' /\ TranscriptInv /\ [bothStep \/ cancel]_loopVars => TranscriptInv'
<1> SUFFICES ASSUME LoopInv, LoopInv', TranscriptInv, [bothStep \/ cancel]_loopVars PROVE TranscriptInv'
  OBVIOUS
<1>1. CASE sharedStep
  BY <1>1, SharedTranscript
<1>2. CASE nativeStep
  BY <1>2, ReplyTranscript, OpenTranscript, FinishTranscript, DispatchTranscript, TurnEndsTranscript DEF nativeStep
<1>3. CASE textStep
  BY <1>3, ReplyTranscript, TextTranscript, TextEndTranscript DEF textStep
<1>4. CASE cancel \/ UNCHANGED loopVars
  <2>1. UNCHANGED <<scen, phase, iter, msgs, reply, k, seen, evicted>>
    BY <1>4 DEF cancel, loopVars
  <2>2. isText' = isText /\ findCall' = findCall
    BY <2>1, Zenon DEF isText, findCall
  <2> QED BY <2>1, <2>2, Zenon DEF TranscriptInv
<1> QED BY <1>1, <1>2, <1>3, <1>4 DEF bothStep

(* TranscriptInv holds of the seeded transcript. *)
LEMMA TranscriptInvInit == LoopInit => TranscriptInv
<1> SUFFICES ASSUME LoopInit PROVE TranscriptInv
  OBVIOUS
<1>1. phase = "top" /\ seen = {} /\ msgs = seedMessages(sc.priorTurns) /\ msgs \in Seq(Message)
  BY LoopInvInit DEF LoopInit, LoopInv, SentOK
<1> DEFINE n == sc.priorTurns
           l == Len(msgs)
<1>2. \A i \in DOMAIN msgs : msgs[i].role \in {"user", "assistant"} /\ msgs[i].n = 0 /\ msgs[i].ref = 0
  <2> DEFINE prior == [role |-> "user", at |-> 0, n |-> 0, what |-> <<"history">>, ref |-> 0]
             said0 == [prior EXCEPT !.role = "assistant", !.what = <<"t0">>]
             task  == [prior EXCEPT !.what = <<"task">>]
  <2>1. /\ DOMAIN msgs = 1..(2 * n + 1)
        /\ \A i \in 1..(2 * n + 1) : msgs[i] = IF i = 2 * n + 1 THEN task ELSE IF i % 2 = 1 THEN prior ELSE said0
    BY <1>1 DEF seedMessages
  <2>2. \A x \in {prior, said0, task} : x.role \in {"user", "assistant"} /\ x.n = 0 /\ x.ref = 0
    <3>1. prior.role = "user" /\ prior.n = 0 /\ prior.ref = 0
      OBVIOUS
    <3>2. said0.role = "assistant" /\ said0.n = 0 /\ said0.ref = 0
      OBVIOUS
    <3>3. task.role = "user" /\ task.n = 0 /\ task.ref = 0
      OBVIOUS
    <3> HIDE DEF prior, said0, task
    <3> QED BY <3>1, <3>2, <3>3
  <2> HIDE DEF prior, said0, task, n
  <2>3. \A i \in DOMAIN msgs : msgs[i] \in {prior, said0, task}
    BY <2>1, Zenon
  <2> QED BY <2>2, <2>3, Zenon
<1>3. l \in Nat /\ DOMAIN msgs = 1..l
  BY <1>1, Numbers
<1> HIDE DEF l
<1>4. PairedTo(msgs, 0)
  <2>1. 1..0 = {}
    OBVIOUS
  <2> QED BY <2>1, Zenon DEF PairedTo
<1>5. PairedTo(msgs, l)
  <2>1. 0 \in Nat /\ 0 <= l /\ \A i \in 1..0 : msgs[i].n \in Nat
    BY <1>3
  <2>2. \A i \in (0 + 1)..l : msgs[i].role = "user" \/ (msgs[i].role = "assistant" /\ msgs[i].n = 0)
    BY <1>2, <1>3
  <2> QED BY <1>3, <1>4, <2>1, <2>2, PairedPlain
<1>6. Resolved(msgs, seen)
  BY <1>1, <1>2 DEF Resolved
<1> QED BY <1>1, <1>5, <1>6 DEF TranscriptInv, l

(* TranscriptInv is at least as strong as TranscriptWellFormed. *)
LEMMA TranscriptInvMeans == LoopInv /\ TranscriptInv => TranscriptWellFormed
<1> SUFFICES ASSUME LoopInv, TranscriptInv PROVE TranscriptWellFormed
  OBVIOUS
<1>1. Len(msgs) \in Nat /\ DOMAIN msgs = 1..Len(msgs)
  BY Numbers DEF LoopInv, SentOK
<1>2. TranscriptPaired
  <2>1. ASSUME PairedTo(msgs, Len(msgs))
        PROVE  /\ \A i \in DOMAIN msgs : msgs[i].role = "assistant" =>
                    /\ i + msgs[i].n <= Len(msgs)
                    /\ {msgs[i + j].n : j \in 1..msgs[i].n} = 1..msgs[i].n
                    /\ \A j \in 1..msgs[i].n : msgs[i + j].role = "tool" /\ msgs[i + j].at = msgs[i].at
               /\ \A i \in DOMAIN msgs : msgs[i].role = "tool" =>
                    \E h \in 1..(i - 1) : msgs[h].role = "assistant" /\ i - h <= msgs[h].n
    BY <1>1, <2>1, Zenon DEF PairedTo
  <2>2. phase \in {"top", "generate", "done"} => PairedTo(msgs, Len(msgs))
    BY DEF TranscriptInv
  <2> QED BY <2>1, <2>2, Zenon DEF TranscriptPaired
<1>3. StubResolves
  <2>1. ~evicted => \A i \in DOMAIN msgs : msgs[i].ref # 0 =>
              \E j \in 1..(i - 1) : Original(msgs, msgs[i].what, msgs[i].ref, j)
    BY Zenon DEF TranscriptInv, Resolved
  <2> QED BY <2>1, Zenon DEF StubResolves, Original
<1> QED BY <1>2, <1>3 DEF TranscriptWellFormed

(* The transcript is well formed in every run of either loop: whenever it is *)
(* sent or returned, calls and results pair up, through kills in mid-turn    *)
(* (killStagnant), finish turns and evictions, and a reference of            *)
(* obsDedup.stub stands for a result ahead of it.                            *)
THEOREM TranscriptStaysWellFormed == BothLoops => []TranscriptWellFormed
<1> QED BY LoopInvInit, LoopInvStep, TranscriptInvInit, TranscriptInvStep, TranscriptInvMeans, PTL DEF BothLoops

-----------------------------------------------------------------------------
(* Nothing but an eviction takes a message out of the transcript. *)
LEMMA OnlyEvictionShrinks ==
    ASSUME LoopInv, [bothStep \/ cancel]_loopVars
    PROVE  Len(msgs') >= Len(msgs) \/ msgs' = evictOldestTurns(msgs)
<1> DEFINE Longer(m, e) == e \in Seq(Message) /\ Len(e) >= Len(m)
<1>0. msgs \in Seq(Message) /\ EnvOK /\ ReplyOK /\ SentOK /\ Longer(msgs, msgs) /\ k \in Nat \ {0}
  <2>1. msgs \in Seq(Message)
    BY DEF LoopInv, SentOK
  <2> QED BY <2>1, Numbers DEF LoopInv, ControlOK
<1>a. ASSUME NEW m, NEW e, Longer(m, e), m \in Seq(Message), NEW x \in Message
      PROVE  Longer(m, Append(e, x))
  BY <1>a
<1>b. ASSUME NEW m, NEW e, Longer(m, e), m \in Seq(Message), NEW t \in Seq(Message)
      PROVE  Longer(m, e \o t)
  <2>1. e \o t \in Seq(Message) /\ Len(e \o t) = Len(e) + Len(t) /\ Len(t) \in Nat /\ Len(e) \in Nat /\ Len(m) \in Nat
    BY <1>b, ConcatProperties, Numbers
  <2> QED BY <1>b, <2>1
<1>1. ASSUME NEW m, Longer(msgs, m), gatesFinish(m)
      PROVE  Longer(msgs, msgs')
  <2>1. "feedback" \in Words
    BY DEF Words
  <2>2. User("feedback") \in Message
    BY <1>0, <2>1, MessagesOK
  <2>3. msgs' \in {m, Append(m, User("feedback"))}
    BY <1>1, Zenon DEF gatesFinish
  <2> QED BY <1>0, <1>1, <1>a, <2>2, <2>3
<1>2. Assistant \in Message /\ \A n \in Nat : said(n) \in Message
  BY <1>0, MessagesOK
<1>c. Longer(msgs, Append(msgs, Assistant)) /\ \A n \in Nat : Longer(msgs, Append(msgs, said(n)))
  BY <1>0, <1>2, <1>a
<1>d. ASSUME NEW obs \in Seq(STRING), NEW rest \in Seq(Message), stub(obs, rest)
      PROVE  Longer(msgs, msgs')
  <2>0. k \in Nat
    BY <1>0
  <2>1. PICK ref \in Nat : msgs' = Append(msgs, ToolResult(k, obs, ref)) \o rest
    BY <1>0, <1>d, <2>0, Stubbed
  <2>2. ToolResult(k, obs, ref) \in Message
    BY <1>0, MessagesOK
  <2> QED BY <1>0, <1>a, <1>b, <2>1, <2>2
<1>e. \A due \in BOOLEAN : hint(due) \in Seq(Message)
  BY <1>0, MessagesOK
<1>f. ASSUME Longer(msgs, msgs') PROVE Len(msgs') >= Len(msgs)
  BY <1>f
<1> HIDE DEF Longer
<1>3. CASE sharedStep
  <2>1. \/ UNCHANGED msgs
        \/ msgs' = Append(msgs, User("standing"))
        \/ msgs' = dropReplayReasoning(msgs)
        \/ msgs' = evictOldestTurns(msgs)
    BY <1>3 DEF sharedStep, turnStarts, generateFails, generateWithRetry, replayRejected, generateWithEviction
  <2>2. Longer(msgs, Append(msgs, User("standing")))
    <3>1. "standing" \in Words
      BY DEF Words
    <3>2. User("standing") \in Message
      BY <1>0, <3>1, MessagesOK
    <3> QED BY <1>0, <1>a, <3>2
  <2>3. Longer(msgs, dropReplayReasoning(msgs))
    <3>1. dropReplayReasoning(msgs) \in Seq(Message) /\ Len(dropReplayReasoning(msgs)) = Len(msgs) /\ Len(msgs) \in Nat
      BY <1>0, ReasoningDropped, Numbers
    <3> QED BY <3>1 DEF Longer
  <2> QED BY <1>0, <1>f, <2>1, <2>2, <2>3
<1>4. CASE \/ generateOnce \/ textGenerate \/ killRepeat \/ killSpiral \/ cancel \/ UNCHANGED loopVars
  <2>1. UNCHANGED msgs
    BY <1>4 DEF generateOnce, textGenerate, killRepeat, killSpiral, cancel, loopVars
  <2> QED BY <1>0, <1>f, <2>1
<1>5. CASE finishTurn \/ commitTurn \/ textKillRepeat \/ textKillSpiral \/ textAct
  <2>1. msgs' = Append(msgs, Assistant) \/ \E n \in {0, 1} : msgs' = Append(msgs, said(n))
    BY <1>5 DEF finishTurn, commitTurn, textKillRepeat, textKillSpiral, textAct
  <2> QED BY <1>c, <1>f, <2>1
<1>6. CASE silentTurn
  <2>1. \E due \in BOOLEAN : msgs' = Append(msgs, Assistant) \o hint(due)
    <3>1. msgs' = Append(msgs, Assistant) \o hint(TRUE) \/ msgs' = Append(msgs, Assistant) \o hint(FALSE)
      BY <1>6 DEF silentTurn, hint
    <3> QED BY <3>1
  <2> QED BY <1>0, <1>b, <1>c, <1>e, <1>f, <2>1
<1>7. CASE answerTurn \/ textAnswer
  <2>1. gatesFinish(Append(msgs, Assistant)) \/ gatesFinish(Append(msgs, said(0)))
    BY <1>7 DEF answerTurn, textAnswer
  <2> QED BY <1>1, <1>c, <1>f, <2>1
<1>8. CASE finishDispatch
  <2>1. k \in DOMAIN reply.calls
        /\ (UNCHANGED msgs \/ \E r \in dispatchNative(reply.calls[k]) :
                                msgs' = Append(msgs, ToolResult(k, Observed(reply.calls[k], r), 0)))
    BY <1>8, Zenon DEF finishDispatch
  <2>2. ASSUME NEW r \in dispatchNative(reply.calls[k]) PROVE ToolResult(k, Observed(reply.calls[k], r), 0) \in Message
    <3>1. ws \in Versions /\ reply.calls[k] \in Call
      BY <1>0, <2>1 DEF EnvOK, ReplyOK
    <3>2. Observed(reply.calls[k], r) \in Seq(STRING)
      BY <3>1, Dispatched, ObservedTyped
    <3> QED BY <1>0, <3>2, MessagesOK
  <2> QED BY <1>0, <1>a, <1>f, <2>1, <2>2
<1>9. CASE finishReturns
  <2>1. phase = "finishing" /\ gatesFinish(Append(msgs, ToolResult(findCall, <<"finish">>, 0)))
    BY <1>9 DEF finishReturns
  <2>2. ToolResult(findCall, <<"finish">>, 0) \in Message
    <3>1. findCall \in DOMAIN reply.calls
      BY <2>1, FindCall DEF LoopInv, ControlOK, ReplyOK
    <3>2. "finish" \in STRING
      BY WordsAssumption DEF WordsAssumption, Words
    <3>2a. findCall \in Nat
      BY <1>0, <3>1 DEF ReplyOK
    <3>3. <<"finish">> \in Seq(STRING)
      BY <3>2
    <3> QED BY <1>0, <3>2a, <3>3, MessagesOK
  <2>3. Longer(msgs, Append(msgs, ToolResult(findCall, <<"finish">>, 0)))
    BY <1>0, <1>a, <2>2
  <2> QED BY <1>1, <1>f, <2>1, <2>3
<1>10. ASSUME phase = "dispatch", NEW r \in Result, NEW m, observeCall(reply.calls[k], r, m)
       PROVE  Len(msgs') >= Len(msgs)
  <2>1. stub(Observed(reply.calls[k], r), <<>>)
    BY <1>10, Zenon DEF observeCall
  <2>2. reply.calls[k] \in Call
    BY <1>10 DEF LoopInv, ControlOK, ReplyOK
  <2>3. Observed(reply.calls[k], r) \in Seq(STRING) /\ <<>> \in Seq(Message)
    BY <1>10, <2>2, ObservedTyped
  <2> QED BY <1>d, <1>f, <2>1, <2>3
<1>g. phase = "dispatch" => \A r \in executions : r \in Result
  <2>1. ws \in Versions
    BY <1>0 DEF EnvOK
  <2> QED BY <2>1, Executed, Dispatched
<1>11. CASE skipCall
  <2>1. phase = "dispatch" /\ observeCall(reply.calls[k], Ran(mem.readSaw, ws, "skipped"), mem)
    BY <1>11 DEF skipCall
  <2>2. Ran(mem.readSaw, ws, "skipped") \in Result
    <3>1. mem.readSaw \in STRING /\ "skipped" \in STRING /\ ws \in Versions
      BY WordsAssumption DEF WordsAssumption, Words, Memory, LoopInv, TracesOK, EnvOK
    <3> QED BY <3>1, RanTyped
  <2> QED BY <1>10, <2>1, <2>2
<1>12. CASE dispatchCall
  <2>1. phase = "dispatch" /\ \E r \in executions : observeCall(reply.calls[k], r, memOf(reply.calls[k], r))
    BY <1>12 DEF dispatchCall
  <2> QED BY <1>10, <1>g, <2>1
<1>13. CASE killStagnant
  <2>1. \E obs \in Seq(STRING), rest \in Seq(Message) : stub(obs, rest)
    BY <1>13, StagnantRest
  <2> QED BY <1>d, <1>f, <2>1
<1>14. CASE turnEnds
  BY <1>14, TurnEndsPlain DEF PlainGrows, Grows
<1>15. CASE textTurnEnds
  <2>1. msgs' = [msgs EXCEPT ![Len(msgs)].n = 0] \/ \E due \in BOOLEAN : stub(fps[1], hint(due))
    BY <1>15, TextEndShape
  <2>2. fps[1] \in Seq(STRING)
    BY <1>15, TextEndShape
  <2>3. CASE msgs' = [msgs EXCEPT ![Len(msgs)].n = 0]
    <3>1. msgs' \in Seq(Message) /\ Len(msgs') = Len(msgs) /\ Len(msgs) \in Nat
      BY <1>0, <2>3, UnpairedLast, Numbers
    <3> QED BY <3>1
  <2> QED BY <1>d, <1>e, <1>f, <2>1, <2>2, <2>3
<1> QED BY <1>3, <1>4, <1>5, <1>6, <1>7, <1>8, <1>9, <1>11, <1>12, <1>13, <1>14, <1>15
        DEF bothStep, nativeStep, textStep

(* No step loses the message the transcript opens with, or any of the turn   *)
(* the run is at: evictOldestTurns alone takes messages out, and keeps both. *)
THEOREM EvictionsAreSafe == BothLoops => EvictionIsSafe
<1>1. ASSUME LoopInv, LoopInv', [bothStep \/ cancel]_loopVars
      PROVE  evictOldestTurns(msgs) # msgs /\ Len(msgs') < Len(msgs) =>
                msgs'[1] = msgs[1] /\ lastTurnOf(msgs') = lastTurnOf(msgs)
  <2>1. Len(msgs') >= Len(msgs) \/ msgs' = evictOldestTurns(msgs)
    BY <1>1, OnlyEvictionShrinks
  <2>2. Len(msgs) \in Nat /\ Len(msgs') \in Nat /\ msgs \in Seq(Message)
    BY <1>1, Numbers DEF LoopInv, SentOK
  <2>3. ASSUME evictOldestTurns(msgs) # msgs, Len(msgs') < Len(msgs)
        PROVE  msgs'[1] = msgs[1] /\ lastTurnOf(msgs') = lastTurnOf(msgs)
    <3>1. msgs' = evictOldestTurns(msgs)
      BY <2>1, <2>2, <2>3
    <3>2. /\ evictOldestTurns(msgs)[1] = msgs[1]
          /\ lastTurnOf(evictOldestTurns(msgs)) = lastTurnOf(msgs)
      BY <2>2, <2>3, EvictionKeepsEnds
    <3> QED BY <3>1, <3>2
  <2> QED BY <2>3
<1>2. LoopInv /\ LoopInv' /\ [bothStep \/ cancel]_loopVars =>
        [evictOldestTurns(msgs) # msgs /\ Len(msgs') < Len(msgs) =>
            msgs'[1] = msgs[1] /\ lastTurnOf(msgs') = lastTurnOf(msgs)]_msgs
  BY <1>1
<1> QED BY <1>2, LoopInvInit, LoopInvStep, PTL DEF BothLoops, EvictionIsSafe

-----------------------------------------------------------------------------
(* A detector kills exactly the stalls: StallInv. *)

(* Histories. *)
History == Seq(Committed)

(* The last position of a set, and the stretch at its end, as it grows. *)
LEMMA StretchMember ==
    ASSUME NEW T, NEW G, NEW i
    PROVE  i \in stretch(T, G) <=> i \in T /\ \A j \in T : j >= i => j \in G
  BY DEF stretch

(* A stretch at the end of T, with one more turn of its kind. *)
LEMMA StretchGrows ==
    ASSUME NEW n \in Nat, NEW T \in SUBSET (1..n), NEW G, NEW H, n + 1 \in H, \A j \in T : j \in H <=> j \in G
    PROVE  stretch(T \cup {n + 1}, H) = stretch(T, G) \cup {n + 1}
<1>1. \A j \in T : j \in 1..n /\ j < n + 1 /\ j # n + 1
  OBVIOUS
<1>2. ASSUME NEW i \in stretch(T \cup {n + 1}, H) PROVE i \in stretch(T, G) \cup {n + 1}
  <2>1. i \in T \cup {n + 1} /\ \A j \in T \cup {n + 1} : j >= i => j \in H
    BY <1>2, StretchMember
  <2>2. CASE i # n + 1
    <3>1. i \in T /\ \A j \in T : j >= i => j \in G
      BY <2>1, <2>2
    <3> QED BY <3>1, StretchMember
  <2> QED BY <2>2
<1>3. ASSUME NEW i \in stretch(T, G) PROVE i \in stretch(T \cup {n + 1}, H)
  <2>1. i \in T /\ \A j \in T : j >= i => j \in G
    BY <1>3, StretchMember
  <2>2. i \in T \cup {n + 1}
    BY <2>1
  <2>3. ASSUME NEW j \in T \cup {n + 1}, j >= i PROVE j \in H
    BY <2>1, <2>3
  <2> DEFINE U == T \cup {n + 1}
  <2> HIDE DEF U
  <2>4. i \in U /\ \A j \in U : j >= i => j \in H
    BY <2>2, <2>3 DEF U
  <2>5. i \in stretch(U, H)
    BY <2>4, StretchMember
  <2> QED BY <2>5 DEF U
<1>4. n + 1 \in stretch(T \cup {n + 1}, H)
  <2> DEFINE U == T \cup {n + 1}
             m == n + 1
  <2>1. m \in U /\ \A j \in U : j >= m => j \in H
    BY <1>1
  <2> HIDE DEF U, m
  <2>2. m \in stretch(U, H)
    BY <2>1, StretchMember
  <2> QED BY <2>2 DEF U, m
<1> QED BY <1>2, <1>3, <1>4

(* A turn of another kind leaves no stretch at the end. *)
LEMMA StretchBroken ==
    ASSUME NEW n \in Nat, NEW T \in SUBSET (1..n), NEW H, n + 1 \notin H
    PROVE  stretch(T \cup {n + 1}, H) = {}
<1> SUFFICES ASSUME NEW i \in stretch(T \cup {n + 1}, H) PROVE FALSE
  OBVIOUS
<1>1. i \in T \cup {n + 1} /\ \A j \in T \cup {n + 1} : j >= i => j \in H
  BY StretchMember
<1>2. n + 1 >= i
  BY <1>1
<1> QED BY <1>1, <1>2

(* Nothing that ends in another is a stretch. *)
LEMMA StretchEnded ==
    ASSUME NEW n \in Nat, NEW T \in SUBSET (1..n), NEW G, T = {} \/ \E l : isLast(T, l) /\ l \notin G
    PROVE  stretch(T, G) = {}
<1> SUFFICES ASSUME NEW i \in stretch(T, G) PROVE FALSE
  OBVIOUS
<1>1. i \in T /\ \A j \in T : j >= i => j \in G
  BY StretchMember
<1>2. PICK l : isLast(T, l) /\ l \notin G
  BY <1>1
<1>3. l \in T /\ i <= l
  BY <1>1, <1>2 DEF isLast
<1>4. l >= i
  BY <1>1, <1>3
<1> QED BY <1>1, <1>2, <1>3, <1>4

(* A stretch of turns is finite, and counts one more with the next turn. *)
LEMMA StretchFinite ==
    ASSUME NEW n \in Nat, NEW T \in SUBSET (1..n), NEW G
    PROVE  /\ stretch(T, G) \subseteq T
           /\ IsFiniteSet(stretch(T, G)) /\ Cardinality(stretch(T, G)) \in Nat
           /\ n + 1 \notin stretch(T, G)
           /\ Cardinality(stretch(T, G) \cup {n + 1}) = Cardinality(stretch(T, G)) + 1
<1>1. stretch(T, G) \subseteq T
  BY DEF stretch
<1> DEFINE S == stretch(T, G)
<1> HIDE DEF S
<1>2. n + 1 \notin S /\ S \subseteq 1..n
  <2>1. S \subseteq T
    BY <1>1 DEF S
  <2>2. n + 1 \notin 1..n
    OBVIOUS
  <2> QED BY <2>1, <2>2
<1>3. IsFiniteSet(S)
  <2>1. IsFiniteSet(1..n)
    BY FS_Interval
  <2> QED BY <1>2, <2>1, FS_Subset
<1>4. Cardinality(S) \in Nat /\ Cardinality(S \cup {n + 1}) = Cardinality(S) + 1
  BY <1>2, <1>3, FS_AddElement, FS_CardinalityType
<1> QED BY <1>1, <1>2, <1>3, <1>4 DEF S

-----------------------------------------------------------------------------
(* A turn on record, one more: its tool turns, and the ones before it.       *)
LEMMA OneMoreTurn ==
    ASSUME NEW s \in History, NEW t \in Committed
    PROVE  /\ Append(s, t) \in History /\ Len(s) \in Nat /\ DOMAIN s = 1..Len(s)
           /\ DOMAIN Append(s, t) = 1..(Len(s) + 1)
           /\ Append(s, t)[Len(s) + 1] = t
           /\ \A i \in DOMAIN s : Append(s, t)[i] = s[i]
  BY DEF History

(* The tool turns of a history are among its turns, and grow with it. *)
LEMMA ToolTurnsAre ==
    ASSUME NEW s \in History
    PROVE  toolTurns(s) \in SUBSET (1..Len(s))
  BY DEF History, toolTurns

(* What one more turn adds to them. *)
LEMMA ToolTurnsGrow ==
    ASSUME NEW s \in History, NEW t \in Committed
    PROVE  toolTurns(Append(s, t)) = IF t.kind = "tools" THEN toolTurns(s) \cup {Len(s) + 1} ELSE toolTurns(s)
<1> DEFINE z == Append(s, t)
           n == Len(s)
<1>1. n \in Nat /\ DOMAIN s = 1..n /\ DOMAIN z = 1..(n + 1) /\ z[n + 1] = t /\ \A i \in DOMAIN s : z[i] = s[i]
  BY OneMoreTurn
<1> HIDE DEF z, n
<1>2. toolTurns(z) = {i \in 1..(n + 1) : z[i].kind = "tools"}
  BY <1>1 DEF toolTurns
<1>3. toolTurns(s) = {i \in 1..n : s[i].kind = "tools"}
  BY <1>1 DEF toolTurns
<1>4. 1..(n + 1) = 1..n \cup {n + 1} /\ n + 1 \notin 1..n
  BY <1>1
<1>5. \A i \in 1..n : z[i].kind = s[i].kind
  BY <1>1
<1> QED BY <1>1, <1>2, <1>3, <1>4, <1>5 DEF z, n

(* The last tool turn. *)
LEMMA LastTurn ==
    ASSUME NEW s \in History, toolTurns(s) # {}
    PROVE  \E l \in toolTurns(s) : isLast(toolTurns(s), l)
<1>1. toolTurns(s) \in SUBSET (0..Len(s)) /\ Len(s) \in Nat
  BY ToolTurnsAre DEF History
<1>2. PICK l \in toolTurns(s) : \A j \in toolTurns(s) : j <= l
  BY <1>1, LargestIndex
<1> QED BY <1>2 DEF isLast

(* A tool turn put on record is the last one. *)
LEMMA NewLastTurn ==
    ASSUME NEW s \in History, NEW t \in Committed, t.kind = "tools"
    PROVE  /\ isLast(toolTurns(Append(s, t)), Len(s) + 1)
           /\ \A l : isLast(toolTurns(Append(s, t)), l) => l = Len(s) + 1
<1> DEFINE n == Len(s)
           T == toolTurns(s)
           U == toolTurns(Append(s, t))
<1>1. n \in Nat /\ T \in SUBSET (1..n) /\ U = T \cup {n + 1}
  BY OneMoreTurn, ToolTurnsAre, ToolTurnsGrow
<1> HIDE DEF n, T, U
<1>2. \A j \in U : j \in Nat /\ j <= n + 1
  BY <1>1
<1>3. isLast(U, n + 1)
  BY <1>1, <1>2 DEF isLast
<1>4. ASSUME NEW l, isLast(U, l) PROVE l = n + 1
  BY <1>1, <1>2, <1>4 DEF isLast
<1> QED BY <1>3, <1>4 DEF n, U
-----------------------------------------------------------------------------
(* The repeated call: what is remembered of it, and of the history.          *)
RepGood(s, sig, n) ==
    /\ n \in Nat
    /\ toolTurns(s) = {} => sig = <<>>
    /\ toolTurns(s) # {} => n + 1 = Cardinality(sameCalls(s, sig))
    /\ \A l \in toolTurns(s) : isLast(toolTurns(s), l) =>
         s[l].calls = sig /\ n + 1 <= repeatThreshold(s[l].adv)

(* The repeated observation. *)
ObsGood(s, fp, n) ==
    /\ n = Cardinality(sameObs(s, fp)) /\ n < MaxReasoningRepeats
    /\ \A l \in toolTurns(s) : isLast(toolTurns(s), l) => s[l].obs = fp

(* Turns alike, at the end of a longer history. *)
LEMMA SameCallsGrow ==
    ASSUME NEW s \in History, NEW t \in Committed, t.kind = "tools"
    PROVE  sameCalls(Append(s, t), t.calls) = sameCalls(s, t.calls) \cup {Len(s) + 1}
<1> DEFINE n == Len(s)
           z == Append(s, t)
           T == toolTurns(s)
           G == {i \in T : s[i].calls = t.calls}
           H == {i \in T \cup {n + 1} : z[i].calls = t.calls}
<1>1. n \in Nat /\ T \in SUBSET (1..n) /\ toolTurns(z) = T \cup {n + 1}
  BY OneMoreTurn, ToolTurnsAre, ToolTurnsGrow
<1>2. n + 1 \in H /\ \A j \in T : j \in H <=> j \in G
  <2>1. z[n + 1] = t /\ \A j \in T : z[j] = s[j]
    BY OneMoreTurn, ToolTurnsAre
  <2> HIDE DEF z, n, T
  <2> QED BY <2>1
<1>3. sameCalls(z, t.calls) = stretch(T \cup {n + 1}, H) /\ sameCalls(s, t.calls) = stretch(T, G)
  BY <1>1, Zenon DEF sameCalls
<1> HIDE DEF n, z, T, G, H
<1>4. stretch(T \cup {n + 1}, H) = stretch(T, G) \cup {n + 1}
  BY <1>1, <1>2, StretchGrows
<1> QED BY <1>3, <1>4 DEF n, z

(* The same of turns that observed alike. *)
LEMMA SameObsGrow ==
    ASSUME NEW s \in History, NEW t \in Committed, t.kind = "tools"
    PROVE  sameObs(Append(s, t), t.obs) = sameObs(s, t.obs) \cup {Len(s) + 1}
<1> DEFINE n == Len(s)
           z == Append(s, t)
           T == toolTurns(s)
           G == {i \in T : s[i].obs = t.obs}
           H == {i \in T \cup {n + 1} : z[i].obs = t.obs}
<1>1. n \in Nat /\ T \in SUBSET (1..n) /\ toolTurns(z) = T \cup {n + 1}
  BY OneMoreTurn, ToolTurnsAre, ToolTurnsGrow
<1>2. n + 1 \in H /\ \A j \in T : j \in H <=> j \in G
  <2>1. z[n + 1] = t /\ \A j \in T : z[j] = s[j]
    BY OneMoreTurn, ToolTurnsAre
  <2> HIDE DEF z, n, T
  <2> QED BY <2>1
<1>3. sameObs(z, t.obs) = stretch(T \cup {n + 1}, H) /\ sameObs(s, t.obs) = stretch(T, G)
  BY <1>1, Zenon DEF sameObs
<1> HIDE DEF n, z, T, G, H
<1>4. stretch(T \cup {n + 1}, H) = stretch(T, G) \cup {n + 1}
  BY <1>1, <1>2, StretchGrows
<1> QED BY <1>3, <1>4 DEF n, z

(* The count of the turns alike, after one more of them. *)
LEMMA SameTurnsCount ==
    ASSUME NEW s \in History, NEW c
    PROVE  /\ Cardinality(sameCalls(s, c)) \in Nat /\ Cardinality(sameObs(s, c)) \in Nat
           /\ Cardinality(sameCalls(s, c) \cup {Len(s) + 1}) = Cardinality(sameCalls(s, c)) + 1
           /\ Cardinality(sameObs(s, c) \cup {Len(s) + 1}) = Cardinality(sameObs(s, c)) + 1
           /\ (toolTurns(s) = {} \/ \E l : isLast(toolTurns(s), l) /\ s[l].calls # c) => Cardinality(sameCalls(s, c)) = 0
           /\ (toolTurns(s) = {} \/ \E l : isLast(toolTurns(s), l) /\ s[l].obs # c) => Cardinality(sameObs(s, c)) = 0
<1> DEFINE n == Len(s)
           T == toolTurns(s)
           G == {i \in T : s[i].calls = c}
           H == {i \in T : s[i].obs = c}
<1>1. n \in Nat /\ T \in SUBSET (1..n)
  BY ToolTurnsAre DEF History
<1>2. sameCalls(s, c) = stretch(T, G) /\ sameObs(s, c) = stretch(T, H)
  BY Zenon DEF sameCalls, sameObs
<1>3. \A l : (s[l].calls # c => l \notin G) /\ (s[l].obs # c => l \notin H)
  OBVIOUS
<1> HIDE DEF n, T, G, H
<1>4. \A X : /\ Cardinality(stretch(T, X)) \in Nat
             /\ Cardinality(stretch(T, X) \cup {n + 1}) = Cardinality(stretch(T, X)) + 1
  BY <1>1, StretchFinite
<1>5. \A X : (T = {} \/ \E l : isLast(T, l) /\ l \notin X) => Cardinality(stretch(T, X)) = 0
  <2> SUFFICES ASSUME NEW X, T = {} \/ \E l : isLast(T, l) /\ l \notin X PROVE Cardinality(stretch(T, X)) = 0
    OBVIOUS
  <2>1. stretch(T, X) = {}
    BY <1>1, StretchEnded
  <2> QED BY <2>1, FS_EmptySet
<1> QED BY <1>2, <1>3, <1>4, <1>5, Zenon DEF n, T

(* A turn that is not cut as a repeat. *)
LEMMA RepTurn ==
    ASSUME NEW s \in History, NEW t \in Committed, t.kind = "tools", t.calls # <<>>, NEW sig, NEW n, RepGood(s, sig, n),
           NEW m, m = IF t.calls = sig THEN n + 1 ELSE 0,
           ~(t.calls = sig /\ m >= repeatThreshold(t.adv))
    PROVE  RepGood(Append(s, t), t.calls, m)
<1>1. repeatThreshold(t.adv) \in Nat \ {0}
  BY TrackerAssumption DEF TrackerAssumption, repeatThreshold
<1>2. n \in Nat /\ m \in Nat /\ m + 1 <= repeatThreshold(t.adv)
  BY <1>1 DEF RepGood
<1>3. Cardinality(sameCalls(Append(s, t), t.calls)) = Cardinality(sameCalls(s, t.calls)) + 1
  BY SameCallsGrow, SameTurnsCount
<1>4. Cardinality(sameCalls(s, t.calls)) = m
  <2>1. CASE t.calls = sig
    <3>1. toolTurns(s) # {}
      BY <2>1 DEF RepGood
    <3> QED BY <2>1, <3>1 DEF RepGood
  <2>2. CASE t.calls # sig
    <3>1. toolTurns(s) = {} \/ \E l : isLast(toolTurns(s), l) /\ s[l].calls # t.calls
      BY <2>2, LastTurn DEF RepGood
    <3> QED BY <2>2, <3>1, SameTurnsCount
  <2> QED BY <2>1, <2>2
<1>5. isLast(toolTurns(Append(s, t)), Len(s) + 1) /\ Append(s, t)[Len(s) + 1] = t
      /\ \A l : isLast(toolTurns(Append(s, t)), l) => l = Len(s) + 1
  BY NewLastTurn, OneMoreTurn
<1>6. toolTurns(Append(s, t)) # {}
  BY <1>5 DEF isLast
<1> QED BY <1>2, <1>3, <1>4, <1>5, <1>6 DEF RepGood

(* A turn that is cut as one. *)
LEMMA RepKill ==
    ASSUME NEW s \in History, NEW calls, calls # <<>>, NEW sig, NEW n, RepGood(s, sig, n), calls = sig,
           NEW adv, n + 1 >= repeatThreshold(adv)
    PROVE  Cardinality(sameCalls(s, calls)) >= repeatThreshold(adv)
<1>1. toolTurns(s) # {}
  BY DEF RepGood
<1> QED BY <1>1 DEF RepGood

(* A turn whose observation is taken: cut, or on record. *)
LEMMA ObsTurn ==
    ASSUME NEW s \in History, NEW t \in Committed, t.kind = "tools", NEW fp, NEW n, ObsGood(s, fp, n),
           NEW m, m = IF t.obs = fp THEN n + 1 ELSE 1
    PROVE  /\ m = Cardinality(sameObs(Append(s, t), t.obs))
           /\ m < MaxReasoningRepeats => ObsGood(Append(s, t), t.obs, m)
<1>1. Cardinality(sameObs(Append(s, t), t.obs)) = Cardinality(sameObs(s, t.obs)) + 1
  BY SameObsGrow, SameTurnsCount
<1>2. Cardinality(sameObs(s, t.obs)) + 1 = m
  <2>1. CASE t.obs = fp
    BY <2>1 DEF ObsGood
  <2>2. CASE t.obs # fp
    <3>1. toolTurns(s) = {} \/ \E l : isLast(toolTurns(s), l) /\ s[l].obs # t.obs
      BY <2>2, LastTurn DEF ObsGood
    <3>2. Cardinality(sameObs(s, t.obs)) = 0
      BY <3>1, SameTurnsCount
    <3> QED BY <2>2, <3>2
  <2> QED BY <2>1, <2>2
<1>3. isLast(toolTurns(Append(s, t)), Len(s) + 1) /\ Append(s, t)[Len(s) + 1] = t
      /\ \A l : isLast(toolTurns(Append(s, t)), l) => l = Len(s) + 1
  BY NewLastTurn, OneMoreTurn
<1> QED BY <1>1, <1>2, <1>3 DEF ObsGood
-----------------------------------------------------------------------------
(* Induction, and functions defined by a recurrence.                        *)

(* Induction over the naturals, with the property as a set.                 *)
LEMMA Induction ==
    ASSUME NEW S, 0 \in S, \A n \in Nat : n \in S => n + 1 \in S
    PROVE  \A n \in Nat : n \in S
<1> DEFINE R == OpToRel(<, Nat)
           U == Nat \ S
<1>1. IsWellFoundedOn(R, Nat)
  BY NatLessThanWellFounded
<1>2. \A m, n \in Nat : m < n => <<m, n>> \in R
  BY DEF OpToRel
<1> HIDE DEF R
<1>3. SUFFICES ASSUME U # {} PROVE FALSE
  OBVIOUS
<1>4. PICK n \in U : \A m \in U : <<m, n>> \notin R
  BY <1>1, <1>3, WFMin, Zenon
<1>5. n # 0 /\ n \in Nat
  OBVIOUS
<1>6. n - 1 \in Nat /\ n - 1 < n
  BY <1>5
<1>7. n - 1 \in S
  BY <1>2, <1>4, <1>5, <1>6
<1>8. QED
  BY <1>5, <1>6, <1>7

(* d follows the recurrence that begins at d0 and steps by F.               *)
Solves(d, d0, F, n) == d[0] = d0 /\ \A i \in 1..n : d[i] = F[<<i, d[i - 1]>>]

(* A recurrence with a step in D has a solution in D.                       *)
LEMMA Recurrence ==
    ASSUME NEW D, NEW d0 \in D, NEW F \in [Nat \X D -> D], NEW n \in Nat
    PROVE  \E d \in [0..n -> D] : Solves(d, d0, F, n)
<1> DEFINE Solved(m) == \E d \in [0..m -> D] : Solves(d, d0, F, m)
           S == {m \in Nat : Solved(m)}
<1>1. 0 \in S
  <2> DEFINE e == [i \in 0..0 |-> d0]
  <2>1. e \in [0..0 -> D] /\ e[0] = d0 /\ \A i \in 1..0 : e[i] = F[<<i, e[i - 1]>>]
    OBVIOUS
  <2> HIDE DEF e
  <2>2. Solved(0)
    BY <2>1 DEF Solves
  <2>3. QED
    BY <2>2
<1>2. ASSUME NEW m \in Nat, m \in S
      PROVE  m + 1 \in S
  <2>1. PICK d \in [0..m -> D] : d[0] = d0 /\ \A i \in 1..m : d[i] = F[<<i, d[i - 1]>>]
    BY <1>2 DEF Solves
  <2> DEFINE e == [i \in 0..(m + 1) |-> IF i = m + 1 THEN F[<<m + 1, d[m]>>] ELSE d[i]]
  <2>2. e \in [0..(m + 1) -> D]
    BY <2>1
  <2>3. e[0] = d0 /\ \A i \in 1..(m + 1) : e[i] = F[<<i, e[i - 1]>>]
    <3>1. e[0] = d0
      BY <2>1
    <3>2. ASSUME NEW i \in 1..m PROVE e[i] = F[<<i, e[i - 1]>>]
      <4>1. e[i] = d[i] /\ e[i - 1] = d[i - 1]
        BY <2>1
      <4>2. QED
        BY <2>1, <4>1
    <3>3. e[m + 1] = F[<<m + 1, d[m]>>] /\ e[m] = d[m]
      BY <2>1
    <3> HIDE DEF e
    <3>4. \A i \in 1..(m + 1) : i \in 1..m \/ i = m + 1
      OBVIOUS
    <3>5. (m + 1) - 1 = m
      OBVIOUS
    <3>6. QED
      BY <3>1, <3>2, <3>3, <3>4, <3>5
  <2> HIDE DEF e
  <2>4. Solved(m + 1)
    BY <2>2, <2>3 DEF Solves
  <2>5. QED
    BY <2>4
<1>3. n \in S
  <2> HIDE DEF S
  <2>1. QED
    BY <1>1, <1>2, Induction
<1>4. QED
  BY <1>3

-----------------------------------------------------------------------------
(* The frontier of a discovery spiral. *)
Targets == STRING \X STRING
Distinct(o) == \A i, j \in DOMAIN o : o[i] = o[j] => i = j
Frontier == {o \in Seq(Targets) : Len(o) <= FrontierCap /\ Distinct(o)}

(* A frontier holds as many targets as it is long. *)
LEMMA DistinctCount ==
    ASSUME NEW o \in Seq(Targets), Distinct(o)
    PROVE  IsFiniteSet(ToSet(o)) /\ Cardinality(ToSet(o)) = Len(o)
<1>1. Len(o) \in Nat /\ DOMAIN o = 1..Len(o)
  OBVIOUS
<1>2. o \in Bijection(1..Len(o), ToSet(o))
  <2>1. o \in [1..Len(o) -> ToSet(o)]
    BY <1>1 DEF ToSet
  <2>2. \A x \in ToSet(o) : \E i \in 1..Len(o) : o[i] = x
    BY <1>1 DEF ToSet
  <2> QED BY <1>1, <2>1, <2>2, Zenon DEF Distinct, Bijection, Injection, Surjection, IsInjective
<1>3. IsFiniteSet(1..Len(o)) /\ Cardinality(1..Len(o)) = Len(o)
  BY <1>1, FS_Interval
<1>4. ExistsBijection(1..Len(o), ToSet(o))
  BY <1>2 DEF ExistsBijection
<1> DEFINE D == 1..Len(o)
<1> HIDE DEF D
<1>5. IsFiniteSet(D) /\ Cardinality(D) = Len(o) /\ ExistsBijection(D, ToSet(o))
  BY <1>3, <1>4 DEF D
<1> QED BY <1>5, FS_Bijection, Zenon

(* One target is visited: what the frontier holds then (spiralState.add). *)
LEMMA VisitKeeps ==
    ASSUME NEW o \in Frontier, NEW tgt \in Targets
    PROVE  /\ visit(o, tgt) \in Frontier
           /\ ToSet(visit(o, tgt)) \subseteq ToSet(o) \cup {tgt}
           /\ Len(o) < FrontierCap \/ tgt \in ToSet(o) => ToSet(visit(o, tgt)) = ToSet(o) \cup {tgt}
<1>1. FrontierCap \in Nat \ {0}
  BY TrackerAssumption DEF TrackerAssumption
<1>2. o \in Seq(Targets) /\ Len(o) \in Nat /\ Len(o) <= FrontierCap /\ Distinct(o) /\ DOMAIN o = 1..Len(o)
  BY DEF Frontier
<1>3. CASE tgt \in ToSet(o)
  BY <1>3 DEF visit
<1>4. CASE tgt \notin ToSet(o)
  <2> DEFINE a == Append(o, tgt)
             n == Len(o)
  <2>1. /\ a \in Seq(Targets) /\ Len(a) = n + 1 /\ DOMAIN a = 1..(n + 1) /\ a[n + 1] = tgt
        /\ \A i \in 1..n : a[i] = o[i]
    BY <1>2
  <2>2. visit(o, tgt) = IF n + 1 > FrontierCap THEN Tail(a) ELSE a
    BY <1>4, <2>1 DEF visit, add
  <2> HIDE DEF a, n
  <2>3. n \in Nat /\ n <= FrontierCap /\ DOMAIN o = 1..n
    BY <1>2 DEF n
  <2>4. \A i \in 1..(n + 1) : i \in 1..n \/ i = n + 1
    BY <2>3
  <2>5. ToSet(a) = ToSet(o) \cup {tgt}
    <3>1. ToSet(a) = {a[i] : i \in 1..(n + 1)} /\ ToSet(o) = {o[i] : i \in 1..n}
      BY <2>1, <2>3 DEF ToSet
    <3>2. \A i \in 1..n : i \in 1..(n + 1)
      BY <2>3
    <3>3. n + 1 \in 1..(n + 1)
      BY <2>3
    <3> QED BY <2>1, <2>4, <3>1, <3>2, <3>3, Zenon
  <2>6. Distinct(a)
    <3> SUFFICES ASSUME NEW i \in 1..(n + 1), NEW j \in 1..(n + 1), a[i] = a[j] PROVE i = j
      BY <2>1 DEF Distinct
    <3>1. \A h \in 1..n : a[h] = o[h] /\ o[h] # tgt
      BY <1>4, <2>1, <2>3 DEF ToSet
    <3> QED BY <1>2, <2>1, <2>3, <2>4, <3>1 DEF Distinct
  <2>7. CASE n + 1 <= FrontierCap
    <3>1. visit(o, tgt) = a
      BY <1>1, <2>2, <2>3, <2>7
    <3> QED BY <2>1, <2>5, <2>6, <2>7, <3>1 DEF Frontier
  <2>8. CASE ~(n + 1 <= FrontierCap)
    <3> DEFINE b == Tail(a)
    <3>1. b \in Seq(Targets) /\ Len(b) = n /\ DOMAIN b = 1..n /\ \A i \in 1..n : b[i] = a[i + 1] /\ i + 1 \in 1..(n + 1)
      BY <2>1, <2>3
    <3>2. visit(o, tgt) = b
      BY <1>1, <2>2, <2>3, <2>8
    <3> HIDE DEF b
    <3>3. Distinct(b)
      <4> SUFFICES ASSUME NEW i \in 1..n, NEW j \in 1..n, b[i] = b[j] PROVE i = j
        BY <3>1 DEF Distinct
      <4>1. i + 1 \in 1..(n + 1) /\ j + 1 \in 1..(n + 1) /\ a[i + 1] = a[j + 1]
        BY <3>1
      <4>2. DOMAIN a = 1..(n + 1)
        BY <2>1
      <4>3. i + 1 = j + 1
        BY <2>6, <4>1, <4>2, Zenon DEF Distinct
      <4> QED BY <4>3
    <3>4. ToSet(b) \subseteq ToSet(a)
      BY <2>1, <3>1 DEF ToSet
    <3> QED BY <1>1, <1>4, <2>3, <2>5, <2>8, <3>1, <3>2, <3>3, <3>4 DEF Frontier, n
  <2> QED BY <2>7, <2>8
<1> QED BY <1>3, <1>4

(* A turn's targets, visited one by one.                                     *)
LEMMA VisitAllRuns ==
    ASSUME NEW order \in Frontier, NEW targets \in Seq(Targets)
    PROVE  \E d \in [0..Len(targets) -> Frontier] :
              /\ visitAll(order, targets) = d[Len(targets)] /\ d[0] = order
              /\ \A i \in 1..Len(targets) : d[i] = visit(d[i - 1], targets[i])
<1> DEFINE n == Len(targets)
           other == CHOOSE x : x \in Targets
           tgt(i) == IF i \in 1..n THEN targets[i] ELSE other
           F == [p \in Nat \X Frontier |-> visit(p[2], tgt(p[1]))]
           Fits(d) == d = [i \in 0..Len(targets) |-> IF i = 0 THEN order ELSE visit(d[i - 1], targets[i])]
           run == CHOOSE d : Fits(d)
<1>0. n \in Nat /\ (\A i \in 1..n : targets[i] \in Targets) /\ \A i \in Nat : tgt(i) \in Targets
  <2>1. n \in Nat /\ \A i \in 1..n : targets[i] \in Targets
    OBVIOUS
  <2>2. <<"", "">> \in Targets
    BY WordsAssumption DEF WordsAssumption, Words, Targets
  <2> QED BY <2>1, <2>2, Zenon
<1> HIDE DEF tgt
<1>1. F \in [Nat \X Frontier -> Frontier]
  <2>1. ASSUME NEW p \in Nat \X Frontier PROVE visit(p[2], tgt(p[1])) \in Frontier
    <3>1. p[2] \in Frontier /\ tgt(p[1]) \in Targets
      BY <1>0
    <3> QED BY <3>1, VisitKeeps, Zenon
  <2> QED BY <2>1, Zenon
<1>2. \A i \in Nat : \A g \in Frontier : F[<<i, g>>] = visit(g, tgt(i))
  <2>1. ASSUME NEW i \in Nat, NEW g \in Frontier
        PROVE  F[<<i, g>>] = visit(g, tgt(i))
    <3>1. <<i, g>> \in Nat \X Frontier /\ <<i, g>>[1] = i /\ <<i, g>>[2] = g
      OBVIOUS
    <3> QED BY <3>1, Zenon
  <2> QED BY <2>1
<1> HIDE DEF F
<1>4. PICK e \in [0..n -> Frontier] : e[0] = order /\ \A i \in 1..n : e[i] = F[<<i, e[i - 1]>>]
  <2>1. \E e \in [0..n -> Frontier] : Solves(e, order, F, n)
    BY <1>0, <1>1, Recurrence, Zenon
  <2> QED BY <2>1, Zenon DEF Solves
<1>5. \A i \in 1..n : e[i] = visit(e[i - 1], targets[i])
  <2>1. \A i \in 1..n : i - 1 \in 0..n /\ i \in Nat
    BY <1>0
  <2>2. \A i \in 1..n : e[i - 1] \in Frontier /\ tgt(i) = targets[i]
    BY <1>4, <2>1 DEF tgt
  <2> QED BY <1>2, <1>4, <2>1, <2>2, Zenon
<1>6. Fits(e)
  <2>1. \A i \in 0..n : e[i] = IF i = 0 THEN order ELSE visit(e[i - 1], targets[i])
    <3>1. \A i \in 0..n : i = 0 \/ i \in 1..n
      BY <1>0
    <3>2. \A i \in 1..n : i # 0
      BY <1>0
    <3> QED BY <1>4, <1>5, <3>1, <3>2, Zenon
  <2> QED BY <2>1, Zenon
<1>7. Fits(run)
  BY <1>6, Zenon
<1>8. visitAll(order, targets) = run[n]
  BY Zenon DEF visitAll
<1> HIDE DEF run
<1>9. run[0] = order /\ \A i \in 1..n : run[i] = visit(run[i - 1], targets[i])
  <2>1. \A i \in 0..n : run[i] = IF i = 0 THEN order ELSE visit(run[i - 1], targets[i])
    BY <1>7, Zenon
  <2>2. 0 \in 0..n /\ \A i \in 1..n : i \in 0..n /\ i # 0
    BY <1>0
  <2> QED BY <2>1, <2>2, Zenon
<1>10. \A i \in Nat : i <= n => run[i] \in Frontier
  <2> DEFINE S == {i \in Nat : i <= n => run[i] \in Frontier}
  <2>1. 0 \in S
    BY <1>9
  <2>2. ASSUME NEW i \in Nat, i \in S PROVE i + 1 \in S
    <3>1. CASE i + 1 <= n
      <4>1. i + 1 \in 1..n /\ (i + 1) - 1 = i /\ run[i] \in Frontier /\ i + 1 \in Nat
        BY <1>0, <2>2, <3>1
      <4>2. run[i + 1] = visit(run[i], targets[i + 1])
        BY <1>9, <4>1
      <4>3. run[i + 1] \in Frontier
        <5> DEFINE g == run[i]
                   x == targets[i + 1]
        <5>1. g \in Frontier /\ x \in Targets /\ run[i + 1] = visit(g, x)
          BY <1>0, <4>1, <4>2
        <5> HIDE DEF g, x
        <5> QED BY <5>1, VisitKeeps
      <4> QED BY <4>3
    <3> QED BY <3>1
  <2> HIDE DEF S
  <2>3. \A i \in Nat : i \in S
    BY <2>1, <2>2, Induction
  <2> QED BY <2>3 DEF S
<1>11. run \in [0..n -> Frontier]
  <2> DEFINE G(i) == IF i = 0 THEN order ELSE visit(run[i - 1], targets[i])
  <2>1. run = [i \in 0..n |-> G(i)]
    BY <1>7, Zenon
  <2> HIDE DEF G
  <2>2. \A i \in 0..n : run[i] \in Frontier
    BY <1>0, <1>10
  <2> QED BY <2>1, <2>2
<1> HIDE DEF n
<1>12. /\ visitAll(order, targets) = run[n] /\ run[0] = order
       /\ \A i \in 1..n : run[i] = visit(run[i - 1], targets[i])
  BY <1>8, <1>9
<1> QED BY <1>11, <1>12, Zenon DEF n

(* What the frontier holds of them: nothing else, and everything if all fits. *)
LEMMA VisitAllKeeps ==
    ASSUME NEW order \in Frontier, NEW targets \in Seq(Targets)
    PROVE  /\ visitAll(order, targets) \in Frontier
           /\ ToSet(visitAll(order, targets)) \subseteq ToSet(order) \cup ToSet(targets)
           /\ IsFiniteSet(ToSet(order) \cup ToSet(targets))
           /\ Cardinality(ToSet(order) \cup ToSet(targets)) <= FrontierCap =>
                 ToSet(visitAll(order, targets)) = ToSet(order) \cup ToSet(targets)
<1> DEFINE n == Len(targets)
           all == ToSet(order) \cup ToSet(targets)
           upTo(i) == ToSet(order) \cup {targets[j] : j \in 1..i}
           fits == Cardinality(all) <= FrontierCap
<1>1. n \in Nat /\ DOMAIN targets = 1..n /\ \A i \in 1..n : targets[i] \in Targets /\ targets[i] \in all
  BY DEF ToSet
<1>2. PICK d \in [0..n -> Frontier] : /\ visitAll(order, targets) = d[n] /\ d[0] = order
                                     /\ \A i \in 1..n : d[i] = visit(d[i - 1], targets[i])
  BY VisitAllRuns
<1>3. IsFiniteSet(all) /\ Cardinality(all) \in Nat
  <2>1. IsFiniteSet(ToSet(order))
    BY DistinctCount DEF Frontier
  <2>2. IsFiniteSet(ToSet(targets))
    <3>1. targets \in Surjection(1..n, ToSet(targets))
      BY <1>1 DEF ToSet, Surjection
    <3>2. IsFiniteSet(1..n)
      BY <1>1, FS_Interval
    <3> DEFINE D == 1..n
    <3> HIDE DEF D
    <3>3. targets \in Surjection(D, ToSet(targets)) /\ IsFiniteSet(D)
      BY <3>1, <3>2 DEF D
    <3> QED BY <3>3, FS_Surjection, Zenon
  <2> QED BY <2>1, <2>2, FS_Union, FS_CardinalityType
<1> DEFINE S == {i \in Nat : i <= n => ToSet(d[i]) \subseteq upTo(i) /\ (fits => ToSet(d[i]) = upTo(i))}
<1>4. \A i \in Nat : i \in S
  <2>1. 0 \in S
    <3>1. {targets[j] : j \in 1..0} = {}
      OBVIOUS
    <3> QED BY <1>2, <3>1
  <2>2. ASSUME NEW i \in Nat, i \in S PROVE i + 1 \in S
    <3> SUFFICES ASSUME i + 1 <= n
                 PROVE  ToSet(d[i + 1]) \subseteq upTo(i + 1) /\ (fits => ToSet(d[i + 1]) = upTo(i + 1))
      BY <2>2
    <3> DEFINE o == d[i]
               t == targets[i + 1]
    <3>1. i + 1 \in 1..n /\ (i + 1) - 1 = i /\ i \in 0..n /\ 1..(i + 1) = 1..i \cup {i + 1} /\ 1..i \subseteq 1..n
      BY <1>1
    <3>2. d[i + 1] = visit(o, t) /\ o \in Frontier /\ t \in Targets /\ t \in all
      <4>1. d[i + 1] = visit(d[(i + 1) - 1], t)
        BY <1>2, <3>1
      <4> QED BY <1>1, <1>2, <3>1, <4>1
    <3>3. upTo(i + 1) = upTo(i) \cup {t}
      BY <3>1
    <3>4. ToSet(o) \subseteq upTo(i) /\ (fits => ToSet(o) = upTo(i))
      BY <1>1, <2>2, <3>1
    <3>5. upTo(i) \subseteq all
      BY <1>1, <3>1
    <3> HIDE DEF o, t, upTo, all, S
    <3>6. ToSet(visit(o, t)) \subseteq ToSet(o) \cup {t}
          /\ (Len(o) < FrontierCap \/ t \in ToSet(o) => ToSet(visit(o, t)) = ToSet(o) \cup {t})
      BY <3>2, VisitKeeps
    <3>7. ASSUME fits, t \notin ToSet(o) PROVE Len(o) < FrontierCap
      <4>1. ToSet(o) \in SUBSET all
        BY <3>4, <3>5
      <4>2. IsFiniteSet(ToSet(o)) /\ Cardinality(ToSet(o)) = Len(o) /\ Len(o) \in Nat
        BY <3>2, DistinctCount DEF Frontier
      <4>3. Cardinality(ToSet(o)) <= Cardinality(all) /\ (Cardinality(all) = Cardinality(ToSet(o)) => all = ToSet(o))
        BY <1>3, <4>1, FS_Subset
      <4>4. all # ToSet(o)
        BY <3>2, <3>7
      <4>5. Len(o) <= Cardinality(all) /\ Len(o) # Cardinality(all)
        BY <4>2, <4>3, <4>4
      <4>6. FrontierCap \in Nat /\ Cardinality(all) \in Nat /\ Cardinality(all) <= FrontierCap
        BY <1>3, <3>7, TrackerAssumption DEF TrackerAssumption
      <4> QED BY <4>2, <4>5, <4>6
    <3> QED BY <3>2, <3>3, <3>4, <3>6, <3>7
  <2> HIDE DEF S
  <2> QED BY <2>1, <2>2, Induction
<1>5. n \in S
  BY <1>1, <1>4
<1>6. upTo(n) = all
  BY <1>1 DEF ToSet
<1>7. n \in 0..n
  BY <1>1
<1> HIDE DEF upTo, all
<1>8. d[n] \in Frontier /\ ToSet(d[n]) \subseteq all /\ (fits => ToSet(d[n]) = all)
  BY <1>1, <1>2, <1>5, <1>6, <1>7
<1> HIDE DEF S, n
<1> QED BY <1>2, <1>3, <1>8, Zenon DEF all
-----------------------------------------------------------------------------
(* A discovery streak, one turn longer.                                      *)
LEMMA StreakWithin ==
    ASSUME NEW s \in History
    PROVE  /\ discoveryStreak(s) \in SUBSET toolTurns(s) /\ discoveryStreak(s) \in SUBSET (1..Len(s))
           /\ Cardinality(discoveryStreak(s)) \in Nat /\ Cardinality(cycle(s)) \in Nat
           /\ Cardinality(cycle(s)) <= Cardinality(discoveryStreak(s))
<1> DEFINE T == toolTurns(s)
           G == {i \in T : allCallsDiscovery(s[i].calls)}
           D == discoveryStreak(s)
           C == cycle(s)
           n == Len(s)
<1>1. n \in Nat /\ T \in SUBSET (1..n)
  BY ToolTurnsAre DEF History
<1>2. D = stretch(T, G) /\ C = stretch(T, {i \in D : revisits(s, i)})
  BY Zenon DEF discoveryStreak, cycle
<1> HIDE DEF T, G, D, C, n
<1>3. D \subseteq T /\ C \subseteq D
  <2>1. \A i \in C : i \in T /\ \A j \in T : j >= i => j \in D
    BY <1>2, Zenon DEF stretch
  <2>2. \A i \in T : i >= i
    BY <1>1
  <2>3. C \subseteq D
    BY <2>1, <2>2
  <2>4. D \subseteq T
    BY <1>2 DEF stretch
  <2> QED BY <2>3, <2>4
<1>4. IsFiniteSet(D) /\ Cardinality(D) \in Nat
  BY <1>1, <1>2, StretchFinite
<1>5. Cardinality(C) \in Nat /\ Cardinality(C) <= Cardinality(D)
  BY <1>3, <1>4, FS_Subset, FS_CardinalityType
<1> QED BY <1>1, <1>3, <1>4, <1>5 DEF D, C, T, n

(* A discovery turn makes the streak longer, and the cycle if it only goes   *)
(* where the streak had been.                                               *)
LEMMA StreakGrows ==
    ASSUME NEW s \in History, NEW t \in Committed, t.kind = "tools", allCallsDiscovery(t.calls)
    PROVE  /\ discoveryStreak(Append(s, t)) = discoveryStreak(s) \cup {Len(s) + 1}
           /\ wentTo(Append(s, t)) = wentTo(s) \cup ToSet(discoveryTargets(t.calls))
           /\ cycle(Append(s, t)) = IF ToSet(discoveryTargets(t.calls)) \subseteq wentTo(s)
                                    THEN cycle(s) \cup {Len(s) + 1} ELSE {}
<1> DEFINE n == Len(s)
           z == Append(s, t)
           T == toolTurns(s)
           U == T \cup {n + 1}
           G == {i \in T : allCallsDiscovery(s[i].calls)}
           H == {i \in U : allCallsDiscovery(z[i].calls)}
           D == discoveryStreak(s)
           E == discoveryStreak(z)
           new == ToSet(discoveryTargets(t.calls))
           P == {i \in D : revisits(s, i)}
           Q == {i \in E : revisits(z, i)}
<1>1. n \in Nat /\ T \in SUBSET (1..n) /\ toolTurns(z) = U
  BY OneMoreTurn, ToolTurnsAre, ToolTurnsGrow
<1>2. z[n + 1] = t /\ \A j \in T : z[j] = s[j]
  BY OneMoreTurn, ToolTurnsAre
<1>3. n + 1 \in H /\ \A j \in T : j \in H <=> j \in G
  <2> HIDE DEF z, n, T
  <2> QED BY <1>2
<1>4. E = stretch(U, H) /\ D = stretch(T, G)
  BY <1>1, Zenon DEF discoveryStreak
<1>5. cycle(z) = stretch(U, Q) /\ cycle(s) = stretch(T, P)
  BY <1>1, Zenon DEF cycle
<1>6. D \subseteq T
  BY StreakWithin
<1>7. wentTo(z) = UNION {targetsOf(z, i) : i \in E} /\ wentTo(s) = UNION {targetsOf(s, i) : i \in D}
  BY Zenon DEF wentTo
<1>8. targetsOf(z, n + 1) = new /\ \A i \in T : targetsOf(z, i) = targetsOf(s, i)
  <2> HIDE DEF z, n, T
  <2> QED BY <1>2, Zenon DEF targetsOf
<1>9. \A i : /\ revisits(z, i) <=> targetsOf(z, i) \subseteq UNION {targetsOf(z, h) : h \in {h \in E : h < i}}
             /\ revisits(s, i) <=> targetsOf(s, i) \subseteq UNION {targetsOf(s, h) : h \in {h \in D : h < i}}
  BY Zenon DEF revisits
<1> HIDE DEF n, z, T, G, H, D, E, new
<1>10. E = D \cup {n + 1}
  BY <1>1, <1>3, <1>4, StretchGrows DEF U
<1>11. \A i \in T : i \in 1..n /\ i < n + 1 /\ ~(n + 1 < i) /\ i # n + 1
  BY <1>1
<1>12. wentTo(z) = wentTo(s) \cup new
  BY <1>6, <1>7, <1>8, <1>10
<1>13. \A i \in D : revisits(z, i) <=> revisits(s, i)
  <2> SUFFICES ASSUME NEW i \in D PROVE revisits(z, i) <=> revisits(s, i)
    OBVIOUS
  <2>1. {h \in E : h < i} = {h \in D : h < i}
    BY <1>6, <1>10, <1>11
  <2>2. {targetsOf(z, h) : h \in {h \in E : h < i}} = {targetsOf(s, h) : h \in {h \in D : h < i}}
    BY <1>6, <1>8, <2>1
  <2>3. targetsOf(z, i) = targetsOf(s, i)
    BY <1>6, <1>8
  <2> QED BY <1>9, <2>2, <2>3
<1>14. revisits(z, n + 1) <=> new \subseteq wentTo(s)
  <2>1. {h \in E : h < n + 1} = D
    <3>1. \A h \in D : h \in E /\ h < n + 1
      BY <1>6, <1>10, <1>11
    <3>2. \A h \in E : h < n + 1 => h \in D
      BY <1>1, <1>10
    <3> QED BY <3>1, <3>2
  <2>2. {targetsOf(z, h) : h \in {h \in E : h < n + 1}} = {targetsOf(s, h) : h \in D}
    BY <1>6, <1>8, <2>1
  <2> QED BY <1>7, <1>8, <1>9, <2>2
<1>15. \A j \in T : j \in Q <=> j \in P
  BY <1>10, <1>11, <1>13
<1>16. CASE new \subseteq wentTo(s)
  <2>1. n + 1 \in Q
    BY <1>10, <1>14, <1>16
  <2> HIDE DEF P, Q
  <2>2. stretch(U, Q) = stretch(T, P) \cup {n + 1}
    BY <1>1, <1>15, <2>1, StretchGrows DEF U
  <2> QED BY <1>5, <1>10, <1>12, <1>16, <2>2 DEF n, z, D, E, new
<1>17. CASE ~(new \subseteq wentTo(s))
  <2>1. n + 1 \notin Q
    BY <1>14, <1>17
  <2> HIDE DEF P, Q
  <2>2. stretch(U, Q) = {}
    BY <1>1, <2>1, StretchBroken DEF U
  <2> QED BY <1>5, <1>10, <1>12, <1>17, <2>2 DEF n, z, D, E, new
<1> QED BY <1>16, <1>17

(* A tool turn that is not discovery leaves no streak. *)
LEMMA StreakBroken ==
    ASSUME NEW s \in History, NEW t \in Committed, t.kind = "tools", ~allCallsDiscovery(t.calls)
    PROVE  discoveryStreak(Append(s, t)) = {} /\ wentTo(Append(s, t)) = {} /\ cycle(Append(s, t)) = {}
<1> DEFINE n == Len(s)
           z == Append(s, t)
           T == toolTurns(s)
           U == T \cup {n + 1}
           H == {i \in U : allCallsDiscovery(z[i].calls)}
           E == discoveryStreak(z)
           Q == {i \in E : revisits(z, i)}
<1>1. n \in Nat /\ T \in SUBSET (1..n) /\ toolTurns(z) = U
  BY OneMoreTurn, ToolTurnsAre, ToolTurnsGrow
<1>2. n + 1 \notin H
  BY OneMoreTurn
<1>3. E = stretch(U, H) /\ cycle(z) = stretch(U, Q) /\ wentTo(z) = UNION {targetsOf(z, i) : i \in E}
  BY <1>1, Zenon DEF discoveryStreak, cycle, wentTo
<1> HIDE DEF n, z, T, H, E
<1>4. E = {}
  BY <1>1, <1>2, <1>3, StretchBroken DEF U
<1>5. n + 1 \notin Q
  BY <1>4
<1> HIDE DEF Q
<1>6. stretch(U, Q) = {}
  BY <1>1, <1>5, StretchBroken DEF U
<1> QED BY <1>3, <1>4, <1>6 DEF z, E

(* The spiral detector: what it remembers, and of the history. *)
SpiralGood(s, sp) ==
    /\ sp.wander = Cardinality(discoveryStreak(s))
    /\ IsFiniteSet(wentTo(s)) /\ ToSet(sp.order) \subseteq wentTo(s)
    /\ sp.cycleRun <= Cardinality(cycle(s))
    /\ Cardinality(wentTo(s)) <= FrontierCap =>
         ToSet(sp.order) = wentTo(s) /\ sp.cycleRun = Cardinality(cycle(s))

(* Its own bounds, whatever becomes of the turn. *)
SpiralBounds(sp) ==
    sp.order \in Frontier /\ sp.cycleRun \in Nat /\ sp.wander \in Nat /\ sp.cycleRun <= sp.wander

(* The state after a turn. *)
spiralNext(sp, calls) ==
    IF allCallsDiscovery(calls) THEN observeDiscoveryTurn(sp, discoveryTargets(calls)) ELSE newSpiralState

(* The state a turn that is not discovery leaves (newSpiralState). *)
LEMMA NewSpiral ==
    /\ newSpiralState.order = <<>> /\ newSpiralState.cycleRun = 0 /\ newSpiralState.wander = 0
    /\ SpiralBounds(newSpiralState)
<1>1. newSpiralState.order = <<>> /\ newSpiralState.cycleRun = 0 /\ newSpiralState.wander = 0
  BY DEF newSpiralState
<1>2. <<>> \in Frontier
  BY TrackerAssumption DEF TrackerAssumption, Frontier, Distinct
<1> QED BY <1>1, <1>2 DEF SpiralBounds

(* A turn goes to names and arguments. *)
LEMMA DiscoveryTargets ==
    ASSUME NEW calls \in Seq(Call)
    PROVE  discoveryTargets(calls) \in Seq(Targets)
<1> DEFINE tgt(j) == <<calls[j].name, calls[j].arg>>
<1>1. Len(calls) \in Nat /\ DOMAIN calls = 1..Len(calls) /\ \A j \in 1..Len(calls) : calls[j] \in Call
  OBVIOUS
<1>2. \A j \in 1..Len(calls) : calls[j].name \in STRING /\ calls[j].arg \in STRING
  BY <1>1, Zenon DEF Call
<1>3. \A j \in 1..Len(calls) : tgt(j) \in Targets
  BY <1>2 DEF Targets
<1>4. discoveryTargets(calls) = [j \in 1..Len(calls) |-> tgt(j)]
  BY <1>1 DEF discoveryTargets
<1> HIDE DEF tgt
<1> QED BY <1>1, <1>3, <1>4

(* The bounds hold through every turn. *)
LEMMA SpiralBounded ==
    ASSUME NEW sp, SpiralBounds(sp), NEW calls \in Seq(Call)
    PROVE  SpiralBounds(spiralNext(sp, calls))
<1>1. CASE allCallsDiscovery(calls)
  <2> DEFINE g == discoveryTargets(calls)
             v == visitAll(sp.order, g)
             novel == ~(ToSet(g) \subseteq ToSet(sp.order))
             x == observeDiscoveryTurn(sp, g)
  <2>1. x.order = v /\ x.cycleRun = (IF novel THEN 0 ELSE sp.cycleRun + 1) /\ x.wander = sp.wander + 1
    BY Zenon DEF observeDiscoveryTurn
  <2>2. v \in Frontier
    BY DiscoveryTargets, VisitAllKeeps DEF SpiralBounds
  <2>3. spiralNext(sp, calls) = x
    BY <1>1 DEF spiralNext
  <2> HIDE DEF v, x, novel
  <2> QED BY <2>1, <2>2, <2>3 DEF SpiralBounds
<1>2. CASE ~allCallsDiscovery(calls)
  BY <1>2, NewSpiral DEF spiralNext
<1> QED BY <1>1, <1>2

(* What the detector remembers stays true of the history. *)
LEMMA SpiralTurn ==
    ASSUME NEW s \in History, NEW t \in Committed, t.kind = "tools", NEW sp, SpiralBounds(sp), SpiralGood(s, sp)
    PROVE  SpiralGood(Append(s, t), spiralNext(sp, t.calls))
<1> DEFINE z == Append(s, t)
           n == Len(s)
<1>0. t.calls \in Seq(Call)
  BY DEF Committed
<1>1. CASE allCallsDiscovery(t.calls)
  <2> DEFINE g == discoveryTargets(t.calls)
             o == sp.order
             v == visitAll(o, g)
             novel == ~(ToSet(g) \subseteq ToSet(o))
             x == observeDiscoveryTurn(sp, g)
             W == wentTo(s)
             V == wentTo(z)
             C == cycle(s)
             B == cycle(z)
             cap == FrontierCap
  <2>1. x.order = v /\ x.cycleRun = (IF novel THEN 0 ELSE sp.cycleRun + 1) /\ x.wander = sp.wander + 1
    BY Zenon DEF observeDiscoveryTurn
  <2>2. spiralNext(sp, t.calls) = x
    BY <1>1 DEF spiralNext
  <2>3. /\ ToSet(v) \subseteq ToSet(o) \cup ToSet(g) /\ IsFiniteSet(ToSet(o) \cup ToSet(g))
        /\ Cardinality(ToSet(o) \cup ToSet(g)) <= cap => ToSet(v) = ToSet(o) \cup ToSet(g)
    BY <1>0, DiscoveryTargets, VisitAllKeeps DEF SpiralBounds
  <2>4. /\ discoveryStreak(z) = discoveryStreak(s) \cup {n + 1} /\ V = W \cup ToSet(g)
        /\ B = IF ToSet(g) \subseteq W THEN C \cup {n + 1} ELSE {}
    BY <1>1, StreakGrows
  <2>5. /\ Cardinality(discoveryStreak(s) \cup {n + 1}) = Cardinality(discoveryStreak(s)) + 1
        /\ Cardinality(C \cup {n + 1}) = Cardinality(C) + 1 /\ Cardinality(C) \in Nat
    <3> DEFINE T == toolTurns(s)
               G == {i \in T : allCallsDiscovery(s[i].calls)}
               P == {i \in discoveryStreak(s) : revisits(s, i)}
    <3>1. n \in Nat /\ T \in SUBSET (1..n)
      BY ToolTurnsAre DEF History
    <3>2. discoveryStreak(s) = stretch(T, G) /\ C = stretch(T, P)
      BY Zenon DEF discoveryStreak, cycle
    <3> HIDE DEF T, G, P, n, C
    <3> QED BY <3>1, <3>2, StretchFinite
  <2>6. /\ sp.wander = Cardinality(discoveryStreak(s)) /\ IsFiniteSet(W) /\ ToSet(o) \subseteq W
        /\ sp.cycleRun <= Cardinality(C) /\ sp.cycleRun \in Nat
        /\ Cardinality(W) <= cap => ToSet(o) = W /\ sp.cycleRun = Cardinality(C)
    BY DEF SpiralGood, SpiralBounds
  <2>7. IsFiniteSet(V)
    <3>1. IsFiniteSet(W \cup (ToSet(o) \cup ToSet(g)))
      BY <2>3, <2>6, FS_Union
    <3> QED BY <2>4, <2>6, <3>1, FS_Subset
  <2>8. Cardinality(B) \in Nat /\ x.cycleRun <= Cardinality(B)
    <3>1. CASE ToSet(g) \subseteq W
      BY <2>1, <2>4, <2>5, <2>6, <3>1
    <3>2. CASE ~(ToSet(g) \subseteq W)
      <4>1. novel /\ B = {}
        BY <2>4, <2>6, <3>2
      <4> QED BY <2>1, <4>1, FS_EmptySet
    <3> QED BY <3>1, <3>2
  <2>9. ASSUME Cardinality(V) <= cap PROVE ToSet(v) = V /\ x.cycleRun = Cardinality(B)
    <3>1. Cardinality(W) <= Cardinality(V) /\ Cardinality(W) \in Nat /\ Cardinality(V) \in Nat
      BY <2>4, <2>6, <2>7, FS_Subset, FS_CardinalityType
    <3>2. cap \in Nat
      BY TrackerAssumption DEF TrackerAssumption
    <3> HIDE DEF W, V, C, B, v, o, g, x, cap
    <3>3. ToSet(o) = W /\ sp.cycleRun = Cardinality(C)
      BY <2>6, <2>9, <3>1, <3>2
    <3>4. ToSet(v) = V
      BY <2>3, <2>4, <2>9, <3>3
    <3>5. x.cycleRun = Cardinality(B)
      BY <2>1, <2>4, <2>5, <3>3, FS_EmptySet
    <3> QED BY <3>4, <3>5
  <2>10. x.wander = Cardinality(discoveryStreak(z))
    BY <2>1, <2>4, <2>5, <2>6
  <2>11. ToSet(v) \subseteq V
    BY <2>3, <2>4, <2>6
  <2> HIDE DEF W, V, C, B, v, o, g, x, cap, z
  <2> QED BY <2>1, <2>2, <2>7, <2>8, <2>9, <2>10, <2>11 DEF SpiralGood, V, B, cap, z
<1>2. CASE ~allCallsDiscovery(t.calls)
  <2>1. discoveryStreak(z) = {} /\ wentTo(z) = {} /\ cycle(z) = {}
    BY <1>2, StreakBroken
  <2>2. spiralNext(sp, t.calls) = newSpiralState
    BY <1>2 DEF spiralNext
  <2>3. ToSet(newSpiralState.order) = {}
    BY NewSpiral DEF ToSet
  <2>4. IsFiniteSet({}) /\ Cardinality({}) = 0
    BY FS_EmptySet
  <2> DEFINE x == newSpiralState
  <2> HIDE DEF z, x
  <2>5. ToSet(x.order) = {} /\ x.cycleRun = 0 /\ x.wander = 0
    BY <2>3, NewSpiral DEF x
  <2> QED BY <2>1, <2>2, <2>4, <2>5 DEF SpiralGood, z, x
<1> QED BY <1>1, <1>2
-----------------------------------------------------------------------------
(* The detectors of calls see nothing of a history but the calls of its tool *)
(* turns.                                                                    *)
LEMMA SameToolTurns ==
    ASSUME NEW s, NEW z, toolTurns(z) = toolTurns(s),
           \A i \in toolTurns(s) : z[i].calls = s[i].calls /\ z[i].adv = s[i].adv
    PROVE  /\ \A sig, n : RepGood(s, sig, n) => RepGood(z, sig, n)
           /\ \A sp : SpiralGood(s, sp) => SpiralGood(z, sp)
<1>1. \A c : sameCalls(z, c) = sameCalls(s, c)
  BY DEF sameCalls, stretch
<1>2. discoveryStreak(z) = discoveryStreak(s) /\ discoveryStreak(s) \subseteq toolTurns(s)
  BY DEF discoveryStreak, stretch
<1>3. \A i \in discoveryStreak(s) : targetsOf(z, i) = targetsOf(s, i)
  BY <1>2 DEF targetsOf
<1>4. wentTo(z) = wentTo(s)
  BY <1>2, <1>3 DEF wentTo
<1>5. \A i \in discoveryStreak(s) : revisits(z, i) <=> revisits(s, i)
  <2> SUFFICES ASSUME NEW i \in discoveryStreak(s) PROVE revisits(z, i) <=> revisits(s, i)
    OBVIOUS
  <2> DEFINE D == discoveryStreak(s)
  <2>1. revisits(z, i) <=> targetsOf(z, i) \subseteq UNION {targetsOf(z, h) : h \in {h \in D : h < i}}
    BY <1>2, Zenon DEF revisits
  <2>2. revisits(s, i) <=> targetsOf(s, i) \subseteq UNION {targetsOf(s, h) : h \in {h \in D : h < i}}
    BY Zenon DEF revisits
  <2>3. \A h \in D : targetsOf(z, h) = targetsOf(s, h)
    BY <1>3
  <2> HIDE DEF D
  <2>4. {targetsOf(z, h) : h \in {h \in D : h < i}} = {targetsOf(s, h) : h \in {h \in D : h < i}}
    BY <2>3
  <2> QED BY <1>3, <2>1, <2>2, <2>4
<1>6. cycle(z) = cycle(s)
  <2>1. {i \in discoveryStreak(z) : revisits(z, i)} = {i \in discoveryStreak(s) : revisits(s, i)}
    BY <1>2, <1>5
  <2> QED BY <2>1, Zenon DEF cycle
<1>7. \A sig, n : RepGood(s, sig, n) => RepGood(z, sig, n)
  BY <1>1, Zenon DEF RepGood
<1>8. \A sp : SpiralGood(s, sp) => SpiralGood(z, sp)
  BY <1>2, <1>4, <1>6, Zenon DEF SpiralGood
<1> QED BY <1>7, <1>8

(* Histories alike but for what was observed. *)
Alike(s, z) ==
    /\ s \in History /\ z \in History /\ Len(z) = Len(s)
    /\ \A i \in 1..Len(s) : z[i].kind = s[i].kind /\ z[i].calls = s[i].calls /\ z[i].adv = s[i].adv

(* They are all the same to the detectors of calls. *)
LEMMA AlikeGood ==
    ASSUME NEW s, NEW z, Alike(s, z)
    PROVE  /\ \A sig, n : RepGood(s, sig, n) => RepGood(z, sig, n)
           /\ \A sp : SpiralGood(s, sp) => SpiralGood(z, sp)
           /\ toolTurns(z) = DOMAIN z => toolTurns(s) = DOMAIN s
<1>1. DOMAIN s = 1..Len(s) /\ DOMAIN z = 1..Len(s)
  BY DEF Alike, History
<1>2. toolTurns(z) = toolTurns(s)
  BY <1>1 DEF Alike, toolTurns
<1>3. \A i \in toolTurns(s) : z[i].calls = s[i].calls /\ z[i].adv = s[i].adv
  BY <1>1 DEF Alike, toolTurns
<1> QED BY <1>1, <1>2, <1>3, SameToolTurns

(* A turn that is no tool turn leaves no trace in the detectors. *)
LEMMA OtherTurn ==
    ASSUME NEW s \in History, NEW t \in Committed, t.kind # "tools"
    PROVE  /\ toolTurns(Append(s, t)) # DOMAIN Append(s, t)
           /\ \A sig, n : RepGood(s, sig, n) => RepGood(Append(s, t), sig, n)
           /\ \A sp : SpiralGood(s, sp) => SpiralGood(Append(s, t), sp)
           /\ \A fp, n : ObsGood(s, fp, n) => ObsGood(Append(s, t), fp, n)
<1> DEFINE z == Append(s, t)
           n == Len(s)
<1>1. n \in Nat /\ toolTurns(z) = toolTurns(s) /\ toolTurns(s) \in SUBSET (1..n) /\ DOMAIN z = 1..(n + 1)
      /\ \A i \in toolTurns(s) : z[i] = s[i]
  BY OneMoreTurn, ToolTurnsAre, ToolTurnsGrow
<1> HIDE DEF z, n
<1>2. toolTurns(z) # DOMAIN z
  <2>1. n + 1 \in 1..(n + 1) /\ n + 1 \notin 1..n
    BY <1>1
  <2>2. n + 1 \in DOMAIN z /\ n + 1 \notin toolTurns(z)
    BY <1>1, <2>1, Zenon
  <2> QED BY <2>2
<1>3. \A c : sameObs(z, c) = sameObs(s, c)
  BY <1>1 DEF sameObs, stretch
<1>4. \A fp, m : ObsGood(s, fp, m) => ObsGood(z, fp, m)
  BY <1>1, <1>3, Zenon DEF ObsGood
<1> QED BY <1>1, <1>2, <1>4, SameToolTurns DEF z

-----------------------------------------------------------------------------
(* The test runs of a history. *)
isTestRun(o) == o[1] = "run" /\ o[3] # "infra"

(* The failing runs at its end, as remembered. *)
RedGood(s, fp, n) ==
    \A red \in {"red1", "red2"} :
        IsFiniteSet(sameRed(s, red)) /\ Cardinality(sameRed(s, red)) = (IF fp = red THEN n ELSE 0)

(* A test run is an observation of a turn, by turn and call. *)
LEMMA RunsMember ==
    ASSUME NEW s, NEW p
    PROVE  p \in runs(s) <=> \E i \in DOMAIN s : \E j \in DOMAIN s[i].obs : p = <<i, j>> /\ isTestRun(s[i].obs[j])
<1>1. ASSUME p \in runs(s)
      PROVE  \E i \in DOMAIN s : \E j \in DOMAIN s[i].obs : p = <<i, j>> /\ isTestRun(s[i].obs[j])
  <2>1. PICK i \in DOMAIN s : p \in {i} \X DOMAIN s[i].obs
    BY <1>1 DEF runs
  <2>2. PICK j \in DOMAIN s[i].obs : p = <<i, j>>
    BY <2>1
  <2>3. p[1] = i /\ p[2] = j
    BY <2>2
  <2> QED BY <1>1, <2>2, <2>3 DEF runs, isTestRun
<1>2. ASSUME NEW i \in DOMAIN s, NEW j \in DOMAIN s[i].obs, p = <<i, j>>, isTestRun(s[i].obs[j])
      PROVE  p \in runs(s)
  <2>1. p \in {i} \X DOMAIN s[i].obs /\ p[1] = i /\ p[2] = j
    BY <1>2
  <2>2. p \in UNION {{h} \X DOMAIN s[h].obs : h \in DOMAIN s}
    BY <2>1
  <2> QED BY <1>2, <2>1, <2>2 DEF runs, isTestRun
<1> QED BY <1>1, <1>2

(* Histories with the same test runs, alike in their results. *)
LEMMA SameRuns ==
    ASSUME NEW s, NEW z, runs(z) = runs(s), \A p \in runs(s) : z[p[1]].obs[p[2]][3] = s[p[1]].obs[p[2]][3]
    PROVE  \A fp, n : RedGood(s, fp, n) => RedGood(z, fp, n)
<1>1. \A red : sameRed(z, red) = sameRed(s, red)
  BY DEF sameRed
<1> QED BY <1>1, Zenon DEF RedGood

(* A turn that has observed nothing yet. *)
LEMMA RunsBegin ==
    ASSUME NEW s \in History, NEW t \in Committed, t.obs = <<>>
    PROVE  \A fp, n : RedGood(s, fp, n) => RedGood(Append(s, t), fp, n)
<1> DEFINE z == Append(s, t)
           n == Len(s)
<1>1. n \in Nat /\ DOMAIN s = 1..n /\ DOMAIN z = 1..(n + 1) /\ z[n + 1] = t /\ \A i \in DOMAIN s : z[i] = s[i]
  BY OneMoreTurn
<1>2. DOMAIN t.obs = {}
  OBVIOUS
<1> HIDE DEF z, n
<1>3. \A i : i \in DOMAIN z <=> i \in DOMAIN s \/ i = n + 1
  BY <1>1
<1>4. ASSUME NEW p PROVE p \in runs(z) <=> p \in runs(s)
  <2>1. p \in runs(z) <=> \E i \in DOMAIN z : \E j \in DOMAIN z[i].obs : p = <<i, j>> /\ isTestRun(z[i].obs[j])
    BY RunsMember
  <2>2. p \in runs(s) <=> \E i \in DOMAIN s : \E j \in DOMAIN s[i].obs : p = <<i, j>> /\ isTestRun(s[i].obs[j])
    BY RunsMember
  <2> QED BY <1>1, <1>2, <1>3, <2>1, <2>2, Zenon
<1>5. runs(z) = runs(s)
  BY <1>4
<1>6. \A p \in runs(s) : z[p[1]] = s[p[1]]
  <2> SUFFICES ASSUME NEW p \in runs(s) PROVE z[p[1]] = s[p[1]]
    OBVIOUS
  <2>1. PICK i \in DOMAIN s : \E j \in DOMAIN s[i].obs : p = <<i, j>>
    BY RunsMember
  <2>2. p[1] = i
    BY <2>1
  <2> QED BY <1>1, <2>2
<1> QED BY <1>5, <1>6, SameRuns DEF z

(* A turn, one observation longer. *)
LEMMA RunsGrow ==
    ASSUME NEW s \in History, NEW t \in Committed, NEW u \in Committed, NEW o \in Seq(STRING), u.obs = Append(t.obs, o)
    PROVE  LET z == Append(s, t)
               y == Append(s, u)
               new == <<Len(s) + 1, Len(t.obs) + 1>>
           IN  /\ runs(y) = IF isTestRun(o) THEN runs(z) \cup {new} ELSE runs(z)
               /\ \A p \in runs(z) : /\ y[p[1]].obs[p[2]] = z[p[1]].obs[p[2]]
                                     /\ before(p, new) /\ ~before(new, p) /\ p # new
               /\ y[new[1]].obs[new[2]] = o /\ ~before(new, new)
<1> DEFINE z == Append(s, t)
           y == Append(s, u)
           n == Len(s)
           m == Len(t.obs)
           new == <<n + 1, m + 1>>
<1>1. /\ n \in Nat /\ DOMAIN s = 1..n /\ DOMAIN z = 1..(n + 1) /\ z[n + 1] = t /\ \A i \in 1..n : z[i] = s[i]
      /\ DOMAIN y = 1..(n + 1) /\ y[n + 1] = u /\ \A i \in 1..n : y[i] = s[i]
  BY OneMoreTurn
<1>2. /\ m \in Nat /\ DOMAIN t.obs = 1..m /\ DOMAIN u.obs = 1..(m + 1) /\ u.obs[m + 1] = o
      /\ \A j \in 1..m : u.obs[j] = t.obs[j]
  <2>1. t.obs \in Seq(Seq(STRING))
    BY DEF Committed
  <2> QED BY <2>1
<1>3. \A i \in 1..n : s[i].obs \in Seq(Seq(STRING))
  <2>1. \A i \in 1..n : s[i] \in Committed
    BY <1>1 DEF History
  <2> QED BY <2>1, Zenon DEF Committed
<1>4. new[1] = n + 1 /\ new[2] = m + 1
  OBVIOUS
<1> HIDE DEF z, y, n, m, new
<1>5. ~before(new, new) /\ y[new[1]].obs[new[2]] = o
  BY <1>1, <1>2, <1>4 DEF before
<1>6. ASSUME NEW p \in runs(z)
      PROVE  /\ y[p[1]].obs[p[2]] = z[p[1]].obs[p[2]] /\ before(p, new) /\ ~before(new, p) /\ p # new
             /\ p \in runs(y)
  <2>1. PICK i \in DOMAIN z : \E j \in DOMAIN z[i].obs : p = <<i, j>> /\ isTestRun(z[i].obs[j])
    BY RunsMember
  <2>2. PICK j \in DOMAIN z[i].obs : p = <<i, j>> /\ isTestRun(z[i].obs[j])
    BY <2>1
  <2>3. p[1] = i /\ p[2] = j
    BY <2>2
  <2>4. CASE i \in 1..n
    <3>1. z[i] = y[i] /\ i < n + 1 /\ i # n + 1
      BY <1>1, <2>4
    <3>2. before(p, new) /\ ~before(new, p) /\ p # new
      BY <1>1, <1>4, <2>3, <2>4, <3>1 DEF before
    <3>3. p \in runs(y)
      <4>1. i \in DOMAIN y /\ j \in DOMAIN y[i].obs /\ isTestRun(y[i].obs[j])
        BY <1>1, <2>1, <2>2, <3>1
      <4> QED BY <2>2, <4>1, RunsMember
    <3> QED BY <2>3, <3>1, <3>2, <3>3
  <2>5. CASE i = n + 1
    <3>1. z[i].obs = t.obs /\ y[i].obs = u.obs /\ j \in 1..m
      BY <1>1, <1>2, <2>2, <2>5
    <3>2. y[i].obs[j] = z[i].obs[j] /\ j < m + 1 /\ j # m + 1 /\ j \in 1..(m + 1)
      BY <1>2, <3>1
    <3>3. before(p, new) /\ ~before(new, p) /\ p # new
      BY <1>1, <1>2, <1>4, <2>3, <2>5, <3>1, <3>2 DEF before
    <3>4. p \in runs(y)
      <4>1. i \in DOMAIN y /\ j \in DOMAIN y[i].obs /\ isTestRun(y[i].obs[j])
        BY <1>1, <1>2, <2>1, <2>2, <3>1, <3>2
      <4> QED BY <2>2, <4>1, RunsMember
    <3> QED BY <2>3, <3>2, <3>3, <3>4
  <2> QED BY <1>1, <2>1, <2>4, <2>5
<1>7. ASSUME NEW p \in runs(y) PROVE p \in runs(z) \/ (p = new /\ isTestRun(o))
  <2>1. PICK i \in DOMAIN y : \E j \in DOMAIN y[i].obs : p = <<i, j>> /\ isTestRun(y[i].obs[j])
    BY RunsMember
  <2>2. PICK j \in DOMAIN y[i].obs : p = <<i, j>> /\ isTestRun(y[i].obs[j])
    BY <2>1
  <2>3. CASE i \in 1..n
    <3>1. i \in DOMAIN z /\ j \in DOMAIN z[i].obs /\ isTestRun(z[i].obs[j])
      BY <1>1, <2>1, <2>2, <2>3
    <3> QED BY <2>2, <3>1, RunsMember
  <2>4. CASE i = n + 1 /\ j \in 1..m
    <3>1. i \in DOMAIN z /\ j \in DOMAIN z[i].obs /\ isTestRun(z[i].obs[j])
      BY <1>1, <1>2, <2>1, <2>2, <2>4
    <3> QED BY <2>2, <3>1, RunsMember
  <2>5. CASE i = n + 1 /\ j = m + 1
    BY <1>1, <1>2, <2>2, <2>5 DEF new
  <2>6. i \in 1..n \/ i = n + 1
    BY <1>1, <2>1
  <2>7. i = n + 1 => j \in 1..m \/ j = m + 1
    BY <1>1, <1>2, <2>2
  <2> QED BY <2>3, <2>4, <2>5, <2>6, <2>7
<1>8. isTestRun(o) => new \in runs(y)
  <2>1. n + 1 \in DOMAIN y /\ m + 1 \in DOMAIN y[n + 1].obs /\ y[n + 1].obs[m + 1] = o
    BY <1>1, <1>2
  <2> QED BY <2>1, RunsMember DEF new
<1>9. runs(y) = IF isTestRun(o) THEN runs(z) \cup {new} ELSE runs(z)
  BY <1>6, <1>7, <1>8
<1>10. \A p \in runs(z) : /\ y[p[1]].obs[p[2]] = z[p[1]].obs[p[2]]
                          /\ before(p, new) /\ ~before(new, p) /\ p # new
  BY <1>6
<1> QED BY <1>5, <1>9, <1>10, Zenon DEF z, y, n, m, new

(* What a run leaves in the tracker. *)
RunOf(t, out, r) ==
    /\ r.obsFP = t.obsFP /\ r.obsRepeat = t.obsRepeat
    /\ out = "infra" => r.runFP = t.runFP /\ r.stagnant = t.stagnant
    /\ out \in {"red1", "red2"} => r.runFP = out /\ (out = t.runFP => r.stagnant = t.stagnant + 1)
                                               /\ (out # t.runFP => r.stagnant = 1)
    /\ out \notin {"infra", "red1", "red2"} => r.runFP = "none" /\ r.stagnant = 0

(* observeRun, whatever its result and the tracker before. *)
LEMMA ObserveRunOf ==
    ASSUME NEW t \in TrackerState, NEW out
    PROVE  RunOf(t, out, observeRun(t, out))
<1> DEFINE failed == isRunFailure(out)
           passed == isRunSuccess(out)
           seen1  == [t EXCEPT !.lastRunFailed = failed /\ ~isInfraFault(out), !.lastRunPassed = passed,
                               !.editsSinceGreen = IF passed THEN 0 ELSE @]
           st == IF ~failed THEN 0 ELSE IF out = t.runFP THEN seen1.stagnant + 1 ELSE 1
           fp == IF failed THEN out ELSE "none"
           r  == observeRun(t, out)
<1>1. seen1.obsFP = t.obsFP /\ seen1.obsRepeat = t.obsRepeat /\ seen1.runFP = t.runFP /\ seen1.stagnant = t.stagnant
  BY Zenon DEF TrackerState
<1>2. failed /\ isInfraFault(out) => r = seen1
  BY Zenon DEF observeRun
<1>3. ~(failed /\ isInfraFault(out)) => r.obsFP = seen1.obsFP /\ r.obsRepeat = seen1.obsRepeat /\ r.runFP = fp /\ r.stagnant = st
  BY Zenon DEF observeRun, TrackerState
<1> HIDE DEF seen1, r
<1> QED BY <1>1, <1>2, <1>3 DEF RunOf, isRunFailure, isInfraFault, r

(* A run is observed. *)
LEMMA RedRun ==
    ASSUME NEW s \in History, NEW t \in Committed, NEW u \in Committed, NEW o \in Seq(STRING), u.obs = Append(t.obs, o),
           o[1] = "run", NEW a, NEW b, RunOf(a, o[3], b), RedGood(Append(s, t), a.runFP, a.stagnant)
    PROVE  RedGood(Append(s, u), b.runFP, b.stagnant)
<1> DEFINE z == Append(s, t)
           y == Append(s, u)
           new == <<Len(s) + 1, Len(t.obs) + 1>>
<1>1. /\ runs(y) = IF isTestRun(o) THEN runs(z) \cup {new} ELSE runs(z)
      /\ \A p \in runs(z) : /\ y[p[1]].obs[p[2]] = z[p[1]].obs[p[2]]
                            /\ before(p, new) /\ ~before(new, p) /\ p # new
      /\ y[new[1]].obs[new[2]] = o /\ ~before(new, new)
  BY RunsGrow, ZenonT(40)
<1> HIDE DEF z, y, new
<1>2. CASE o[3] = "infra"
  <2>1. runs(y) = runs(z) /\ \A p \in runs(z) : y[p[1]].obs[p[2]][3] = z[p[1]].obs[p[2]][3]
    BY <1>1, <1>2 DEF isTestRun
  <2>2. b.runFP = a.runFP /\ b.stagnant = a.stagnant
    BY <1>2 DEF RunOf
  <2> QED BY <2>1, <2>2, SameRuns DEF z, y
<1>3. CASE o[3] # "infra"
  <2>1. runs(y) = runs(z) \cup {new} /\ new \notin runs(z)
    BY <1>1, <1>3 DEF isTestRun
  <2>2. ASSUME NEW red PROVE sameRed(y, red) = IF o[3] = red THEN sameRed(z, red) \cup {new} ELSE {}
    <3>1. ASSUME NEW p \in runs(z), o[3] = red PROVE p \in sameRed(y, red) <=> p \in sameRed(z, red)
      BY <1>1, <2>1, <3>1 DEF sameRed
    <3>2. ASSUME NEW p \in runs(z), o[3] # red PROVE p \notin sameRed(y, red)
      BY <1>1, <2>1, <3>2 DEF sameRed
    <3>3. new \in sameRed(y, red) <=> o[3] = red
      BY <1>1, <2>1 DEF sameRed
    <3>4. sameRed(y, red) \subseteq runs(y) /\ sameRed(z, red) \subseteq runs(z)
      BY DEF sameRed
    <3> QED BY <2>1, <3>1, <3>2, <3>3, <3>4
  <2>3. ASSUME NEW red \in {"red1", "red2"}
        PROVE  IsFiniteSet(sameRed(y, red)) /\ Cardinality(sameRed(y, red)) = (IF b.runFP = red THEN b.stagnant ELSE 0)
    <3>1. IsFiniteSet(sameRed(z, red)) /\ Cardinality(sameRed(z, red)) = (IF a.runFP = red THEN a.stagnant ELSE 0)
      BY DEF RedGood, z
    <3>2. CASE o[3] = red
      <4> DEFINE R == sameRed(z, red)
      <4>1. new \notin R
        BY <2>1 DEF sameRed
      <4>2. IsFiniteSet(R \cup {new}) /\ Cardinality(R \cup {new}) = Cardinality(R) + 1
        <5> HIDE DEF R
        <5>1. IsFiniteSet(R)
          BY <3>1 DEF R
        <5> QED BY <4>1, <5>1, FS_AddElement
      <4>3. b.runFP = red /\ (red = a.runFP => b.stagnant = a.stagnant + 1) /\ (red # a.runFP => b.stagnant = 1)
        BY <3>2 DEF RunOf
      <4>4. sameRed(y, red) = R \cup {new}
        BY <2>2, <3>2
      <4> QED BY <3>1, <4>2, <4>3, <4>4
    <3>3. CASE o[3] # red
      <4>1. b.runFP # red
        BY <1>3, <3>3 DEF RunOf
      <4>2. sameRed(y, red) = {}
        BY <2>2, <3>3
      <4> QED BY <4>1, <4>2, FS_EmptySet
    <3> QED BY <3>2, <3>3
  <2> QED BY <2>3 DEF RedGood, y
<1> QED BY <1>2, <1>3

(* Anything else is observed. *)
LEMMA RedOther ==
    ASSUME NEW s \in History, NEW t \in Committed, NEW u \in Committed, NEW o \in Seq(STRING), u.obs = Append(t.obs, o),
           o[1] # "run"
    PROVE  \A fp, n : RedGood(Append(s, t), fp, n) => RedGood(Append(s, u), fp, n)
<1> DEFINE z == Append(s, t)
           y == Append(s, u)
           new == <<Len(s) + 1, Len(t.obs) + 1>>
<1>1. /\ runs(y) = IF isTestRun(o) THEN runs(z) \cup {new} ELSE runs(z)
      /\ \A p \in runs(z) : /\ y[p[1]].obs[p[2]] = z[p[1]].obs[p[2]]
                            /\ before(p, new) /\ ~before(new, p) /\ p # new
      /\ y[new[1]].obs[new[2]] = o /\ ~before(new, new)
  BY RunsGrow, ZenonT(40)
<1> HIDE DEF z, y, new
<1>2. runs(y) = runs(z) /\ \A p \in runs(z) : y[p[1]].obs[p[2]][3] = z[p[1]].obs[p[2]][3]
  BY <1>1 DEF isTestRun
<1> QED BY <1>2, SameRuns DEF z, y

(* Only the name of a call and what it saw tell a failing run. *)
LEMMA RedRetagged ==
    ASSUME NEW s \in History, NEW t \in Committed, NEW u \in Committed, DOMAIN u.obs = DOMAIN t.obs,
           \A j \in DOMAIN t.obs : u.obs[j][1] = t.obs[j][1] /\ u.obs[j][3] = t.obs[j][3]
    PROVE  \A fp, n : RedGood(Append(s, t), fp, n) => RedGood(Append(s, u), fp, n)
<1> DEFINE z == Append(s, t)
           y == Append(s, u)
           n == Len(s)
<1>1. /\ n \in Nat /\ DOMAIN z = 1..(n + 1) /\ z[n + 1] = t /\ \A i \in 1..n : z[i] = s[i]
      /\ DOMAIN y = 1..(n + 1) /\ y[n + 1] = u /\ \A i \in 1..n : y[i] = s[i]
  BY OneMoreTurn
<1> HIDE DEF z, y, n
<1>2. ASSUME NEW i \in DOMAIN z
      PROVE  /\ i \in DOMAIN y /\ DOMAIN y[i].obs = DOMAIN z[i].obs
             /\ \A j \in DOMAIN z[i].obs : y[i].obs[j][1] = z[i].obs[j][1] /\ y[i].obs[j][3] = z[i].obs[j][3]
  <2>1. i \in 1..n \/ i = n + 1
    BY <1>1
  <2> QED BY <1>1, <2>1
<1>3. DOMAIN y = DOMAIN z
  BY <1>1
<1>4. ASSUME NEW p PROVE p \in runs(y) <=> p \in runs(z)
  <2>1. p \in runs(z) <=> \E i \in DOMAIN z : \E j \in DOMAIN z[i].obs : p = <<i, j>> /\ isTestRun(z[i].obs[j])
    BY RunsMember
  <2>2. p \in runs(y) <=> \E i \in DOMAIN y : \E j \in DOMAIN y[i].obs : p = <<i, j>> /\ isTestRun(y[i].obs[j])
    BY RunsMember
  <2>3. \A i \in DOMAIN z : \A j \in DOMAIN z[i].obs : isTestRun(y[i].obs[j]) <=> isTestRun(z[i].obs[j])
    BY <1>2 DEF isTestRun
  <2> QED BY <1>2, <1>3, <2>1, <2>2, <2>3, Zenon
<1>5. runs(y) = runs(z)
  BY <1>4
<1>6. \A p \in runs(z) : y[p[1]].obs[p[2]][3] = z[p[1]].obs[p[2]][3]
  <2> SUFFICES ASSUME NEW p \in runs(z) PROVE y[p[1]].obs[p[2]][3] = z[p[1]].obs[p[2]][3]
    OBVIOUS
  <2>1. PICK i \in DOMAIN z : \E j \in DOMAIN z[i].obs : p = <<i, j>>
    BY RunsMember
  <2>2. PICK j \in DOMAIN z[i].obs : p = <<i, j>>
    BY <2>1
  <2>3. p[1] = i /\ p[2] = j
    BY <2>2
  <2>4. y[i].obs[j][3] = z[i].obs[j][3]
    BY <1>2
  <2> QED BY <2>3, <2>4
<1> QED BY <1>5, <1>6, SameRuns DEF z, y

-----------------------------------------------------------------------------
(* The last turn of a history is replaced by one that observed otherwise. *)
LEMMA LastReplaced ==
    ASSUME NEW s \in History, NEW t \in Committed, NEW u \in Committed,
           u.kind = t.kind, u.calls = t.calls, u.adv = t.adv
    PROVE  Alike(Append(s, t), Append(s, u))
<1> DEFINE z == Append(s, t)
           y == Append(s, u)
           n == Len(s)
<1>1. /\ n \in Nat /\ z \in History /\ y \in History /\ Len(z) = n + 1 /\ Len(y) = n + 1
      /\ z[n + 1] = t /\ y[n + 1] = u /\ \A i \in 1..n : z[i] = s[i] /\ y[i] = s[i]
  BY DEF History
<1> HIDE DEF z, y, n
<1>2. \A i \in 1..(n + 1) : i \in 1..n \/ i = n + 1
  BY <1>1
<1>3. \A i \in 1..(n + 1) : y[i].kind = z[i].kind /\ y[i].calls = z[i].calls /\ y[i].adv = z[i].adv
  BY <1>1, <1>2
<1> QED BY <1>1, <1>3 DEF Alike, z, y

(* One more observation of a turn, in the history and in the tracker. *)
LEMMA TurnObserves ==
    ASSUME NEW s \in History, NEW t \in Committed, NEW u \in Committed,
           u.kind = t.kind, u.calls = t.calls, u.adv = t.adv,
           NEW o \in Seq(STRING), u.obs = Append(t.obs, o), NEW a, NEW b,
           o[1] = "run" => RunOf(a, o[3], b),
           o[1] # "run" => b.runFP = a.runFP /\ b.stagnant = a.stagnant
    PROVE  /\ RedGood(Append(s, t), a.runFP, a.stagnant) => RedGood(Append(s, u), b.runFP, b.stagnant)
           /\ \A sig, n : RepGood(Append(s, t), sig, n) => RepGood(Append(s, u), sig, n)
           /\ \A sp : SpiralGood(Append(s, t), sp) => SpiralGood(Append(s, u), sp)
           /\ toolTurns(Append(s, u)) = DOMAIN Append(s, u) => toolTurns(Append(s, t)) = DOMAIN Append(s, t)
<1>1. RedGood(Append(s, t), a.runFP, a.stagnant) => RedGood(Append(s, u), b.runFP, b.stagnant)
  <2>1. CASE o[1] = "run"
    BY <2>1, RedRun
  <2>2. CASE o[1] # "run"
    <3>1. \A fp, n : RedGood(Append(s, t), fp, n) => RedGood(Append(s, u), fp, n)
      BY <2>2, RedOther
    <3> QED BY <2>2, <3>1
  <2> QED BY <2>1, <2>2
<1>2. Alike(Append(s, t), Append(s, u))
  BY LastReplaced
<1> QED BY <1>1, <1>2, AlikeGood

(* A run that is not cut leaves the failing runs below their ceiling. *)
LEMMA RedBelow ==
    ASSUME NEW a \in TrackerState, NEW b, NEW out, RunOf(a, out, b), ~stagnantKills(b, out),
           a.stagnant < MaxStagnant, b.stagnant \in Nat
    PROVE  b.stagnant < MaxStagnant
<1>1. MaxStagnant \in Nat
  BY TrackerAssumption DEF TrackerAssumption
<1>2. CASE out = "infra"
  BY <1>2 DEF RunOf
<1>3. CASE out # "infra"
  BY <1>1, <1>3 DEF stagnantKills, isInfraFault
<1> QED BY <1>2, <1>3

(* A history of tool turns begins as one. *)
LEMMA OnlyToolTurns ==
    ASSUME NEW s \in History, NEW t \in Committed, toolTurns(Append(s, t)) = DOMAIN Append(s, t)
    PROVE  toolTurns(s) = DOMAIN s
<1> DEFINE z == Append(s, t)
           n == Len(s)
           T == toolTurns(s)
<1>1. /\ n \in Nat /\ DOMAIN s = 1..n /\ DOMAIN z = 1..(n + 1) /\ T \in SUBSET (1..n)
      /\ toolTurns(z) = T \cup {n + 1} \/ toolTurns(z) = T
  BY OneMoreTurn, ToolTurnsAre, ToolTurnsGrow
<1>2. toolTurns(z) = DOMAIN z
  OBVIOUS
<1> HIDE DEF z, n, T
<1>3. \A i \in 1..n : i \in 1..(n + 1) /\ i # n + 1
  BY <1>1
<1> QED BY <1>1, <1>2, <1>3 DEF T
-----------------------------------------------------------------------------
(* The history so far: the turns on record and the one under way. *)
turn == [kind |-> IF phase = "finishing" THEN "finish" ELSE "tools", calls |-> reply.calls, adv |-> reply.adv, obs |-> fps]

underWay == phase \in {"dispatch", "finishing", "endTurn"}

sofar == IF underWay THEN Append(steps, turn) ELSE steps

(* The run goes on, or ran out of turns. *)
Going == phase # "done" \/ outcome = "HitCap"

(* What the detectors remember is true of the history so far, and below what *)
(* they cut a run at.                                                       *)
Detectors ==
    /\ RepGood(sofar, mem.sig, mem.repeats)
    /\ ObsGood(steps, tr.obsFP, tr.obsRepeat)
    /\ SpiralGood(sofar, spiral) /\ spiralKill(spiral) = "none"
    /\ toolTurns(sofar) = DOMAIN sofar => tr.stagnant < MaxStagnant

StallInv ==
    /\ SpiralBounds(spiral)
    /\ RedGood(sofar, tr.runFP, tr.stagnant)
    /\ Going => Detectors
    /\ KillsAreEarned

(* StallInv says more than KillsAreStalls. *)
LEMMA StallInvMeans == LoopInv /\ StallInv => KillsAreStalls
<1> SUFFICES ASSUME LoopInv, StallInv PROVE KillsAreStalls
  OBVIOUS
<1>1. FrontierBounded
  BY DEF StallInv, SpiralBounds, Frontier, FrontierBounded
<1>2. StallsAreCut
  <2> SUFFICES ASSUME phase = "top" \/ outcome = "HitCap"
               PROVE  /\ \A l \in toolTurns(steps) : isLast(toolTurns(steps), l) =>
                           /\ Cardinality(sameCalls(steps, steps[l].calls)) <= repeatThreshold(steps[l].adv)
                           /\ Cardinality(sameObs(steps, steps[l].obs)) < MaxReasoningRepeats
                      /\ Cardinality(discoveryStreak(steps)) < WanderMultiple * NavSpiralWindow
                      /\ Cardinality(wentTo(steps)) <= FrontierCap => Cardinality(cycle(steps)) < NavSpiralWindow
                      /\ toolTurns(steps) = DOMAIN steps =>
                           \A red \in {"red1", "red2"} : Cardinality(sameRed(steps, red)) < MaxStagnant
    BY Zenon DEF StallsAreCut
  <2>1. ~underWay /\ Going
    BY DEF LoopInv, ControlOK, underWay, Going
  <2>2. sofar = steps
    BY <2>1 DEF sofar
  <2>3. Detectors
    BY <2>1 DEF StallInv
  <2>4. \A l \in toolTurns(steps) : isLast(toolTurns(steps), l) =>
           /\ Cardinality(sameCalls(steps, steps[l].calls)) <= repeatThreshold(steps[l].adv)
           /\ Cardinality(sameObs(steps, steps[l].obs)) < MaxReasoningRepeats
    BY <2>2, <2>3 DEF Detectors, RepGood, ObsGood
  <2>5. spiral.cycleRun < NavSpiralWindow /\ spiral.wander < WanderMultiple * NavSpiralWindow
    <3>1. ~(spiral.cycleRun >= NavSpiralWindow) /\ ~(spiral.wander >= WanderMultiple * NavSpiralWindow)
      BY <2>3, Zenon DEF Detectors, spiralKill
    <3>2. spiral.cycleRun \in Nat /\ spiral.wander \in Nat /\ NavSpiralWindow \in Nat /\ WanderMultiple \in Nat
      BY TrackerAssumption DEF TrackerAssumption, StallInv, SpiralBounds
    <3> QED BY <3>1, <3>2
  <2>6. /\ Cardinality(discoveryStreak(steps)) < WanderMultiple * NavSpiralWindow
        /\ Cardinality(wentTo(steps)) <= FrontierCap => Cardinality(cycle(steps)) < NavSpiralWindow
    BY <2>2, <2>3, <2>5 DEF Detectors, SpiralGood
  <2>7. toolTurns(steps) = DOMAIN steps =>
           \A red \in {"red1", "red2"} : Cardinality(sameRed(steps, red)) < MaxStagnant
    <3>1. MaxStagnant \in Nat \ {0}
      BY TrackerAssumption DEF TrackerAssumption
    <3>2. toolTurns(steps) = DOMAIN steps => tr.stagnant < MaxStagnant
      BY <2>2, <2>3 DEF Detectors
    <3>3. \A red \in {"red1", "red2"} :
             Cardinality(sameRed(steps, red)) = tr.stagnant \/ Cardinality(sameRed(steps, red)) = 0
      BY <2>2 DEF StallInv, RedGood
    <3> QED BY <3>1, <3>2, <3>3
  <2> QED BY <2>4, <2>6, <2>7
<1> QED BY <1>1, <1>2 DEF StallInv, KillsAreStalls
-----------------------------------------------------------------------------
(* The turn under way is one for the record. *)
LEMMA TurnTyped ==
    ASSUME LoopInv, ReadsInv
    PROVE  turn \in Committed /\ steps \in History /\ sofar \in History
<1>1. reply.calls \in Seq(Call) /\ reply.adv \in BOOLEAN /\ fps \in Seq(Seq(STRING))
  BY DEF LoopInv, ReplyOK, TracesOK
<1>2. "tools" \in STRING /\ "finish" \in STRING
  BY WordsAssumption DEF WordsAssumption, Words
<1>3. turn \in Committed
  BY <1>1, <1>2, Zenon DEF turn, Committed
<1>4. steps \in History
  BY DEF ReadsInv, History
<1> QED BY <1>3, <1>4, OneMoreTurn DEF sofar

(* A run that is not killed has nothing to earn. *)
LEMMA NothingEarned ==
    ASSUME outcome' \notin Killed \/ (KillsAreEarned /\ UNCHANGED <<outcome, reply, steps>>)
    PROVE  KillsAreEarned'
<1>1. CASE outcome' \notin Killed
  BY <1>1 DEF Killed, KillsAreEarned
<1>2. CASE KillsAreEarned /\ UNCHANGED <<outcome, reply, steps>>
  BY <1>2, Zenon DEF KillsAreEarned
<1> QED BY <1>1, <1>2

(* A step between turns. *)
LEMMA StallsQuiet ==
    ASSUME StallInv, UNCHANGED <<steps, spiral, tr>>, sofar' = sofar, mem'.sig = mem.sig, mem'.repeats = mem.repeats,
           Going' => Going, outcome' \notin Killed \/ UNCHANGED <<outcome, reply>>
    PROVE  StallInv'
<1>1. KillsAreEarned'
  BY NothingEarned DEF StallInv
<1>2. SpiralBounds(spiral)' /\ RedGood(sofar, tr.runFP, tr.stagnant)'
  BY Zenon DEF StallInv
<1>3. Going' => Detectors'
  <2> SUFFICES ASSUME Going' PROVE Detectors'
    OBVIOUS
  <2>1. Detectors
    BY DEF StallInv
  <2> QED BY <2>1, Zenon DEF Detectors
<1> QED BY <1>1, <1>2, <1>3 DEF StallInv

(* The steps shared by both loops, the model's replies and the turns that    *)
(* call nothing.                                                            *)
LEMMA QuietStalls ==
    ASSUME LoopInv, StallInv, sharedStep \/ generateOnce \/ silentTurn \/ answerTurn \/ textGenerate
    PROVE  StallInv'
<1>1. /\ phase \in {"top", "generate", "reply"} /\ phase' \in {"top", "generate", "reply", "done"}
      /\ UNCHANGED <<steps, spiral, tr>>
  BY Zenon DEF sharedStep, turnStarts, generateFails, generateWithRetry, replayRejected, generateWithEviction,
     end, requestVars, generateOnce, silentTurn, answerTurn, gatesFinish, nextTurn, textGenerate
<1>2. sofar' = sofar
  BY <1>1 DEF sofar, underWay
<1>3. mem'.sig = mem.sig /\ mem'.repeats = mem.repeats
  <2>1. UNCHANGED mem \/ \E t : mem' = [mem EXCEPT !.thought = t]
    BY Zenon DEF sharedStep, turnStarts, generateFails, generateWithRetry, replayRejected, generateWithEviction,
       requestVars, generateOnce, silentTurn, answerTurn, textGenerate
  <2>2. mem \in Memory
    BY DEF LoopInv, TracesOK
  <2> QED BY <2>1, <2>2, Zenon DEF Memory
<1>4. outcome' \notin Killed
  <2>1. outcome = "none"
    BY <1>1 DEF LoopInv, ControlOK
  <2>2. \/ outcome' = outcome
        \/ outcome' \in {"Canceled", "HitDeadline", "HitBudget", "HitContextLimit", "ProviderErr", "HitCap", "Stopped", "Answered"}
    <3>1. CASE sharedStep
      BY <3>1, Zenon DEF sharedStep, turnStarts, generateFails, generateWithRetry, replayRejected, generateWithEviction,
         end, classifyGenerateErr
    <3>2. CASE generateOnce \/ silentTurn \/ answerTurn \/ textGenerate
      BY <3>2, Zenon DEF generateOnce, silentTurn, answerTurn, gatesFinish, nextTurn, end, textGenerate
    <3> QED BY <3>1, <3>2
  <2> QED BY <2>1, <2>2 DEF Killed
<1>5. Going
  BY <1>1 DEF Going
<1> QED BY <1>1, <1>2, <1>3, <1>4, <1>5, StallsQuiet

(* A tool turn calls something. *)
LEMMA ToolTurnCalls ==
    ASSUME LoopInv, phase = "reply", isToolTurn \/ isTextTool
    PROVE  reply.calls # <<>>
<1>1. CASE isToolTurn
  BY <1>1 DEF isToolTurn
<1>2. CASE isTextTool
  <2>1. Len(reply.calls) = 1
    BY <1>2 DEF isTextTool, LoopInv, ControlOK
  <2>2. Len(<<>>) = 0
    OBVIOUS
  <2> QED BY <2>1, <2>2
<1> QED BY <1>1, <1>2

(* A turn cut for what it calls. *)
LEMMA RepeatStalls ==
    ASSUME LoopInv, ReadsInv, StallInv, killRepeat \/ textKillRepeat
    PROVE  StallInv'
<1>1. /\ phase = "reply" /\ phase' = "done" /\ outcome' = "repeat" /\ repeatKills
      /\ UNCHANGED <<steps, spiral, tr, reply>>
  BY Zenon DEF killRepeat, textKillRepeat, isToolTurn, isTextTool, end
<1>2. sofar = steps /\ sofar' = steps
  BY <1>1 DEF sofar, underWay
<1>3. reply.calls # <<>>
  BY <1>1, ToolTurnCalls DEF killRepeat, textKillRepeat
<1>4. Cardinality(sameCalls(steps, reply.calls)) >= repeatThreshold(reply.adv)
  <2>1. RepGood(steps, mem.sig, mem.repeats)
    BY <1>1, <1>2 DEF StallInv, Going, Detectors
  <2>2. reply.calls = mem.sig /\ mem.repeats + 1 >= repeatThreshold(reply.adv)
    BY <1>1 DEF repeatKills, repeats
  <2>3. steps \in History
    BY TurnTyped
  <2> QED BY <1>3, <2>1, <2>2, <2>3, RepKill
<1>5. KillsAreEarned'
  BY <1>1, <1>4 DEF KillsAreEarned
<1>6. ~Going'
  BY <1>1 DEF Going
<1> QED BY <1>1, <1>2, <1>5, <1>6 DEF StallInv

(* A tool turn begins: its calls go to the detectors of calls. *)
LEMMA TurnBegins ==
    ASSUME LoopInv, ReadsInv, StallInv, phase = "reply", reply.calls # <<>>,
           NEW t \in Committed, t.kind = "tools", t.calls = reply.calls, t.adv = reply.adv, t.obs = <<>>
    PROVE  /\ SpiralBounds(spiralAfter) /\ SpiralGood(Append(steps, t), spiralAfter)
           /\ RedGood(Append(steps, t), tr.runFP, tr.stagnant)
           /\ ~repeatKills => RepGood(Append(steps, t), reply.calls, repeats)
           /\ toolTurns(Append(steps, t)) = DOMAIN Append(steps, t) => tr.stagnant < MaxStagnant
           /\ ObsGood(steps, tr.obsFP, tr.obsRepeat)
<1>1. sofar = steps /\ steps \in History
  BY TurnTyped DEF sofar, underWay
<1>2. SpiralBounds(spiral) /\ RedGood(steps, tr.runFP, tr.stagnant) /\ Detectors
  BY <1>1 DEF StallInv, Going
<1>3. /\ RepGood(steps, mem.sig, mem.repeats) /\ ObsGood(steps, tr.obsFP, tr.obsRepeat) /\ SpiralGood(steps, spiral)
      /\ toolTurns(steps) = DOMAIN steps => tr.stagnant < MaxStagnant
  BY <1>1, <1>2 DEF Detectors
<1>4. spiralAfter = spiralNext(spiral, reply.calls)
  BY DEF spiralAfter, spiralNext
<1>5. reply.calls \in Seq(Call)
  BY DEF LoopInv, ReplyOK
<1>6. SpiralBounds(spiralAfter)
  BY <1>2, <1>4, <1>5, SpiralBounded
<1>7. SpiralGood(Append(steps, t), spiralAfter)
  BY <1>1, <1>2, <1>3, <1>4, SpiralTurn
<1>8. RedGood(Append(steps, t), tr.runFP, tr.stagnant)
  BY <1>1, <1>2, RunsBegin
<1>9. ASSUME ~repeatKills PROVE RepGood(Append(steps, t), reply.calls, repeats)
  <2> DEFINE sig == mem.sig
             n == mem.repeats
             m == repeats
  <2>1. m = IF t.calls = sig THEN n + 1 ELSE 0
    BY DEF repeats
  <2>2. ~(t.calls = sig /\ m >= repeatThreshold(t.adv))
    BY <1>9 DEF repeatKills
  <2>3. RepGood(steps, sig, n)
    BY <1>3
  <2> HIDE DEF sig, n, m
  <2>4. RepGood(Append(steps, t), t.calls, m)
    BY <1>1, <2>1, <2>2, <2>3, RepTurn
  <2> QED BY <2>4 DEF m
<1>10. toolTurns(Append(steps, t)) = DOMAIN Append(steps, t) => tr.stagnant < MaxStagnant
  BY <1>1, <1>3, OnlyToolTurns
<1> QED BY <1>3, <1>6, <1>7, <1>8, <1>9, <1>10

(* A turn cut for where it goes. *)
LEMMA SpiralStalls ==
    ASSUME LoopInv, ReadsInv, StallInv, killSpiral \/ textKillSpiral
    PROVE  StallInv'
<1>1. /\ phase = "reply" /\ phase' = "done" /\ outcome' = spiralKill(spiralAfter) /\ spiral' = spiralAfter
      /\ outcome' # "none" /\ UNCHANGED <<steps, tr, reply>>
  BY Zenon DEF killSpiral, textKillSpiral, isToolTurn, isTextTool, end
<1>2. sofar = steps /\ sofar' = steps
  BY <1>1 DEF sofar, underWay
<1>3. reply.calls # <<>>
  BY <1>1, ToolTurnCalls DEF killSpiral, textKillSpiral
<1> DEFINE t == [kind |-> "tools", calls |-> reply.calls, adv |-> reply.adv, obs |-> <<>>]
<1>4. t \in Committed
  <2>1. "tools" \in STRING /\ reply.calls \in Seq(Call) /\ reply.adv \in BOOLEAN
    BY WordsAssumption DEF WordsAssumption, Words, LoopInv, ReplyOK
  <2>2. <<>> \in Seq(Seq(STRING))
    OBVIOUS
  <2> QED BY <2>1, <2>2, Zenon DEF Committed
<1>5. t.kind = "tools" /\ t.calls = reply.calls /\ t.adv = reply.adv /\ t.obs = <<>>
  OBVIOUS
<1>6. KillsAreEarned' <=>
        /\ outcome' = "spiral_cycle" => Cardinality(cycle(Append(steps, t))) >= NavSpiralWindow
        /\ outcome' = "spiral_wander" => Cardinality(discoveryStreak(Append(steps, t))) >= WanderMultiple * NavSpiralWindow
  <2>1. outcome' \in {"spiral_cycle", "spiral_wander"}
    BY <1>1 DEF spiralKill
  <2>2. outcome' \notin {"repeat", "tool_obs_repeat", "stagnant"}
    BY <2>1
  <2> QED BY <1>1, <2>2, Zenon DEF KillsAreEarned
<1> HIDE DEF t
<1>7. SpiralBounds(spiralAfter) /\ SpiralGood(Append(steps, t), spiralAfter)
  BY <1>1, <1>3, <1>4, <1>5, TurnBegins
<1>8. KillsAreEarned'
  <2> DEFINE x == spiralAfter
             z == Append(steps, t)
  <2>1. /\ x.wander = Cardinality(discoveryStreak(z)) /\ x.cycleRun <= Cardinality(cycle(z))
        /\ x.cycleRun \in Nat /\ x.wander \in Nat
    BY <1>7 DEF SpiralGood, SpiralBounds
  <2>2. NavSpiralWindow \in Nat /\ Cardinality(cycle(z)) \in Nat
    <3>1. z \in History
      BY <1>4, TurnTyped, OneMoreTurn
    <3> QED BY <3>1, StreakWithin, TrackerAssumption DEF TrackerAssumption
  <2>3. /\ outcome' = "spiral_cycle" => x.cycleRun >= NavSpiralWindow
        /\ outcome' = "spiral_wander" => x.wander >= WanderMultiple * NavSpiralWindow
    BY <1>1 DEF spiralKill
  <2> HIDE DEF x, z
  <2>4. /\ outcome' = "spiral_cycle" => Cardinality(cycle(z)) >= NavSpiralWindow
        /\ outcome' = "spiral_wander" => Cardinality(discoveryStreak(z)) >= WanderMultiple * NavSpiralWindow
    BY <2>1, <2>2, <2>3
  <2> QED BY <1>6, <2>4 DEF z
<1>9. ~Going'
  <2>1. outcome' # "HitCap"
    BY <1>1 DEF spiralKill
  <2> QED BY <1>1, <2>1 DEF Going
<1>10. SpiralBounds(spiral)' /\ RedGood(sofar, tr.runFP, tr.stagnant)'
  BY <1>1, <1>2, <1>7, Zenon DEF StallInv
<1> QED BY <1>8, <1>9, <1>10 DEF StallInv

(* A turn whose calls are let through. *)
LEMMA CommitStalls ==
    ASSUME LoopInv, ReadsInv, StallInv, commitTurn
    PROVE  StallInv'
<1>1. /\ phase = "reply" /\ phase' = "dispatch" /\ spiral' = spiralAfter /\ spiralKill(spiralAfter) = "none"
      /\ ~repeatKills /\ mem' = memAfter /\ fps' = <<>> /\ UNCHANGED <<steps, tr, reply, outcome>>
  BY Zenon DEF commitTurn, isToolTurn
<1>2. reply.calls # <<>>
  BY <1>1, ToolTurnCalls DEF commitTurn
<1> DEFINE t == [kind |-> "tools", calls |-> reply.calls, adv |-> reply.adv, obs |-> <<>>]
<1>3. t \in Committed
  <2>1. "tools" \in STRING /\ reply.calls \in Seq(Call) /\ reply.adv \in BOOLEAN
    BY WordsAssumption DEF WordsAssumption, Words, LoopInv, ReplyOK
  <2>2. <<>> \in Seq(Seq(STRING))
    OBVIOUS
  <2> QED BY <2>1, <2>2, Zenon DEF Committed
<1>4. t.kind = "tools" /\ t.calls = reply.calls /\ t.adv = reply.adv /\ t.obs = <<>>
  OBVIOUS
<1>5. sofar' = Append(steps, t)
  <2>1. turn' = t /\ underWay'
    BY <1>1, Zenon DEF turn, underWay
  <2> QED BY <1>1, <2>1, Zenon DEF sofar
<1> HIDE DEF t
<1>6. /\ SpiralBounds(spiralAfter) /\ SpiralGood(Append(steps, t), spiralAfter)
      /\ RedGood(Append(steps, t), tr.runFP, tr.stagnant)
      /\ RepGood(Append(steps, t), reply.calls, repeats)
      /\ toolTurns(Append(steps, t)) = DOMAIN Append(steps, t) => tr.stagnant < MaxStagnant
      /\ ObsGood(steps, tr.obsFP, tr.obsRepeat)
  BY <1>1, <1>2, <1>3, <1>4, TurnBegins
<1>7. mem'.sig = reply.calls /\ mem'.repeats = repeats
  <2>1. mem \in Memory
    BY DEF LoopInv, TracesOK
  <2> QED BY <1>1, <2>1, Zenon DEF Memory, memAfter
<1>8. Detectors'
  BY <1>1, <1>5, <1>6, <1>7, Zenon DEF Detectors
<1>9. KillsAreEarned'
  <2>1. outcome = "none"
    BY <1>1 DEF LoopInv, ControlOK
  <2> QED BY <1>1, <2>1, NothingEarned DEF Killed
<1>10. SpiralBounds(spiral)' /\ RedGood(sofar, tr.runFP, tr.stagnant)'
  BY <1>1, <1>5, <1>6, Zenon
<1> QED BY <1>8, <1>9, <1>10 DEF StallInv

(* The turn under way, and what it is on record. *)
LEMMA TurnOf ==
    /\ turn.calls = reply.calls /\ turn.adv = reply.adv /\ turn.obs = fps
    /\ turn.kind = IF phase = "finishing" THEN "finish" ELSE "tools"
    /\ underWay => sofar = Append(steps, turn)
    /\ ~underWay => sofar = steps
  BY Zenon DEF turn, sofar

(* The turn put on record has the calls and the thought of the reply. *)
LEMMA StepOf ==
    ASSUME NEW kind
    PROVE  Step(kind).kind = kind /\ Step(kind).calls = reply.calls /\ Step(kind).adv = reply.adv /\ Step(kind).obs = fps'
  BY Zenon DEF Step

(* A turn that is no tool turn is put on record, or begins. *)
LEMMA FinishBegins ==
    ASSUME LoopInv, ReadsInv, StallInv, phase = "reply", NEW t \in Committed, t.kind = "finish", t.obs = <<>>,
           sofar' = Append(steps, t), steps' = steps \/ steps' = Append(steps, t),
           UNCHANGED <<spiral, tr, mem>>, outcome' \notin Killed
    PROVE  StallInv'
<1>1. sofar = steps /\ Going /\ steps \in History
  BY TurnTyped DEF sofar, underWay, Going
<1>2. SpiralBounds(spiral) /\ RedGood(steps, tr.runFP, tr.stagnant) /\ Detectors
  BY <1>1 DEF StallInv
<1>3. /\ RepGood(steps, mem.sig, mem.repeats) /\ ObsGood(steps, tr.obsFP, tr.obsRepeat) /\ SpiralGood(steps, spiral)
      /\ spiralKill(spiral) = "none"
  BY <1>1, <1>2 DEF Detectors
<1>4. RedGood(Append(steps, t), tr.runFP, tr.stagnant)
  BY <1>1, <1>2, RunsBegin
<1>5. /\ RepGood(Append(steps, t), mem.sig, mem.repeats) /\ SpiralGood(Append(steps, t), spiral)
      /\ ObsGood(Append(steps, t), tr.obsFP, tr.obsRepeat)
      /\ toolTurns(Append(steps, t)) # DOMAIN Append(steps, t)
  BY <1>1, <1>3, OtherTurn
<1>6. ObsGood(steps, tr.obsFP, tr.obsRepeat)'
  <2>1. CASE steps' = steps
    BY <1>3, <2>1, Zenon
  <2>2. CASE steps' = Append(steps, t)
    BY <1>5, <2>2, Zenon
  <2> QED BY <2>1, <2>2
<1>7. Detectors'
  BY <1>3, <1>5, <1>6, Zenon DEF Detectors
<1>8. KillsAreEarned'
  BY NothingEarned
<1>9. SpiralBounds(spiral)' /\ RedGood(sofar, tr.runFP, tr.stagnant)'
  BY <1>2, <1>4, Zenon
<1> QED BY <1>7, <1>8, <1>9 DEF StallInv

(* An outcome of the closing gates, or none, is no kill. *)
LEMMA GatesKillNothing ==
    ASSUME LoopInv, phase \notin {"done"}, NEW m, gatesFinish(m)
    PROVE  outcome' \notin Killed /\ phase' \in {"top", "done"}
<1>1. outcome = "none"
  BY DEF LoopInv, ControlOK
<1>2. outcome' \in {outcome, "HitCap", "Stopped", "Answered"} /\ phase' \in {"top", "done"}
  BY Zenon DEF gatesFinish, nextTurn, end
<1> QED BY <1>1, <1>2 DEF Killed

(* A finish turn is taken up, in either loop. *)
LEMMA FinishTurnStalls ==
    ASSUME LoopInv, LoopInv', ReadsInv, StallInv, finishTurn \/ textAnswer
    PROVE  StallInv'
<1>1. phase = "reply" /\ fps' = <<>> /\ UNCHANGED <<spiral, tr, mem, reply>>
  BY Zenon DEF finishTurn, textAnswer
<1>2. CASE finishTurn
  <2>1. phase' = "finishing" /\ UNCHANGED <<steps, outcome>>
    BY <1>2, Zenon DEF finishTurn
  <2> DEFINE t == [kind |-> "finish", calls |-> reply.calls, adv |-> reply.adv, obs |-> <<>>]
  <2>2. t \in Committed
    <3>1. "finish" \in STRING /\ reply.calls \in Seq(Call) /\ reply.adv \in BOOLEAN
      BY WordsAssumption DEF WordsAssumption, Words, LoopInv, ReplyOK
    <3>2. <<>> \in Seq(Seq(STRING))
      OBVIOUS
    <3> QED BY <3>1, <3>2, Zenon DEF Committed
  <2>3. t.kind = "finish" /\ t.obs = <<>>
    OBVIOUS
  <2>4. sofar' = Append(steps, t)
    <3>1. turn' = t /\ underWay'
      BY <1>1, <2>1, Zenon DEF turn, underWay
    <3> QED BY <2>1, <3>1, Zenon DEF sofar
  <2>5. outcome' \notin Killed
    BY <1>1, <2>1 DEF LoopInv, ControlOK, Killed
  <2> HIDE DEF t
  <2> QED BY <1>1, <2>1, <2>2, <2>3, <2>4, <2>5, FinishBegins
<1>3. CASE textAnswer
  <2> DEFINE t == Step("finish")
  <2>1. gatesFinish(Append(msgs, said(0))) /\ steps' = Append(steps, t)
    BY <1>3, Zenon DEF textAnswer
  <2>2. t \in Committed /\ t.kind = "finish" /\ t.obs = <<>>
    <3>1. reply.calls \in Seq(Call) /\ reply.adv \in BOOLEAN /\ fps' \in Seq(Seq(STRING))
      BY DEF LoopInv, ReplyOK, TracesOK
    <3> QED BY <1>1, <3>1, StepTyped
  <2> HIDE DEF t
  <2>3. outcome' \notin Killed /\ phase' \in {"top", "done"}
    BY <1>1, <2>1, GatesKillNothing
  <2>4. sofar' = Append(steps, t)
    BY <2>1, <2>3 DEF sofar, underWay
  <2> QED BY <1>1, <2>1, <2>2, <2>3, <2>4, FinishBegins
<1> QED BY <1>2, <1>3

(* A finish turn ends. *)
LEMMA FinishReturnsStalls ==
    ASSUME LoopInv, ReadsInv, StallInv, finishReturns
    PROVE  StallInv'
<1> DEFINE t == turn
<1>1. phase = "finishing" /\ steps' = Append(steps, Step("finish")) /\ UNCHANGED <<fps, reply, spiral, tr, mem>>
      /\ gatesFinish(Append(msgs, ToolResult(findCall, <<"finish">>, 0)))
  BY Zenon DEF finishReturns
<1>2. Step("finish") = t
  BY <1>1, Zenon DEF Step, turn
<1>3. t \in Committed /\ steps \in History /\ t.kind = "finish" /\ sofar = Append(steps, t) /\ Going
  BY <1>1, TurnTyped, TurnOf DEF underWay, Going
<1>4. outcome' \notin Killed /\ phase' \in {"top", "done"}
  BY <1>1, GatesKillNothing
<1> HIDE DEF t
<1>5. steps' = Append(steps, t) /\ sofar' = sofar
  BY <1>1, <1>2, <1>3, <1>4 DEF sofar, underWay
<1>6. SpiralBounds(spiral) /\ RedGood(sofar, tr.runFP, tr.stagnant) /\ Detectors
  BY <1>3 DEF StallInv
<1>7. ObsGood(steps, tr.obsFP, tr.obsRepeat)'
  <2>1. ObsGood(steps, tr.obsFP, tr.obsRepeat)
    BY <1>6 DEF Detectors
  <2>2. ObsGood(Append(steps, t), tr.obsFP, tr.obsRepeat)
    BY <1>3, <2>1, OtherTurn
  <2> QED BY <1>1, <1>5, <2>2, Zenon
<1>8. Detectors'
  BY <1>1, <1>5, <1>6, <1>7, Zenon DEF Detectors
<1>9. KillsAreEarned'
  BY <1>4, NothingEarned
<1>10. SpiralBounds(spiral)' /\ RedGood(sofar, tr.runFP, tr.stagnant)'
  BY <1>1, <1>5, <1>6, Zenon
<1> QED BY <1>8, <1>9, <1>10 DEF StallInv

-----------------------------------------------------------------------------
(* A call of the turn under way is observed, and the turn goes on. *)
LEMMA CallStalls ==
    ASSUME LoopInv, LoopInv', ReadsInv, StallInv, NEW c \in Call, NEW r \in Result,
           phase \in {"dispatch", "finishing"}, phase' \in {"dispatch", "finishing", "endTurn"},
           phase' = "finishing" <=> phase = "finishing",
           fps' = Append(fps, Observed(c, r)), UNCHANGED <<steps, reply, spiral, outcome>>,
           mem'.sig = mem.sig, mem'.repeats = mem.repeats, tr'.obsFP = tr.obsFP, tr'.obsRepeat = tr.obsRepeat,
           c.name = "run" => RunOf(tr, r.saw, tr'),
           c.name = "run" /\ phase = "dispatch" => ~stagnantKills(tr', r.saw),
           c.name # "run" => tr'.runFP = tr.runFP /\ tr'.stagnant = tr.stagnant
    PROVE  StallInv'
<1> DEFINE t == turn
           u == turn'
           o == Observed(c, r)
<1>1. underWay /\ underWay' /\ Going
  BY DEF underWay, Going
<1>2. t \in Committed /\ steps \in History /\ sofar = Append(steps, t)
  BY <1>1, TurnTyped, TurnOf
<1>3. /\ u.kind = t.kind /\ u.calls = t.calls /\ u.adv = t.adv /\ u.obs = Append(t.obs, o)
      /\ sofar' = Append(steps, u)
  <2>1. u.kind = (IF phase' = "finishing" THEN "finish" ELSE "tools") /\ u.calls = reply'.calls /\ u.adv = reply'.adv
        /\ u.obs = fps'
    BY Zenon DEF turn
  <2>2. sofar' = Append(steps', u)
    BY <1>1, Zenon DEF sofar
  <2> QED BY <2>1, <2>2, TurnOf
<1>4. u \in Committed
  <2>1. reply'.calls \in Seq(Call) /\ reply'.adv \in BOOLEAN /\ fps' \in Seq(Seq(STRING))
    BY DEF LoopInv, ReplyOK, TracesOK
  <2>2. "tools" \in STRING /\ "finish" \in STRING
    BY WordsAssumption DEF WordsAssumption, Words
  <2> QED BY <2>1, <2>2, Zenon DEF turn, Committed
<1>5. o \in Seq(STRING) /\ o[1] = c.name /\ o[3] = r.saw
  BY Observation
<1> HIDE DEF t, u, o
<1>6. SpiralBounds(spiral) /\ RedGood(Append(steps, t), tr.runFP, tr.stagnant) /\ Detectors
  BY <1>1, <1>2 DEF StallInv
<1>7. /\ RepGood(Append(steps, t), mem.sig, mem.repeats) /\ ObsGood(steps, tr.obsFP, tr.obsRepeat)
      /\ SpiralGood(Append(steps, t), spiral) /\ spiralKill(spiral) = "none"
      /\ toolTurns(Append(steps, t)) = DOMAIN Append(steps, t) => tr.stagnant < MaxStagnant
  BY <1>2, <1>6 DEF Detectors
<1>8. /\ RedGood(Append(steps, t), tr.runFP, tr.stagnant) => RedGood(Append(steps, u), tr'.runFP, tr'.stagnant)
      /\ \A sig, n : RepGood(Append(steps, t), sig, n) => RepGood(Append(steps, u), sig, n)
      /\ \A sp : SpiralGood(Append(steps, t), sp) => SpiralGood(Append(steps, u), sp)
      /\ toolTurns(Append(steps, u)) = DOMAIN Append(steps, u) => toolTurns(Append(steps, t)) = DOMAIN Append(steps, t)
  <2> DEFINE a == tr
             b == tr'
  <2>1. (o[1] = "run" => RunOf(a, o[3], b)) /\ (o[1] # "run" => b.runFP = a.runFP /\ b.stagnant = a.stagnant)
    BY <1>5
  <2> HIDE DEF a, b
  <2>2. /\ RedGood(Append(steps, t), a.runFP, a.stagnant) => RedGood(Append(steps, u), b.runFP, b.stagnant)
        /\ \A sig, n : RepGood(Append(steps, t), sig, n) => RepGood(Append(steps, u), sig, n)
        /\ \A sp : SpiralGood(Append(steps, t), sp) => SpiralGood(Append(steps, u), sp)
        /\ toolTurns(Append(steps, u)) = DOMAIN Append(steps, u) => toolTurns(Append(steps, t)) = DOMAIN Append(steps, t)
    BY <1>2, <1>3, <1>4, <1>5, <2>1, TurnObserves
  <2> QED BY <2>2 DEF a, b
<1>9. toolTurns(Append(steps, u)) = DOMAIN Append(steps, u) => tr'.stagnant < MaxStagnant
  <2> SUFFICES ASSUME toolTurns(Append(steps, u)) = DOMAIN Append(steps, u) PROVE tr'.stagnant < MaxStagnant
    OBVIOUS
  <2>1. tr.stagnant < MaxStagnant
    BY <1>7, <1>8
  <2>2. phase = "dispatch"
    <3>1. CASE phase = "finishing"
      <4>1. t.kind # "tools"
        BY <3>1 DEF t, turn
      <4>2. toolTurns(Append(steps, t)) # DOMAIN Append(steps, t)
        BY <1>2, <4>1, OtherTurn
      <4> QED BY <1>8, <4>2
    <3> QED BY <3>1
  <2>3. CASE c.name = "run"
    <3>1. tr \in TrackerState /\ tr'.stagnant \in Nat
      <4>1. tr \in TrackerState /\ tr' \in TrackerState
        BY DEF LoopInv, TracesOK
      <4> QED BY <4>1, Zenon DEF TrackerState
    <3>2. RunOf(tr, r.saw, tr') /\ ~stagnantKills(tr', r.saw)
      BY <2>2, <2>3
    <3> QED BY <2>1, <3>1, <3>2, RedBelow
  <2>4. CASE c.name # "run"
    BY <2>1, <2>4
  <2> QED BY <2>3, <2>4
<1>10. Detectors'
  <2>1. RepGood(sofar, mem.sig, mem.repeats)'
    BY <1>3, <1>7, <1>8, Zenon
  <2>2. SpiralGood(sofar, spiral)' /\ (spiralKill(spiral) = "none")'
    BY <1>3, <1>7, <1>8, Zenon
  <2>3. ObsGood(steps, tr.obsFP, tr.obsRepeat)'
    BY <1>7, Zenon
  <2>4. (toolTurns(sofar) = DOMAIN sofar => tr.stagnant < MaxStagnant)'
    BY <1>3, <1>9, Zenon
  <2> QED BY <2>1, <2>2, <2>3, <2>4 DEF Detectors
<1>11. KillsAreEarned'
  BY NothingEarned DEF StallInv
<1>12. SpiralBounds(spiral)' /\ RedGood(sofar, tr.runFP, tr.stagnant)'
  BY <1>3, <1>6, <1>8, Zenon
<1> QED BY <1>10, <1>11, <1>12 DEF StallInv

(* A finish turn's other calls run first. *)
LEMMA FinishDispatchStalls ==
    ASSUME LoopInv, LoopInv', ReadsInv, StallInv, finishDispatch
    PROVE  StallInv'
<1>1. /\ phase = "finishing" /\ phase' = "finishing" /\ k \in DOMAIN reply.calls
      /\ UNCHANGED <<steps, reply, spiral, mem, outcome>>
  BY Zenon DEF finishDispatch
<1> DEFINE c == reply.calls[k]
<1>2. c \in Call
  BY <1>1 DEF LoopInv, ReplyOK
<1>3. \/ UNCHANGED <<tr, fps>>
      \/ \E r \in dispatchNative(c) : /\ tr' = IF c.name = "run" THEN observeRun(tr, r.saw) ELSE tr
                                      /\ fps' = Append(fps, Observed(c, r))
  BY Zenon DEF finishDispatch
<1> HIDE DEF c
<1>4. CASE UNCHANGED <<tr, fps>>
  <2>1. sofar' = sofar
    BY <1>1, <1>4, Zenon DEF sofar, turn, underWay
  <2>2. Going
    BY <1>1 DEF Going
  <2> QED BY <1>1, <1>4, <2>1, <2>2, StallsQuiet
<1>5. ASSUME NEW r \in dispatchNative(c), tr' = IF c.name = "run" THEN observeRun(tr, r.saw) ELSE tr,
             fps' = Append(fps, Observed(c, r))
      PROVE  StallInv'
  <2>1. r \in Result
    BY <1>5, Dispatched DEF LoopInv, EnvOK
  <2>2. c.name = "run" => RunOf(tr, r.saw, tr')
    BY <1>5, ObserveRunOf DEF LoopInv, TracesOK
  <2>3. tr'.obsFP = tr.obsFP /\ tr'.obsRepeat = tr.obsRepeat
    BY <1>5, <2>2, Zenon DEF RunOf
  <2> QED BY <1>1, <1>2, <1>5, <2>1, <2>2, <2>3, CallStalls
<1> QED BY <1>3, <1>4, <1>5

(* The hints and the memory of actions leave what the detectors remember. *)
SameSignals(a, t) ==
    a.runFP = t.runFP /\ a.stagnant = t.stagnant /\ a.obsFP = t.obsFP /\ a.obsRepeat = t.obsRepeat

(* Hints, latches and the memory of actions keep those fields. *)
LEMMA NudgesQuiet ==
    ASSUME NEW t \in TrackerState, NEW i, NEW verb, NEW b
    PROVE  /\ SameSignals(observeAction(t, i, verb), t) /\ SameSignals(observationNudges(t), t)
           /\ SameSignals([t EXCEPT !.editsSinceGreen = 0], t)
           /\ SameSignals([t EXCEPT !.finishNudged = @ \/ b], t)
<1>1. SameSignals(observeAction(t, i, verb), t)
  BY Zenon DEF observeAction, TrackerState, SameSignals
<1>2. SameSignals(observationNudges(t), t)
  BY Zenon DEF observationNudges, TrackerState, SameSignals
<1>3. SameSignals([t EXCEPT !.editsSinceGreen = 0], t)
  BY Zenon DEF TrackerState, SameSignals
<1>4. SameSignals([t EXCEPT !.finishNudged = @ \/ b], t)
  BY Zenon DEF TrackerState, SameSignals
<1> QED BY <1>1, <1>2, <1>3, <1>4

(* A call is observed and the loop goes on: skipCall and dispatchCall. *)
LEMMA ObserveStalls ==
    ASSUME LoopInv, LoopInv', ReadsInv, StallInv, phase = "dispatch", NEW c \in Call, NEW r \in Result,
           c.name = "run" => r.saw \in RunSaw, NEW m, observeCall(c, r, m), m.sig = mem.sig, m.repeats = mem.repeats
    PROVE  StallInv'
<1> DEFINE ran == IF c.name = "run" THEN observeRun(tr, r.saw) ELSE tr
           acted == observeAction(ran, iter, c.name)
<1>1. /\ phase' \in {"dispatch", "endTurn"} /\ fps' = Append(fps, Observed(c, r)) /\ mem' = m
      /\ tr' = observationNudges(acted) /\ ~(c.name = "run" /\ stagnantKills(ran, r.saw))
      /\ UNCHANGED <<steps, reply, spiral, outcome>>
  BY Zenon DEF observeCall
<1>2. tr \in TrackerState /\ ran \in TrackerState /\ iter \in Nat
  <2>1. tr \in TrackerState
    BY DEF LoopInv, TracesOK
  <2>2. maxIter \in Nat
    BY ScenarioTyped DEF LoopInv, EnvOK
  <2> QED BY <2>1, <2>2, ObserveRunTyped DEF LoopInv, EnvOK
<1>3. acted \in TrackerState
  <2> HIDE DEF ran
  <2> QED BY <1>2, ObserveActionTyped
<1>4. /\ tr'.runFP = ran.runFP /\ tr'.stagnant = ran.stagnant /\ tr'.obsFP = ran.obsFP /\ tr'.obsRepeat = ran.obsRepeat
  <2>1. SameSignals(acted, ran)
    <3> HIDE DEF ran
    <3> QED BY <1>2, NudgesQuiet
  <2> HIDE DEF acted, ran
  <2>2. SameSignals(observationNudges(acted), acted)
    BY <1>3, NudgesQuiet
  <2> QED BY <1>1, <2>1, <2>2 DEF SameSignals
<1>5. c.name = "run" => RunOf(tr, r.saw, ran)
  BY <1>2, ObserveRunOf
<1>6. c.name # "run" => ran = tr
  OBVIOUS
<1> HIDE DEF ran, acted
<1>7. c.name = "run" => RunOf(tr, r.saw, tr')
  BY <1>4, <1>5 DEF RunOf
<1>8. c.name = "run" => ~stagnantKills(tr', r.saw)
  BY <1>1, <1>4 DEF stagnantKills
<1>9. tr'.obsFP = tr.obsFP /\ tr'.obsRepeat = tr.obsRepeat
  BY <1>4, <1>5, <1>6 DEF RunOf
<1>10. c.name # "run" => tr'.runFP = tr.runFP /\ tr'.stagnant = tr.stagnant
  BY <1>4, <1>6
<1>11. phase' # "finishing" /\ phase # "finishing"
  BY <1>1
<1> QED BY <1>1, <1>7, <1>8, <1>9, <1>10, <1>11, CallStalls

(* A call is skipped or executed. *)
LEMMA DispatchStalls ==
    ASSUME LoopInv, LoopInv', ReadsInv, StallInv, skipCall \/ dispatchCall
    PROVE  StallInv'
<1> DEFINE c == reply.calls[k]
<1>1. phase = "dispatch"
  BY Zenon DEF skipCall, dispatchCall
<1>2. c \in Call /\ mem \in Memory /\ ws \in Versions
  BY <1>1 DEF LoopInv, ControlOK, ReplyOK, TracesOK, EnvOK
<1> HIDE DEF c
<1>3. CASE skipCall
  <2> DEFINE r == Ran(mem.readSaw, ws, "skipped")
  <2>1. observeCall(c, r, mem) /\ skips(c, mem)
    BY <1>3 DEF skipCall, c
  <2>2. mem.readSaw \in STRING /\ "skipped" \in STRING
    BY <1>2, WordsAssumption DEF WordsAssumption, Words, Memory
  <2>3. r \in Result
    BY <1>2, <2>2, RanTyped
  <2>4. c.name # "run"
    BY <2>1 DEF skips, readOnly
  <2> HIDE DEF r
  <2> QED BY <1>1, <1>2, <2>1, <2>3, <2>4, ObserveStalls
<1>4. CASE dispatchCall
  <2>1. PICK r \in executions : observeCall(c, r, memOf(c, r))
    BY <1>4, Zenon DEF dispatchCall, c
  <2>2. r \in dispatchNative(c)
    BY <1>1, Executed DEF c
  <2>3. r \in Result /\ (c.name = "run" => r.saw \in RunSaw)
    BY <1>2, <2>2, Dispatched
  <2>4. memOf(c, r).sig = mem.sig /\ memOf(c, r).repeats = mem.repeats
    BY <1>2, Zenon DEF memOf, Memory
  <2> QED BY <1>1, <1>2, <2>1, <2>3, <2>4, ObserveStalls
<1> QED BY <1>3, <1>4

-----------------------------------------------------------------------------
(* A run that is cut at fails as MaxStagnant before it did. *)
LEMMA StagnantEarned ==
    ASSUME NEW s, NEW b, NEW out, RedGood(s, b.runFP, b.stagnant), stagnantKills(b, out), NEW a, RunOf(a, out, b)
    PROVE  \E red \in {"red1", "red2"} : Cardinality(sameRed(s, red)) >= MaxStagnant
<1>1. MaxStagnant \in Nat \ {0}
  BY TrackerAssumption DEF TrackerAssumption
<1>2. out # "infra" /\ b.stagnant >= MaxStagnant
  BY DEF stagnantKills, isRunFailure, isInfraFault
<1>3. out \in {"red1", "red2"}
  BY <1>1, <1>2 DEF RunOf
<1>4. b.runFP = out
  BY <1>3 DEF RunOf
<1> QED BY <1>2, <1>3, <1>4 DEF RedGood

(* A turn is cut in its middle, its failing run on record. *)
LEMMA StagnantStalls ==
    ASSUME LoopInv, LoopInv', ReadsInv, NEW c \in Call, NEW r \in Result, c.name = "run",
           NEW t \in Committed, t.kind = "tools", t.calls = reply.calls, t.adv = reply.adv,
           fps' = Append(t.obs, Observed(c, r)), RedGood(Append(steps, t), tr.runFP, tr.stagnant),
           RunOf(tr, r.saw, tr'), stagnantKills(tr', r.saw), SpiralBounds(spiral)',
           steps' = Append(steps, Step("tools")), phase' = "done", outcome' = "stagnant"
    PROVE  StallInv'
<1> DEFINE u == Step("tools")
           o == Observed(c, r)
<1>1. o \in Seq(STRING) /\ o[1] = "run" /\ o[3] = r.saw
  BY Observation
<1>2. u \in Committed /\ u.kind = "tools" /\ u.calls = t.calls /\ u.adv = t.adv /\ u.obs = Append(t.obs, o)
  <2>1. reply.calls \in Seq(Call) /\ reply.adv \in BOOLEAN /\ fps' \in Seq(Seq(STRING))
    BY DEF LoopInv, ReplyOK, TracesOK
  <2> QED BY <2>1, StepTyped, StepOf
<1> HIDE DEF u, o
<1>3. steps \in History
  BY TurnTyped
<1>4. RedGood(Append(steps, u), tr'.runFP, tr'.stagnant)
  <2> DEFINE a == tr
             b == tr'
  <2>1. RunOf(a, o[3], b) /\ RedGood(Append(steps, t), a.runFP, a.stagnant)
    BY <1>1
  <2> HIDE DEF a, b
  <2>2. RedGood(Append(steps, u), b.runFP, b.stagnant)
    BY <1>1, <1>2, <1>3, <2>1, RedRun
  <2> QED BY <2>2 DEF a, b
<1>5. steps' = Append(steps, u) /\ sofar' = steps'
  BY DEF u, sofar, underWay
<1>6. \E red \in {"red1", "red2"} : Cardinality(sameRed(steps', red)) >= MaxStagnant
  <2> DEFINE a == tr
             b == tr'
             out == r.saw
             s == Append(steps, u)
  <2>1. RedGood(s, b.runFP, b.stagnant) /\ stagnantKills(b, out) /\ RunOf(a, out, b)
    BY <1>4
  <2> HIDE DEF a, b, out, s
  <2>2. \E red \in {"red1", "red2"} : Cardinality(sameRed(s, red)) >= MaxStagnant
    BY <2>1, StagnantEarned
  <2> QED BY <1>5, <2>2, Zenon DEF s
<1>7. KillsAreEarned'
  <2>1. outcome' \notin {"repeat", "tool_obs_repeat", "spiral_cycle", "spiral_wander"}
    OBVIOUS
  <2> QED BY <1>6, <2>1, Zenon DEF KillsAreEarned
<1>8. ~Going'
  BY DEF Going
<1>9. RedGood(sofar, tr.runFP, tr.stagnant)'
  BY <1>4, <1>5, Zenon
<1> QED BY <1>7, <1>8, <1>9 DEF StallInv

(* The native loop cuts a turn. *)
LEMMA KillStagnantStalls ==
    ASSUME LoopInv, LoopInv', ReadsInv, StallInv, killStagnant
    PROVE  StallInv'
<1> DEFINE c == reply.calls[k]
           t == turn
<1>1. /\ phase = "dispatch" /\ phase' = "done" /\ outcome' = "stagnant" /\ c.name = "run"
      /\ steps' = Append(steps, Step("tools")) /\ UNCHANGED <<spiral, reply>>
  BY Zenon DEF killStagnant, end
<1>2. PICK r \in executions : /\ stagnantKills(observeRun(tr, r.saw), r.saw) /\ tr' = observeRun(tr, r.saw)
                              /\ fps' = Append(fps, Observed(c, r))
  BY Zenon DEF killStagnant
<1>3. c \in Call
  BY <1>1 DEF LoopInv, ControlOK, ReplyOK
<1>4. r \in Result
  <2>1. r \in dispatchNative(c)
    BY <1>1, Executed
  <2> QED BY <2>1, Dispatched DEF LoopInv, EnvOK
<1>5. t \in Committed /\ t.kind = "tools" /\ t.calls = reply.calls /\ t.adv = reply.adv /\ t.obs = fps
      /\ sofar = Append(steps, t)
  BY <1>1, TurnTyped, TurnOf DEF underWay
<1> HIDE DEF c, t
<1>6. RedGood(Append(steps, t), tr.runFP, tr.stagnant) /\ SpiralBounds(spiral)'
  BY <1>1, <1>5, Zenon DEF StallInv
<1>7. RunOf(tr, r.saw, tr') /\ stagnantKills(tr', r.saw)
  <2>1. RunOf(tr, r.saw, observeRun(tr, r.saw))
    BY ObserveRunOf DEF LoopInv, TracesOK
  <2> QED BY <1>2, <2>1
<1>8. fps' = Append(t.obs, Observed(c, r))
  BY <1>2, <1>5
<1> QED BY <1>1, <1>3, <1>4, <1>5, <1>6, <1>7, <1>8, StagnantStalls

-----------------------------------------------------------------------------
(* A turn ends, its observation fingerprinted as u holds it. *)
LEMMA EndedStalls ==
    ASSUME LoopInv, LoopInv', ReadsInv, StallInv, phase = "endTurn", NEW u \in Committed,
           u.kind = "tools", u.calls = reply.calls, u.adv = reply.adv, steps' = Append(steps, u),
           DOMAIN u.obs = DOMAIN fps, \A j \in DOMAIN fps : u.obs[j][1] = fps[j][1] /\ u.obs[j][3] = fps[j][3],
           UNCHANGED <<spiral, reply>>, mem'.sig = mem.sig, mem'.repeats = mem.repeats,
           tr'.runFP = tr.runFP, tr'.stagnant = tr.stagnant,
           tr'.obsFP = u.obs, tr'.obsRepeat = IF u.obs = tr.obsFP THEN tr.obsRepeat + 1 ELSE 1,
           \/ phase' = "done" /\ outcome' = "tool_obs_repeat" /\ tr'.obsRepeat >= MaxReasoningRepeats
           \/ phase' \in {"top", "done"} /\ outcome' \notin Killed /\ ~(tr'.obsRepeat >= MaxReasoningRepeats)
    PROVE  StallInv'
<1> DEFINE t == turn
<1>1. t \in Committed /\ t.kind = "tools" /\ t.calls = reply.calls /\ t.adv = reply.adv /\ t.obs = fps
      /\ sofar = Append(steps, t) /\ steps \in History /\ Going
  BY TurnTyped, TurnOf DEF underWay, Going
<1> HIDE DEF t
<1>2. sofar' = steps'
  BY DEF sofar, underWay
<1>3. SpiralBounds(spiral) /\ RedGood(Append(steps, t), tr.runFP, tr.stagnant) /\ Detectors
  BY <1>1 DEF StallInv
<1>4. /\ RepGood(Append(steps, t), mem.sig, mem.repeats) /\ ObsGood(steps, tr.obsFP, tr.obsRepeat)
      /\ SpiralGood(Append(steps, t), spiral) /\ spiralKill(spiral) = "none"
      /\ toolTurns(Append(steps, t)) = DOMAIN Append(steps, t) => tr.stagnant < MaxStagnant
  BY <1>1, <1>3 DEF Detectors
<1>5. RedGood(Append(steps, u), tr.runFP, tr.stagnant)
  BY <1>1, <1>3, RedRetagged
<1>6. /\ RepGood(Append(steps, u), mem.sig, mem.repeats) /\ SpiralGood(Append(steps, u), spiral)
      /\ toolTurns(Append(steps, u)) = DOMAIN Append(steps, u) => tr.stagnant < MaxStagnant
  <2>1. Alike(Append(steps, t), Append(steps, u))
    BY <1>1, LastReplaced
  <2> QED BY <1>4, <2>1, AlikeGood
<1>7. /\ tr'.obsRepeat = Cardinality(sameObs(Append(steps, u), u.obs))
      /\ tr'.obsRepeat < MaxReasoningRepeats => ObsGood(Append(steps, u), tr'.obsFP, tr'.obsRepeat)
  <2> DEFINE fp == tr.obsFP
             n == tr.obsRepeat
             m == tr'.obsRepeat
  <2>1. ObsGood(steps, fp, n) /\ m = IF u.obs = fp THEN n + 1 ELSE 1
    BY <1>4
  <2> HIDE DEF fp, n, m
  <2>2. m = Cardinality(sameObs(Append(steps, u), u.obs)) /\ (m < MaxReasoningRepeats => ObsGood(Append(steps, u), u.obs, m))
    BY <1>1, <2>1, ObsTurn
  <2> QED BY <2>2 DEF m
<1>8. RedGood(sofar, tr.runFP, tr.stagnant)' /\ SpiralBounds(spiral)'
  BY <1>2, <1>3, <1>5, Zenon
<1>9. CASE phase' = "done" /\ outcome' = "tool_obs_repeat" /\ tr'.obsRepeat >= MaxReasoningRepeats
  <2>1. ~Going'
    BY <1>9 DEF Going
  <2>2. KillsAreEarned'
    <3> DEFINE l == Len(steps) + 1
    <3>1. isLast(toolTurns(steps'), l) /\ steps'[l] = u
      BY <1>1, NewLastTurn, OneMoreTurn
    <3> HIDE DEF l
    <3>2. l \in toolTurns(steps')
      BY <3>1 DEF isLast
    <3>3. Cardinality(sameObs(steps', steps'[l].obs)) >= MaxReasoningRepeats
      BY <1>7, <1>9, <3>1
    <3>4. outcome' \notin {"repeat", "stagnant", "spiral_cycle", "spiral_wander"}
      BY <1>9
    <3> QED BY <3>1, <3>2, <3>3, <3>4, Zenon DEF KillsAreEarned
  <2> QED BY <1>8, <2>1, <2>2 DEF StallInv
<1>10. CASE phase' \in {"top", "done"} /\ outcome' \notin Killed /\ ~(tr'.obsRepeat >= MaxReasoningRepeats)
  <2>1. tr'.obsRepeat < MaxReasoningRepeats
    <3>1. tr'.obsRepeat \in Nat /\ MaxReasoningRepeats \in Nat
      <4>1. tr' \in TrackerState
        BY DEF LoopInv, TracesOK
      <4>2. tr'.obsRepeat \in Nat
        BY <4>1, Zenon DEF TrackerState
      <4> QED BY <4>2, TrackerAssumption DEF TrackerAssumption
    <3> QED BY <1>10, <3>1
  <2>2. ObsGood(steps, tr.obsFP, tr.obsRepeat)'
    BY <1>7, <2>1, Zenon
  <2>3. RepGood(sofar, mem.sig, mem.repeats)' /\ SpiralGood(sofar, spiral)' /\ (spiralKill(spiral) = "none")'
    BY <1>2, <1>4, <1>6, Zenon
  <2>4. (toolTurns(sofar) = DOMAIN sofar => tr.stagnant < MaxStagnant)'
    BY <1>2, <1>6, Zenon
  <2>5. Detectors'
    BY <2>2, <2>3, <2>4 DEF Detectors
  <2>6. KillsAreEarned'
    BY <1>10, NothingEarned
  <2> QED BY <1>8, <2>5, <2>6 DEF StallInv
<1> QED BY <1>9, <1>10

(* What the end of a turn leaves in the tracker. *)
LEMMA ObservationTaken ==
    ASSUME NEW t \in TrackerState, NEW fp
    PROVE  /\ observeToolObservation(t, fp).runFP = t.runFP /\ observeToolObservation(t, fp).stagnant = t.stagnant
           /\ observeToolObservation(t, fp).obsFP = fp
           /\ observeToolObservation(t, fp).obsRepeat = IF fp = t.obsFP THEN t.obsRepeat + 1 ELSE 1
<1> DEFINE m == IF fp = t.obsFP THEN t.obsRepeat + 1 ELSE 1
<1>1. observeToolObservation(t, fp) = [t EXCEPT !.obsFP = fp, !.obsRepeat = m]
  BY Zenon DEF observeToolObservation
<1> HIDE DEF m
<1>2. LET a == [t EXCEPT !.obsFP = fp, !.obsRepeat = m] IN
         a.runFP = t.runFP /\ a.stagnant = t.stagnant /\ a.obsFP = fp /\ a.obsRepeat = m
  BY Zenon DEF TrackerState
<1> QED BY <1>1, <1>2, Zenon DEF m

(* The native loop's turn ends. *)
LEMMA TurnEndsStalls ==
    ASSUME LoopInv, LoopInv', ReadsInv, StallInv, turnEnds
    PROVE  StallInv'
<1> DEFINE o == observeToolObservation(tr, fps)
           u == Step("tools")
<1>1. phase = "endTurn" /\ steps' = Append(steps, u) /\ UNCHANGED <<fps, spiral, reply>>
  BY Zenon DEF turnEnds
<1>2. u \in Committed /\ u.kind = "tools" /\ u.calls = reply.calls /\ u.adv = reply.adv /\ u.obs = fps
  <2>1. reply.calls \in Seq(Call) /\ reply.adv \in BOOLEAN /\ fps' \in Seq(Seq(STRING))
    BY DEF LoopInv, ReplyOK, TracesOK
  <2> QED BY <1>1, <2>1, StepTyped, StepOf
<1>3. tr \in TrackerState /\ fps \in Seq(Seq(STRING)) /\ o \in TrackerState /\ mem \in Memory
  BY ToolObservationTyped DEF LoopInv, TracesOK
<1>4. /\ o.runFP = tr.runFP /\ o.stagnant = tr.stagnant
      /\ o.obsFP = fps /\ o.obsRepeat = (IF fps = tr.obsFP THEN tr.obsRepeat + 1 ELSE 1)
  BY <1>3, ObservationTaken
<1>5. /\ mem'.sig = mem.sig /\ mem'.repeats = mem.repeats
  <2>1. UNCHANGED mem \/ \E a, b : mem' = [mem EXCEPT !.answerNudged = a, !.sayNudged = b]
    BY Zenon DEF turnEnds
  <2> QED BY <1>3, <2>1, Zenon DEF Memory
<1>6. \/ toolObsKills(o) /\ tr' = o /\ end("tool_obs_repeat")
      \/ /\ ~toolObsKills(o) /\ nextTurn
         /\ \E checked \in {o, [o EXCEPT !.editsSinceGreen = 0]} :
               \E finish : tr' = [checked EXCEPT !.finishNudged = @ \/ finish]
  BY Zenon DEF turnEnds
<1> HIDE DEF o, u
<1>7. tr'.runFP = o.runFP /\ tr'.stagnant = o.stagnant /\ tr'.obsFP = o.obsFP /\ tr'.obsRepeat = o.obsRepeat
  <2>1. CASE tr' = o
    BY <2>1
  <2>2. ASSUME NEW checked \in {o, [o EXCEPT !.editsSinceGreen = 0]}, NEW finish, tr' = [checked EXCEPT !.finishNudged = @ \/ finish]
        PROVE  tr'.runFP = o.runFP /\ tr'.stagnant = o.stagnant /\ tr'.obsFP = o.obsFP /\ tr'.obsRepeat = o.obsRepeat
    <3>1. checked \in TrackerState
      BY <1>3, <2>2, TrackerLatches
    <3>2. SameSignals(checked, o)
      BY <1>3, <2>2, NudgesQuiet DEF SameSignals
    <3>3. SameSignals(tr', checked)
      <4>1. SameSignals([checked EXCEPT !.finishNudged = @ \/ finish], checked)
        BY <3>1, NudgesQuiet
      <4> QED BY <2>2, <4>1, Zenon
    <3> QED BY <3>2, <3>3 DEF SameSignals
  <2> QED BY <1>6, <2>1, <2>2
<1>8. \/ phase' = "done" /\ outcome' = "tool_obs_repeat" /\ tr'.obsRepeat >= MaxReasoningRepeats
      \/ phase' \in {"top", "done"} /\ outcome' \notin Killed /\ ~(tr'.obsRepeat >= MaxReasoningRepeats)
  <2>1. CASE toolObsKills(o) /\ end("tool_obs_repeat")
    BY <1>7, <2>1 DEF toolObsKills, end
  <2>2. CASE ~toolObsKills(o) /\ nextTurn
    <3>1. outcome = "none"
      BY <1>1 DEF LoopInv, ControlOK
    <3>2. phase' \in {"top", "done"} /\ outcome' \in {outcome, "HitCap"}
      BY <2>2 DEF nextTurn, end
    <3> QED BY <1>7, <2>2, <3>1, <3>2 DEF Killed, toolObsKills
  <2> QED BY <1>6, <2>1, <2>2
<1>9. tr'.obsFP = u.obs /\ tr'.obsRepeat = (IF u.obs = tr.obsFP THEN tr.obsRepeat + 1 ELSE 1)
  BY <1>2, <1>4, <1>7
<1>10. DOMAIN u.obs = DOMAIN fps /\ \A j \in DOMAIN fps : u.obs[j][1] = fps[j][1] /\ u.obs[j][3] = fps[j][3]
  BY <1>2
<1>11. tr'.runFP = tr.runFP /\ tr'.stagnant = tr.stagnant
  BY <1>4, <1>7
<1> QED BY <1>1, <1>2, <1>5, <1>8, <1>9, <1>10, <1>11, EndedStalls

(* The observation of a text turn, with the diagnostics behind it. *)
retags(f, g) == DOMAIN g = DOMAIN f /\ \A j \in DOMAIN f : g[j][1] = f[j][1] /\ g[j][3] = f[j][3]

(* The diagnostics come after the call and its result. *)
LEMMA Retagged ==
    ASSUME NEW f \in Seq(Seq(STRING)), NEW build, NEW g, Len(f) = 1, Len(f[1]) = 4, g = <<Append(f[1], build)>>
    PROVE  retags(f, g)
<1> DEFINE o == f[1]
           x == Append(o, build)
<1>1. o \in Seq(STRING) /\ Len(o) = 4 /\ DOMAIN f = {1}
  OBVIOUS
<1> HIDE DEF o
<1>2. o \in Seq(STRING \cup {build})
  BY <1>1
<1>3. x[1] = o[1] /\ x[3] = o[3]
  <2>1. \A i \in 1..Len(o) : x[i] = o[i]
    BY <1>2, AppendProperties
  <2>2. 1 \in 1..Len(o) /\ 3 \in 1..Len(o)
    BY <1>1
  <2> QED BY <2>1, <2>2, Zenon
<1> HIDE DEF x
<1>4. g = <<x>>
  BY DEF x, o
<1>5. DOMAIN g = {1} /\ g[1] = x
  BY <1>4
<1>6. \A j \in DOMAIN f : j = 1 /\ f[j] = o
  BY <1>1 DEF o
<1> QED BY <1>1, <1>3, <1>5, <1>6 DEF retags

(* The text loop's turn ends. *)
LEMMA TextTurnEndsStalls ==
    ASSUME LoopInv, LoopInv', ReadsInv, StallInv, textTurnEnds
    PROVE  StallInv'
<1> DEFINE u == Step("tools")
<1>1. isText /\ phase = "endTurn" /\ steps' = Append(steps, u) /\ UNCHANGED <<spiral, reply, mem>>
  BY Zenon DEF textTurnEnds
<1>2. tr \in TrackerState /\ fps \in Seq(Seq(STRING)) /\ Len(fps) = 1 /\ Len(fps[1]) = 4
  <2>1. tr \in TrackerState /\ fps \in Seq(Seq(STRING)) /\ Len(fps) = 1
    BY <1>1 DEF LoopInv, ControlOK, TracesOK
  <2> QED BY <1>1, <2>1 DEF ReadsInv, FpsShape
<1> DEFINE hints(c, d) == [observationNudges(c) EXCEPT !.finishNudged = @ \/ d]
           next(b) == IF b = "clean" THEN [tr EXCEPT !.editsSinceGreen = 0] ELSE tr
           fin(b)  == finishNudgeDue(next(b), iter, maxIter)
           ends(x) == (toolObsKills(x) /\ end("tool_obs_repeat")) \/ (~toolObsKills(x) /\ nextTurn)
           rest(c, d, b) == /\ tr' = observeToolObservation(hints(c, d), <<Append(fps[1], b)>>)
                            /\ fps' = <<Append(fps[1], b)>>
                            /\ ends(observeToolObservation(hints(c, d), <<Append(fps[1], b)>>))
<1>3. PICK checked \in {tr, [tr EXCEPT !.editsSinceGreen = 0]} : \E finish, build : rest(checked, finish, build)
  <2>1. \E b : rest(next(b), fin(b), b)
    BY Zenon DEF textTurnEnds, fingerprint
  <2>2. \A b : next(b) \in {tr, [tr EXCEPT !.editsSinceGreen = 0]}
    OBVIOUS
  <2> HIDE DEF rest, next, fin
  <2>3. PICK b : rest(next(b), fin(b), b)
    BY <2>1
  <2> QED BY <2>2, <2>3, Zenon
<1>3a. PICK finish, build : rest(checked, finish, build)
  BY <1>3
<1>4. u \in Committed /\ u.kind = "tools" /\ u.calls = reply.calls /\ u.adv = reply.adv /\ u.obs = fps'
  <2>1. reply.calls \in Seq(Call) /\ reply.adv \in BOOLEAN /\ fps' \in Seq(Seq(STRING))
    BY DEF LoopInv, ReplyOK, TracesOK
  <2> QED BY <1>1, <2>1, StepTyped, StepOf
<1> HIDE DEF u
<1>5. DOMAIN u.obs = DOMAIN fps /\ \A j \in DOMAIN fps : u.obs[j][1] = fps[j][1] /\ u.obs[j][3] = fps[j][3]
  <2> DEFINE f == fps
             g == fps'
  <2>1. f \in Seq(Seq(STRING)) /\ Len(f) = 1 /\ Len(f[1]) = 4 /\ g = <<Append(f[1], build)>>
    BY <1>2, <1>3a
  <2> HIDE DEF f, g
  <2>2. retags(f, g)
    BY <2>1, Retagged
  <2> QED BY <1>4, <2>2 DEF f, g, retags
<1> DEFINE nudged == observationNudges(checked)
           hinted == hints(checked, finish)
<1>6. hinted \in TrackerState /\ SameSignals(hinted, tr)
  <2>1. checked \in TrackerState /\ SameSignals(checked, tr)
    BY <1>2, TrackerLatches, NudgesQuiet DEF SameSignals
  <2>2. nudged \in TrackerState /\ SameSignals(nudged, checked)
    BY <2>1, NudgesTyped, NudgesQuiet
  <2>3. hinted = [nudged EXCEPT !.finishNudged = @ \/ finish]
    OBVIOUS
  <2> HIDE DEF nudged, hinted, hints
  <2>4. SameSignals(hinted, nudged)
    BY <2>2, <2>3, NudgesQuiet
  <2>5. hinted \in TrackerState
    BY <2>2, <2>3, Zenon DEF TrackerState
  <2> QED BY <2>1, <2>2, <2>4, <2>5 DEF SameSignals
<1>7. tr' = observeToolObservation(hinted, fps') /\ ends(tr')
  <2> HIDE DEF hints, ends
  <2> QED BY <1>3a
<1> HIDE DEF hinted, nudged
<1>8. /\ tr'.runFP = tr.runFP /\ tr'.stagnant = tr.stagnant /\ tr'.obsFP = fps'
      /\ tr'.obsRepeat = (IF fps' = tr.obsFP THEN tr.obsRepeat + 1 ELSE 1)
  BY <1>6, <1>7, ObservationTaken DEF SameSignals
<1>9. \/ phase' = "done" /\ outcome' = "tool_obs_repeat" /\ tr'.obsRepeat >= MaxReasoningRepeats
      \/ phase' \in {"top", "done"} /\ outcome' \notin Killed /\ ~(tr'.obsRepeat >= MaxReasoningRepeats)
  <2>1. CASE toolObsKills(tr') /\ end("tool_obs_repeat")
    BY <2>1 DEF toolObsKills, end
  <2>2. CASE ~toolObsKills(tr') /\ nextTurn
    <3>1. outcome = "none"
      BY <1>1 DEF LoopInv, ControlOK
    <3>2. phase' \in {"top", "done"} /\ outcome' \in {outcome, "HitCap"}
      BY <2>2 DEF nextTurn, end
    <3> QED BY <2>2, <3>1, <3>2 DEF Killed, toolObsKills
  <2> QED BY <1>7, <2>1, <2>2
<1>10. tr'.obsFP = u.obs /\ tr'.obsRepeat = (IF u.obs = tr.obsFP THEN tr.obsRepeat + 1 ELSE 1)
  BY <1>4, <1>8
<1>11. mem'.sig = mem.sig /\ mem'.repeats = mem.repeats
  BY <1>1
<1> QED BY <1>1, <1>4, <1>5, <1>8, <1>9, <1>10, <1>11, EndedStalls

(* The text loop acts. *)
LEMMA TextActStalls ==
    ASSUME LoopInv, LoopInv', ReadsInv, StallInv, textAct
    PROVE  StallInv'
<1> DEFINE t == [kind |-> "tools", calls |-> reply.calls, adv |-> reply.adv, obs |-> <<>>]
<1>1. /\ isTextTool /\ isText /\ phase = "reply" /\ ~repeatKills /\ spiralKill(spiralAfter) = "none"
      /\ spiral' = spiralAfter /\ UNCHANGED reply
  BY Zenon DEF textAct, isTextTool
<1>2. act \in Call /\ reply.calls # <<>>
  BY <1>1, ToolTurnCalls DEF LoopInv, ControlOK, ReplyOK, act
<1>3. PICK o \in textObserved :
        /\ mem' = o[2] /\ fps' = <<Observed(act, o[1])>>
        /\ \/ /\ act.name = "run" /\ stagnantKills(observeRun(tr, o[1].saw), o[1].saw)
              /\ tr' = observeRun(tr, o[1].saw) /\ steps' = Append(steps, Step("tools")) /\ end("stagnant")
           \/ /\ ~(act.name = "run" /\ stagnantKills(observeRun(tr, o[1].saw), o[1].saw))
              /\ tr' = observeAction(IF act.name = "run" THEN observeRun(tr, o[1].saw) ELSE tr, iter, act.name)
              /\ phase' = "endTurn" /\ UNCHANGED <<steps, iter, outcome>>
  BY Zenon DEF textAct
<1> DEFINE c == act
           r == o[1]
           obs == Observed(c, r)
<1>4. r \in Result /\ (c.name = "run" => r.saw \in RunSaw)
  BY <1>2, TextObserved
<1>5. obs \in Seq(STRING) /\ obs[1] = c.name /\ obs[3] = r.saw
  BY <1>2, <1>4, Observation
<1>6. mem'.sig = reply.calls /\ mem'.repeats = repeats
  <2>1. textMem.sig = reply.calls /\ textMem.repeats = repeats /\ textMem \in Memory
    <3>1. mem \in Memory
      BY DEF LoopInv, TracesOK
    <3> QED BY <3>1, StepsTyped, Zenon DEF textMem, Memory
  <2>2. \/ o[2] = textMem
        \/ \E s, g, w : o[2] = [textMem EXCEPT !.execSig = s, !.readSig = g, !.readSaw = w]
    <3>1. CASE skips(act, mem)
      <4>1. o = <<Ran(mem.readSaw, ws, "skipped"), textMem>>
        BY <3>1 DEF textObserved
      <4> QED BY <4>1
    <3>2. CASE ~skips(act, mem)
      <4> DEFINE rem(x) == [textMem EXCEPT !.execSig = act,
                                   !.readSig = IF readOnly(act) /\ x.saw # "error" THEN act ELSE @,
                                   !.readSaw = IF readOnly(act) /\ x.saw # "error" THEN x.saw ELSE @]
      <4>1. \A x : \E s, g, w : rem(x) = [textMem EXCEPT !.execSig = s, !.readSig = g, !.readSaw = w]
        BY Zenon
      <4>2. PICK x \in dispatch(act) : o = <<x, rem(x)>>
        BY <3>2, Zenon DEF textObserved
      <4> HIDE DEF rem
      <4>3. o[2] = rem(x)
        BY <4>2
      <4>4. PICK s, g, w : rem(x) = [textMem EXCEPT !.execSig = s, !.readSig = g, !.readSaw = w]
        BY <4>1
      <4> QED BY <4>3, <4>4
    <3> QED BY <3>1, <3>2
  <2> HIDE DEF textMem
  <2>3. o[2].sig = textMem.sig /\ o[2].repeats = textMem.repeats
    <3>1. CASE o[2] = textMem
      BY <3>1
    <3>2. ASSUME NEW s, NEW g, NEW w, o[2] = [textMem EXCEPT !.execSig = s, !.readSig = g, !.readSaw = w]
          PROVE  o[2].sig = textMem.sig /\ o[2].repeats = textMem.repeats
      BY <2>1, <3>2, Zenon DEF Memory
    <3> QED BY <2>2, <3>1, <3>2
  <2> QED BY <1>3, <2>1, <2>3
<1>7. t \in Committed /\ t.kind = "tools" /\ t.calls = reply.calls /\ t.adv = reply.adv /\ t.obs = <<>>
  <2>1. "tools" \in STRING /\ reply.calls \in Seq(Call) /\ reply.adv \in BOOLEAN
    BY WordsAssumption DEF WordsAssumption, Words, LoopInv, ReplyOK
  <2>2. <<>> \in Seq(Seq(STRING))
    OBVIOUS
  <2> QED BY <2>1, <2>2, Zenon DEF Committed
<1> HIDE DEF t, r, c
<1>8. fps' = Append(t.obs, obs)
  <2> DEFINE x == obs
  <2>1. fps' = <<x>>
    BY <1>3 DEF c, r
  <2> HIDE DEF x
  <2>2. Append(<<>>, x) = <<x>>
    OBVIOUS
  <2> QED BY <1>7, <2>1, <2>2 DEF x
<1>9. /\ SpiralBounds(spiralAfter) /\ SpiralGood(Append(steps, t), spiralAfter)
      /\ RedGood(Append(steps, t), tr.runFP, tr.stagnant)
      /\ RepGood(Append(steps, t), reply.calls, repeats)
      /\ toolTurns(Append(steps, t)) = DOMAIN Append(steps, t) => tr.stagnant < MaxStagnant
      /\ ObsGood(steps, tr.obsFP, tr.obsRepeat)
  BY <1>1, <1>2, <1>7, TurnBegins
<1>10. SpiralBounds(spiral)'
  BY <1>1, <1>9, Zenon
<1>11. tr \in TrackerState /\ tr' \in TrackerState /\ RunOf(tr, r.saw, observeRun(tr, r.saw)) /\ steps \in History
       /\ c \in Call
  BY <1>2, ObserveRunOf, TurnTyped DEF LoopInv, TracesOK, c
<1>12. CASE /\ c.name = "run" /\ stagnantKills(observeRun(tr, r.saw), r.saw)
            /\ tr' = observeRun(tr, r.saw) /\ steps' = Append(steps, Step("tools")) /\ end("stagnant")
  <2>1. RunOf(tr, r.saw, tr') /\ stagnantKills(tr', r.saw)
    BY <1>11, <1>12
  <2>2. phase' = "done" /\ outcome' = "stagnant"
    BY <1>12 DEF end
  <2> QED BY <1>4, <1>7, <1>8, <1>9, <1>10, <1>11, <1>12, <2>1, <2>2, StagnantStalls
<1>13. CASE /\ ~(c.name = "run" /\ stagnantKills(observeRun(tr, r.saw), r.saw))
            /\ tr' = observeAction(IF c.name = "run" THEN observeRun(tr, r.saw) ELSE tr, iter, c.name)
            /\ phase' = "endTurn" /\ UNCHANGED <<steps, iter, outcome>>
  <2> DEFINE u == turn'
             ran == IF c.name = "run" THEN observeRun(tr, r.saw) ELSE tr
  <2>1. SameSignals(tr', ran)
    <3>1. ran \in TrackerState
      BY <1>4, <1>11, ObserveRunTyped
    <3> HIDE DEF ran
    <3>2. SameSignals(observeAction(ran, iter, c.name), ran)
      BY <3>1, NudgesQuiet
    <3> QED BY <1>13, <3>2 DEF ran
  <2>2. /\ c.name = "run" => RunOf(tr, r.saw, tr') /\ ~stagnantKills(tr', r.saw)
        /\ c.name # "run" => tr'.runFP = tr.runFP /\ tr'.stagnant = tr.stagnant
        /\ tr'.obsFP = tr.obsFP /\ tr'.obsRepeat = tr.obsRepeat
    <3>1. CASE c.name = "run"
      <4>1. SameSignals(tr', observeRun(tr, r.saw)) /\ ~stagnantKills(observeRun(tr, r.saw), r.saw)
        BY <1>13, <2>1, <3>1
      <4> QED BY <1>11, <3>1, <4>1 DEF SameSignals, RunOf, stagnantKills
    <3>2. CASE c.name # "run"
      BY <2>1, <3>2 DEF SameSignals
    <3> QED BY <3>1, <3>2
  <2> HIDE DEF ran
  <2>3. /\ u.kind = t.kind /\ u.calls = t.calls /\ u.adv = t.adv /\ u.obs = Append(t.obs, obs)
        /\ sofar' = Append(steps, u)
    <3>1. u.kind = "tools" /\ u.calls = reply'.calls /\ u.adv = reply'.adv /\ u.obs = fps'
      BY <1>13, Zenon DEF turn
    <3>2. sofar' = Append(steps', u)
      BY <1>13, Zenon DEF sofar, underWay
    <3> QED BY <1>1, <1>7, <1>8, <1>13, <3>1, <3>2
  <2>4. u \in Committed
    <3>1. reply'.calls \in Seq(Call) /\ reply'.adv \in BOOLEAN /\ fps' \in Seq(Seq(STRING))
      BY DEF LoopInv, ReplyOK, TracesOK
    <3>2. "tools" \in STRING /\ "finish" \in STRING
      BY WordsAssumption DEF WordsAssumption, Words
    <3> QED BY <3>1, <3>2, Zenon DEF turn, Committed
  <2> HIDE DEF u, obs
  <2>5. /\ RedGood(Append(steps, u), tr'.runFP, tr'.stagnant) /\ RepGood(Append(steps, u), reply.calls, repeats)
        /\ SpiralGood(Append(steps, u), spiralAfter)
        /\ toolTurns(Append(steps, u)) = DOMAIN Append(steps, u) => toolTurns(Append(steps, t)) = DOMAIN Append(steps, t)
    <3> DEFINE a == tr
               b == tr'
    <3>1. /\ (obs[1] = "run" => RunOf(a, obs[3], b)) /\ (obs[1] # "run" => b.runFP = a.runFP /\ b.stagnant = a.stagnant)
          /\ RedGood(Append(steps, t), a.runFP, a.stagnant)
      BY <1>5, <1>9, <2>2
    <3> HIDE DEF a, b
    <3>2. /\ RedGood(Append(steps, t), a.runFP, a.stagnant) => RedGood(Append(steps, u), b.runFP, b.stagnant)
          /\ \A sig, n : RepGood(Append(steps, t), sig, n) => RepGood(Append(steps, u), sig, n)
          /\ \A sp : SpiralGood(Append(steps, t), sp) => SpiralGood(Append(steps, u), sp)
          /\ toolTurns(Append(steps, u)) = DOMAIN Append(steps, u) => toolTurns(Append(steps, t)) = DOMAIN Append(steps, t)
      BY <1>5, <1>7, <1>11, <2>3, <2>4, <3>1, TurnObserves
    <3>3. RedGood(Append(steps, u), b.runFP, b.stagnant)
      BY <3>1, <3>2
    <3> QED BY <1>9, <3>2, <3>3 DEF b
  <2>6. toolTurns(Append(steps, u)) = DOMAIN Append(steps, u) => tr'.stagnant < MaxStagnant
    <3> SUFFICES ASSUME toolTurns(Append(steps, u)) = DOMAIN Append(steps, u) PROVE tr'.stagnant < MaxStagnant
      OBVIOUS
    <3>1. tr.stagnant < MaxStagnant
      BY <1>9, <2>5
    <3>2. CASE c.name = "run"
      <4>1. tr'.stagnant \in Nat
        BY <1>11, Zenon DEF TrackerState
      <4>2. RunOf(tr, r.saw, tr') /\ ~stagnantKills(tr', r.saw)
        BY <2>2, <3>2
      <4> QED BY <1>11, <3>1, <4>1, <4>2, RedBelow
    <3>3. CASE c.name # "run"
      BY <2>2, <3>1, <3>3
    <3> QED BY <3>2, <3>3
  <2>7. RepGood(sofar, mem.sig, mem.repeats)'
    BY <1>6, <2>3, <2>5, Zenon
  <2>8. SpiralGood(sofar, spiral)' /\ (spiralKill(spiral) = "none")'
    BY <1>1, <2>3, <2>5, Zenon
  <2>9. ObsGood(steps, tr.obsFP, tr.obsRepeat)'
    BY <1>9, <1>13, <2>2, Zenon
  <2>10. (toolTurns(sofar) = DOMAIN sofar => tr.stagnant < MaxStagnant)'
    BY <2>3, <2>6, Zenon
  <2>11. Detectors'
    BY <2>7, <2>8, <2>9, <2>10 DEF Detectors
  <2>12. KillsAreEarned'
    <3>1. outcome' = "none"
      BY <1>1, <1>13 DEF LoopInv, ControlOK
    <3> QED BY <3>1, NothingEarned DEF Killed
  <2>13. RedGood(sofar, tr.runFP, tr.stagnant)'
    BY <2>3, <2>5, Zenon
  <2> QED BY <1>10, <2>11, <2>12, <2>13 DEF StallInv
<1> QED BY <1>3, <1>12, <1>13 DEF c, r
-----------------------------------------------------------------------------
(* Every step of either loop keeps StallInv. *)
LEMMA StallInvStep ==
    LoopInv /\ LoopInv' /\ ReadsInv /\ StallInv /\ [bothStep \/ cancel]_loopVars => StallInv'
<1> SUFFICES ASSUME LoopInv, LoopInv', ReadsInv, StallInv, [bothStep \/ cancel]_loopVars PROVE StallInv'
  OBVIOUS
<1>1. CASE sharedStep
  BY <1>1, QuietStalls
<1>2. CASE nativeStep
  BY <1>2, QuietStalls, FinishTurnStalls, FinishDispatchStalls, FinishReturnsStalls, RepeatStalls, SpiralStalls,
     CommitStalls, DispatchStalls, KillStagnantStalls, TurnEndsStalls DEF nativeStep
<1>3. CASE textStep
  BY <1>3, QuietStalls, FinishTurnStalls, RepeatStalls, SpiralStalls, TextActStalls, TextTurnEndsStalls DEF textStep
<1>4. CASE cancel \/ UNCHANGED loopVars
  <2>1. UNCHANGED <<phase, steps, spiral, tr, mem, outcome, reply, fps>>
    BY <1>4, Zenon DEF cancel, loopVars
  <2>2. sofar' = sofar /\ (Going' <=> Going)
    BY <2>1, Zenon DEF sofar, underWay, turn, Going
  <2> QED BY <2>1, <2>2, StallsQuiet
<1> QED BY <1>1, <1>2, <1>3, <1>4 DEF bothStep

(* StallInv holds when a run starts. *)
LEMMA StallInvInit == LoopInit => StallInv
<1> SUFFICES ASSUME LoopInit PROVE StallInv
  OBVIOUS
<1>1. /\ phase = "top" /\ outcome = "none" /\ steps = <<>> /\ tr = newTurnTracker /\ spiral = newSpiralState
      /\ mem.sig = <<>> /\ mem.repeats = 0
  BY DEF LoopInit
<1>2. sofar = <<>> /\ <<>> \in History
  BY <1>1 DEF sofar, underWay, History
<1>3. tr.runFP = "none" /\ tr.stagnant = 0 /\ tr.obsFP = <<>> /\ tr.obsRepeat = 0
  BY <1>1, Zenon DEF newTurnTracker
<1> DEFINE e == <<>>
<1>4. toolTurns(e) = {} /\ runs(e) = {} /\ DOMAIN e = {}
  <2>1. DOMAIN e = {}
    OBVIOUS
  <2> HIDE DEF e
  <2> QED BY <2>1, Zenon DEF toolTurns, runs
<1> HIDE DEF e
<1>5. SpiralBounds(spiral) /\ SpiralGood(e, spiral) /\ spiralKill(spiral) = "none"
  <2>1. SpiralBounds(spiral) /\ ToSet(spiral.order) = {} /\ spiral.cycleRun = 0 /\ spiral.wander = 0
    BY <1>1, NewSpiral DEF ToSet
  <2>2. NavSpiralWindow \in Nat \ {0} /\ WanderMultiple \in Nat \ {0}
    BY TrackerAssumption DEF TrackerAssumption
  <2>3. spiralKill(spiral) = "none"
    BY <2>1, <2>2 DEF spiralKill
  <2>4. discoveryStreak(e) = {} /\ cycle(e) = {}
    BY <1>4 DEF discoveryStreak, cycle, stretch
  <2>5. wentTo(e) = {}
    BY <2>4, Zenon DEF wentTo
  <2> QED BY <2>1, <2>3, <2>4, <2>5, FS_EmptySet DEF SpiralGood
<1>6. RedGood(e, tr.runFP, tr.stagnant)
  <2>1. \A red : sameRed(e, red) = {}
    BY <1>4 DEF sameRed
  <2> QED BY <1>3, <2>1, FS_EmptySet DEF RedGood
<1>7. ObsGood(e, tr.obsFP, tr.obsRepeat)
  <2>1. sameObs(e, tr.obsFP) = {}
    BY <1>4 DEF sameObs, stretch
  <2>2. MaxReasoningRepeats \in Nat \ {0}
    BY TrackerAssumption DEF TrackerAssumption
  <2>3. Cardinality(sameObs(e, tr.obsFP)) = 0 /\ 0 < MaxReasoningRepeats
    BY <2>1, <2>2, FS_EmptySet
  <2>4. \A l \in toolTurns(e) : isLast(toolTurns(e), l) => e[l].obs = tr.obsFP
    BY <1>4, Zenon
  <2> QED BY <1>3, <2>3, <2>4, Zenon DEF ObsGood
<1>8. RepGood(e, mem.sig, mem.repeats)
  BY <1>1, <1>4 DEF RepGood
<1>9. MaxStagnant \in Nat \ {0}
  BY TrackerAssumption DEF TrackerAssumption
<1>10. Detectors
  BY <1>1, <1>2, <1>3, <1>5, <1>7, <1>8, <1>9 DEF Detectors, e
<1>11. KillsAreEarned
  BY <1>1, Zenon DEF KillsAreEarned
<1> QED BY <1>2, <1>5, <1>6, <1>10, <1>11 DEF StallInv, e

(* A detector cuts exactly the stalls (TurnTracker's kills, in either loop): *)
(* a run that goes on has no turn repeated past its ceiling, no identical   *)
(* observation at the hard one, no endless discovery, no cycle and, between *)
(* finish turns, no recurring failure; and no run is cut for less.          *)
THEOREM StallsStayCut == BothLoops => []KillsAreStalls
<1> QED BY LoopInvInit, LoopInvStep, ReadsInvInit, ReadsInvStep, StallInvInit, StallInvStep, StallInvMeans,
        PTL DEF BothLoops
=============================================================================
