----------------------------- MODULE Wire_proofs -----------------------------
(* Theorems about Wire for every set of runs, replies, faults and upstreams, *)
(* and any number of turns and re-sends.                                     *)
EXTENDS Wire, SSEFilter, Integers, SequenceTheorems, FiniteSetTheorems, WellFoundedInduction, TLAPS

(* What a provider may be pinned to, and a request be bound to.             *)
Pins  == {None} \cup {envPin(c) : c \in Runs} \cup {pinProviderName[u] : u \in Upstreams}
Slugs == Pins \cup {"openai"}

Asked == [at : {"idle", "body", "said", "backoff", "over"}, up : {None} \cup Upstreams, retry : Int, dropped : BOOLEAN,
          routing : [order : Slugs, fallbacks : BOOLEAN]]

(* The routing state: only the router has a pin or names an upstream.       *)
Routed ==
    /\ prov.router => prov.api = "chat"
    /\ prov.preferred \in {None, "openai"} /\ prov.router \in BOOLEAN
    /\ pinned \in Pins /\ ask \in Asked /\ aside \in {None} \cup Upstreams
    /\ ~prov.router => pinned = None /\ ask.up = None /\ aside = None

(* What the pin is: an answer that completes later cannot unsettle it.      *)
Settled == pinned = IF prov.env # None THEN prov.env ELSE IF prov.preferred # None THEN None ELSE first

(* A request that may not fall back was sent under a pin, which still is.   *)
Bound ==
    ask.at = "body" /\ ~ask.routing.fallbacks =>
        pinned # None /\ ask.routing.order = pinned /\ ask.up # None /\ pinProviderName[ask.up] = pinned

RoutingInv == Routed /\ Settled /\ Bound

(* An upstream has a slug, and neither is the null name.                     *)
LEMMA NamedUpstream == \A u \in Upstreams : u # None /\ pinProviderName[u] \in Pins /\ pinProviderName[u] # None
<1>1. DOMAIN pinProviderName = {"Google", "OpenAI", "Azure", "DeepInfra"}
  BY DEF pinProviderName
<1>2. \A u \in DOMAIN pinProviderName : u # None /\ pinProviderName[u] # None
  BY <1>1 DEF pinProviderName, None
<1>3. QED
  BY <1>2, UpstreamsAssumption DEF Pins

(* How the next request is bound (chatParams).                               *)
LEMMA RequestRouting ==
    request.routing = IF prov.api # "chat" THEN [order |-> None, fallbacks |-> TRUE]
                      ELSE IF pinned # None THEN [order |-> pinned, fallbacks |-> FALSE]
                      ELSE [order |-> prov.preferred, fallbacks |-> TRUE]
BY DEF request, buildParams, chatParams, messagesParams

(* A pin binds the upstream that takes the next request.                    *)
LEMMA ServesPinned ==
    ASSUME Routed, NEW u \in serves(request.routing)
    PROVE  /\ u \in {None} \cup Upstreams
           /\ ~prov.router => u = None
           /\ pinned # None => u # None /\ pinProviderName[u] = pinned
<1>1. CASE ~prov.router
  BY <1>1 DEF serves, Routed
<1>2. CASE prov.router /\ pinned # None
  <2>1. request.routing.order = pinned /\ ~request.routing.fallbacks
    BY <1>2, RequestRouting DEF Routed
  <2>2. u \in Upstreams /\ pinProviderName[u] = pinned
    BY <1>2, <2>1 DEF serves
  <2>3. QED
    BY <1>2, <2>2, NamedUpstream
<1>3. CASE prov.router /\ pinned = None
  <2>1. request.routing.fallbacks
    BY <1>3, RequestRouting DEF Routed
  <2>2. QED
    BY <1>3, <2>1 DEF serves
<1>4. QED
  BY <1>1, <1>2, <1>3

(* A conversation starts with its routing settled or nothing named.          *)
LEMMA RoutingInit == WireInit => RoutingInv
<1> SUFFICES ASSUME WireInit PROVE RoutingInv
  OBVIOUS
<1>1. PICK c \in Runs : begins(c)
  BY DEF WireInit
<1>2. c.name \in {"openrouter", "openai", "anthropic"}
  BY <1>1, WireAssumption DEF Run
<1> DEFINE chat == provider(c, "chat")
           pref == IF c.name = "openrouter" THEN preferredUpstreams(c.model) ELSE None
<1>p. /\ pref \in {None, "openai"}
      /\ newOpenAICompat(c) = [chat EXCEPT !.router = c.name = "openrouter", !.preferred = pref]
  BY DEF newOpenAICompat, preferredUpstreams
<1>q. /\ newOpenAICompat(c).router = (c.name = "openrouter") /\ newOpenAICompat(c).api = "chat"
      /\ newOpenAICompat(c).preferred = pref /\ newOpenAICompat(c).env = envPin(c)
      /\ LET cached == [newOpenAICompat(c) EXCEPT !.cache = TRUE]
         IN  /\ cached.router = (c.name = "openrouter") /\ cached.api = "chat" /\ cached.preferred = pref
             /\ cached.env = envPin(c)
  <2> HIDE DEF pref
  <2>1. QED
    BY <1>p, Zenon DEF provider
<1>3. /\ prov.router = (c.name = "openrouter")
      /\ prov.router => prov.api = "chat"
      /\ prov.preferred \in {None, "openai"} /\ (~prov.router => prov.preferred = None)
      /\ prov.env = envPin(c)
  <2>1. CASE c.name = "openrouter"
    <3>1. prov = [newOpenAICompat(c) EXCEPT !.cache = TRUE]
      BY <1>1, <2>1 DEF begins, PickProvider
    <3>2. QED
      BY <1>p, <1>q, <2>1, <3>1
  <2>2. CASE c.name = "openai"
    <3>1. prov = newOpenAICompat(c)
      BY <1>1, <2>2 DEF begins, PickProvider
    <3>2. QED
      BY <1>p, <1>q, <2>2, <3>1
  <2>3. CASE c.name = "anthropic"
    <3>1. prov = newAnthropic(c)
      BY <1>1, <2>3 DEF begins, PickProvider
    <3>2. QED
      BY <2>3, <3>1 DEF newAnthropic, provider, None
  <2>4. QED
    BY <1>2, <2>1, <2>2, <2>3
<1>4. pinned \in Pins /\ (~prov.router => pinned = None)
  BY <1>1, <1>3 DEF begins, envPin, Pins
<1>5. ask \in Asked /\ ask.up = None /\ aside = None /\ first = None
  <2>1. ask = idle /\ aside = None /\ first = None
    BY DEF WireInit
  <2>2. None \in {None} \cup Upstreams /\ None \in Slugs /\ 0 \in Int
    BY DEF Slugs, Pins
  <2>3. idle \in Asked /\ idle.up = None
    BY <2>2, Zenon DEF idle, Asked
  <2>4. QED
    BY <2>1, <2>3
<1>6. pinned = envPin(c)
  BY <1>1 DEF begins
<1>7. Settled
  BY <1>3, <1>5, <1>6 DEF Settled
<1>8. Bound
  BY DEF Bound, WireInit, idle
<1>9. QED
  BY <1>3, <1>4, <1>5, <1>7, <1>8 DEF RoutingInv, Routed

(* An answer that completes, whichever caller's it is.                      *)
LEMMA Completing ==
    ASSUME RoutingInv, NEW up \in {None, ask.up, aside}, completes(up), prov' = prov,
           ask' = ask \/ (ask'.at # "body" /\ ask'.up = None), aside' \in {None, aside}, ask' \in Asked
    PROVE  RoutingInv'
<1>1. up \in {None} \cup Upstreams /\ (~prov.router => up = None)
  BY DEF RoutingInv, Routed, Asked
<1>2. ask'.up \in {None, ask.up} /\ (ask'.at = "body" => ask' = ask)
  OBVIOUS
<1>3. CASE up = None
  <2>1. pinned' = pinned /\ first' = first
    BY <1>3 DEF completes, maybePin
  <2>2. QED
    BY <1>2, <2>1 DEF RoutingInv, Routed, Settled, Bound
<1>4. CASE up # None
  <2>1. prov.router /\ pinProviderName[up] \in Pins /\ pinProviderName[up] # None
    BY <1>1, <1>4, NamedUpstream DEF RoutingInv, Routed
  <2>2. first' = (IF first = None THEN pinProviderName[up] ELSE first)
    BY <1>4 DEF completes
  <2>3. pinned' = (IF prov.preferred # None \/ pinned # None THEN pinned ELSE pinProviderName[up])
    BY <1>4, <2>1 DEF completes, maybePin
  <2>4. Settled'
    BY <2>1, <2>2, <2>3 DEF RoutingInv, Settled
  <2>5. Bound'
    BY <1>2, <2>3 DEF RoutingInv, Bound
  <2>6. Routed'
    BY <1>2, <2>1, <2>3 DEF RoutingInv, Routed
  <2>7. QED
    BY <2>4, <2>5, <2>6 DEF RoutingInv
<1>5. QED
  BY <1>3, <1>4

(* Every step keeps the routing invariant.                                   *)
LEMMA RoutingStep == RoutingInv /\ [WireNext]_wireVars => RoutingInv'
<1> SUFFICES ASSUME RoutingInv, [WireNext]_wireVars PROVE RoutingInv'
  OBVIOUS
<1>0. ask \in Asked
  BY DEF RoutingInv, Routed
<1>1. ASSUME send PROVE RoutingInv'
  <2>1. PICK u \in serves(request.routing) : ask' = [ask EXCEPT !.at = "body", !.up = u, !.routing = request.routing]
    BY <1>1 DEF send
  <2>2. request.routing \in [order : Slugs, fallbacks : BOOLEAN]
    BY RequestRouting DEF RoutingInv, Routed, Slugs, Pins
  <2>3. ask' \in Asked /\ ask'.up = u /\ ask'.routing = request.routing
    BY <1>0, <2>1, <2>2, ServesPinned DEF RoutingInv, Asked
  <2>4. UNCHANGED <<prov, pinned, aside, first>>
    BY <1>1 DEF send
  <2>5. /\ u \in {None} \cup Upstreams /\ (~prov.router => u = None)
        /\ pinned # None => u # None /\ pinProviderName[u] = pinned
    BY ServesPinned DEF RoutingInv
  <2>6. Bound'
    BY <2>3, <2>4, <2>5, RequestRouting DEF Bound
  <2>7. QED
    BY <2>3, <2>4, <2>5, <2>6 DEF RoutingInv, Routed, Settled
<1>2. CASE Generate \/ Stream \/ StreamClosed
  <2>1. PICK parts, cut : commit(parts, cut) /\ \E up \in {None, ask.up} : completes(up)
    <3>1. CASE Generate
      BY <3>1, Zenon DEF Generate
    <3>2. CASE Stream
      BY <3>2, Zenon DEF Stream
    <3>3. CASE StreamClosed
      <4>1. PICK n \in Len(heard.calls)..Len(said.reply.calls) :
              /\ commit(collectStream(prov, named(heard, n)), TRUE)
              /\ \E up \in {ask.up} \cup (IF heard = Silence /\ n = 0 THEN {None} ELSE {}) : completes(up)
        BY <3>3, Zenon DEF StreamClosed
      <4>2. \E up \in {None, ask.up} : completes(up)
        BY <4>1
      <4>3. QED
        BY <4>1, <4>2, Zenon
    <3>4. QED
      BY <1>2, <3>1, <3>2, <3>3, Zenon
  <2>2. ask' = [idle EXCEPT !.at = "said"] /\ UNCHANGED <<prov, aside>>
    BY <2>1 DEF commit
  <2>3. ask' \in Asked /\ ask'.up = None /\ ask'.at # "body"
    <3>1. None \in {None} \cup Upstreams /\ None \in Slugs /\ 0 \in Int
      BY DEF Slugs, Pins
    <3>2. ask' = [at |-> "said", up |-> None, retry |-> 0, dropped |-> FALSE, routing |-> [order |-> None, fallbacks |-> TRUE]]
      BY <2>2, Zenon DEF idle
    <3>3. QED
      BY <3>1, <3>2 DEF Asked
  <2>4. QED
    BY <2>1, <2>2, <2>3, Completing
<1>3. CASE AsideReturns
  <2>1. completes(aside) /\ aside' = None /\ UNCHANGED <<prov, ask>>
    BY <1>3 DEF AsideReturns
  <2>2. QED
    BY <1>0, <2>1, Completing
<1>4. CASE AsideAsks
  <2>1. aside' \in serves(request.routing) /\ UNCHANGED <<prov, pinned, ask, first>>
    BY <1>4 DEF AsideAsks
  <2>2. QED
    BY <2>1, ServesPinned DEF RoutingInv, Routed, Settled, Bound
<1>5. CASE AttemptFails
  <2>1. PICK f \in Faults :
          ask' = [ask EXCEPT !.at = IF route(prov, f) \in {"resend", "scrub"} THEN "backoff" ELSE "over",
                             !.up = None,
                             !.retry = CASE route(prov, f) = "resend" -> @ + 1
                                         [] route(prov, f) = "scrub"  -> 0
                                         [] OTHER                     -> @,
                             !.dropped = @ \/ route(prov, f) = "scrub"]
    BY <1>5 DEF AttemptFails
  <2>2. ask' \in Asked /\ ask'.up = None /\ ask'.at # "body"
    <3> DEFINE a == IF route(prov, f) \in {"resend", "scrub"} THEN "backoff" ELSE "over"
               n == CASE route(prov, f) = "resend" -> ask.retry + 1
                      [] route(prov, f) = "scrub"  -> 0
                      [] OTHER                     -> ask.retry
               d == ask.dropped \/ route(prov, f) = "scrub"
    <3>1. a \in {"backoff", "over"} /\ n \in Int
      BY <1>0 DEF Asked
    <3>2. ask' = [ask EXCEPT !.at = a, !.up = None, !.retry = n, !.dropped = d]
      BY <2>1
    <3>3. d \in BOOLEAN
      OBVIOUS
    <3> HIDE DEF a, n, d
    <3>4. QED
      BY <1>0, <3>1, <3>2, <3>3, Zenon DEF Asked
  <2>3. UNCHANGED <<prov, pinned, aside, first>>
    BY <1>5 DEF AttemptFails
  <2>4. QED
    BY <2>2, <2>3 DEF RoutingInv, Routed, Settled, Bound
<1>6. CASE Fragment \/ UNCHANGED wireVars
  BY <1>6 DEF Fragment, wireVars, RoutingInv, Routed, Settled, Bound
<1>7. CASE CanceledInBackoff \/ Answer
  <2>1. PICK a \in {"over", "idle"} : ask' = [ask EXCEPT !.at = a]
    BY <1>7 DEF CanceledInBackoff, Answer
  <2>2. ask' \in Asked /\ ask'.up = ask.up /\ ask'.at # "body"
    BY <1>0, <2>1 DEF Asked
  <2>3. UNCHANGED <<prov, pinned, aside, first>>
    BY <1>7 DEF CanceledInBackoff, Answer
  <2>4. QED
    BY <2>2, <2>3 DEF RoutingInv, Routed, Settled, Bound
<1>8. QED
  BY <1>1, <1>2, <1>3, <1>4, <1>5, <1>6, <1>7 DEF WireNext, Ask, Resend

(* However the answers of a provider's callers interleave, and however they *)
(* end, the upstream is the environment's, none for a steered model, or the *)
(* first that was named, and a request that was bound to it finds it        *)
(* unchanged (maybePin, buildParams).                                       *)
THEOREM RoutingStaysSettled == WireSpec => []RoutingIsSticky
<1>1. RoutingInv => RoutingIsSticky
  BY DEF RoutingInv, Settled, Bound, RoutingIsSticky
<1>2. QED
  BY <1>1, RoutingInit, RoutingStep, PTL DEF WireSpec

-----------------------------------------------------------------------------
(* The keep-alive filter: the decoder behind it keeps in step with one       *)
(* before it, for every sequence of bytes.                                   *)

(* Induction over the naturals, with the property as a set.                 *)
LEMMA Induction ==
    ASSUME NEW S, 0 \in S, \A n \in Nat : n \in S => n + 1 \in S
    PROVE  \A n \in Nat : n \in S
<1> DEFINE R == OpToRel(<, Nat)
           U == Nat \ S
<1>1. IsWellFoundedOn(R, Nat)
  BY NatLessThanWellFounded
<1>2. \A m, n \in Nat : m < n => <<m, n>> \in R
  BY DEF OpToRel
<1> HIDE DEF R
<1>3. SUFFICES ASSUME U # {} PROVE FALSE
  OBVIOUS
<1>4. PICK n \in U : \A m \in U : <<m, n>> \notin R
  BY <1>1, <1>3, WFMin, Zenon
<1>5. n # 0 /\ n \in Nat
  OBVIOUS
<1>6. n - 1 \in Nat /\ n - 1 < n
  BY <1>5
<1>7. n - 1 \in S
  BY <1>2, <1>4, <1>5, <1>6
<1>8. QED
  BY <1>5, <1>6, <1>7

(* d follows the recurrence that begins at d0 and steps by F.               *)
Solves(d, d0, F, n) == d[0] = d0 /\ \A i \in 1..n : d[i] = F[<<i, d[i - 1]>>]

(* A recurrence with a step in D has a solution in D.                       *)
LEMMA Recurrence ==
    ASSUME NEW D, NEW d0 \in D, NEW F \in [Nat \X D -> D], NEW n \in Nat
    PROVE  \E d \in [0..n -> D] : Solves(d, d0, F, n)
<1> DEFINE Solved(m) == \E d \in [0..m -> D] : Solves(d, d0, F, m)
           S == {m \in Nat : Solved(m)}
<1>1. 0 \in S
  <2> DEFINE e == [i \in 0..0 |-> d0]
  <2>1. e \in [0..0 -> D] /\ e[0] = d0 /\ \A i \in 1..0 : e[i] = F[<<i, e[i - 1]>>]
    OBVIOUS
  <2> HIDE DEF e
  <2>2. Solved(0)
    BY <2>1 DEF Solves
  <2>3. QED
    BY <2>2
<1>2. ASSUME NEW m \in Nat, m \in S
      PROVE  m + 1 \in S
  <2>1. PICK d \in [0..m -> D] : d[0] = d0 /\ \A i \in 1..m : d[i] = F[<<i, d[i - 1]>>]
    BY <1>2 DEF Solves
  <2> DEFINE e == [i \in 0..(m + 1) |-> IF i = m + 1 THEN F[<<m + 1, d[m]>>] ELSE d[i]]
  <2>2. e \in [0..(m + 1) -> D]
    BY <2>1
  <2>3. e[0] = d0 /\ \A i \in 1..(m + 1) : e[i] = F[<<i, e[i - 1]>>]
    <3>1. e[0] = d0
      BY <2>1
    <3>2. ASSUME NEW i \in 1..m PROVE e[i] = F[<<i, e[i - 1]>>]
      <4>1. e[i] = d[i] /\ e[i - 1] = d[i - 1]
        BY <2>1
      <4>2. QED
        BY <2>1, <4>1
    <3>3. e[m + 1] = F[<<m + 1, d[m]>>] /\ e[m] = d[m]
      BY <2>1
    <3> HIDE DEF e
    <3>4. \A i \in 1..(m + 1) : i \in 1..m \/ i = m + 1
      OBVIOUS
    <3>5. (m + 1) - 1 = m
      OBVIOUS
    <3>6. QED
      BY <3>1, <3>2, <3>3, <3>4, <3>5
  <2> HIDE DEF e
  <2>4. Solved(m + 1)
    BY <2>2, <2>3 DEF Solves
  <2>5. QED
    BY <2>4
<1>3. n \in S
  <2> HIDE DEF S
  <2>1. QED
    BY <1>1, <1>2, Induction
<1>4. QED
  BY <1>3

-----------------------------------------------------------------------------
Lines == Seq(Bytes)
Decoder == [line : Lines, lines : Seq(Lines), events : Seq(Seq(Lines)), fielded : Seq(Seq(Lines))]

(* A line less its CR is a line.                                             *)
LEMMA ChompType == ASSUME NEW l \in Lines PROVE chomp(l) \in Lines
<1>1. CASE l # <<>> /\ l[Len(l)] = "CR"
  <2>1. Len(l) - 1 \in Nat /\ Len(l) - 1 <= Len(l)
    BY <1>1 DEF Lines
  <2>2. SubSeq(l, 1, Len(l) - 1) \in Lines
    BY <2>1 DEF Lines
  <2>3. QED
    BY <1>1, <2>2 DEF chomp
<1>2. QED
  BY <1>1 DEF chomp

(* A decoder stays one.                                                      *)
LEMMA DecodeByteType ==
    ASSUME NEW d \in Decoder, NEW c \in Bytes
    PROVE  decodeByte(d, c) \in Decoder
<1>1. d.line \in Lines /\ d.lines \in Seq(Lines) /\ d.events \in Seq(Seq(Lines)) /\ d.fielded \in Seq(Seq(Lines))
  BY DEF Decoder
<1>2. Append(d.line, c) \in Lines /\ <<>> \in Lines /\ <<>> \in Seq(Lines)
  BY <1>1 DEF Lines
<1>3. Append(d.events, d.lines) \in Seq(Seq(Lines)) /\ Append(d.fielded, d.lines) \in Seq(Seq(Lines))
  BY <1>1
<1>4. chomp(d.line) \in Lines /\ Append(d.lines, chomp(d.line)) \in Seq(Lines)
  BY <1>1, ChompType
<1>5. dispatch(d) \in Decoder
  BY <1>1, <1>2, <1>3, Zenon DEF dispatch, Decoder
<1>6. [d EXCEPT !.line = Append(@, c)] \in Decoder /\ [d EXCEPT !.line = <<>>] \in Decoder
      /\ [d EXCEPT !.line = <<>>, !.lines = Append(@, chomp(d.line))] \in Decoder
  BY <1>1, <1>2, <1>4, Zenon DEF Decoder
<1>7. QED
  BY <1>5, <1>6, Zenon DEF decodeByte

(* A new decoder is one.                                                     *)
LEMMA NewDecoderType == newDecoder \in Decoder
BY DEF newDecoder, Decoder, Lines

(* decode computes a run of the decoder over the bytes.                     *)
LEMMA DecodeRuns ==
    ASSUME NEW s \in Seq(Bytes)
    PROVE  \E d \in [0..Len(s) -> Decoder] :
              /\ decode(s) = d[Len(s)] /\ d[0] = newDecoder
              /\ \A i \in 1..Len(s) : d[i] = decodeByte(d[i - 1], s[i])
<1> DEFINE F == [p \in Nat \X Decoder |-> IF p[1] \in 1..Len(s) THEN decodeByte(p[2], s[p[1]]) ELSE newDecoder]
           Fits(d) == d = [i \in 0..Len(s) |-> IF i = 0 THEN newDecoder ELSE decodeByte(d[i - 1], s[i])]
           run == CHOOSE d : Fits(d)
<1>1. F \in [Nat \X Decoder -> Decoder]
  <2>1. ASSUME NEW p \in Nat \X Decoder
        PROVE  (IF p[1] \in 1..Len(s) THEN decodeByte(p[2], s[p[1]]) ELSE newDecoder) \in Decoder
    <3>1. p[2] \in Decoder
      OBVIOUS
    <3>2. p[1] \in 1..Len(s) => s[p[1]] \in Bytes
      OBVIOUS
    <3>3. QED
      BY <3>1, <3>2, NewDecoderType, DecodeByteType, Zenon
  <2>2. QED
    BY <2>1, Zenon
<1>2. \A i \in 1..Len(s) : \A g \in Decoder : F[<<i, g>>] = decodeByte(g, s[i])
  <2>1. ASSUME NEW i \in 1..Len(s), NEW g \in Decoder
        PROVE  F[<<i, g>>] = decodeByte(g, s[i])
    <3>1. <<i, g>> \in Nat \X Decoder /\ <<i, g>>[1] = i /\ <<i, g>>[2] = g
      OBVIOUS
    <3>2. QED
      BY <3>1, Zenon
  <2>2. QED
    BY <2>1
<1>3. Len(s) \in Nat
  OBVIOUS
<1> HIDE DEF F
<1>4. PICK e \in [0..Len(s) -> Decoder] : e[0] = newDecoder /\ \A i \in 1..Len(s) : e[i] = F[<<i, e[i - 1]>>]
  <2>1. \E e \in [0..Len(s) -> Decoder] : Solves(e, newDecoder, F, Len(s))
    BY <1>1, <1>3, NewDecoderType, Recurrence, Zenon
  <2>2. QED
    BY <2>1, Zenon DEF Solves
<1>5. \A i \in 1..Len(s) : e[i] = decodeByte(e[i - 1], s[i])
  <2>1. \A i \in 1..Len(s) : i - 1 \in 0..Len(s)
    BY <1>3
  <2>2. \A i \in 1..Len(s) : e[i - 1] \in Decoder
    BY <1>4, <2>1
  <2>3. QED
    BY <1>2, <1>4, <2>2, Zenon
<1>6. Fits(e)
  <2>1. \A i \in 0..Len(s) : e[i] = IF i = 0 THEN newDecoder ELSE decodeByte(e[i - 1], s[i])
    <3>1. \A i \in 0..Len(s) : i = 0 \/ i \in 1..Len(s)
      BY <1>3
    <3>2. \A i \in 1..Len(s) : i # 0
      BY <1>3
    <3>3. QED
      BY <1>4, <1>5, <3>1, <3>2, Zenon
  <2>2. QED
    BY <2>1, Zenon
<1>7. Fits(run)
  BY <1>6, Zenon
<1>8. decode(s) = run[Len(s)]
  BY Zenon DEF decode
<1> HIDE DEF run
<1>9. run[0] = newDecoder /\ \A i \in 1..Len(s) : run[i] = decodeByte(run[i - 1], s[i])
  <2>1. \A i \in 0..Len(s) : run[i] = IF i = 0 THEN newDecoder ELSE decodeByte(run[i - 1], s[i])
    BY <1>7, Zenon
  <2>2. 0 \in 0..Len(s) /\ \A i \in 1..Len(s) : i \in 0..Len(s) /\ i # 0
    BY <1>3
  <2>3. QED
    BY <2>1, <2>2, Zenon
<1>10. \A i \in Nat : i <= Len(s) => run[i] \in Decoder
  <2> DEFINE S == {i \in Nat : i <= Len(s) => run[i] \in Decoder}
  <2>1. 0 \in S
    BY <1>9, NewDecoderType
  <2>2. ASSUME NEW i \in Nat, i \in S PROVE i + 1 \in S
    <3>1. CASE i + 1 <= Len(s)
      <4>1. i + 1 \in 1..Len(s) /\ (i + 1) - 1 = i /\ run[i] \in Decoder
        BY <1>3, <2>2, <3>1
      <4>2. run[i + 1] = decodeByte(run[i], s[i + 1]) /\ s[i + 1] \in Bytes
        BY <1>9, <4>1
      <4>3. run[i + 1] \in Decoder
        BY <4>1, <4>2, DecodeByteType
      <4>4. QED
        BY <4>3
    <3>2. QED
      BY <3>1
  <2> HIDE DEF S
  <2>3. \A i \in Nat : i \in S
    BY <2>1, <2>2, Induction
  <2>4. QED
    BY <2>3 DEF S
<1>11. run \in [0..Len(s) -> Decoder]
  <2>1. run = [i \in 0..Len(s) |-> IF i = 0 THEN newDecoder ELSE decodeByte(run[i - 1], s[i])]
    BY <1>7, Zenon
  <2> DEFINE G(i) == IF i = 0 THEN newDecoder ELSE decodeByte(run[i - 1], s[i])
  <2> HIDE DEF G
  <2>2. run = [i \in 0..Len(s) |-> G(i)]
    BY <2>1, Zenon DEF G
  <2>3. \A i \in 0..Len(s) : run[i] \in Decoder
    BY <1>3, <1>10
  <2>4. QED
    BY <2>2, <2>3
<1>12. QED
  BY <1>8, <1>9, <1>11, Zenon

(* decode is a fold: a byte more takes the decoder one step further.        *)
LEMMA DecodeAppend ==
    ASSUME NEW s \in Seq(Bytes), NEW c \in Bytes
    PROVE  decode(s) \in Decoder /\ decode(Append(s, c)) = decodeByte(decode(s), c)
<1> DEFINE t == Append(s, c)
           n == Len(s)
<1>1. t \in Seq(Bytes) /\ n \in Nat /\ Len(t) = n + 1 /\ t[n + 1] = c /\ \A i \in 1..n : t[i] = s[i]
  OBVIOUS
<1>2. PICK d \in [0..n -> Decoder] : decode(s) = d[n] /\ d[0] = newDecoder /\ \A i \in 1..n : d[i] = decodeByte(d[i - 1], s[i])
  BY DecodeRuns
<1> HIDE DEF t
<1>3. PICK e \in [0..(n + 1) -> Decoder] : decode(t) = e[n + 1] /\ e[0] = newDecoder /\ \A i \in 1..(n + 1) : e[i] = decodeByte(e[i - 1], t[i])
  <2>1. \E e \in [0..Len(t) -> Decoder] :
           /\ decode(t) = e[Len(t)] /\ e[0] = newDecoder
           /\ \A i \in 1..Len(t) : e[i] = decodeByte(e[i - 1], t[i])
    BY <1>1, DecodeRuns, Zenon
  <2>2. QED
    BY <1>1, <2>1, Zenon
<1> HIDE DEF n
<1>4. \A i \in Nat : i <= n => d[i] = e[i]
  <2> DEFINE S == {i \in Nat : i <= n => d[i] = e[i]}
  <2>1. 0 \in S
    BY <1>2, <1>3
  <2>2. ASSUME NEW i \in Nat, i \in S PROVE i + 1 \in S
    <3>1. CASE i + 1 <= n
      <4>1. i + 1 \in 1..n /\ i + 1 \in 1..(n + 1) /\ (i + 1) - 1 = i /\ d[i] = e[i]
        BY <1>1, <2>2, <3>1
      <4>2. d[i + 1] = decodeByte(d[i], s[i + 1]) /\ e[i + 1] = decodeByte(e[i], t[i + 1]) /\ t[i + 1] = s[i + 1]
        BY <1>1, <1>2, <1>3, <4>1
      <4>3. d[i + 1] = e[i + 1]
        BY <4>1, <4>2
      <4>4. QED
        BY <4>3
    <3>2. QED
      BY <3>1
  <2> HIDE DEF S
  <2>3. \A i \in Nat : i \in S
    BY <2>1, <2>2, Induction
  <2>4. QED
    BY <2>3 DEF S
<1>5. d[n] = e[n] /\ n + 1 \in 1..(n + 1) /\ (n + 1) - 1 = n /\ n \in 0..n
  BY <1>1, <1>4
<1>6. e[n + 1] = decodeByte(e[n], c)
  BY <1>1, <1>3, <1>5
<1>7. decode(s) = d[n] /\ d[n] \in Decoder /\ decode(t) = e[n + 1]
  BY <1>2, <1>3, <1>5
<1>8. QED
  BY <1>5, <1>6, <1>7, Zenon DEF t

(* No byte, no step.                                                         *)
LEMMA DecodeNothing == decode(<<>>) = newDecoder
<1>1. <<>> \in Seq(Bytes) /\ Len(<<>>) = 0
  OBVIOUS
<1>2. QED
  BY <1>1, DecodeRuns, Zenon

-----------------------------------------------------------------------------
Filter == [at : {"start", "dropLine", "midLine", "pendingCR"}, sawField : BOOLEAN, out : Seq(Bytes)]

(* What lies between the last line end and the next, on both sides of the   *)
(* filter, with S the decoder behind it and R one before it.                *)
Partial(f, S, R) ==
    /\ f.at = "start"     => S.line = <<>> /\ R.line = <<>>
    /\ f.at = "dropLine"  => S.line = <<>> /\ R.line # <<>> /\ R.line[1] = ":"
    /\ f.at = "pendingCR" => S.line = <<>> /\ R.line = <<"CR">>
    /\ f.at = "midLine"   => S.line = R.line /\ R.line # <<>> /\ R.line[1] # ":" /\ R.line # <<"CR">>

(* The event under way has the same lines on both sides, and the filter     *)
(* knows whether it has any.                                                *)
Aligned(f, S, R) ==
    /\ S.lines = R.lines /\ S.events = R.fielded
    /\ f.sawField = (S.lines # <<>> \/ f.at = "midLine")

FilterInv ==
    /\ body \in Seq(Bytes) /\ filter \in Filter
    /\ Partial(filter, decode(filter.out), decode(body)) /\ Aligned(filter, decode(filter.out), decode(body))

(* The bytes that end or begin a line are different ones.                    *)
LEMMA ByteFacts == "LF" \in Bytes /\ "CR" \in Bytes /\ "LF" # "CR" /\ "LF" # ":" /\ "CR" # ":"
BY DEF Bytes

(* What a byte does to a decoder.                                           *)
LEMMA OtherByte ==
    ASSUME NEW d \in Decoder, NEW c \in Bytes, c # "LF"
    PROVE  LET e == decodeByte(d, c)
           IN  e.line = Append(d.line, c) /\ e.lines = d.lines /\ e.events = d.events /\ e.fielded = d.fielded
BY Zenon DEF decodeByte, Decoder

(* What the end of a line does to a decoder.                                 *)
LEMMA LineEnds ==
    ASSUME NEW d \in Decoder
    PROVE  LET e == decodeByte(d, "LF")
               l == chomp(d.line)
           IN  /\ e.line = <<>>
               /\ l = <<>> => e = dispatch(d)
               /\ l # <<>> /\ l[1] = ":" => e.lines = d.lines /\ e.events = d.events /\ e.fielded = d.fielded
               /\ l # <<>> /\ l[1] # ":" => e.lines = Append(d.lines, l) /\ e.events = d.events /\ e.fielded = d.fielded
<1>1. CASE chomp(d.line) = <<>>
  BY <1>1, Zenon DEF decodeByte, dispatch
<1>2. CASE chomp(d.line) # <<>> /\ chomp(d.line)[1] = ":"
  BY <1>2, Zenon DEF decodeByte, Decoder
<1>3. CASE chomp(d.line) # <<>> /\ chomp(d.line)[1] # ":"
  BY <1>3, Zenon DEF decodeByte, Decoder
<1>4. QED
  BY <1>1, <1>2, <1>3

(* A prefix of a sequence agrees with it.                                    *)
LEMMA Prefix ==
    ASSUME NEW T, NEW l \in Seq(T), NEW n \in Nat, n <= Len(l)
    PROVE  /\ SubSeq(l, 1, n) \in Seq(T) /\ Len(SubSeq(l, 1, n)) = n
           /\ \A i \in 1..n : SubSeq(l, 1, n)[i] = l[i]
OBVIOUS

(* Only a blank line is empty without its CR.                                *)
LEMMA Chomped ==
    ASSUME NEW l \in Lines
    PROVE  /\ chomp(<<>>) = <<>> /\ chomp(<<"CR">>) = <<>>
           /\ l # <<>> /\ l # <<"CR">> => chomp(l) # <<>>
           /\ l # <<>> /\ chomp(l) # <<>> => chomp(l)[1] = l[1]
<1>1. chomp(<<>>) = <<>>
  BY DEF chomp
<1>2. chomp(<<"CR">>) = <<>>
  BY DEF chomp
<1>3. ASSUME l # <<>>, l # <<"CR">> PROVE chomp(l) # <<>>
  <2>1. CASE l[Len(l)] = "CR"
    <3>1. Len(l) \in Nat /\ Len(l) # 0
      BY <1>3 DEF Lines
    <3>2. Len(l) # 1
      <4>1. SUFFICES ASSUME Len(l) = 1 PROVE FALSE
        OBVIOUS
      <4>2. l[1] = "CR" /\ l = <<l[1]>>
        BY <2>1, <4>1 DEF Lines
      <4>3. QED
        BY <1>3, <4>2
    <3>3. chomp(l) = SubSeq(l, 1, Len(l) - 1)
      BY <1>3, <2>1 DEF chomp
    <3>4. Len(SubSeq(l, 1, Len(l) - 1)) = Len(l) - 1
      <4>1. Len(l) - 1 \in Nat /\ Len(l) - 1 <= Len(l) /\ l \in Seq(Bytes)
        BY <3>1 DEF Lines
      <4>2. QED
        BY <4>1, Prefix, Zenon
    <3>5. Len(chomp(l)) # 0
      BY <3>1, <3>2, <3>3, <3>4
    <3>6. QED
      BY <3>5
  <2>2. QED
    BY <1>3, <2>1 DEF chomp
<1>4. ASSUME l # <<>>, chomp(l) # <<>> PROVE chomp(l)[1] = l[1]
  <2>1. CASE l[Len(l)] = "CR"
    <3>1. chomp(l) = SubSeq(l, 1, Len(l) - 1)
      BY <1>4, <2>1 DEF chomp
    <3>2. Len(l) \in Nat /\ Len(SubSeq(l, 1, Len(l) - 1)) = Len(l) - 1
      <4>1. Len(l) \in Nat /\ Len(l) - 1 \in Nat /\ Len(l) - 1 <= Len(l) /\ l \in Seq(Bytes)
        BY <1>4 DEF Lines
      <4>2. QED
        BY <4>1, Prefix, Zenon
    <3>3. Len(l) - 1 # 0
      BY <1>4, <3>1, <3>2 DEF Lines
    <3>4. SubSeq(l, 1, Len(l) - 1)[1] = l[1]
      BY <3>2, <3>3 DEF Lines
    <3>5. QED
      BY <3>1, <3>4
  <2>2. QED
    BY <1>4, <2>1 DEF chomp
<1>5. QED
  BY <1>1, <1>2, <1>3, <1>4

(* A dispatch behind the filter is one before it when there are lines, and  *)
(* leaves no trace otherwise.                                               *)
LEMMA Dispatched ==
    ASSUME NEW d
    PROVE  LET e == dispatch(d)
           IN  /\ e.line = <<>> /\ e.lines = <<>> /\ e.events = Append(d.events, d.lines)
               /\ e.fielded = IF d.lines = <<>> THEN d.fielded ELSE Append(d.fielded, d.lines)
BY Zenon DEF dispatch

-----------------------------------------------------------------------------
(* What the filter sends is decoded where it is sent.                       *)
LEMMA EmitOne ==
    ASSUME NEW f \in Filter, NEW c \in Bytes
    PROVE  decode(f.out) \in Decoder /\ decode(f.out \o <<c>>) = decodeByte(decode(f.out), c) /\ f.out \o <<c>> \in Seq(Bytes)
<1>1. f.out \in Seq(Bytes)
  BY DEF Filter
<1>2. f.out \o <<c>> = Append(f.out, c)
  BY <1>1
<1>3. Append(f.out, c) \in Seq(Bytes)
  BY <1>1
<1>4. QED
  BY <1>1, <1>2, <1>3, DecodeAppend

(* Two bytes sent at once are decoded one after the other.                   *)
LEMMA EmitTwo ==
    ASSUME NEW f \in Filter, NEW b \in Bytes, NEW c \in Bytes
    PROVE  /\ decode(f.out \o <<b, c>>) = decodeByte(decodeByte(decode(f.out), b), c)
           /\ f.out \o <<b, c>> \in Seq(Bytes)
<1>1. f.out \in Seq(Bytes)
  BY DEF Filter
<1>2. f.out \o <<b, c>> = Append(Append(f.out, b), c)
  BY <1>1
<1>3. Append(f.out, b) \in Seq(Bytes)
  BY <1>1
<1>4. Append(Append(f.out, b), c) \in Seq(Bytes)
  BY <1>3
<1>5. QED
  BY <1>1, <1>2, <1>3, <1>4, DecodeAppend, Zenon

(* A blank line: dispatched behind the filter exactly when lines precede it. *)
LEMMA BlankLine ==
    ASSUME NEW f \in Filter, NEW S \in Decoder, NEW R \in Decoder, Aligned(f, S, R), f.at # "midLine",
           NEW T, f.sawField => T = dispatch(S), ~f.sawField => T = S
    PROVE  /\ T.lines = <<>> /\ dispatch(R).lines = <<>> /\ T.events = dispatch(R).fielded
           /\ f.sawField => T.line = <<>>
<1>1. S.lines = R.lines /\ S.events = R.fielded /\ f.sawField = (S.lines # <<>>)
  BY Zenon DEF Aligned
<1>2. CASE f.sawField
  BY <1>1, <1>2, Dispatched, Zenon
<1>3. CASE ~f.sawField
  BY <1>1, <1>3, Dispatched, Zenon
<1>4. f.sawField \in BOOLEAN
  BY DEF Filter
<1>5. QED
  BY <1>2, <1>3, <1>4

(* What the filter does with a byte, case by case.                          *)
LEMMA EmitType ==
    ASSUME NEW f \in Filter, NEW bytes, f.out \o bytes \in Seq(Bytes)
    PROVE  /\ emit(f, bytes) \in Filter /\ emit(f, bytes).out = f.out \o bytes
           /\ emit(f, bytes).sawField = f.sawField
BY Zenon DEF emit, Filter

(* Bytes that end an event.                                                  *)
LEMMA BlankEmitted ==
    ASSUME NEW f \in Filter, NEW bytes, f.out \o bytes \in Seq(Bytes)
    PROVE  LET g == [emit(f, bytes) EXCEPT !.at = "start", !.sawField = FALSE]
           IN  g \in Filter /\ g.at = "start" /\ g.sawField = FALSE /\ g.out = f.out \o bytes
BY EmitType, Zenon DEF Filter

(* Bytes that begin a field line.                                            *)
LEMMA FieldEmitted ==
    ASSUME NEW f \in Filter, NEW bytes, f.out \o bytes \in Seq(Bytes)
    PROVE  LET g == fieldLine(f, bytes)
           IN  g \in Filter /\ g.at = "midLine" /\ g.sawField = TRUE /\ g.out = f.out \o bytes
BY EmitType, Zenon DEF Filter, fieldLine

(* Bytes within a line, or its end.                                          *)
LEMMA LineEmitted ==
    ASSUME NEW f \in Filter, NEW bytes, f.out \o bytes \in Seq(Bytes), NEW a \in {"start", "midLine"}
    PROVE  LET g == [emit(f, bytes) EXCEPT !.at = a]
           IN  g \in Filter /\ g.at = a /\ g.sawField = f.sawField /\ g.out = f.out \o bytes
<1>1. a \in {"start", "dropLine", "midLine", "pendingCR"}
  OBVIOUS
<1>2. QED
  BY <1>1, EmitType, Zenon DEF Filter

(* A line of a CR is blank.                                                  *)
LEMMA ChompBlank == chomp(<<>>) = <<>> /\ chomp(<<"CR">>) = <<>>
BY DEF chomp

(* The first byte of a line.                                                 *)
LEMMA FirstByte ==
    ASSUME NEW d \in Decoder, d.line = <<>>, NEW c \in Bytes, c # "LF"
    PROVE  LET e == decodeByte(d, c)
           IN  e.line = <<c>> /\ e.lines = d.lines /\ e.events = d.events /\ e.fielded = d.fielded
<1>1. Append(d.line, c) = <<c>>
  OBVIOUS
<1>2. QED
  BY <1>1, OtherByte, Zenon

(* A blank line dispatches.                                                  *)
LEMMA BlankEnds ==
    ASSUME NEW d \in Decoder, d.line \in {<<>>, <<"CR">>}
    PROVE  decodeByte(d, "LF") = dispatch(d)
<1>1. chomp(d.line) = <<>>
  <2>1. CASE d.line = <<>>
    BY <2>1, ChompBlank
  <2>2. CASE d.line = <<"CR">>
    BY <2>2, ChompBlank
  <2>3. QED
    BY <2>1, <2>2
<1>2. QED
  BY <1>1, LineEnds, Zenon

(* A blank line passes the filter when a field line did.                     *)
LEMMA Blanked ==
    ASSUME NEW f \in Filter, NEW bytes, f.out \o bytes \in Seq(Bytes)
    PROVE  LET g == blank(f, bytes)
           IN  /\ g \in Filter /\ g.at = "start" /\ g.sawField = FALSE
               /\ g.out = IF f.sawField THEN f.out \o bytes ELSE f.out
<1>1. CASE f.sawField
  <2>1. blank(f, bytes) = [emit(f, bytes) EXCEPT !.at = "start", !.sawField = FALSE]
    BY <1>1, Zenon DEF blank
  <2>2. QED
    BY <1>1, <2>1, BlankEmitted, Zenon
<1>2. CASE ~f.sawField
  <2>1. blank(f, bytes) = [f EXCEPT !.at = "start"]
    BY <1>2, Zenon DEF blank
  <2>2. f.sawField = FALSE
    BY <1>2 DEF Filter
  <2>3. QED
    BY <1>2, <2>1, <2>2, Zenon DEF Filter
<1>3. QED
  BY <1>1, <1>2

(* A line of one byte.                                                       *)
LEMMA OneByte == \A c : <<c>> # <<>> /\ <<c>>[1] = c /\ Append(<<>>, c) = <<c>>
OBVIOUS

(* A line keeps its first byte, and with two is no lone CR.                  *)
LEMMA LineGrows ==
    ASSUME NEW l \in Lines, l # <<>>, NEW c \in Bytes
    PROVE  Append(l, c) # <<>> /\ Append(l, c)[1] = l[1] /\ Append(l, c) # <<"CR">>
<1>1. Len(l) \in Nat /\ Len(l) # 0 /\ Len(Append(l, c)) = Len(l) + 1 /\ Append(l, c)[1] = l[1]
  BY DEF Lines
<1>2. Len(Append(l, c)) # 1 /\ Len(Append(l, c)) # 0
  BY <1>1
<1>3. Len(<<"CR">>) = 1 /\ Len(<<>>) = 0
  OBVIOUS
<1>4. QED
  BY <1>1, <1>2, <1>3, Zenon

(* No byte gets the two decoders out of step.                               *)
LEMMA ByteKeepsStep ==
    ASSUME FilterInv, NEW c \in Bytes
    PROVE  LET g == transform(filter, c)
               R == decodeByte(decode(body), c)
           IN  g \in Filter /\ Partial(g, decode(g.out), R) /\ Aligned(g, decode(g.out), R)
<1> DEFINE f == filter
           S == decode(filter.out)
           R == decode(body)
           Q == decodeByte(R, c)
           g == transform(filter, c)
           T == decode(g.out)
<1>1. f \in Filter /\ S \in Decoder /\ R \in Decoder /\ body \in Seq(Bytes)
  BY EmitOne, DecodeAppend, ByteFacts, Zenon DEF FilterInv
<1>2. S.line \in Lines /\ R.line \in Lines /\ R.lines \in Seq(Lines) /\ S.lines \in Seq(Lines) /\ f.sawField \in BOOLEAN
  BY <1>1 DEF Decoder, Filter
<1>3. Partial(f, S, R) /\ Aligned(f, S, R)
  BY Zenon DEF FilterInv
<1>4. S.lines = R.lines /\ S.events = R.fielded
  BY <1>3, Zenon DEF Aligned
<1>5. Q.line = <<>> \/ c # "LF"
  BY <1>1, LineEnds, Zenon
<1>6. f.at \in {"start", "dropLine", "midLine", "pendingCR"}
  BY <1>1 DEF Filter
<1> HIDE DEF f, S, R
<1>20. CASE f.at = "dropLine"
  <2>1. S.line = <<>> /\ R.line # <<>> /\ R.line[1] = ":" /\ f.sawField = (S.lines # <<>>)
    BY <1>3, <1>20, Zenon DEF Partial, Aligned
  <2>2. CASE c = "LF"
    <3>1. g = [f EXCEPT !.at = "start"]
      BY <1>20, <2>2, Zenon DEF transform, f
    <3>2. g \in Filter /\ g.at = "start" /\ g.sawField = f.sawField /\ T = S
      BY <1>1, <3>1, Zenon DEF Filter, S, f
    <3>3. R.line # <<"CR">>
      BY <2>1, OneByte, ByteFacts, Zenon
    <3>4. chomp(R.line) # <<>> /\ chomp(R.line)[1] = ":"
      BY <1>2, <2>1, <3>3, Chomped, Zenon
    <3>5. Q.line = <<>> /\ Q.lines = R.lines /\ Q.fielded = R.fielded
      BY <1>1, <2>2, <3>4, LineEnds, Zenon
    <3> HIDE DEF g, Q, T
    <3>6. Partial(g, T, Q)
      BY <2>1, <3>2, <3>5, Zenon DEF Partial
    <3>7. Aligned(g, T, Q)
      BY <1>4, <2>1, <3>2, <3>5, Zenon DEF Aligned
    <3>8. QED
      BY <3>2, <3>6, <3>7 DEF g, Q, T, R
  <2>3. CASE c # "LF"
    <3>1. g = [f EXCEPT !.at = "dropLine"]
      BY <1>20, <2>3, Zenon DEF transform, f
    <3>2. g \in Filter /\ g.at = "dropLine" /\ g.sawField = f.sawField /\ T = S
      BY <1>1, <3>1, Zenon DEF Filter, S, f
    <3>3. Q.line = Append(R.line, c) /\ Q.lines = R.lines /\ Q.fielded = R.fielded
      BY <1>1, <2>3, OtherByte, Zenon
    <3>4. Q.line # <<>> /\ Q.line[1] = ":"
      BY <1>2, <2>1, <3>3, LineGrows, Zenon
    <3> HIDE DEF g, Q, T
    <3>6. Partial(g, T, Q)
      BY <2>1, <3>2, <3>4, Zenon DEF Partial
    <3>7. Aligned(g, T, Q)
      BY <1>4, <2>1, <3>2, <3>3, Zenon DEF Aligned
    <3>8. QED
      BY <3>2, <3>6, <3>7 DEF g, Q, T, R
  <2>4. QED
    BY <2>2, <2>3
<1>21. CASE f.at = "midLine"
  <2>1. S.line = R.line /\ R.line # <<>> /\ R.line[1] # ":" /\ R.line # <<"CR">> /\ f.sawField = TRUE
    BY <1>2, <1>3, <1>21, Zenon DEF Partial, Aligned
  <2>2. g = [emit(f, <<c>>) EXCEPT !.at = IF c = "LF" THEN "start" ELSE "midLine"]
    BY <1>21, Zenon DEF transform, f
  <2>3. f.out \o <<c>> \in Seq(Bytes) /\ decode(f.out \o <<c>>) = decodeByte(S, c)
    BY <1>1, EmitOne, Zenon DEF S, f
  <2>4. g \in Filter /\ g.at = (IF c = "LF" THEN "start" ELSE "midLine") /\ g.sawField = TRUE /\ T = decodeByte(S, c)
    <3>1. (IF c = "LF" THEN "start" ELSE "midLine") \in {"start", "midLine"}
      OBVIOUS
    <3>2. g \in Filter /\ g.at = (IF c = "LF" THEN "start" ELSE "midLine") /\ g.sawField = f.sawField /\ g.out = f.out \o <<c>>
      <4> DEFINE a == IF c = "LF" THEN "start" ELSE "midLine"
      <4>1. a \in {"start", "midLine"} /\ g = [emit(f, <<c>>) EXCEPT !.at = a]
        BY <2>2, <3>1, Zenon
      <4> HIDE DEF a, g
      <4>2. g \in Filter /\ g.at = a /\ g.sawField = f.sawField /\ g.out = f.out \o <<c>>
        BY <1>1, <2>3, <4>1, LineEmitted, Zenon
      <4>3. QED
        BY <4>2, Zenon DEF a
    <3>3. QED
      BY <2>1, <2>3, <3>2, Zenon
  <2>5. CASE c = "LF"
    <3>1. chomp(R.line) # <<>> /\ chomp(R.line)[1] # ":"
      BY <1>2, <2>1, Chomped, Zenon
    <3>2. Q.line = <<>> /\ Q.lines = Append(R.lines, chomp(R.line)) /\ Q.fielded = R.fielded
      BY <1>1, <2>5, <3>1, LineEnds, Zenon
    <3>3. T.line = <<>> /\ T.lines = Append(S.lines, chomp(R.line)) /\ T.events = S.events
      BY <1>1, <2>1, <2>4, <2>5, <3>1, LineEnds, Zenon
    <3>4. T.lines # <<>>
      BY <1>2, <3>3
    <3> HIDE DEF g, Q, T
    <3>6. Partial(g, T, Q)
      BY <2>4, <2>5, <3>2, <3>3 DEF Partial
    <3>7. Aligned(g, T, Q)
      BY <1>4, <2>4, <2>5, <3>2, <3>3, <3>4, Zenon DEF Aligned
    <3>8. QED
      BY <2>4, <3>6, <3>7 DEF g, Q, T, R
  <2>6. CASE c # "LF"
    <3>1. Q.line = Append(R.line, c) /\ Q.lines = R.lines /\ Q.fielded = R.fielded
      BY <1>1, <2>6, OtherByte, Zenon
    <3>2. T.line = Append(R.line, c) /\ T.lines = S.lines /\ T.events = S.events
      BY <1>1, <2>1, <2>4, <2>6, OtherByte, Zenon
    <3>3. Q.line # <<>> /\ Q.line[1] # ":" /\ Q.line # <<"CR">>
      BY <1>2, <2>1, <3>1, LineGrows, Zenon
    <3> HIDE DEF g, Q, T
    <3>6. Partial(g, T, Q)
      BY <2>4, <2>6, <3>1, <3>2, <3>3 DEF Partial
    <3>7. Aligned(g, T, Q)
      BY <1>4, <2>4, <2>6, <3>1, <3>2, Zenon DEF Aligned
    <3>8. QED
      BY <2>4, <3>6, <3>7 DEF g, Q, T, R
  <2>7. QED
    BY <2>5, <2>6
<1>22. CASE f.at = "pendingCR"
  <2>1. S.line = <<>> /\ R.line = <<"CR">> /\ f.sawField = (S.lines # <<>>)
    BY <1>3, <1>22, Zenon DEF Partial, Aligned
  <2> DEFINE P == decodeByte(S, "CR")
  <2>2. P \in Decoder /\ P.line = <<"CR">> /\ P.lines = S.lines /\ P.events = S.events /\ P.fielded = S.fielded
    BY <1>1, <2>1, ByteFacts, FirstByte, DecodeByteType, Zenon
  <2>3. f.out \o <<"CR", c>> \in Seq(Bytes) /\ decode(f.out \o <<"CR", c>>) = decodeByte(P, c)
    BY <1>1, EmitTwo, ByteFacts, Zenon DEF S, f
  <2>4. CASE c = "LF"
    <3>1. g = blank(f, <<"CR", "LF">>)
      BY <1>22, <2>4, Zenon DEF transform, f
    <3>2. g \in Filter /\ g.at = "start" /\ g.sawField = FALSE
          /\ g.out = IF f.sawField THEN f.out \o <<"CR", "LF">> ELSE f.out
      BY <1>1, <2>3, <2>4, <3>1, Blanked, ZenonT(40)
    <3>3. Q = dispatch(R)
      BY <1>1, <2>1, <2>4, BlankEnds, Zenon
    <3>4. f.sawField => T = dispatch(P)
      BY <2>2, <2>3, <2>4, <3>2, BlankEnds, Zenon
    <3>5. ~f.sawField => T = S
      BY <3>2, Zenon DEF S, f
    <3>6. f.sawField => dispatch(P) = dispatch(S)
      BY <2>2, Zenon DEF dispatch
    <3>7. f.at # "midLine"
      BY <1>22
    <3> HIDE DEF g, Q, T
    <3>8. T.lines = <<>> /\ Q.lines = <<>> /\ T.events = Q.fielded /\ (f.sawField => T.line = <<>>)
      <4>1. f.sawField => T = dispatch(S)
        BY <3>4, <3>6
      <4>2. QED
        BY <1>1, <1>3, <3>3, <3>5, <3>7, <4>1, BlankLine, ZenonT(40)
    <3>9. T.line = <<>> /\ Q.line = <<>>
      BY <1>5, <2>1, <2>4, <3>5, <3>8, Zenon DEF Q
    <3>10. Partial(g, T, Q)
      BY <3>2, <3>9 DEF Partial
    <3>11. Aligned(g, T, Q)
      BY <3>2, <3>8 DEF Aligned
    <3>12. QED
      BY <3>2, <3>10, <3>11 DEF g, Q, T, R
  <2>5. CASE c # "LF"
    <3>1. g = fieldLine(f, <<"CR", c>>)
      BY <1>22, <2>5, Zenon DEF transform, f
    <3>2. g \in Filter /\ g.at = "midLine" /\ g.sawField = TRUE /\ T = decodeByte(P, c)
      BY <1>1, <2>3, <3>1, FieldEmitted, Zenon
    <3>3. T.line = Append(<<"CR">>, c) /\ T.lines = S.lines /\ T.events = S.events
      BY <2>2, <2>5, <3>2, OtherByte, Zenon
    <3>4. Q.line = Append(<<"CR">>, c) /\ Q.lines = R.lines /\ Q.fielded = R.fielded
      BY <1>1, <2>1, <2>5, OtherByte, Zenon
    <3>5. <<"CR">> \in Lines /\ <<"CR">> # <<>> /\ <<"CR">>[1] # ":"
      BY <1>2, <2>1, OneByte, ByteFacts, Zenon
    <3>6. Q.line # <<>> /\ Q.line[1] # ":" /\ Q.line # <<"CR">>
      BY <3>4, <3>5, LineGrows, Zenon
    <3> HIDE DEF g, Q, T
    <3>7. Partial(g, T, Q)
      BY <3>2, <3>3, <3>4, <3>6 DEF Partial
    <3>8. Aligned(g, T, Q)
      BY <1>4, <3>2, <3>3, <3>4, Zenon DEF Aligned
    <3>9. QED
      BY <3>2, <3>7, <3>8 DEF g, Q, T, R
  <2>6. QED
    BY <2>4, <2>5
<1>23. CASE f.at = "start"
  <2>1. S.line = <<>> /\ R.line = <<>> /\ f.sawField = (S.lines # <<>>) /\ f.at # "midLine"
    BY <1>3, <1>23, Zenon DEF Partial, Aligned
  <2>2. CASE c = "LF"
    <3>1. g = blank(f, <<"LF">>)
      BY <1>23, <2>2, Zenon DEF transform, f
    <3>2. f.out \o <<"LF">> \in Seq(Bytes) /\ decode(f.out \o <<"LF">>) = decodeByte(S, "LF")
      BY <1>1, EmitOne, ByteFacts, Zenon DEF S, f
    <3>3. g \in Filter /\ g.at = "start" /\ g.sawField = FALSE
          /\ g.out = IF f.sawField THEN f.out \o <<"LF">> ELSE f.out
      BY <1>1, <3>1, <3>2, Blanked, Zenon
    <3>4. Q = dispatch(R)
      BY <1>1, <2>1, <2>2, BlankEnds, Zenon
    <3>5. f.sawField => T = dispatch(S)
      BY <1>1, <2>1, <3>2, <3>3, BlankEnds, Zenon
    <3>6. ~f.sawField => T = S
      BY <3>3, Zenon DEF S, f
    <3> HIDE DEF g, Q, T
    <3>7. T.lines = <<>> /\ Q.lines = <<>> /\ T.events = Q.fielded /\ (f.sawField => T.line = <<>>)
      BY <1>1, <1>3, <2>1, <3>4, <3>5, <3>6, BlankLine, Zenon
    <3>8. T.line = <<>> /\ Q.line = <<>>
      BY <1>5, <2>1, <2>2, <3>6, <3>7, Zenon DEF Q
    <3>9. Partial(g, T, Q)
      BY <3>3, <3>8 DEF Partial
    <3>10. Aligned(g, T, Q)
      BY <3>3, <3>7 DEF Aligned
    <3>11. QED
      BY <3>3, <3>9, <3>10 DEF g, Q, T, R
  <2>3. CASE c \in {":", "CR"}
    <3>1. g = [f EXCEPT !.at = IF c = ":" THEN "dropLine" ELSE "pendingCR"]
      BY <1>23, <2>3, ByteFacts, Zenon DEF transform, f
    <3>2. g \in Filter /\ g.at = (IF c = ":" THEN "dropLine" ELSE "pendingCR") /\ g.sawField = f.sawField /\ T = S
      BY <1>1, <3>1, Zenon DEF Filter, S, f
    <3>3. c # "LF"
      BY <2>3
    <3>4. Q.line = <<c>> /\ Q.lines = R.lines /\ Q.fielded = R.fielded
      BY <1>1, <2>1, <3>3, FirstByte, Zenon
    <3>5. Q.line # <<>> /\ Q.line[1] = c
      BY <3>4, OneByte, Zenon
    <3> HIDE DEF g, Q, T
    <3>6. Partial(g, T, Q)
      BY <2>1, <2>3, <3>2, <3>4, <3>5 DEF Partial
    <3>7. Aligned(g, T, Q)
      <4>1. g.at # "midLine"
        BY <3>2
      <4>2. QED
        BY <1>4, <2>1, <3>2, <3>4, <4>1, Zenon DEF Aligned
    <3>8. QED
      BY <3>2, <3>6, <3>7 DEF g, Q, T, R
  <2>4. CASE c \notin {":", "CR", "LF"}
    <3>1. g = fieldLine(f, <<c>>)
      BY <1>23, <2>4, Zenon DEF transform, f
    <3>2. f.out \o <<c>> \in Seq(Bytes) /\ decode(f.out \o <<c>>) = decodeByte(S, c)
      BY <1>1, EmitOne, Zenon DEF S, f
    <3>3. g \in Filter /\ g.at = "midLine" /\ g.sawField = TRUE /\ T = decodeByte(S, c)
      BY <1>1, <3>1, <3>2, FieldEmitted, Zenon
    <3>4. c # "LF" /\ c # ":" /\ c # "CR"
      BY <2>4
    <3>5. T.line = <<c>> /\ T.lines = S.lines /\ T.events = S.events
      BY <1>1, <2>1, <3>3, <3>4, FirstByte, Zenon
    <3>6. Q.line = <<c>> /\ Q.lines = R.lines /\ Q.fielded = R.fielded
      BY <1>1, <2>1, <3>4, FirstByte, Zenon
    <3>7. Q.line # <<>> /\ Q.line[1] # ":" /\ Q.line # <<"CR">>
      BY <3>4, <3>6, OneByte
    <3> HIDE DEF g, Q, T
    <3>8. Partial(g, T, Q)
      BY <3>3, <3>5, <3>6, <3>7 DEF Partial
    <3>9. Aligned(g, T, Q)
      BY <1>4, <3>3, <3>5, <3>6, Zenon DEF Aligned
    <3>10. QED
      BY <3>3, <3>8, <3>9 DEF g, Q, T, R
  <2>5. QED
    BY <2>2, <2>3, <2>4
<1>24. QED
  BY <1>6, <1>20, <1>21, <1>22, <1>23

(* Through the filter the decoder sees the very events of the response that  *)
(* have a field line, in order and untouched (transform of ssefilter.go).    *)
THEOREM FilterPreservesEvents == SSESpec => []FilterKeepsEvents
<1>1. SSEInit => FilterInv
  <2> SUFFICES ASSUME SSEInit PROVE FilterInv
    OBVIOUS
  <2>1. body = <<>> /\ filter = [at |-> "start", sawField |-> FALSE, out |-> <<>>]
    BY DEF SSEInit, newSSECommentFilter
  <2>2. filter \in Filter /\ filter.out = <<>> /\ filter.at = "start" /\ filter.sawField = FALSE /\ body \in Seq(Bytes)
    BY <2>1 DEF Filter
  <2>3. decode(filter.out) = newDecoder /\ decode(body) = newDecoder
    BY <2>1, <2>2, DecodeNothing, Zenon
  <2>4. newDecoder.line = <<>> /\ newDecoder.lines = <<>> /\ newDecoder.events = newDecoder.fielded
    BY DEF newDecoder
  <2>5. Partial(filter, newDecoder, newDecoder)
    BY <2>2, <2>4 DEF Partial
  <2>6. Aligned(filter, newDecoder, newDecoder)
    BY <2>2, <2>4 DEF Aligned
  <2>7. QED
    BY <2>2, <2>3, <2>5, <2>6, Zenon DEF FilterInv
<1>2. FilterInv /\ [SSENext]_sseVars => FilterInv'
  <2> SUFFICES ASSUME FilterInv, [SSENext]_sseVars PROVE FilterInv'
    OBVIOUS
  <2>1. CASE ByteArrives
    <3>1. PICK c \in Bytes : body' = Append(body, c) /\ filter' = transform(filter, c)
      BY <2>1 DEF ByteArrives
    <3>2. body \in Seq(Bytes)
      BY DEF FilterInv
    <3>3. body' \in Seq(Bytes) /\ decode(body') = decodeByte(decode(body), c)
      BY <3>1, <3>2, DecodeAppend
    <3>4. filter' \in Filter /\ Partial(filter', decode(filter'.out), decode(body'))
          /\ Aligned(filter', decode(filter'.out), decode(body'))
      BY <3>1, <3>3, ByteKeepsStep, Zenon
    <3>5. QED
      BY <3>3, <3>4, Zenon DEF FilterInv
  <2>2. CASE UNCHANGED sseVars
    <3>1. body' = body /\ filter' = filter
      BY <2>2 DEF sseVars
    <3>2. QED
      BY <3>1, Zenon DEF FilterInv
  <2>3. QED
    BY <2>1, <2>2 DEF SSENext
<1>3. FilterInv => FilterKeepsEvents
  BY Zenon DEF FilterInv, Aligned, FilterKeepsEvents
<1>4. QED
  BY <1>1, <1>2, <1>3, PTL DEF SSESpec

-----------------------------------------------------------------------------
(* The parts of some kinds.                                                 *)

(* One part more.                                                           *)
keep(d, p, ks) == IF p.k \in ks THEN Append(d, p) ELSE d

(* d keeps what is of the kinds ks, part by part.                           *)
Keeps(d, s, ks) == d[0] = <<>> /\ \A i \in 1..Len(s) : d[i] = keep(d[i - 1], s[i], ks)

(* ofKind goes through the parts in order.                                  *)
LEMMA OfKindRuns ==
    ASSUME NEW T, NEW s \in Seq(T), NEW ks
    PROVE  \E d \in [0..Len(s) -> Seq(T)] : ofKind(s, ks) = d[Len(s)] /\ Keeps(d, s, ks)
<1> DEFINE D == Seq(T)
           F == [p \in Nat \X D |-> IF p[1] \in 1..Len(s) THEN keep(p[2], s[p[1]], ks) ELSE <<>>]
           Fits(d) == d = [i \in 0..Len(s) |-> IF i = 0 THEN <<>>
                                               ELSE IF s[i].k \in ks THEN Append(d[i - 1], s[i]) ELSE d[i - 1]]
           run == CHOOSE d : Fits(d)
<1>0. <<>> \in D /\ \A d \in D, p \in T : keep(d, p, ks) \in D
  BY DEF keep
<1>1. F \in [Nat \X D -> D]
  <2>1. ASSUME NEW p \in Nat \X D
        PROVE  (IF p[1] \in 1..Len(s) THEN keep(p[2], s[p[1]], ks) ELSE <<>>) \in D
    <3>1. p[2] \in D
      OBVIOUS
    <3>2. p[1] \in 1..Len(s) => s[p[1]] \in T
      OBVIOUS
    <3> HIDE DEF D
    <3>3. QED
      BY <1>0, <3>1, <3>2, Zenon
  <2>2. QED
    BY <2>1, Zenon
<1>2. \A i \in 1..Len(s) : \A g \in D : F[<<i, g>>] = keep(g, s[i], ks)
  <2>1. ASSUME NEW i \in 1..Len(s), NEW g \in D
        PROVE  F[<<i, g>>] = keep(g, s[i], ks)
    <3>1. <<i, g>> \in Nat \X D /\ <<i, g>>[1] = i /\ <<i, g>>[2] = g
      OBVIOUS
    <3>2. QED
      BY <3>1, Zenon
  <2>2. QED
    BY <2>1
<1>3. Len(s) \in Nat
  OBVIOUS
<1> HIDE DEF F, D
<1>4. PICK e \in [0..Len(s) -> D] : e[0] = <<>> /\ \A i \in 1..Len(s) : e[i] = F[<<i, e[i - 1]>>]
  <2>1. \E e \in [0..Len(s) -> D] : Solves(e, <<>>, F, Len(s))
    BY <1>0, <1>1, <1>3, Recurrence, Zenon
  <2>2. QED
    BY <2>1, Zenon DEF Solves
<1>5. \A i \in 1..Len(s) : e[i] = keep(e[i - 1], s[i], ks)
  <2>1. \A i \in 1..Len(s) : i - 1 \in 0..Len(s)
    BY <1>3
  <2>2. \A i \in 1..Len(s) : e[i - 1] \in D
    BY <1>4, <2>1
  <2>3. QED
    BY <1>2, <1>4, <2>2, Zenon
<1>6. Fits(e)
  <2>1. \A i \in 0..Len(s) : e[i] = IF i = 0 THEN <<>> ELSE IF s[i].k \in ks THEN Append(e[i - 1], s[i]) ELSE e[i - 1]
    <3>1. \A i \in 0..Len(s) : i = 0 \/ i \in 1..Len(s)
      BY <1>3
    <3>2. \A i \in 1..Len(s) : i # 0
      BY <1>3
    <3>3. QED
      BY <1>4, <1>5, <3>1, <3>2, Zenon DEF keep
  <2>2. QED
    BY <2>1, Zenon
<1>7. Fits(run)
  BY <1>6, Zenon
<1>8. ofKind(s, ks) = run[Len(s)]
  BY Zenon DEF ofKind
<1> HIDE DEF run
<1>9. run[0] = <<>> /\ \A i \in 1..Len(s) : run[i] = keep(run[i - 1], s[i], ks)
  <2>1. \A i \in 0..Len(s) : run[i] = IF i = 0 THEN <<>> ELSE IF s[i].k \in ks THEN Append(run[i - 1], s[i]) ELSE run[i - 1]
    BY <1>7, Zenon
  <2>2. 0 \in 0..Len(s) /\ \A i \in 1..Len(s) : i \in 0..Len(s) /\ i # 0
    BY <1>3
  <2>3. QED
    BY <2>1, <2>2, Zenon DEF keep
<1>10. \A i \in Nat : i <= Len(s) => run[i] \in D
  <2> DEFINE S == {i \in Nat : i <= Len(s) => run[i] \in D}
  <2>1. 0 \in S
    BY <1>0, <1>9
  <2>2. ASSUME NEW i \in Nat, i \in S PROVE i + 1 \in S
    <3>1. CASE i + 1 <= Len(s)
      <4>1. i + 1 \in 1..Len(s) /\ (i + 1) - 1 = i /\ run[i] \in D
        BY <1>3, <2>2, <3>1
      <4>2. run[i + 1] = keep(run[i], s[i + 1], ks) /\ s[i + 1] \in T
        BY <1>9, <4>1
      <4>3. run[i + 1] \in D
        BY <1>0, <4>1, <4>2
      <4>4. QED
        BY <4>3
    <3>2. QED
      BY <3>1
  <2> HIDE DEF S
  <2>3. \A i \in Nat : i \in S
    BY <2>1, <2>2, Induction
  <2>4. QED
    BY <2>3 DEF S
<1>11. run \in [0..Len(s) -> D]
  <2> DEFINE G(i) == IF i = 0 THEN <<>> ELSE IF s[i].k \in ks THEN Append(run[i - 1], s[i]) ELSE run[i - 1]
  <2> HIDE DEF G
  <2>1. run = [i \in 0..Len(s) |-> G(i)]
    BY <1>7, Zenon DEF G
  <2>2. \A i \in 0..Len(s) : run[i] \in D
    BY <1>3, <1>10
  <2>3. QED
    BY <2>1, <2>2
<1>12. QED
  BY <1>8, <1>9, <1>11, Zenon DEF D, Keeps

(* ofKind is a fold.                                                        *)
LEMMA OfKindAppend ==
    ASSUME NEW T, NEW s \in Seq(T), NEW c \in T, NEW ks
    PROVE  ofKind(s, ks) \in Seq(T) /\ ofKind(Append(s, c), ks) = keep(ofKind(s, ks), c, ks)
<1> DEFINE t == Append(s, c)
           n == Len(s)
<1>1. t \in Seq(T) /\ n \in Nat /\ Len(t) = n + 1 /\ t[n + 1] = c /\ \A i \in 1..n : t[i] = s[i]
  OBVIOUS
<1>2. PICK d \in [0..n -> Seq(T)] : ofKind(s, ks) = d[n] /\ d[0] = <<>> /\ \A i \in 1..n : d[i] = keep(d[i - 1], s[i], ks)
  <2>1. PICK d \in [0..Len(s) -> Seq(T)] : ofKind(s, ks) = d[Len(s)] /\ Keeps(d, s, ks)
    BY OfKindRuns
  <2>2. QED
    BY <2>1, Zenon DEF Keeps
<1> HIDE DEF t
<1>3. PICK e \in [0..(n + 1) -> Seq(T)] : ofKind(t, ks) = e[n + 1] /\ e[0] = <<>> /\ \A i \in 1..(n + 1) : e[i] = keep(e[i - 1], t[i], ks)
  <2>1. PICK e \in [0..Len(t) -> Seq(T)] : ofKind(t, ks) = e[Len(t)] /\ Keeps(e, t, ks)
    BY <1>1, OfKindRuns
  <2>2. QED
    BY <1>1, <2>1, Zenon DEF Keeps
<1> HIDE DEF n
<1>4. \A i \in Nat : i <= n => d[i] = e[i]
  <2> DEFINE S == {i \in Nat : i <= n => d[i] = e[i]}
  <2>1. 0 \in S
    BY <1>2, <1>3
  <2>2. ASSUME NEW i \in Nat, i \in S PROVE i + 1 \in S
    <3>1. CASE i + 1 <= n
      <4>1. i + 1 \in 1..n /\ i + 1 \in 1..(n + 1) /\ (i + 1) - 1 = i /\ d[i] = e[i]
        BY <1>1, <2>2, <3>1
      <4>2. d[i + 1] = keep(d[i], s[i + 1], ks) /\ e[i + 1] = keep(e[i], t[i + 1], ks) /\ t[i + 1] = s[i + 1]
        BY <1>1, <1>2, <1>3, <4>1
      <4>3. d[i + 1] = e[i + 1]
        BY <4>1, <4>2
      <4>4. QED
        BY <4>3
    <3>2. QED
      BY <3>1
  <2> HIDE DEF S
  <2>3. \A i \in Nat : i \in S
    BY <2>1, <2>2, Induction
  <2>4. QED
    BY <2>3 DEF S
<1>5. d[n] = e[n] /\ n + 1 \in 1..(n + 1) /\ (n + 1) - 1 = n /\ n \in 0..n
  BY <1>1, <1>4
<1>6. e[n + 1] = keep(e[n], c, ks)
  BY <1>1, <1>3, <1>5
<1>7. ofKind(s, ks) = d[n] /\ d[n] \in Seq(T) /\ ofKind(t, ks) = e[n + 1]
  BY <1>2, <1>3, <1>5
<1>8. QED
  BY <1>5, <1>6, <1>7, Zenon DEF t

(* Nothing is kept of nothing.                                              *)
LEMMA OfKindNothing == \A ks : ofKind(<<>>, ks) = <<>>
<1> SUFFICES ASSUME NEW ks PROVE ofKind(<<>>, ks) = <<>>
  OBVIOUS
<1>1. <<>> \in Seq({}) /\ Len(<<>>) = 0
  OBVIOUS
<1>2. PICK d \in [0..Len(<<>>) -> Seq({})] : ofKind(<<>>, ks) = d[Len(<<>>)] /\ Keeps(d, <<>>, ks)
  BY <1>1, OfKindRuns
<1>3. QED
  BY <1>1, <1>2, Zenon DEF Keeps

(* Induction over a sequence, from its front: a set closed under Append      *)
(* holds every sequence.                                                     *)
LEMMA SeqInduction ==
    ASSUME NEW T, NEW C, <<>> \in C, \A s \in Seq(T) : s \in C => \A c \in T : Append(s, c) \in C
    PROVE  \A s \in Seq(T) : s \in C
<1> DEFINE S == {n \in Nat : \A s \in Seq(T) : Len(s) = n => s \in C}
<1>1. 0 \in S
  OBVIOUS
<1>2. ASSUME NEW n \in Nat, n \in S PROVE n + 1 \in S
  <2>1. SUFFICES ASSUME NEW s \in Seq(T), Len(s) = n + 1 PROVE s \in C
    OBVIOUS
  <2> DEFINE t == SubSeq(s, 1, n)
  <2>2. t \in Seq(T) /\ Len(t) = n
    BY <2>1
  <2>3. s = Append(t, s[n + 1]) /\ s[n + 1] \in T
    BY <2>1
  <2> HIDE DEF t
  <2>4. t \in C
    BY <1>2, <2>2
  <2>5. Append(t, s[n + 1]) \in C
    BY <2>2, <2>3, <2>4
  <2>6. QED
    BY <2>3, <2>5
<1> HIDE DEF S
<1>3. \A n \in Nat : n \in S
  BY <1>1, <1>2, Induction
<1>4. QED
  BY <1>3 DEF S

(* What is kept is of the kinds asked for, comes from the sequence, and      *)
(* leaves nothing of them behind.                                            *)
LEMMA OfKindMembers ==
    ASSUME NEW T, NEW s \in Seq(T), NEW ks
    PROVE  LET r == ofKind(s, ks)
           IN  /\ r \in Seq(T)
               /\ \A j \in DOMAIN r : r[j].k \in ks /\ \E i \in DOMAIN s : r[j] = s[i]
               /\ \A i \in DOMAIN s : s[i].k \in ks => \E j \in DOMAIN r : r[j] = s[i]
<1> DEFINE Held(a, r) ==
               /\ \A j \in DOMAIN r : r[j].k \in ks /\ \E i \in DOMAIN a : r[j] = a[i]
               /\ \A i \in DOMAIN a : a[i].k \in ks => \E j \in DOMAIN r : r[j] = a[i]
           C == {a \in Seq(T) : Held(a, ofKind(a, ks))}
<1>1. <<>> \in C
  BY OfKindNothing
<1>2. ASSUME NEW a \in Seq(T), a \in C, NEW c \in T PROVE Append(a, c) \in C
  <2> DEFINE r == ofKind(a, ks)
             b == Append(a, c)
  <2>1. r \in Seq(T) /\ ofKind(b, ks) = keep(r, c, ks) /\ Held(a, r)
    BY <1>2, OfKindAppend
  <2>2. b \in Seq(T) /\ Len(b) = Len(a) + 1 /\ b[Len(b)] = c /\ \A i \in DOMAIN a : i \in DOMAIN b /\ b[i] = a[i]
    OBVIOUS
  <2>3. \A i \in DOMAIN b : i \in DOMAIN a \/ i = Len(b)
    OBVIOUS
  <2>4. Len(b) \in DOMAIN b
    BY <2>2
  <2> HIDE DEF r, b
  <2>5. CASE c.k \in ks
    <3> DEFINE q == Append(r, c)
    <3>1. ofKind(b, ks) = q
      BY <2>1, <2>5 DEF keep
    <3>2. Len(q) \in DOMAIN q /\ q[Len(q)] = c /\ \A j \in DOMAIN r : j \in DOMAIN q /\ q[j] = r[j]
      BY <2>1
    <3>3. \A j \in DOMAIN q : j \in DOMAIN r \/ j = Len(q)
      BY <2>1
    <3> HIDE DEF q
    <3>4. \A j \in DOMAIN q : q[j].k \in ks /\ \E i \in DOMAIN b : q[j] = b[i]
      BY <2>1, <2>2, <2>4, <2>5, <3>2, <3>3, SMTT(30)
    <3>5. \A i \in DOMAIN b : b[i].k \in ks => \E j \in DOMAIN q : q[j] = b[i]
      BY <2>1, <2>2, <2>3, <3>2
    <3>6. QED
      BY <2>2, <3>1, <3>4, <3>5, Zenon DEF b
  <2>6. CASE c.k \notin ks
    <3>1. ofKind(b, ks) = r
      BY <2>1, <2>6 DEF keep
    <3>2. Held(b, r)
      BY <2>1, <2>2, <2>3, <2>6
    <3>3. QED
      BY <2>2, <3>1, <3>2, Zenon DEF b
  <2>7. QED
    BY <2>5, <2>6
<1> HIDE DEF C
<1>3. s \in C
  BY <1>1, <1>2, SeqInduction
<1>4. ofKind(s, ks) \in Seq(T)
  <2>1. CASE s = <<>>
    BY <2>1, OfKindNothing
  <2>2. CASE s # <<>>
    <3>1. s[1] \in T
      BY <2>2
    <3>2. QED
      BY <3>1, OfKindAppend
  <2>3. QED
    BY <2>1, <2>2
<1>5. QED
  BY <1>3, <1>4 DEF C

(* Taking kinds of what is of other kinds: only the common ones are left.    *)
LEMMA OfKindTwice ==
    ASSUME NEW T, NEW s \in Seq(T), NEW ks, NEW ls
    PROVE  ofKind(ofKind(s, ks), ls) = ofKind(s, ks \cap ls)
<1> DEFINE C == {a \in Seq(T) : ofKind(ofKind(a, ks), ls) = ofKind(a, ks \cap ls)}
<1>1. <<>> \in C
  BY OfKindNothing
<1>2. ASSUME NEW a \in Seq(T), a \in C, NEW c \in T PROVE Append(a, c) \in C
  <2> DEFINE r == ofKind(a, ks)
             q == ofKind(a, ks \cap ls)
  <2>1. r \in Seq(T) /\ q \in Seq(T) /\ ofKind(r, ls) = q
    BY <1>2, OfKindAppend
  <2>2. ofKind(Append(a, c), ks) = keep(r, c, ks) /\ ofKind(Append(a, c), ks \cap ls) = keep(q, c, ks \cap ls)
    BY OfKindAppend
  <2>3. ofKind(Append(r, c), ls) = keep(q, c, ls)
    BY <2>1, OfKindAppend
  <2> HIDE DEF r, q
  <2>4. ofKind(ofKind(Append(a, c), ks), ls) = ofKind(Append(a, c), ks \cap ls)
    BY <2>1, <2>2, <2>3, Zenon DEF keep
  <2>5. QED
    BY <2>4
<1> HIDE DEF C
<1>3. s \in C
  BY <1>1, <1>2, SeqInduction
<1>4. QED
  BY <1>3 DEF C

(* A sequence of the kinds asked for is kept whole, one of others dropped.   *)
LEMMA OfKindAll ==
    ASSUME NEW T, NEW s \in Seq(T), NEW ks
    PROVE  /\ (\A i \in DOMAIN s : s[i].k \in ks) => ofKind(s, ks) = s
           /\ (\A i \in DOMAIN s : s[i].k \notin ks) => ofKind(s, ks) = <<>>
<1> DEFINE C == {a \in Seq(T) : (\A i \in DOMAIN a : a[i].k \in ks) => ofKind(a, ks) = a}
<1>1. <<>> \in C
  BY OfKindNothing
<1>2. ASSUME NEW a \in Seq(T), a \in C, NEW c \in T PROVE Append(a, c) \in C
  <2> DEFINE b == Append(a, c)
  <2>0. b \in Seq(T)
    OBVIOUS
  <2> HIDE DEF b
  <2>1. SUFFICES ASSUME \A i \in DOMAIN b : b[i].k \in ks PROVE ofKind(b, ks) = b
    BY <2>0, Zenon DEF b
  <2> USE DEF b
  <2>2. Len(b) \in DOMAIN b /\ b[Len(b)] = c /\ \A i \in DOMAIN a : i \in DOMAIN b /\ b[i] = a[i]
    OBVIOUS
  <2>3. c.k \in ks /\ \A i \in DOMAIN a : a[i].k \in ks
    BY <2>1, <2>2, Zenon
  <2>4. ofKind(a, ks) = a
    BY <1>2, <2>3
  <2>5. QED
    BY <2>3, <2>4, OfKindAppend DEF keep
<1> HIDE DEF C
<1>3. s \in C
  BY <1>1, <1>2, SeqInduction
<1>4. ASSUME \A i \in DOMAIN s : s[i].k \notin ks PROVE ofKind(s, ks) = <<>>
  <2> DEFINE r == ofKind(s, ks)
  <2>1. r \in Seq(T) /\ \A j \in DOMAIN r : r[j].k \in ks /\ \E i \in DOMAIN s : r[j] = s[i]
    BY OfKindMembers
  <2> HIDE DEF r
  <2>2. DOMAIN r = {}
    BY <1>4, <2>1, Zenon
  <2>3. r = <<>>
    BY <2>1, <2>2
  <2>4. QED
    BY <2>3 DEF r
<1>5. QED
  BY <1>3, <1>4 DEF C

(* Keeping one part more at the end of a concatenation.                      *)
LEMMA KeepConcat ==
    ASSUME NEW T, NEW a \in Seq(T), NEW b \in Seq(T), NEW c \in T, NEW ks
    PROVE  keep(a \o b, c, ks) = a \o keep(b, c, ks)
<1>1. <<c>> \in Seq(T) /\ a \o b \in Seq(T)
  OBVIOUS
<1>2. Append(a \o b, c) = (a \o b) \o <<c>> /\ Append(b, c) = b \o <<c>>
  BY <1>1, AppendIsConcat
<1>3. Append(a \o b, c) = a \o Append(b, c)
  BY <1>1, <1>2, ConcatAssociative
<1>4. QED
  BY <1>3 DEF keep

(* The parts of a concatenation.                                             *)
LEMMA OfKindConcat ==
    ASSUME NEW T, NEW p \in Seq(T), NEW s \in Seq(T), NEW ks
    PROVE  ofKind(p \o s, ks) = ofKind(p, ks) \o ofKind(s, ks)
<1> DEFINE C == {a \in Seq(T) : ofKind(p \o a, ks) = ofKind(p, ks) \o ofKind(a, ks)}
           o == ofKind(p, ks)
<1>0. o \in Seq(T)
  BY OfKindMembers
<1> HIDE DEF o
<1>1. <<>> \in C
  <2>1. p \o <<>> = p /\ o \o <<>> = o
    BY <1>0
  <2>2. QED
    <3>1. ofKind(p \o <<>>, ks) = ofKind(p, ks) \o ofKind(<<>>, ks)
      BY <2>1, OfKindNothing, Zenon DEF o
    <3>2. QED
      BY <3>1
<1>2. ASSUME NEW a \in Seq(T), a \in C, NEW c \in T PROVE Append(a, c) \in C
  <2> DEFINE r == ofKind(a, ks)
             b == p \o a
  <2>1. b \in Seq(T) /\ p \o Append(a, c) = Append(b, c) /\ r \in Seq(T)
    BY OfKindMembers
  <2>2. ofKind(b, ks) = o \o r
    BY <1>2 DEF o
  <2> HIDE DEF b, r
  <2>3. ofKind(Append(b, c), ks) = keep(o \o r, c, ks)
    BY <2>1, <2>2, OfKindAppend
  <2>4. ofKind(Append(a, c), ks) = keep(r, c, ks)
    BY OfKindAppend DEF r
  <2>5. keep(o \o r, c, ks) = o \o keep(r, c, ks)
    <3>1. o \in Seq(T) /\ r \in Seq(T) /\ c \in T
      BY <1>0, <2>1
    <3>2. QED
      BY <3>1, KeepConcat
  <2>6. ofKind(p \o Append(a, c), ks) = o \o ofKind(Append(a, c), ks)
    BY <2>1, <2>3, <2>4, <2>5, Zenon
  <2>7. QED
    BY <2>6 DEF o
<1> HIDE DEF C
<1>3. s \in C
  BY <1>1, <1>2, SeqInduction
<1>4. QED
  BY <1>3 DEF C, o

(* d joins the sequences of s one by one.                                   *)
Joins(d, s) == d[0] = <<>> /\ \A i \in 1..Len(s) : d[i] = d[i - 1] \o s[i]

(* FlattenSeq joins the sequences in order.                                 *)
LEMMA FlattenRuns ==
    ASSUME NEW T, NEW s \in Seq(Seq(T))
    PROVE  \E d \in [0..Len(s) -> Seq(T)] : FlattenSeq(s) = d[Len(s)] /\ Joins(d, s)
<1> DEFINE D == Seq(T)
           n == Len(s)
           F == [p \in Nat \X D |-> IF p[1] \in 1..n THEN p[2] \o s[p[1]] ELSE <<>>]
           Fits(d) == d = [i \in 1..n |-> IF i = 1 THEN s[i] ELSE d[i - 1] \o s[i]]
           run == CHOOSE d : Fits(d)
<1>0. <<>> \in D /\ (\A d \in D, p \in D : d \o p \in D) /\ \A i \in 1..n : s[i] \in D
  OBVIOUS
<1>1. F \in [Nat \X D -> D]
  <2>1. ASSUME NEW p \in Nat \X D
        PROVE  (IF p[1] \in 1..n THEN p[2] \o s[p[1]] ELSE <<>>) \in D
    <3>1. p[2] \in D
      OBVIOUS
    <3> HIDE DEF D
    <3>2. QED
      BY <1>0, <3>1, Zenon
  <2>2. QED
    BY <2>1, Zenon
<1>2. \A i \in 1..n : \A g \in D : F[<<i, g>>] = g \o s[i]
  <2>1. ASSUME NEW i \in 1..n, NEW g \in D
        PROVE  F[<<i, g>>] = g \o s[i]
    <3>1. <<i, g>> \in Nat \X D /\ <<i, g>>[1] = i /\ <<i, g>>[2] = g
      OBVIOUS
    <3>2. QED
      BY <3>1, Zenon
  <2>2. QED
    BY <2>1
<1>3. n \in Nat
  OBVIOUS
<1> HIDE DEF F, D
<1>4. PICK e \in [0..n -> D] : e[0] = <<>> /\ \A i \in 1..n : e[i] = F[<<i, e[i - 1]>>]
  <2>1. \E e \in [0..n -> D] : Solves(e, <<>>, F, n)
    BY <1>0, <1>1, <1>3, Recurrence, Zenon
  <2>2. QED
    BY <2>1, Zenon DEF Solves
<1>5. \A i \in 1..n : e[i] = e[i - 1] \o s[i]
  <2> HIDE DEF n
  <2>1. \A i \in 1..n : i - 1 \in 0..n
    BY <1>3
  <2>2. \A i \in 1..n : e[i - 1] \in D
    BY <1>4, <2>1
  <2>3. QED
    BY <1>2, <1>4, <2>2, Zenon
<1>6. CASE n = 0
  <2>1. s = <<>> /\ FlattenSeq(s) = s
    BY <1>6 DEF FlattenSeq
  <2>2. FlattenSeq(s) = e[Len(s)] /\ Joins(e, s)
    BY <1>4, <1>5, <1>6, <2>1 DEF Joins
  <2>3. QED
    BY <1>4, <2>2 DEF D
<1>7. CASE n # 0
  <2>1. FlattenSeq(s) = run[n]
    BY <1>7, Zenon DEF FlattenSeq
  <2> HIDE DEF n
  <2>2. 1 \in 1..n /\ e[1] = s[1]
    <3>1. 1 \in 1..n /\ 1 - 1 = 0
      BY <1>3, <1>7
    <3>2. e[1] = <<>> \o s[1] /\ s[1] \in Seq(T)
      BY <1>0, <1>4, <1>5, <3>1 DEF D
    <3>3. QED
      BY <3>1, <3>2, ConcatEmptySeq
  <2> DEFINE g == [i \in 1..n |-> e[i]]
  <2>3. Fits(g)
    <3>1. \A i \in 1..n : g[i] = IF i = 1 THEN s[i] ELSE g[i - 1] \o s[i]
      <4>1. \A i \in 1..n : i # 1 => i - 1 \in 1..n
        BY <1>3
      <4>2. \A i \in 1..n : g[i] = e[i]
        OBVIOUS
      <4>3. \A i \in 1..n : i # 1 => g[i - 1] = e[i - 1]
        BY <4>1, <4>2, Zenon
      <4>4. QED
        BY <1>5, <2>2, <4>2, <4>3, Zenon
    <3>2. QED
      BY <3>1, Zenon
  <2>4. Fits(run)
    BY <2>3, Zenon
  <2> HIDE DEF run
  <2>5. \A i \in 1..n : run[i] = IF i = 1 THEN s[i] ELSE run[i - 1] \o s[i]
    BY <2>4, Zenon
  <2>6. \A i \in Nat : i + 1 <= n => run[i + 1] = e[i + 1]
    <3> DEFINE S == {i \in Nat : i + 1 <= n => run[i + 1] = e[i + 1]}
    <3>1. 0 \in S
      BY <2>2, <2>5
    <3>2. ASSUME NEW i \in Nat, i \in S PROVE i + 1 \in S
      <4>1. SUFFICES ASSUME (i + 1) + 1 <= n PROVE run[(i + 1) + 1] = e[(i + 1) + 1]
        OBVIOUS
      <4> DEFINE m == (i + 1) + 1
      <4>2. m \in 1..n /\ m # 1 /\ m - 1 = i + 1 /\ i + 1 <= n
        BY <1>3, <4>1
      <4>3. run[i + 1] = e[i + 1]
        BY <3>2, <4>2
      <4> HIDE DEF m
      <4>4. run[m] = run[m - 1] \o s[m] /\ e[m] = e[m - 1] \o s[m]
        BY <1>5, <2>5, <4>2, Zenon
      <4>5. run[m] = e[m]
        BY <4>2, <4>3, <4>4
      <4>6. QED
        BY <4>5 DEF m
    <3> HIDE DEF S
    <3>3. \A i \in Nat : i \in S
      BY <3>1, <3>2, Induction
    <3>4. QED
      BY <3>3 DEF S
  <2>7. run[n] = e[n]
    <3>1. n - 1 \in Nat /\ (n - 1) + 1 = n
      BY <1>3, <1>7
    <3>2. QED
      BY <2>6, <3>1
  <2>8. FlattenSeq(s) = e[Len(s)] /\ Joins(e, s)
    BY <1>4, <1>5, <2>1, <2>7 DEF Joins, n
  <2>9. QED
    BY <1>4, <2>8 DEF D, n
<1>8. QED
  BY <1>6, <1>7

(* What is joined comes from the sequences.                                  *)
LEMMA FlattenMembers ==
    ASSUME NEW T, NEW s \in Seq(Seq(T))
    PROVE  /\ FlattenSeq(s) \in Seq(T)
           /\ \A j \in DOMAIN FlattenSeq(s) : \E i \in DOMAIN s : \E l \in DOMAIN s[i] : FlattenSeq(s)[j] = s[i][l]
<1>1. PICK d \in [0..Len(s) -> Seq(T)] : FlattenSeq(s) = d[Len(s)] /\ Joins(d, s)
  BY FlattenRuns
<1> DEFINE n == Len(s)
           From(r) == \A j \in DOMAIN r : \E i \in DOMAIN s : \E l \in DOMAIN s[i] : r[j] = s[i][l]
           S == {m \in Nat : m <= n => From(d[m])}
<1>2. n \in Nat
  OBVIOUS
<1>3. 0 \in S
  BY <1>1 DEF Joins
<1>4. ASSUME NEW m \in Nat, m \in S PROVE m + 1 \in S
  <2>1. SUFFICES ASSUME m + 1 <= n PROVE From(d[m + 1])
    OBVIOUS
  <2>2. m + 1 \in 1..n /\ (m + 1) - 1 = m /\ m \in 0..n
    BY <1>2, <2>1
  <2> DEFINE p == d[m]
             q == s[m + 1]
  <2>3. p \in Seq(T) /\ q \in Seq(T) /\ d[m + 1] = p \o q
    <3>1. d[m] \in Seq(T) /\ s[m + 1] \in Seq(T)
      <4>1. m \in 0..Len(s) /\ m + 1 \in 1..Len(s)
        BY <2>2
      <4>2. d[m] \in Seq(T)
        BY <1>1, <4>1, Zenon
      <4>3. s[m + 1] \in Seq(T)
        BY <4>1
      <4>4. QED
        BY <4>2, <4>3
    <3>2. \A i \in 1..n : d[i] = d[i - 1] \o s[i]
      BY <1>1, Zenon DEF Joins
    <3> HIDE DEF n
    <3>3. d[m + 1] = d[(m + 1) - 1] \o s[m + 1]
      BY <2>2, <3>2, Zenon
    <3>4. QED
      BY <2>2, <3>1, <3>3
  <2>4. From(p) /\ m + 1 \in DOMAIN s
    BY <1>2, <1>4, <2>2
  <2> HIDE DEF p, n
  <2>5. ASSUME NEW j \in DOMAIN (p \o q)
        PROVE  \E i \in DOMAIN s : \E l \in DOMAIN s[i] : (p \o q)[j] = s[i][l]
    <3>1. CASE j \in DOMAIN p
      <4>1. (p \o q)[j] = p[j]
        BY <2>3, <3>1
      <4>2. QED
        BY <2>4, <3>1, <4>1, Zenon
    <3>2. CASE j \notin DOMAIN p
      <4>1. j - Len(p) \in DOMAIN q /\ (p \o q)[j] = q[j - Len(p)]
        BY <2>3, <3>2
      <4>2. QED
        BY <2>4, <4>1, Zenon
    <3>3. QED
      BY <3>1, <3>2
  <2>6. QED
    BY <2>3, <2>5
<1> HIDE DEF S
<1>5. \A m \in Nat : m \in S
  BY <1>3, <1>4, Induction
<1>6. n \in S
  BY <1>2, <1>5
<1>7. QED
  BY <1>1, <1>6, <1>2 DEF S

-----------------------------------------------------------------------------
(* What the model's state holds.                                            *)
Prov == [api : {"chat", "messages"}, router : BOOLEAN, preferred : {None, "openai"}, cache : BOOLEAN,
         env : {None} \cup STRING, stream : BOOLEAN, shared : BOOLEAN, model : Model]

(* What a turn may have ended with.                                         *)
Finishes == {"stop", "length", "content_filter", "tool_use", "other"}

Turn == [role : {"assistant"}, parts : Seq(Part), said : Reply, cut : BOOLEAN, usage : [prompt : Nat, cached : Nat], finish : Finishes]
Note == [role : {"user", "tool"}, parts : Seq(Part)]
Heard == [think : Seq(Block), text : Seq(STRING), calls : Seq(Seq(STRING))]

(* A sequence by its elements.                                              *)
LEMMA MapType ==
    ASSUME NEW S, NEW s, s \in Seq(S), NEW T, NEW f, DOMAIN f = DOMAIN s, f = [i \in DOMAIN s |-> f[i]],
           \A i \in DOMAIN s : f[i] \in T
    PROVE  f \in Seq(T) /\ Len(f) = Len(s)
<1>1. DOMAIN s = 1..Len(s) /\ Len(s) \in Nat
  OBVIOUS
<1>2. f = [i \in 1..Len(s) |-> f[i]] /\ \A i \in 1..Len(s) : f[i] \in T
  BY <1>1
<1>3. f \in [1..Len(s) -> T]
  BY <1>2, Zenon
<1>4. QED
  BY <1>1, <1>3

(* A sequence of one.                                                       *)
LEMMA One == \A T : \A c \in T : <<c>> \in Seq(T)
OBVIOUS

(* The literals are strings.                                                *)
LEMMA Literals ==
    <<"|">> \in Seq(STRING) /\ <<"{}">> \in Seq(STRING) /\ <<"feedback">> \in Seq(STRING)
    /\ <<"saw">> \in Seq(STRING) /\ <<"system">> \in Seq(STRING) /\ <<>> \in Seq(STRING)
<1>1. "|" \in STRING /\ "{}" \in STRING /\ "feedback" \in STRING /\ "saw" \in STRING /\ "system" \in STRING
  BY PiecesAssumption
<1>2. QED
  BY <1>1, One, EmptySeq

(* A part is made of a kind, a number and pieces.                           *)
LEMMA PartType == \A k \in Kinds, id \in Nat, x \in Seq(STRING) : part(k, id, x) \in Part
BY Zenon DEF part, Part

(* The end mark on every block.                                             *)
LEMMA EndedType ==
    ASSUME NEW think \in Seq(Block)
    PROVE  ended(think) \in Seq(Seq(STRING)) /\ DOMAIN ended(think) = DOMAIN think
           /\ \A i \in DOMAIN think : ended(think)[i] = Append(think[i].x, "|")
<1>1. \A i \in DOMAIN think : think[i].x \in Seq(STRING)
  <2>1. \A i \in DOMAIN think : think[i] \in Block
    OBVIOUS
  <2>2. \A b \in Block : b.x \in Seq(STRING)
    BY Zenon DEF Block
  <2>3. QED
    BY <2>1, <2>2
<1>2. "|" \in STRING
  BY PiecesAssumption
<1>3. \A i \in DOMAIN think : Append(think[i].x, "|") \in Seq(STRING)
  BY <1>1, <1>2
<1>4. /\ DOMAIN ended(think) = DOMAIN think /\ ended(think) = [i \in DOMAIN think |-> ended(think)[i]]
      /\ \A i \in DOMAIN think : ended(think)[i] = Append(think[i].x, "|")
  BY Zenon DEF ended
<1>5. \A i \in DOMAIN think : ended(think)[i] \in Seq(STRING)
  BY <1>3, <1>4
<1> DEFINE e == ended(think)
<1>6. e \in Seq(Seq(STRING))
  <2> HIDE DEF e
  <2>1. DOMAIN e = DOMAIN think /\ e = [i \in DOMAIN think |-> e[i]] /\ \A i \in DOMAIN think : e[i] \in Seq(STRING)
    BY <1>4, <1>5, Zenon DEF e
  <2>2. QED
    BY <2>1, MapType
<1>7. QED
  BY <1>4, <1>6

(* The parts of a reply.                                                    *)
LEMMA ResponseTypes ==
    ASSUME NEW think \in Seq(Block), NEW text \in Seq(STRING), NEW cs \in Seq(Seq(STRING))
    PROVE  /\ reasoningDetails(think) \in Seq(Part) /\ thinkingBlocks(think) \in Seq(Part)
           /\ words(text) \in Seq(Part)
           /\ chatCalls(cs) \in Seq(Part) /\ messagesCalls(cs) \in Seq(Part)
<1>1. FlattenSeq(ended(think)) \in Seq(STRING)
  BY EndedType, FlattenMembers
<1>2. "think" \in Kinds /\ "text" \in Kinds /\ "call" \in Kinds /\ 0 \in Nat
  BY DEF Kinds
<1>3. part("think", 0, FlattenSeq(ended(think))) \in Part
  BY <1>1, <1>2, PartType, Zenon
<1>4. reasoningDetails(think) \in Seq(Part)
  <2>1. CASE think = <<>>
    BY <2>1 DEF reasoningDetails
  <2>2. CASE think # <<>>
    BY <1>3, <2>2 DEF reasoningDetails
  <2>3. QED
    BY <2>1, <2>2
<1>5. thinkingBlocks(think) \in Seq(Part)
  <2>1. \A i \in DOMAIN think : ended(think)[i] \in Seq(STRING)
    BY EndedType
  <2>2. \A i \in DOMAIN think : part("think", 0, ended(think)[i]) \in Part
    BY <1>2, <2>1, PartType, Zenon
  <2>3. QED
    BY <2>2 DEF thinkingBlocks
<1>6. words(text) \in Seq(Part)
  <2>1. part("text", 0, text) \in Part
    BY <1>2, PartType, Zenon
  <2>2. QED
    BY <2>1 DEF words
<1>7. \A i \in DOMAIN cs : i \in Nat /\ cs[i] \in Seq(STRING) /\ rawOrEmptyObject(cs[i]) \in Seq(STRING)
  <2>1. \A i \in DOMAIN cs : i \in Nat /\ cs[i] \in Seq(STRING)
    OBVIOUS
  <2>2. QED
    BY <2>1, Literals, Zenon DEF rawOrEmptyObject
<1>8. \A i \in DOMAIN cs : part("call", i, cs[i]) \in Part /\ part("call", i, rawOrEmptyObject(cs[i])) \in Part
  BY <1>2, <1>7, PartType, Zenon
<1>9. chatCalls(cs) \in Seq(Part) /\ messagesCalls(cs) \in Seq(Part)
  <2>1. /\ DOMAIN chatCalls(cs) = DOMAIN cs /\ chatCalls(cs) = [i \in DOMAIN cs |-> chatCalls(cs)[i]]
        /\ \A i \in DOMAIN cs : chatCalls(cs)[i] = part("call", i, cs[i])
    BY Zenon DEF chatCalls
  <2>2. /\ DOMAIN messagesCalls(cs) = DOMAIN cs /\ messagesCalls(cs) = [i \in DOMAIN cs |-> messagesCalls(cs)[i]]
        /\ \A i \in DOMAIN cs : messagesCalls(cs)[i] = part("call", i, rawOrEmptyObject(cs[i]))
    BY Zenon DEF messagesCalls
  <2>3. chatCalls(cs) \in Seq(Part)
    BY <1>8, <2>1, MapType
  <2>4. messagesCalls(cs) \in Seq(Part)
    BY <1>8, <2>2, MapType
  <2>5. QED
    BY <2>3, <2>4
<1>10. QED
  BY <1>4, <1>5, <1>6, <1>9

(* What the model said, in parts, is well typed.                            *)
LEMMA SaidTypes ==
    ASSUME NEW p \in Prov, NEW h, h.think \in Seq(Block), h.text \in Seq(STRING), h.calls \in Seq(Seq(STRING))
    PROVE  toResponse(p, h) \in Seq(Part) /\ collectStream(p, h) \in Seq(Part)
<1> DEFINE t == reasoningDetails(h.think)
           u == thinkingBlocks(h.think)
           w == words(h.text)
           c == chatCalls(h.calls)
           m == messagesCalls(h.calls)
<1>1. t \in Seq(Part) /\ u \in Seq(Part) /\ w \in Seq(Part) /\ c \in Seq(Part) /\ m \in Seq(Part)
  BY ResponseTypes
<1>2. /\ toResponse(p, h) = IF p.api = "chat" THEN (w \o t) \o c ELSE (u \o w) \o m
      /\ collectStream(p, h) = IF p.api = "chat" THEN (t \o w) \o c ELSE (u \o w) \o m
  BY DEF toResponse, chatResponse, messagesResponse, collectStream, chatStreamEnd, messagesStreamEnd
<1> HIDE DEF t, u, w, c, m
<1>3. QED
  BY <1>1, <1>2

(* What a reply holds.                                                      *)
LEMMA ReplyFields == \A r \in Reply : r.think \in Seq(Block) /\ r.text \in Seq(STRING) /\ r.calls \in Seq(Seq(STRING)) /\ r.read \in Nat
BY Zenon DEF Reply

(* What the accumulators hold.                                              *)
LEMMA HeardFields == \A h \in Heard : h.think \in Seq(Block) /\ h.text \in Seq(STRING) /\ h.calls \in Seq(Seq(STRING))
BY Zenon DEF Heard

(* What a turn holds.                                                       *)
LEMMA TurnFields == \A m \in Turn : m.role = "assistant" /\ m.parts \in Seq(Part) /\ m.said \in Reply /\ m.cut \in BOOLEAN
BY Zenon DEF Turn

(* What a note holds: it is never a turn.                                   *)
LEMMA NoteFields == \A m \in Note : m.role \in {"user", "tool"} /\ m.role # "assistant" /\ m.parts \in Seq(Part)
<1>1. \A m \in Note : m.role \in {"user", "tool"} /\ m.parts \in Seq(Part)
  BY Zenon DEF Note
<1>2. QED
  BY <1>1

(* A turn that is said, as RunNative appends it.                            *)
LEMMA TurnType ==
    ASSUME prov \in Prov, NEW r \in Reply, NEW parts \in Seq(Part), NEW cut \in {TRUE, FALSE}
    PROVE  /\ assistantTurn(parts, r, cut) \in Turn
           /\ assistantTurn(parts, r, cut).parts = parts /\ assistantTurn(parts, r, cut).said = r
           /\ assistantTurn(parts, r, cut).role = "assistant" /\ assistantTurn(parts, r, cut).cut = cut
           /\ ~cut => assistantTurn(parts, r, cut).usage = [prompt |-> 10 + r.read, cached |-> r.read]
<1> DEFINE u == IF prov.api = "messages" THEN messagesUsage(counted(prov, r))
                ELSE IF cut THEN [prompt |-> 0, cached |-> 0] ELSE chatUsage(counted(prov, r))
           f == IF cut THEN "other" ELSE IF prov.api = "chat" THEN mapFinish(r.finish) ELSE mapStop(r.finish)
<1>1. r.read \in Nat /\ prov.api \in {"chat", "messages"}
  BY ReplyFields, Zenon DEF Prov
<1>2. u = [prompt |-> 10 + r.read, cached |-> r.read] \/ (cut /\ u = [prompt |-> 0, cached |-> 0])
  <2>1. CASE prov.api = "messages"
    BY <2>1 DEF messagesUsage, counted
  <2>2. CASE prov.api = "chat"
    BY <2>2 DEF chatUsage, counted
  <2>3. QED
    BY <1>1, <2>1, <2>2
<1>3. u \in [prompt : Nat, cached : Nat]
  <2> HIDE DEF u
  <2>1. QED
    BY <1>1, <1>2
<1>4. f \in Finishes
  <2>1. mapFinish(r.finish) \in Finishes
    BY DEF mapFinish, Finishes
  <2>2. mapStop(r.finish) \in Finishes
    BY DEF mapStop, Finishes
  <2>3. "other" \in Finishes
    BY DEF Finishes
  <2>4. QED
    BY <2>1, <2>2, <2>3
<1> DEFINE t == assistantTurn(parts, r, cut)
<1>5. t = [role |-> "assistant", parts |-> parts, said |-> r, cut |-> cut, usage |-> u, finish |-> f]
  BY Zenon DEF assistantTurn
<1> HIDE DEF u, f, t
<1>6. t.parts = parts /\ t.said = r /\ t.role = "assistant" /\ t.cut = cut /\ t.usage = u
  BY <1>5
<1>7. t \in Turn
  <2>1. "assistant" \in {"assistant"}
    OBVIOUS
  <2>2. QED
    BY <1>3, <1>4, <1>5, <2>1 DEF Turn
<1>8. QED
  BY <1>2, <1>6, <1>7 DEF t

(* A turn without its reasoning.                                            *)
scrubbed(m) == [m EXCEPT !.parts = ofKind(@, Kinds \ {"think"}), !.said.think = <<>>]

(* A scrubbed turn is a turn, and scrubbing it again changes nothing.       *)
LEMMA Scrubbed ==
    ASSUME NEW m \in Turn
    PROVE  /\ scrubbed(m) \in Turn
           /\ scrubbed(m).parts = ofKind(m.parts, Kinds \ {"think"})
           /\ scrubbed(m).said = [m.said EXCEPT !.think = <<>>]
           /\ scrubbed(m).usage = m.usage /\ scrubbed(m).cut = m.cut
           /\ scrubbed(scrubbed(m)) = scrubbed(m)
<1> DEFINE K == Kinds \ {"think"}
           p == ofKind(m.parts, K)
           s == [m.said EXCEPT !.think = <<>>]
<1>1. m.parts \in Seq(Part) /\ m.said \in Reply
  BY TurnFields
<1>2. p \in Seq(Part) /\ ofKind(p, K) = p
  <2>1. p \in Seq(Part)
    BY <1>1, OfKindMembers
  <2>2. K \cap K = K
    OBVIOUS
  <2> HIDE DEF K
  <2>3. ofKind(p, K) = p
    BY <1>1, <2>2, OfKindTwice
  <2>4. QED
    BY <2>1, <2>3
<1>3. s \in Reply /\ s.think = <<>> /\ [s EXCEPT !.think = <<>>] = s
  <2>1. <<>> \in Seq(Block)
    OBVIOUS
  <2>2. QED
    BY <1>1, <2>1, Zenon DEF Reply
<1>4. scrubbed(m) = [m EXCEPT !.parts = p, !.said = s]
  BY Zenon DEF scrubbed
<1> HIDE DEF p, s
<1>5. scrubbed(m) \in Turn /\ scrubbed(m).parts = p /\ scrubbed(m).said = s
      /\ scrubbed(m).usage = m.usage /\ scrubbed(m).cut = m.cut
  BY <1>2, <1>3, <1>4, Zenon DEF Turn
<1> DEFINE t == scrubbed(m)
<1>6. scrubbed(t) = [t EXCEPT !.parts = ofKind(t.parts, K), !.said = [t.said EXCEPT !.think = <<>>]]
  BY Zenon DEF scrubbed
<1> HIDE DEF t, K
<1>7. scrubbed(t) = [t EXCEPT !.parts = t.parts, !.said = t.said]
  BY <1>2, <1>3, <1>5, <1>6 DEF t
<1>8. t \in Turn
  BY <1>5 DEF t
<1>9. [t EXCEPT !.parts = t.parts, !.said = t.said] = t
  BY <1>8, Zenon DEF Turn
<1>10. QED
  BY <1>5, <1>7, <1>9 DEF t, p, s, K

(* The transcript without its reasoning: each turn without its own, once.   *)
LEMMA ScrubbedTranscript ==
    ASSUME NEW c \in Seq(Turn \cup Note)
    PROVE  LET d == dropReplayReasoning(c)
           IN  /\ d \in Seq(Turn \cup Note) /\ Len(d) = Len(c)
               /\ \A i \in 1..Len(c) : d[i] = IF c[i].role # "assistant" THEN c[i] ELSE scrubbed(c[i])
               /\ \A i \in 1..Len(c) : d[i].role = c[i].role /\ (c[i].role = "assistant" => c[i] \in Turn)
               /\ dropReplayReasoning(d) = d
<1> DEFINE each(m) == IF m.role # "assistant" THEN m ELSE scrubbed(m)
<1>1. \A e : dropReplayReasoning(e) = [i \in DOMAIN e |-> each(e[i])]
  BY Zenon DEF dropReplayReasoning, scrubbed
<1>2. ASSUME NEW m \in Turn \cup Note
      PROVE  each(m) \in Turn \cup Note /\ each(m).role = m.role /\ each(each(m)) = each(m) /\ (m.role = "assistant" => m \in Turn)
  <2>1. CASE m \in Turn
    <3>1. m.role = "assistant" /\ scrubbed(m) \in Turn /\ scrubbed(m).role = "assistant" /\ scrubbed(scrubbed(m)) = scrubbed(m)
      BY <2>1, Scrubbed, TurnFields
    <3>2. QED
      BY <2>1, <3>1
  <2>2. CASE m \in Note
    <3>1. m.role # "assistant"
      BY <2>2, NoteFields
    <3>2. QED
      BY <2>2, <3>1
  <2>3. QED
    BY <2>1, <2>2
<1> HIDE DEF each
<1> DEFINE d == dropReplayReasoning(c)
<1>3. d = [i \in 1..Len(c) |-> each(c[i])] /\ Len(c) \in Nat /\ \A i \in 1..Len(c) : c[i] \in Turn \cup Note
  <2>1. DOMAIN c = 1..Len(c)
    OBVIOUS
  <2>2. QED
    BY <1>1, <2>1
<1>4. d \in Seq(Turn \cup Note) /\ Len(d) = Len(c) /\ DOMAIN d = 1..Len(c)
  <2> HIDE DEF d
  <2>1. \A i \in 1..Len(c) : each(c[i]) \in Turn \cup Note
    BY <1>2, <1>3
  <2>2. QED
    BY <1>3, <2>1
<1>5. \A i \in 1..Len(c) : d[i] = each(c[i])
  BY <1>3, Zenon
<1>6. dropReplayReasoning(d) = [i \in 1..Len(c) |-> each(d[i])]
  BY <1>1, <1>4
<1>7. \A i \in 1..Len(c) : each(d[i]) = d[i]
  BY <1>2, <1>3, <1>5
<1>8. dropReplayReasoning(d) = d
  <2> HIDE DEF d
  <2>1. dropReplayReasoning(d) = [i \in 1..Len(c) |-> d[i]]
    BY <1>6, <1>7
  <2>2. QED
    BY <1>4, <2>1
<1> HIDE DEF d
<1>9. QED
  BY <1>2, <1>3, <1>4, <1>5, <1>8 DEF each, d

-----------------------------------------------------------------------------
(* The stream: what has been heard is a prefix of what is said.             *)
soFar(x, k) == SubSeq(x, 1, k)

(* A prefix grows piece by piece up to the whole.                           *)
LEMMA PrefixGrows ==
    ASSUME NEW T, NEW x \in Seq(T)
    PROVE  /\ soFar(x, 0) = <<>> /\ soFar(x, Len(x)) = x
           /\ \A k \in 0..Len(x) : soFar(x, k) \in Seq(T)
           /\ \A k \in Nat : k < Len(x) => x[k + 1] \in T /\ soFar(x, k + 1) = Append(soFar(x, k), x[k + 1])
<1>1. soFar(x, 0) = <<>> /\ soFar(x, Len(x)) = x
  BY DEF soFar
<1>2. \A k \in 0..Len(x) : soFar(x, k) \in Seq(T)
  BY DEF soFar
<1>3. ASSUME NEW k \in Nat, k < Len(x)
      PROVE  x[k + 1] \in T /\ soFar(x, k + 1) = Append(soFar(x, k), x[k + 1])
  <2>1. x[k + 1] \in T
    BY <1>3
  <2>2. /\ Len(SubSeq(x, 1, k)) = k /\ SubSeq(x, 1, k) \in Seq(T) /\ \A i \in 1..k : SubSeq(x, 1, k)[i] = x[i]
        /\ Len(SubSeq(x, 1, k + 1)) = k + 1 /\ SubSeq(x, 1, k + 1) \in Seq(T) /\ \A i \in 1..(k + 1) : SubSeq(x, 1, k + 1)[i] = x[i]
    BY <1>3
  <2> DEFINE a == SubSeq(x, 1, k)
             b == SubSeq(x, 1, k + 1)
  <2>3. Append(a, x[k + 1]) \in Seq(T) /\ Len(Append(a, x[k + 1])) = k + 1
        /\ Append(a, x[k + 1])[k + 1] = x[k + 1] /\ \A i \in 1..k : Append(a, x[k + 1])[i] = a[i]
    BY <2>1, <2>2
  <2> HIDE DEF a, b
  <2>4. \A i \in 1..(k + 1) : b[i] = Append(a, x[k + 1])[i]
    <3>1. \A i \in 1..(k + 1) : i = k + 1 \/ i \in 1..k
      BY <1>3
    <3>2. QED
      BY <2>2, <2>3, <3>1 DEF a, b
  <2>5. b \in Seq(T) /\ Len(b) = k + 1
    BY <2>2 DEF b
  <2>6. b = Append(a, x[k + 1])
    BY <2>3, <2>4, <2>5, SeqEqual
  <2>7. QED
    BY <2>1, <2>6 DEF a, b, soFar
<1>4. QED
  BY <1>1, <1>2, <1>3

(* The pieces sent so far, from none of them to all.                       *)
LEMMA PrefixOf ==
    \A x \in Seq(STRING) :
        /\ Len(x) \in Nat /\ soFar(x, 0) = <<>> /\ soFar(x, Len(x)) = x
        /\ \A k \in 0..Len(x) : soFar(x, k) \in Seq(STRING)
        /\ \A k \in Nat : k < Len(x) => x[k + 1] \in STRING /\ soFar(x, k + 1) = Append(soFar(x, k), x[k + 1])
<1> SUFFICES ASSUME NEW x \in Seq(STRING)
             PROVE  /\ Len(x) \in Nat /\ soFar(x, 0) = <<>> /\ soFar(x, Len(x)) = x
                    /\ \A k \in 0..Len(x) : soFar(x, k) \in Seq(STRING)
                    /\ \A k \in Nat : k < Len(x) => x[k + 1] \in STRING /\ soFar(x, k + 1) = Append(soFar(x, k), x[k + 1])
  BY Zenon
<1>1. Len(x) \in Nat
  OBVIOUS
<1> DEFINE T == STRING
<1>2. /\ soFar(x, 0) = <<>> /\ soFar(x, Len(x)) = x
      /\ \A k \in 0..Len(x) : soFar(x, k) \in Seq(T)
      /\ \A k \in Nat : k < Len(x) => x[k + 1] \in T /\ soFar(x, k + 1) = Append(soFar(x, k), x[k + 1])
  <2>1. x \in Seq(T)
    OBVIOUS
  <2> HIDE DEF T
  <2>2. soFar(x, 0) = <<>> /\ soFar(x, Len(x)) = x
    BY <2>1, PrefixGrows
  <2>3. \A k \in 0..Len(x) : soFar(x, k) \in Seq(T)
    BY <2>1, PrefixGrows
  <2>4. ASSUME NEW k \in Nat, k < Len(x)
        PROVE  x[k + 1] \in T /\ soFar(x, k + 1) = Append(soFar(x, k), x[k + 1])
    BY <2>1, <2>4, PrefixGrows
  <2>5. QED
    BY <2>2, <2>3, <2>4
<1>3. QED
  BY <1>1, <1>2, Zenon

(* What of a call's arguments or of the text has come, per block.           *)
CallsTrack(cs, n, h) ==
    /\ h \in Seq(Seq(STRING)) /\ Len(h) <= Len(cs)
    /\ \A i \in 1..Len(cs) : n[i] \in 0..Len(cs[i]) /\ IF i <= Len(h) THEN h[i] = soFar(cs[i], n[i]) ELSE n[i] = 0

ThinkTracks(ts, n, h) ==
    /\ h \in Seq(Block) /\ Len(h) <= Len(ts)
    /\ \A i \in 1..Len(ts) : n[i] \in 0..Len(ts[i].x)
                             /\ IF i <= Len(h) THEN n[i] > 0 /\ h[i] = [ts[i] EXCEPT !.x = soFar(@, n[i])] ELSE n[i] = 0

(* A fragment of call i.                                                    *)
joined(c, i, piece) ==
    [j \in 1..(IF Len(c) > i THEN Len(c) ELSE i) |-> (IF j <= Len(c) THEN c[j] ELSE <<>>) \o (IF j = i THEN <<piece>> ELSE <<>>)]

(* What a fragment of a call does to the calls heard.                       *)
LEMMA CallFragment ==
    ASSUME NEW cs \in Seq(Seq(STRING)), NEW n, NEW h, CallsTrack(cs, n, h),
           NEW i \in 1..Len(cs), n[i] < Len(cs[i]),
           NEW m, m[i] = n[i] + 1, \A j \in 1..Len(cs) : j # i => m[j] = n[j]
    PROVE  CallsTrack(cs, m, joined(h, i, cs[i][n[i] + 1]))
<1> DEFINE piece == cs[i][n[i] + 1]
           L == IF Len(h) > i THEN Len(h) ELSE i
           g == joined(h, i, piece)
           E(j) == (IF j <= Len(h) THEN h[j] ELSE <<>>) \o (IF j = i THEN <<piece>> ELSE <<>>)
<1>1. h \in Seq(Seq(STRING)) /\ Len(h) \in Nat /\ Len(h) <= Len(cs) /\ Len(cs) \in Nat
  BY DEF CallsTrack
<1>2. \A j \in 1..Len(cs) : cs[j] \in Seq(STRING) /\ n[j] \in 0..Len(cs[j]) /\ (j <= Len(h) => h[j] = soFar(cs[j], n[j])) /\ (j > Len(h) => n[j] = 0)
  BY <1>1 DEF CallsTrack
<1>3. L \in 1..Len(cs) /\ L >= Len(h) /\ L >= i
  BY <1>1
<1>4. n[i] \in Nat /\ cs[i] \in Seq(STRING) /\ piece \in STRING /\ Len(cs[i]) \in Nat
      /\ soFar(cs[i], n[i] + 1) = Append(soFar(cs[i], n[i]), piece) /\ soFar(cs[i], n[i] + 1) \in Seq(STRING)
  <2>1. n[i] \in Nat /\ n[i] \in 0..Len(cs[i]) /\ cs[i] \in Seq(STRING) /\ n[i] + 1 \in 0..Len(cs[i]) /\ Len(cs[i]) \in Nat
    BY <1>2
  <2>2. QED
    BY <2>1, PrefixOf
<1>5. \A j \in 1..Len(cs) : soFar(cs[j], 0) = <<>> /\ soFar(cs[j], n[j]) \in Seq(STRING)
  BY <1>2, PrefixOf, Zenon
<1>6. g = [j \in 1..L |-> E(j)]
  BY Zenon DEF joined
<1> HIDE DEF g, L, piece
<1>7. \A j \in 1..L : E(j) = soFar(cs[j], m[j]) /\ E(j) \in Seq(STRING)
  <2> SUFFICES ASSUME NEW j \in 1..L PROVE E(j) = soFar(cs[j], m[j]) /\ E(j) \in Seq(STRING)
    BY Zenon
  <2>1. j \in 1..Len(cs)
    BY <1>1, <1>3
  <2> DEFINE a == IF j <= Len(h) THEN h[j] ELSE <<>>
  <2>2. a = soFar(cs[j], n[j]) /\ a \in Seq(STRING)
    <3>1. CASE j <= Len(h)
      BY <1>2, <1>5, <2>1, <3>1
    <3>2. CASE ~(j <= Len(h))
      <4>1. n[j] = 0
        BY <1>1, <1>2, <2>1, <3>2
      <4>2. QED
        BY <1>5, <2>1, <3>2, <4>1
    <3>3. QED
      BY <3>1, <3>2
  <2> HIDE DEF a
  <2>3. CASE j = i
    <3>1. E(j) = a \o <<piece>>
      BY <2>3, Zenon DEF a
    <3>2. a \o <<piece>> = Append(a, piece)
      BY <1>4, <2>2, AppendIsConcat
    <3>3. soFar(cs[j], m[j]) = Append(a, piece)
      BY <1>4, <2>2, <2>3
    <3> HIDE DEF E
    <3>4. QED
      BY <1>4, <2>2, <2>3, <3>1, <3>2, <3>3
  <2>4. CASE j # i
    <3>1. E(j) = a \o <<>>
      BY <2>4, Zenon DEF a
    <3>2. a \o <<>> = a
      BY <2>2
    <3>3. m[j] = n[j]
      BY <2>1, <2>4
    <3> HIDE DEF E
    <3>4. QED
      BY <2>2, <3>1, <3>2, <3>3
  <2>5. QED
    BY <2>3, <2>4
<1> HIDE DEF E
<1>8. g \in Seq(Seq(STRING)) /\ Len(g) = L /\ \A j \in 1..L : g[j] = soFar(cs[j], m[j])
  BY <1>3, <1>6, <1>7
<1>9. ASSUME NEW j \in 1..Len(cs)
      PROVE  m[j] \in 0..Len(cs[j]) /\ IF j <= Len(g) THEN g[j] = soFar(cs[j], m[j]) ELSE m[j] = 0
  <2>1. m[j] \in 0..Len(cs[j])
    <3>1. CASE j = i
      BY <1>4, <3>1
    <3>2. CASE j # i
      BY <1>2, <3>2
    <3>3. QED
      BY <3>1, <3>2
  <2>2. j <= Len(g) => g[j] = soFar(cs[j], m[j])
    BY <1>3, <1>8
  <2>3. ~(j <= Len(g)) => m[j] = 0
    <3>1. ASSUME ~(j <= Len(g)) PROVE m[j] = 0
      <4>1. j # i /\ j > Len(h)
        BY <1>1, <1>3, <1>8, <3>1
      <4>2. m[j] = n[j] /\ n[j] = 0
        BY <1>2, <4>1
      <4>3. QED
        BY <4>2
    <3>2. QED
      BY <3>1
  <2>4. QED
    BY <2>1, <2>2, <2>3
<1>10. QED
  BY <1>3, <1>8, <1>9 DEF CallsTrack, g, piece

(* An entry more is a block, and so is one that grows.                      *)
LEMMA AddedType ==
    ASSUME NEW h \in Seq(Block), NEW b \in Block, NEW piece \in STRING
    PROVE  addReasoning(h, b, piece) \in Seq(Block)
<1> DEFINE same == {i \in DOMAIN h : ~keyless(b) /\ reasoningKey(h[i]) = reasoningKey(b)}
           g == [i \in DOMAIN h |-> IF i \in same THEN [h[i] EXCEPT !.x = Append(@, piece)] ELSE h[i]]
<1>1. \A e \in Block : e.x \in Seq(STRING)
  BY Zenon DEF Block
<1>2. \A x \in Seq(STRING) : Append(x, piece) \in Seq(STRING)
  BY AppendProperties, Zenon
<1>3. \A e \in Block : \A x \in Seq(STRING) : [e EXCEPT !.x = x] \in Block
  BY Zenon DEF Block
<1>4. \A i \in DOMAIN h : h[i] \in Block
  OBVIOUS
<1>5. \A i \in DOMAIN h : g[i] \in Block
  BY <1>1, <1>2, <1>3, <1>4, Zenon
<1>6. DOMAIN g = DOMAIN h /\ g = [i \in DOMAIN h |-> g[i]]
  BY Zenon
<1>7. <<piece>> \in Seq(STRING)
  BY One
<1>8. [b EXCEPT !.x = <<piece>>] \in Block
  BY <1>3, <1>7, Zenon
<1>9. addReasoning(h, b, piece) = IF same = {} THEN Append(h, [b EXCEPT !.x = <<piece>>]) ELSE g
  BY Zenon DEF addReasoning
<1> HIDE DEF g, same
<1>10. g \in Seq(Block)
  BY <1>5, <1>6, MapType
<1>11. Append(h, [b EXCEPT !.x = <<piece>>]) \in Seq(Block)
  BY <1>8
<1>12. QED
  BY <1>9, <1>10, <1>11, Zenon

(* A fragment of reasoning block i: its blocks start in order, none is      *)
(* mistaken for another, and one that comes alone needs no identity.        *)
LEMMA ThinkFragment ==
    ASSUME NEW ts \in Seq(Block), NEW n, NEW h, ThinkTracks(ts, n, h),
           NEW i \in 1..Len(ts), n[i] < Len(ts[i].x),
           \A j \in 1..Len(ts) : j < i => n[j] > 0,
           \A j, k \in 1..Len(ts) : ~keyless(ts[j]) /\ reasoningKey(ts[j]) = reasoningKey(ts[k]) => j = k,
           \A j \in 1..Len(ts) : keyless(ts[j]) => Len(ts[j].x) = 1,
           NEW m, m[i] = n[i] + 1, \A j \in 1..Len(ts) : j # i => m[j] = n[j]
    PROVE  ThinkTracks(ts, m, addReasoning(h, ts[i], ts[i].x[n[i] + 1]))
<1> DEFINE piece == ts[i].x[n[i] + 1]
           same == {j \in DOMAIN h : ~keyless(ts[i]) /\ reasoningKey(h[j]) = reasoningKey(ts[i])}
           g == addReasoning(h, ts[i], piece)
           At(j, k) == [ts[j] EXCEPT !.x = soFar(@, k)]
<1>1. h \in Seq(Block) /\ Len(h) \in Nat /\ Len(h) <= Len(ts) /\ Len(ts) \in Nat /\ DOMAIN h = 1..Len(h)
  BY DEF ThinkTracks
<1>2. \A j \in 1..Len(ts) : /\ n[j] \in 0..Len(ts[j].x) /\ (j <= Len(h) => n[j] > 0 /\ h[j] = At(j, n[j])) /\ (j > Len(h) => n[j] = 0)
  <2>1. \A j \in 1..Len(ts) : n[j] \in 0..Len(ts[j].x)
                             /\ IF j <= Len(h) THEN n[j] > 0 /\ h[j] = At(j, n[j]) ELSE n[j] = 0
    BY Zenon DEF ThinkTracks
  <2> HIDE DEF At
  <2>2. QED
    BY <1>1, <2>1
<1>3. \A j \in 1..Len(ts) : ts[j] \in Block /\ ts[j].x \in Seq(STRING)
  <2>1. \A j \in 1..Len(ts) : ts[j] \in Block
    OBVIOUS
  <2>2. \A b \in Block : b.x \in Seq(STRING)
    BY Zenon DEF Block
  <2>3. QED
    BY <2>1, <2>2, Zenon
<1>4. \A j \in 1..Len(ts) : \A k : /\ At(j, k).type = ts[j].type /\ At(j, k).by = ts[j].by /\ At(j, k).n = ts[j].n
                                     /\ At(j, k).x = soFar(ts[j].x, k)
  BY <1>3, Zenon DEF Block
<1>5. \A j \in 1..Len(ts) : \A k \in 0..Len(ts[j].x) : At(j, k) \in Block
  <2>1. \A j \in 1..Len(ts) : \A k \in 0..Len(ts[j].x) : soFar(ts[j].x, k) \in Seq(STRING)
    BY <1>3, PrefixOf, Zenon
  <2>2. QED
    BY <1>3, <2>1, Zenon DEF Block
<1>6. n[i] \in Nat /\ n[i] + 1 \in 0..Len(ts[i].x) /\ piece \in STRING
      /\ soFar(ts[i].x, n[i] + 1) = Append(soFar(ts[i].x, n[i]), piece)
  <2>1. n[i] \in Nat /\ n[i] + 1 \in 0..Len(ts[i].x) /\ ts[i].x \in Seq(STRING)
    <3>1. n[i] \in 0..Len(ts[i].x) /\ ts[i].x \in Seq(STRING)
      BY <1>2, <1>3
    <3>2. Len(ts[i].x) \in Nat
      BY <3>1
    <3>3. QED
      BY <3>1, <3>2
  <2>2. QED
    BY <2>1, PrefixOf
<1>7. i <= Len(h) + 1
  <2>1. CASE i > Len(h) + 1
    <3>1. Len(h) + 1 \in 1..Len(ts) /\ Len(h) + 1 < i /\ Len(h) + 1 > Len(h)
      BY <1>1, <2>1
    <3>2. n[Len(h) + 1] > 0 /\ n[Len(h) + 1] = 0
      BY <1>2, <3>1
    <3>3. QED
      BY <3>2
  <2>2. QED
    BY <1>1, <2>1
<1>8. \A j \in 1..Len(h) : j \in 1..Len(ts) /\ h[j] = At(j, n[j])
  <2>1. \A j \in 1..Len(h) : j \in 1..Len(ts) /\ j <= Len(h)
    BY <1>1
  <2>2. QED
    BY <1>2, <2>1, Zenon
<1> HIDE DEF At
<1>9. \A j \in 1..Len(h) : (~keyless(ts[i]) /\ reasoningKey(h[j]) = reasoningKey(ts[i])) <=> j = i
  <2> SUFFICES ASSUME NEW j \in 1..Len(h) PROVE (~keyless(ts[i]) /\ reasoningKey(h[j]) = reasoningKey(ts[i])) <=> j = i
    OBVIOUS
  <2>1. j \in 1..Len(ts) /\ h[j].type = ts[j].type /\ h[j].by = ts[j].by /\ h[j].n = ts[j].n
    BY <1>4, <1>8
  <2>2. reasoningKey(h[j]) = reasoningKey(ts[j])
    BY <2>1, Zenon DEF reasoningKey
  <2>3. j = i => ~keyless(ts[i])
    <3> SUFFICES ASSUME j = i, keyless(ts[i]) PROVE FALSE
      OBVIOUS
    <3>1. n[i] > 0 /\ n[i] \in Nat
      BY <1>1, <1>2, <1>6
    <3>2. Len(ts[i].x) = 1
      BY Zenon
    <3>3. QED
      BY <3>1, <3>2
  <2>4. QED
    BY <2>1, <2>2, <2>3
<1> HIDE DEF piece
<1>10. CASE i = Len(h) + 1
  <2>1. same = {}
    BY <1>1, <1>9, <1>10
  <2>2. g = Append(h, [ts[i] EXCEPT !.x = <<piece>>])
    BY <2>1, Zenon DEF addReasoning
  <2>3. n[i] = 0
    BY <1>1, <1>2, <1>10
  <2>4. <<piece>> = soFar(ts[i].x, 1)
    <3>1. soFar(ts[i].x, 0) = <<>>
      BY <1>3, PrefixOf, Zenon
    <3>2. soFar(ts[i].x, 0 + 1) = Append(<<>>, piece)
      BY <1>6, <2>3, <3>1
    <3>3. QED
      BY <3>2
  <2>5. [ts[i] EXCEPT !.x = <<piece>>] = At(i, 1)
    BY <2>4, Zenon DEF At
  <2>6. At(i, 1) \in Block
    BY <1>5, <1>6, <2>3
  <2>7. g \in Seq(Block) /\ Len(g) = i /\ g[i] = At(i, 1) /\ \A j \in 1..Len(h) : g[j] = h[j]
    <3>1. g = Append(h, At(i, 1))
      BY <2>2, <2>5
    <3> HIDE DEF g
    <3>2. QED
      BY <1>1, <1>10, <2>6, <3>1
  <2> HIDE DEF g
  <2>8. ASSUME NEW j \in 1..Len(ts)
        PROVE  m[j] \in 0..Len(ts[j].x) /\ (IF j <= Len(g) THEN m[j] > 0 /\ g[j] = At(j, m[j]) ELSE m[j] = 0)
    <3>1. CASE j = i
      BY <1>6, <2>3, <2>7, <3>1
    <3>2. CASE j # i
      <4>1. m[j] = n[j]
        BY <3>2
      <4>2. j <= Len(g) => j \in 1..Len(h)
        BY <1>1, <1>10, <2>7, <3>2
      <4>3. j <= Len(g) => g[j] = h[j] /\ n[j] > 0 /\ h[j] = At(j, n[j])
        BY <1>1, <1>2, <1>8, <2>7, <4>2
      <4>4. ~(j <= Len(g)) => n[j] = 0
        BY <1>1, <1>2, <1>10, <2>7
      <4>5. QED
        BY <1>2, <4>1, <4>3, <4>4
    <3>3. QED
      BY <3>1, <3>2
  <2>9. QED
    BY <1>1, <2>7, <2>8, SMTT(30) DEF ThinkTracks, At, g, piece
<1>11. CASE i # Len(h) + 1
  <2>1. i \in 1..Len(h) /\ same = {i}
    BY <1>1, <1>7, <1>9, <1>11
  <2>2. g = [j \in DOMAIN h |-> IF j \in same THEN [h[j] EXCEPT !.x = Append(@, piece)] ELSE h[j]]
    <3>1. same # {}
      BY <2>1
    <3>2. QED
      BY <3>1, Zenon DEF addReasoning
  <2>3. g = [j \in 1..Len(h) |-> IF j = i THEN [h[j] EXCEPT !.x = Append(@, piece)] ELSE h[j]]
    <3> HIDE DEF same, g
    <3>1. \A j \in 1..Len(h) : j \in same <=> j = i
      BY <2>1
    <3>2. QED
      BY <1>1, <2>2, <3>1
  <2>4. [h[i] EXCEPT !.x = Append(@, piece)] = At(i, n[i] + 1)
    <3>1. h[i] = At(i, n[i])
      BY <1>8, <2>1
    <3>2. Append(h[i].x, piece) = soFar(ts[i].x, n[i] + 1)
      BY <1>4, <1>6, <3>1
    <3>3. [At(i, n[i]) EXCEPT !.x = soFar(ts[i].x, n[i] + 1)] = At(i, n[i] + 1)
      BY <1>3, Zenon DEF At, Block
    <3>4. QED
      BY <3>1, <3>2, <3>3, Zenon
  <2> HIDE DEF g
  <2>5. \A j \in 1..Len(h) : g[j] = At(j, m[j])
    BY <1>8, <2>1, <2>3, <2>4
  <2>6. \A j \in 1..Len(h) : At(j, m[j]) \in Block
    BY <1>2, <1>5, <1>6, <1>8
  <2>7. g \in Seq(Block) /\ Len(g) = Len(h)
    <3>1. DOMAIN g = 1..Len(h) /\ g = [j \in 1..Len(h) |-> g[j]]
      BY <2>3, Zenon
    <3>2. \A j \in 1..Len(h) : g[j] \in Block
      BY <2>5, <2>6
    <3>3. QED
      BY <1>1, <3>1, <3>2, MapType, Zenon
  <2>8. ASSUME NEW j \in 1..Len(ts)
        PROVE  m[j] \in 0..Len(ts[j].x) /\ (IF j <= Len(g) THEN m[j] > 0 /\ g[j] = At(j, m[j]) ELSE m[j] = 0)
    <3>1. CASE j = i
      BY <1>6, <2>1, <2>5, <2>7, <3>1
    <3>2. CASE j # i
      <4>1. m[j] = n[j] /\ n[j] \in 0..Len(ts[j].x) /\ j \in Nat
        BY <1>2, <3>2
      <4>2. j <= Len(h) => g[j] = At(j, m[j]) /\ n[j] > 0
        <5>1. j <= Len(h) => j \in 1..Len(h)
          BY <1>1
        <5>2. QED
          BY <1>2, <2>5, <5>1
      <4>3. j > Len(h) => n[j] = 0
        BY <1>2
      <4>4. QED
        BY <1>1, <2>7, <4>1, <4>2, <4>3
    <3>3. QED
      BY <3>1, <3>2
  <2>9. QED
    BY <1>1, <2>7, <2>8 DEF ThinkTracks, At, g, piece
<1>12. QED
  BY <1>10, <1>11

(* What has come of the answer that is under way.                           *)
Hearing(r, n, h) ==
    /\ n \in [Blocks(r) -> Nat] /\ h \in Heard
    /\ unsplit(r) => ThinkTracks(r.think, [i \in 1..Len(r.think) |-> n[<<"think", i>>]], h.think)
    /\ IF r.text = <<>> THEN h.text = <<>>
       ELSE n[<<"text", 1>>] \in 0..Len(r.text) /\ h.text = soFar(r.text, n[<<"text", 1>>])
    /\ CallsTrack(r.calls, [i \in 1..Len(r.calls) |-> n[<<"call", i>>]], h.calls)

(* The blocks of a reply and their pieces.                                  *)
LEMMA BlocksOf ==
    ASSUME NEW r \in Reply
    PROVE  /\ \A i : <<"think", i>> \in Blocks(r) <=> i \in 1..Len(r.think)
           /\ \A i : <<"call", i>> \in Blocks(r) <=> i \in 1..Len(r.calls)
           /\ r.text # <<>> => <<"text", 1>> \in Blocks(r)
           /\ \A i : piecesOf(r, <<"think", i>>) = r.think[i].x
           /\ \A i : piecesOf(r, <<"call", i>>) = r.calls[i]
           /\ \A i : piecesOf(r, <<"text", i>>) = r.text
           /\ \A b \in Blocks(r) :
                 \/ b[1] = "think" /\ b[2] \in 1..Len(r.think) /\ b = <<"think", b[2]>>
                 \/ b[1] = "text" /\ b[2] = 1 /\ b = <<"text", 1>> /\ r.text # <<>>
                 \/ b[1] = "call" /\ b[2] \in 1..Len(r.calls) /\ b = <<"call", b[2]>>
<1>1. r.think \in Seq(Block) /\ r.calls \in Seq(Seq(STRING)) /\ DOMAIN r.think = 1..Len(r.think) /\ DOMAIN r.calls = 1..Len(r.calls)
  BY ReplyFields
<1> DEFINE T == 1..(IF r.text = <<>> THEN 0 ELSE 1)
<1>2. T = IF r.text = <<>> THEN {} ELSE {1}
  <2>1. 1..0 = {} /\ 1..1 = {1}
    OBVIOUS
  <2>2. QED
    BY <2>1, Zenon
<1>3. Blocks(r) = ({"think"} \X (1..Len(r.think))) \cup ({"text"} \X T) \cup ({"call"} \X (1..Len(r.calls)))
  BY <1>1 DEF Blocks
<1> HIDE DEF T
<1>4. /\ \A i : <<"think", i>> \in Blocks(r) <=> i \in 1..Len(r.think)
      /\ \A i : <<"call", i>> \in Blocks(r) <=> i \in 1..Len(r.calls)
      /\ r.text # <<>> => <<"text", 1>> \in Blocks(r)
  BY <1>2, <1>3
<1>5. /\ \A i : piecesOf(r, <<"think", i>>) = r.think[i].x
      /\ \A i : piecesOf(r, <<"call", i>>) = r.calls[i]
      /\ \A i : piecesOf(r, <<"text", i>>) = r.text
  BY DEF piecesOf
<1>6. \A b \in Blocks(r) :
                 \/ b[1] = "think" /\ b[2] \in 1..Len(r.think) /\ b = <<"think", b[2]>>
                 \/ b[1] = "text" /\ b[2] = 1 /\ b = <<"text", 1>> /\ r.text # <<>>
                 \/ b[1] = "call" /\ b[2] \in 1..Len(r.calls) /\ b = <<"call", b[2]>>
  BY <1>2, <1>3
<1>7. QED
  BY <1>4, <1>5, <1>6, Zenon

(* Nothing is heard of an answer that has not begun.                        *)
LEMMA HearingStarts ==
    ASSUME NEW r \in Replies
    PROVE  Hearing(r, [b \in Blocks(r) |-> 0], Silence)
<1>1. r \in Reply /\ r.think \in Seq(Block) /\ r.text \in Seq(STRING) /\ r.calls \in Seq(Seq(STRING))
  BY WireAssumption, ReplyFields
<1> DEFINE n == [b \in Blocks(r) |-> 0]
           t == [i \in 1..Len(r.think) |-> n[<<"think", i>>]]
           c == [i \in 1..Len(r.calls) |-> n[<<"call", i>>]]
<1>2. (\A i \in 1..Len(r.think) : t[i] = 0) /\ (\A i \in 1..Len(r.calls) : c[i] = 0) /\ (r.text # <<>> => n[<<"text", 1>>] = 0)
  BY <1>1, BlocksOf, Zenon
<1>3. n \in [Blocks(r) -> Nat]
  OBVIOUS
<1> HIDE DEF n, t, c
<1>4. Silence \in Heard /\ Silence.think = <<>> /\ Silence.text = <<>> /\ Silence.calls = <<>>
  BY DEF Silence, Heard
<1>5. ThinkTracks(r.think, t, <<>>)
  <2>1. \A b \in Block : b.x \in Seq(STRING) /\ Len(b.x) \in Nat
    <3>1. \A b \in Block : b.x \in Seq(STRING)
      BY Zenon DEF Block
    <3>2. QED
      BY <3>1
  <2>2. \A i \in 1..Len(r.think) : Len(r.think[i].x) \in Nat
    <3>1. \A i \in 1..Len(r.think) : r.think[i] \in Block
      BY <1>1
    <3>2. QED
      BY <2>1, <3>1, Zenon
  <2>3. Len(r.think) \in Nat
    BY <1>1
  <2>4. QED
    BY <1>2, <2>2, <2>3 DEF ThinkTracks
<1>6. CallsTrack(r.calls, c, <<>>)
  <2>1. \A i \in 1..Len(r.calls) : Len(r.calls[i]) \in Nat
    BY <1>1
  <2>2. Len(r.calls) \in Nat
    BY <1>1
  <2>3. QED
    BY <1>2, <2>1, <2>2 DEF CallsTrack
<1>7. r.text # <<>> => n[<<"text", 1>>] \in 0..Len(r.text) /\ <<>> = soFar(r.text, n[<<"text", 1>>])
  <2>1. Len(r.text) \in Nat /\ soFar(r.text, 0) = <<>>
    BY <1>1, PrefixOf
  <2>2. QED
    BY <1>2, <2>1
<1>8. Hearing(r, n, Silence)
  BY <1>3, <1>4, <1>5, <1>6, <1>7, Zenon DEF Hearing, t, c
<1>9. QED
  BY <1>8 DEF n

(* What a fragment adds.                                                    *)
added(r, n, h, b) ==
    LET piece == piecesOf(r, b)[n[b] + 1]
    IN  CASE b[1] = "think" -> [h EXCEPT !.think = addReasoning(@, r.think[b[2]], piece)]
          [] b[1] = "text"  -> [h EXCEPT !.text = Append(@, piece)]
          [] b[1] = "call"  -> [h EXCEPT !.calls = joined(@, b[2], piece)]

(* A fragment is heard where it belongs.                                    *)
LEMMA HearingGrows ==
    ASSUME NEW r \in Replies, NEW n, NEW h, Hearing(r, n, h), NEW b \in Blocks(r), n[b] < Len(piecesOf(r, b)),
           \A d \in Blocks(r) : d[1] = b[1] /\ d[2] < b[2] => n[d] > 0 \/ piecesOf(r, d) = <<>>
    PROVE  Hearing(r, [n EXCEPT ![b] = @ + 1], added(r, n, h, b))
<1>1. r \in Reply /\ r.think \in Seq(Block) /\ r.text \in Seq(STRING) /\ r.calls \in Seq(Seq(STRING))
  BY WireAssumption, ReplyFields
<1>2. n \in [Blocks(r) -> Nat] /\ h \in Heard /\ h.think \in Seq(Block) /\ h.text \in Seq(STRING) /\ h.calls \in Seq(Seq(STRING))
  BY HeardFields DEF Hearing
<1> DEFINE m == [n EXCEPT ![b] = @ + 1]
           g == added(r, n, h, b)
           T(k) == [i \in 1..Len(r.think) |-> k[<<"think", i>>]]
           C(k) == [i \in 1..Len(r.calls) |-> k[<<"call", i>>]]
           X(k, t) == IF r.text = <<>> THEN t = <<>>
                      ELSE k[<<"text", 1>>] \in 0..Len(r.text) /\ t = soFar(r.text, k[<<"text", 1>>])
<1>3. (unsplit(r) => ThinkTracks(r.think, T(n), h.think)) /\ X(n, h.text) /\ CallsTrack(r.calls, C(n), h.calls)
  BY Zenon DEF Hearing
<1>4. m \in [Blocks(r) -> Nat] /\ m[b] = n[b] + 1 /\ \A d \in Blocks(r) : d # b => m[d] = n[d]
  BY <1>2
<1>5. \/ b[1] = "think" /\ b[2] \in 1..Len(r.think) /\ b = <<"think", b[2]>>
      \/ b[1] = "text" /\ b[2] = 1 /\ b = <<"text", 1>> /\ r.text # <<>>
      \/ b[1] = "call" /\ b[2] \in 1..Len(r.calls) /\ b = <<"call", b[2]>>
  BY <1>1, BlocksOf
<1> HIDE DEF m
<1>6. CASE b[1] = "think" /\ b[2] \in 1..Len(r.think) /\ b = <<"think", b[2]>>
  <2> DEFINE i == b[2]
             t == addReasoning(h.think, r.think[i], r.think[i].x[T(n)[i] + 1])
  <2>1. piecesOf(r, b) = r.think[i].x
    BY <1>1, <1>6, BlocksOf
  <2>2. \A j \in 1..Len(r.think) : T(n)[j] = n[<<"think", j>>] /\ T(m)[j] = m[<<"think", j>>]
    BY Zenon
  <2>3. \A j \in 1..Len(r.think) : <<"think", j>> \in Blocks(r) /\ piecesOf(r, <<"think", j>>) = r.think[j].x /\ r.think[j].x # <<>>
    <3>1. \A j \in 1..Len(r.think) : r.think[j].x # <<>>
      <4>1. DOMAIN r.think = 1..Len(r.think)
        BY <1>1
      <4>2. QED
        BY <4>1, RepliesAssumption
    <3>2. QED
      BY <1>1, <3>1, BlocksOf, Zenon
  <2>4. \A j, k \in 1..Len(r.think) : ~keyless(r.think[j]) /\ reasoningKey(r.think[j]) = reasoningKey(r.think[k]) => j = k
    <3>1. DOMAIN r.think = 1..Len(r.think)
      BY <1>1
    <3>2. ASSUME NEW j \in 1..Len(r.think), NEW k \in 1..Len(r.think), reasoningKey(r.think[j]) = reasoningKey(r.think[k])
          PROVE r.think[j].type = r.think[k].type /\ r.think[j].by = r.think[k].by /\ r.think[j].n = r.think[k].n
      BY <3>2 DEF reasoningKey
    <3>3. QED
      BY <3>1, <3>2, RepliesAssumption
  <2>5. i \in 1..Len(r.think) /\ T(n)[i] = n[b] /\ T(m)[i] = n[b] + 1 /\ n[b] < Len(r.think[i].x)
    BY <1>4, <1>6, <2>1, <2>2
  <2>6. \A j \in 1..Len(r.think) : j # i => T(m)[j] = T(n)[j]
    <3>1. \A j \in 1..Len(r.think) : j # i => <<"think", j>> # b
      BY <1>6
    <3>2. QED
      BY <1>4, <2>2, <2>3, <3>1, Zenon
  <2>7. \A j \in 1..Len(r.think) : j < i => T(n)[j] > 0
    <3> SUFFICES ASSUME NEW j \in 1..Len(r.think), j < i PROVE T(n)[j] > 0
      BY Zenon
    <3>1. LET d == <<"think", j>> IN d[1] = b[1] /\ d[2] < b[2] /\ d \in Blocks(r) /\ piecesOf(r, d) # <<>>
      BY <1>6, <2>3
    <3>2. n[<<"think", j>>] > 0
      BY <3>1
    <3>3. QED
      BY <2>2, <3>2
  <2> DEFINE Tn == T(n)
             Tm == T(m)
  <2>8. ASSUME unsplit(r) PROVE ThinkTracks(r.think, Tm, t)
    <3>0. \A j \in 1..Len(r.think) : keyless(r.think[j]) => Len(r.think[j].x) = 1
      <4>1. DOMAIN r.think = 1..Len(r.think)
        BY <1>1
      <4>2. QED
        BY <2>8, <4>1, Zenon DEF unsplit
    <3>1. Tm[i] = Tn[i] + 1 /\ Tn[i] < Len(r.think[i].x)
      BY <2>5
    <3>2. /\ \A j \in 1..Len(r.think) : j # i => Tm[j] = Tn[j]
          /\ \A j \in 1..Len(r.think) : j < i => Tn[j] > 0
          /\ ThinkTracks(r.think, Tn, h.think)
      BY <1>3, <2>6, <2>7, <2>8, Zenon
    <3>3. t = addReasoning(h.think, r.think[i], r.think[i].x[Tn[i] + 1])
      OBVIOUS
    <3> HIDE DEF Tn, Tm, t
    <3>4. QED
      BY <1>1, <2>4, <2>5, <3>0, <3>1, <3>2, <3>3, ThinkFragment
  <2>9. g = [h EXCEPT !.think = t]
    <3>1. r.think[i].x[T(n)[i] + 1] = piecesOf(r, b)[n[b] + 1]
      BY <2>1, <2>5
    <3> HIDE DEF T
    <3>2. QED
      BY <1>6, <3>1, Zenon DEF added
  <2>10. t \in Seq(Block)
    <3>1. r.think[i] \in Block /\ r.think[i].x \in Seq(STRING)
      <4>1. r.think[i] \in Block
        BY <1>1, <2>5
      <4>2. QED
        BY <4>1, Zenon DEF Block
    <3>2. T(n)[i] \in Nat /\ T(n)[i] < Len(r.think[i].x)
      BY <1>2, <2>5
    <3> DEFINE piece == r.think[i].x[T(n)[i] + 1]
    <3>3. piece \in STRING
      BY <3>1, <3>2, PrefixOf, Zenon
    <3> HIDE DEF piece
    <3>4. addReasoning(h.think, r.think[i], piece) \in Seq(Block)
      BY <1>2, <3>1, <3>3, AddedType
    <3>5. QED
      BY <3>4 DEF piece
  <2> HIDE DEF t, g
  <2>11. g \in Heard /\ g.think = t /\ g.text = h.text /\ g.calls = h.calls
    BY <1>2, <2>9, <2>10, Zenon DEF Heard
  <2>12. X(m, g.text)
    <3>1. r.text # <<>> => m[<<"text", 1>>] = n[<<"text", 1>>]
      <4>1. <<"text", 1>> # b
        BY <1>6
      <4>2. QED
        BY <1>1, <1>4, <4>1, BlocksOf, Zenon
    <3>2. QED
      BY <1>3, <2>11, <3>1
  <2>13. C(m) = C(n)
    <3>1. \A j \in 1..Len(r.calls) : <<"call", j>> # b /\ <<"call", j>> \in Blocks(r)
      <4>1. \A j : <<"call", j>> # b
        BY <1>6
      <4>2. QED
        BY <1>1, <4>1, BlocksOf, Zenon
    <3>2. \A j \in 1..Len(r.calls) : m[<<"call", j>>] = n[<<"call", j>>]
      BY <1>4, <3>1, Zenon
    <3>3. QED
      BY <3>2
  <2>14. QED
    BY <1>3, <1>4, <2>8, <2>11, <2>12, <2>13, Zenon DEF Hearing, m, g
<1>7. CASE b[1] = "text" /\ b[2] = 1 /\ b = <<"text", 1>> /\ r.text # <<>>
  <2> DEFINE t == Append(h.text, r.text[n[b] + 1])
  <2>1. piecesOf(r, b) = r.text
    BY <1>1, <1>7, BlocksOf
  <2>2. g = [h EXCEPT !.text = t]
    BY <1>7, <2>1 DEF added
  <2>3. n[b] \in 0..Len(r.text) /\ h.text = soFar(r.text, n[b]) /\ n[b] \in Nat
    BY <1>2, <1>3, <1>7
  <2>4. t = soFar(r.text, n[b] + 1) /\ t \in Seq(STRING) /\ n[b] + 1 \in 0..Len(r.text)
    <3>1. n[b] < Len(r.text) /\ Len(r.text) \in Nat
      BY <1>1, <2>1
    <3>2. n[b] + 1 \in 0..Len(r.text)
      BY <2>3, <3>1
    <3>3. soFar(r.text, n[b] + 1) = Append(soFar(r.text, n[b]), r.text[n[b] + 1]) /\ soFar(r.text, n[b] + 1) \in Seq(STRING)
      BY <1>1, <2>3, <3>1, <3>2, PrefixOf
    <3>4. QED
      BY <2>3, <3>2, <3>3
  <2> HIDE DEF t, g
  <2>5. g \in Heard /\ g.think = h.think /\ g.text = t /\ g.calls = h.calls
    BY <1>2, <2>2, <2>4, Zenon DEF Heard
  <2>6. X(m, g.text)
    <3>1. m[<<"text", 1>>] = n[b] + 1
      BY <1>4, <1>7
    <3>2. QED
      BY <1>7, <2>4, <2>5, <3>1
  <2>7. T(m) = T(n) /\ C(m) = C(n)
    <3>1. (\A j : <<"call", j>> # b) /\ (\A j : <<"think", j>> # b)
      BY <1>7
    <3>2. (\A j \in 1..Len(r.calls) : <<"call", j>> \in Blocks(r)) /\ (\A j \in 1..Len(r.think) : <<"think", j>> \in Blocks(r))
      BY <1>1, BlocksOf, Zenon
    <3>3. /\ \A j \in 1..Len(r.calls) : m[<<"call", j>>] = n[<<"call", j>>]
          /\ \A j \in 1..Len(r.think) : m[<<"think", j>>] = n[<<"think", j>>]
      BY <1>4, <3>1, <3>2, Zenon
    <3>4. QED
      BY <3>3
  <2>8. QED
    BY <1>3, <1>4, <2>5, <2>6, <2>7, Zenon DEF Hearing, m, g
<1>8. CASE b[1] = "call" /\ b[2] \in 1..Len(r.calls) /\ b = <<"call", b[2]>>
  <2> DEFINE i == b[2]
             t == joined(h.calls, i, r.calls[i][C(n)[i] + 1])
  <2>1. piecesOf(r, b) = r.calls[i]
    BY <1>1, <1>8, BlocksOf
  <2>2. \A j \in 1..Len(r.calls) : C(n)[j] = n[<<"call", j>>] /\ C(m)[j] = m[<<"call", j>>] /\ <<"call", j>> \in Blocks(r)
    BY <1>1, BlocksOf, Zenon
  <2>5. i \in 1..Len(r.calls) /\ C(n)[i] = n[b] /\ C(m)[i] = n[b] + 1 /\ n[b] < Len(r.calls[i])
    BY <1>4, <1>8, <2>1, <2>2
  <2>6. \A j \in 1..Len(r.calls) : j # i => C(m)[j] = C(n)[j]
    <3>1. \A j \in 1..Len(r.calls) : j # i => <<"call", j>> # b
      BY <1>8
    <3>2. QED
      BY <1>4, <2>2, <3>1, Zenon
  <2> DEFINE Cn == C(n)
             Cm == C(m)
  <2>8. CallsTrack(r.calls, Cm, t)
    <3>1. Cm[i] = Cn[i] + 1 /\ Cn[i] < Len(r.calls[i])
      BY <2>5
    <3>2. /\ \A j \in 1..Len(r.calls) : j # i => Cm[j] = Cn[j]
          /\ CallsTrack(r.calls, Cn, h.calls)
      BY <1>3, <2>6, Zenon
    <3>3. t = joined(h.calls, i, r.calls[i][Cn[i] + 1])
      OBVIOUS
    <3> HIDE DEF Cn, Cm, t
    <3>4. QED
      BY <1>1, <2>5, <3>1, <3>2, <3>3, CallFragment
  <2>9. g = [h EXCEPT !.calls = t]
    <3>1. r.calls[i][C(n)[i] + 1] = piecesOf(r, b)[n[b] + 1]
      BY <2>1, <2>5
    <3>2. b[1] # "think" /\ b[1] # "text"
      BY <1>8
    <3> HIDE DEF C
    <3>3. QED
      BY <1>8, <3>1, <3>2, Zenon DEF added
  <2>10. t \in Seq(Seq(STRING))
    BY <2>8, Zenon DEF CallsTrack
  <2> HIDE DEF t, g
  <2>11. g \in Heard /\ g.think = h.think /\ g.text = h.text /\ g.calls = t
    BY <1>2, <2>9, <2>10, Zenon DEF Heard
  <2>12. X(m, g.text)
    <3>1. r.text # <<>> => m[<<"text", 1>>] = n[<<"text", 1>>]
      <4>1. <<"text", 1>> # b
        BY <1>8
      <4>2. QED
        BY <1>1, <1>4, <4>1, BlocksOf, Zenon
    <3>2. QED
      BY <1>3, <2>11, <3>1
  <2>13. T(m) = T(n)
    <3>1. \A j \in 1..Len(r.think) : <<"think", j>> # b /\ <<"think", j>> \in Blocks(r)
      <4>1. \A j : <<"think", j>> # b
        BY <1>8
      <4>2. QED
        BY <1>1, <4>1, BlocksOf, Zenon
    <3>2. \A j \in 1..Len(r.think) : m[<<"think", j>>] = n[<<"think", j>>]
      BY <1>4, <3>1, Zenon
    <3>3. QED
      BY <3>2
  <2>14. QED
    BY <1>3, <1>4, <2>8, <2>11, <2>12, <2>13, Zenon DEF Hearing, m, g
<1>9. QED
  BY <1>5, <1>6, <1>7, <1>8 DEF m, g

(* The whole answer has been heard once every block has been sent.          *)
LEMMA HearingEnds ==
    ASSUME NEW r \in Replies, NEW n, NEW h, Hearing(r, n, h), \A b \in Blocks(r) : n[b] = Len(piecesOf(r, b))
    PROVE  (unsplit(r) => h.think = r.think) /\ h.text = r.text
           /\ [i \in 1..Len(r.calls) |-> IF i \in DOMAIN h.calls THEN h.calls[i] ELSE <<>>] = r.calls
<1>1. r \in Reply /\ r.think \in Seq(Block) /\ r.text \in Seq(STRING) /\ r.calls \in Seq(Seq(STRING))
  BY WireAssumption, ReplyFields
<1>2. h.think \in Seq(Block) /\ h.text \in Seq(STRING) /\ h.calls \in Seq(Seq(STRING))
  BY HeardFields DEF Hearing
<1>3. ASSUME unsplit(r) PROVE h.think = r.think
  <2> DEFINE t == [i \in 1..Len(r.think) |-> n[<<"think", i>>]]
  <2>1. \A i \in 1..Len(r.think) : t[i] = Len(r.think[i].x)
    BY <1>1, BlocksOf, Zenon
  <2>2. ThinkTracks(r.think, t, h.think)
    BY <1>3, Zenon DEF Hearing
  <2> HIDE DEF t
  <2>3. \A i \in 1..Len(r.think) : r.think[i] \in Block /\ r.think[i].x \in Seq(STRING) /\ r.think[i].x # <<>>
    <3>1. DOMAIN r.think = 1..Len(r.think) /\ \A i \in 1..Len(r.think) : r.think[i] \in Block
      BY <1>1
    <3>2. \A b \in Block : b.x \in Seq(STRING)
      BY Zenon DEF Block
    <3>3. QED
      BY <3>1, <3>2, RepliesAssumption
  <2>4. \A i \in 1..Len(r.think) : soFar(r.think[i].x, t[i]) = r.think[i].x /\ t[i] # 0
    <3>1. \A x \in Seq(STRING) : x # <<>> => Len(x) # 0
      OBVIOUS
    <3>2. \A i \in 1..Len(r.think) : soFar(r.think[i].x, t[i]) = r.think[i].x
      BY <2>1, <2>3, PrefixOf, Zenon
    <3>3. \A i \in 1..Len(r.think) : t[i] # 0
      BY <2>1, <2>3, <3>1, Zenon
    <3>4. QED
      BY <3>2, <3>3, Zenon
  <2>5. \A i \in 1..Len(r.think) : [r.think[i] EXCEPT !.x = r.think[i].x] = r.think[i]
    BY <2>3, Zenon DEF Block
  <2>6. \A i \in 1..Len(r.think) : i <= Len(h.think) /\ h.think[i] = r.think[i]
    <3>1. \A i \in 1..Len(r.think) : i <= Len(h.think) /\ h.think[i] = [r.think[i] EXCEPT !.x = soFar(r.think[i].x, t[i])]
      BY <2>2, <2>4, Zenon DEF ThinkTracks
    <3>2. \A i \in 1..Len(r.think) : [r.think[i] EXCEPT !.x = soFar(r.think[i].x, t[i])] = r.think[i]
      BY <2>4, <2>5, Zenon
    <3>3. QED
      BY <3>1, <3>2, Zenon
  <2>7. Len(h.think) = Len(r.think)
    <3>1. Len(h.think) <= Len(r.think) /\ Len(h.think) \in Nat /\ Len(r.think) \in Nat
      BY <1>1, <1>2, <2>2 DEF ThinkTracks
    <3>2. Len(r.think) # 0 => Len(r.think) \in 1..Len(r.think)
      BY <3>1
    <3>3. Len(r.think) # 0 => Len(r.think) <= Len(h.think)
      BY <2>6, <3>2
    <3>4. QED
      BY <3>1, <3>3
  <2>8. QED
    BY <1>1, <1>2, <2>6, <2>7, SeqEqual
<1>4. h.text = r.text
  <2>1. CASE r.text = <<>>
    BY <2>1 DEF Hearing
  <2>2. CASE r.text # <<>>
    <3>1. h.text = soFar(r.text, n[<<"text", 1>>])
      BY <2>2 DEF Hearing
    <3>2. n[<<"text", 1>>] = Len(r.text)
      BY <1>1, <2>2, BlocksOf
    <3>3. QED
      BY <1>1, <3>1, <3>2, PrefixOf
  <2>3. QED
    BY <2>1, <2>2
<1>5. [i \in 1..Len(r.calls) |-> IF i \in DOMAIN h.calls THEN h.calls[i] ELSE <<>>] = r.calls
  <2> DEFINE t == [i \in 1..Len(r.calls) |-> n[<<"call", i>>]]
             e(i) == IF i \in DOMAIN h.calls THEN h.calls[i] ELSE <<>>
  <2>1. \A i \in 1..Len(r.calls) : t[i] = Len(r.calls[i])
    BY <1>1, BlocksOf, Zenon
  <2>2. CallsTrack(r.calls, t, h.calls)
    BY Zenon DEF Hearing
  <2> HIDE DEF t
  <2>3. \A i \in 1..Len(r.calls) : IF i <= Len(h.calls) THEN h.calls[i] = soFar(r.calls[i], t[i]) ELSE t[i] = 0
    BY <2>2, Zenon DEF CallsTrack
  <2>4. \A i \in 1..Len(r.calls) : r.calls[i] \in Seq(STRING) /\ soFar(r.calls[i], t[i]) = r.calls[i]
    <3>1. \A i \in 1..Len(r.calls) : r.calls[i] \in Seq(STRING)
      BY <1>1
    <3>2. QED
      BY <2>1, <3>1, PrefixOf, Zenon
  <2>5. \A i \in 1..Len(r.calls) : e(i) = r.calls[i]
    <3>1. \A i \in 1..Len(r.calls) : i \in DOMAIN h.calls <=> i <= Len(h.calls)
      BY <1>1, <1>2
    <3>2. \A x \in Seq(STRING) : Len(x) = 0 => x = <<>>
      OBVIOUS
    <3>3. QED
      BY <2>1, <2>3, <2>4, <3>1, <3>2, Zenon
  <2> HIDE DEF e
  <2>6. [i \in 1..Len(r.calls) |-> e(i)] = r.calls
    <3>1. DOMAIN r.calls = 1..Len(r.calls) /\ r.calls = [i \in DOMAIN r.calls |-> r.calls[i]]
      BY <1>1
    <3>2. [i \in 1..Len(r.calls) |-> e(i)] = [i \in 1..Len(r.calls) |-> r.calls[i]]
      BY <2>5, Zenon
    <3>3. QED
      BY <3>1, <3>2
  <2>7. QED
    BY <2>6 DEF e
<1>6. QED
  BY <1>3, <1>4, <1>5

-----------------------------------------------------------------------------
(* A turn as it was said: its reasoning, its text and its calls.            *)
AllOf(s, k) == \A i \in DOMAIN s : s[i].k = k

Sorts(a, j, b, k, c, l) ==
    ofKind((a \o b) \o c, {j}) = a /\ ofKind((a \o b) \o c, {k}) = b /\ ofKind((a \o b) \o c, {l}) = c

(* Three runs of parts of three kinds.                                      *)
LEMMA ThreeKinds ==
    ASSUME NEW T, NEW a \in Seq(T), NEW b \in Seq(T), NEW c \in Seq(T), NEW j, NEW k, NEW l,
           AllOf(a, j), AllOf(b, k), AllOf(c, l), j # k, k # l, j # l
    PROVE  Sorts(a, j, b, k, c, l)
<1>1. a \o b \in Seq(T)
  OBVIOUS
<1>2. \A ks : ofKind((a \o b) \o c, ks) = (ofKind(a, ks) \o ofKind(b, ks)) \o ofKind(c, ks)
  <2> SUFFICES ASSUME NEW ks PROVE ofKind((a \o b) \o c, ks) = (ofKind(a, ks) \o ofKind(b, ks)) \o ofKind(c, ks)
    OBVIOUS
  <2> DEFINE ab == a \o b
  <2>1. ofKind(ab, ks) = ofKind(a, ks) \o ofKind(b, ks)
    BY OfKindConcat
  <2>2. ab \in Seq(T)
    BY <1>1
  <2> HIDE DEF ab
  <2>3. ofKind(ab \o c, ks) = ofKind(ab, ks) \o ofKind(c, ks)
    BY <2>2, OfKindConcat, SMTT(30)
  <2>4. QED
    BY <2>1, <2>3 DEF ab
<1>3. ofKind(a, {j}) = a /\ ofKind(a, {k}) = <<>> /\ ofKind(a, {l}) = <<>>
  BY OfKindAll DEF AllOf
<1>4. ofKind(b, {j}) = <<>> /\ ofKind(b, {k}) = b /\ ofKind(b, {l}) = <<>>
  BY OfKindAll DEF AllOf
<1>5. ofKind(c, {j}) = <<>> /\ ofKind(c, {k}) = <<>> /\ ofKind(c, {l}) = c
  BY OfKindAll DEF AllOf
<1>6. (a \o <<>>) \o <<>> = a /\ (<<>> \o b) \o <<>> = b /\ (<<>> \o <<>>) \o c = c
  OBVIOUS
<1>7. ofKind((a \o b) \o c, {j}) = (a \o <<>>) \o <<>>
  BY <1>2, <1>3, <1>4, <1>5, Zenon
<1>8. ofKind((a \o b) \o c, {k}) = (<<>> \o b) \o <<>>
  BY <1>2, <1>3, <1>4, <1>5, Zenon
<1>9. ofKind((a \o b) \o c, {l}) = (<<>> \o <<>>) \o c
  BY <1>2, <1>3, <1>4, <1>5, Zenon
<1>10. QED
  BY <1>6, <1>7, <1>8, <1>9, Zenon DEF Sorts

thoughts(p, r) == IF p.api = "chat" THEN reasoningDetails(r.think) ELSE thinkingBlocks(r.think)
asked(p, r)    == IF p.api = "chat" THEN chatCalls(r.calls) ELSE messagesCalls(r.calls)

(* The parts have the kinds they are named for.                             *)
LEMMA ResponseKinds ==
    ASSUME NEW think \in Seq(Block), NEW text \in Seq(STRING), NEW cs \in Seq(Seq(STRING))
    PROVE  /\ AllOf(reasoningDetails(think), "think") /\ AllOf(thinkingBlocks(think), "think")
           /\ AllOf(words(text), "text")
           /\ AllOf(chatCalls(cs), "call") /\ AllOf(messagesCalls(cs), "call")
<1>1. \A k, i, x : part(k, i, x).k = k
  BY DEF part
<1>2. AllOf(reasoningDetails(think), "think")
  <2>1. reasoningDetails(think) = <<>> \/ reasoningDetails(think) = <<part("think", 0, FlattenSeq(ended(think)))>>
    BY DEF reasoningDetails
  <2>2. QED
    BY <1>1, <2>1 DEF AllOf
<1>3. AllOf(words(text), "text")
  <2>1. words(text) = <<>> \/ words(text) = <<part("text", 0, text)>>
    BY DEF words
  <2>2. QED
    BY <1>1, <2>1 DEF AllOf
<1>4. AllOf(thinkingBlocks(think), "think")
  BY <1>1, Zenon DEF AllOf, thinkingBlocks
<1>5. AllOf(chatCalls(cs), "call") /\ AllOf(messagesCalls(cs), "call")
  BY <1>1, Zenon DEF AllOf, chatCalls, messagesCalls
<1>6. QED
  BY <1>2, <1>3, <1>4, <1>5

(* The parts of a turn are what was said, the trace included or not.        *)
Says(p, parts, r, trace) ==
    /\ trace => ofKind(parts, {"think"}) = thoughts(p, r)
    /\ ofKind(parts, {"text"}) = words(r.text)
    /\ ofKind(parts, {"call"}) = asked(p, r)

(* At once or in fragments, the response says what the server said.         *)
LEMMA ResponseSays ==
    ASSUME NEW p \in Prov, NEW r \in Reply, NEW h, h.think \in Seq(Block), h.text = r.text, h.calls = r.calls
    PROVE  /\ toResponse(p, r) \in Seq(Part) /\ Says(p, toResponse(p, r), r, TRUE)
           /\ collectStream(p, h) \in Seq(Part) /\ Says(p, collectStream(p, h), r, h.think = r.think)
<1>1. r.think \in Seq(Block) /\ r.text \in Seq(STRING) /\ r.calls \in Seq(Seq(STRING))
  BY ReplyFields
<1>2. toResponse(p, r) \in Seq(Part) /\ collectStream(p, h) \in Seq(Part)
  BY <1>1, SaidTypes
<1> DEFINE t == reasoningDetails(r.think)
           u == thinkingBlocks(r.think)
           ht == reasoningDetails(h.think)
           hu == thinkingBlocks(h.think)
           w == words(r.text)
           c == chatCalls(r.calls)
           m == messagesCalls(r.calls)
<1>3. /\ t \in Seq(Part) /\ u \in Seq(Part) /\ w \in Seq(Part) /\ c \in Seq(Part) /\ m \in Seq(Part)
      /\ ht \in Seq(Part) /\ hu \in Seq(Part)
  BY <1>1, ResponseTypes
<1>4. /\ AllOf(t, "think") /\ AllOf(u, "think") /\ AllOf(w, "text") /\ AllOf(c, "call") /\ AllOf(m, "call")
      /\ AllOf(ht, "think") /\ AllOf(hu, "think")
  BY <1>1, ResponseKinds
<1>5. /\ toResponse(p, r) = IF p.api = "chat" THEN (w \o t) \o c ELSE (u \o w) \o m
      /\ collectStream(p, h) = IF p.api = "chat" THEN (ht \o w) \o c ELSE (hu \o w) \o m
  BY DEF toResponse, chatResponse, messagesResponse, collectStream, chatStreamEnd, messagesStreamEnd
<1>6. thoughts(p, r) = (IF p.api = "chat" THEN t ELSE u) /\ asked(p, r) = (IF p.api = "chat" THEN c ELSE m)
  BY DEF thoughts, asked
<1>7. /\ ofKind((w \o t) \o c, {"text"}) = w /\ ofKind((w \o t) \o c, {"think"}) = t /\ ofKind((w \o t) \o c, {"call"}) = c
      /\ ofKind((ht \o w) \o c, {"text"}) = w /\ ofKind((ht \o w) \o c, {"think"}) = ht /\ ofKind((ht \o w) \o c, {"call"}) = c
      /\ ofKind((hu \o w) \o m, {"text"}) = w /\ ofKind((hu \o w) \o m, {"think"}) = hu /\ ofKind((hu \o w) \o m, {"call"}) = m
      /\ ofKind((u \o w) \o m, {"text"}) = w /\ ofKind((u \o w) \o m, {"think"}) = u /\ ofKind((u \o w) \o m, {"call"}) = m
  <2>1. "text" # "think" /\ "think" # "call" /\ "text" # "call"
    OBVIOUS
  <2> HIDE DEF t, u, w, c, m, ht, hu
  <2>2. Sorts(w, "text", t, "think", c, "call")
    BY <1>3, <1>4, <2>1, ThreeKinds
  <2>3. Sorts(ht, "think", w, "text", c, "call")
    BY <1>3, <1>4, <2>1, ThreeKinds
  <2>4. Sorts(u, "think", w, "text", m, "call")
    BY <1>3, <1>4, <2>1, ThreeKinds
  <2>5. Sorts(hu, "think", w, "text", m, "call")
    BY <1>3, <1>4, <2>1, ThreeKinds
  <2>6. QED
    BY <2>2, <2>3, <2>4, <2>5, Zenon DEF Sorts
<1>10. h.think = r.think => ht = t /\ hu = u
  BY Zenon
<1>8. Says(p, toResponse(p, r), r, TRUE)
  <2> HIDE DEF t, u, c, m, ht, hu
  <2>1. QED
    BY <1>5, <1>6, <1>7, Zenon DEF Says
<1>9. Says(p, collectStream(p, h), r, h.think = r.think)
  <2> HIDE DEF t, u, c, m, ht, hu
  <2>1. QED
    BY <1>5, <1>6, <1>7, <1>10, Zenon DEF Says
<1>11. QED
  BY <1>2, <1>8, <1>9

(* A turn arrived whole, and was counted.                                   *)
Whole(p, m) ==
  ~m.cut =>
    /\ Says(p, m.parts, m.said, unsplit(m.said) \/ ~p.stream)
    /\ m.usage = [prompt |-> 10 + m.said.read, cached |-> m.said.read]

(* Dropping the reasoning drops it from what was said as well.              *)
LEMMA ScrubbedWhole ==
    ASSUME NEW p \in Prov, NEW m \in Turn, Whole(p, m)
    PROVE  Whole(p, scrubbed(m)) /\ ofKind(scrubbed(m).parts, {"call"}) = ofKind(m.parts, {"call"})
<1> DEFINE K == Kinds \ {"think"}
           q == ofKind(m.parts, K)
           s == [m.said EXCEPT !.think = <<>>]
<1>1. m.parts \in Seq(Part) /\ m.said \in Reply
  BY TurnFields
<1>2. scrubbed(m).parts = q /\ scrubbed(m).said = s /\ scrubbed(m).usage = m.usage /\ scrubbed(m).cut = m.cut
  BY Scrubbed
<1>3. s.think = <<>> /\ s.text = m.said.text /\ s.calls = m.said.calls /\ s.read = m.said.read
  BY <1>1, Zenon DEF Reply
<1>4. K \cap {"think"} = {} /\ K \cap {"text"} = {"text"} /\ K \cap {"call"} = {"call"}
  BY DEF Kinds
<1>5. \A ks : ofKind(q, ks) = ofKind(m.parts, K \cap ks)
  <2> HIDE DEF K
  <2>1. QED
    BY <1>1, OfKindTwice
<1> HIDE DEF K, q, s
<1>6. ofKind(m.parts, {}) = <<>>
  BY <1>1, OfKindAll
<1>7. ofKind(q, {"think"}) = <<>> /\ ofKind(q, {"text"}) = ofKind(m.parts, {"text"}) /\ ofKind(q, {"call"}) = ofKind(m.parts, {"call"})
  BY <1>4, <1>5, <1>6, Zenon
<1>8. thoughts(p, s) = <<>>
  <2>1. reasoningDetails(<<>>) = <<>>
    BY DEF reasoningDetails
  <2>2. thinkingBlocks(<<>>) = <<>>
    <3>1. DOMAIN <<>> = {}
      OBVIOUS
    <3>2. thinkingBlocks(<<>>) = [i \in {} |-> part("think", 0, ended(<<>>)[i])]
      BY <3>1 DEF thinkingBlocks
    <3>3. QED
      BY <3>2
  <2>3. QED
    BY <1>3, <2>1, <2>2 DEF thoughts
<1>9. asked(p, s) = asked(p, m.said)
  BY <1>3 DEF asked
<1>10. Says(p, m.parts, m.said, unsplit(m.said) \/ ~p.stream) => \A trace : Says(p, q, s, trace)
  BY <1>3, <1>7, <1>8, <1>9, Zenon DEF Says
<1>11. QED
  BY <1>2, <1>3, <1>7, <1>10, Zenon DEF Whole

(* A turn that says what was said is replayed as the response itself would. *)
LEMMA ReplaySays ==
    ASSUME NEW p \in Prov, NEW m \in Turn, NEW q \in Seq(Part), Says(p, m.parts, m.said, TRUE), Says(p, q, m.said, TRUE)
    PROVE  toMessages(p, <<m>>) = toMessages(p, <<[m EXCEPT !.parts = q]>>)
<1> DEFINE o == [m EXCEPT !.parts = q]
<1>1. m.role = "assistant" /\ o.role = "assistant" /\ o.parts = q
  <2>1. o.parts = q /\ o.role = m.role
    BY Zenon DEF Turn
  <2>2. QED
    BY <2>1, TurnFields
<1>2. /\ ofKind(q, {"think"}) = ofKind(m.parts, {"think"})
      /\ ofKind(q, {"text"}) = ofKind(m.parts, {"text"})
      /\ ofKind(q, {"call"}) = ofKind(m.parts, {"call"})
  BY Zenon DEF Says
<1> HIDE DEF o
<1>3. textOf(q) = textOf(m.parts) /\ calls(q) = calls(m.parts)
  BY <1>2, Zenon DEF textOf, calls
<1>4. prose(q) = prose(m.parts)
  BY <1>3, Zenon DEF prose
<1>5. assistantMessage(o.parts) = assistantMessage(m.parts) /\ assistantBlocks(o.parts) = assistantBlocks(m.parts)
  BY <1>1, <1>2, <1>3, <1>4, Zenon DEF assistantMessage, assistantBlocks
<1>6. chatMessage(o) = chatMessage(m)
  BY <1>1, <1>5, Zenon DEF chatMessage
<1>7. messagesTurn(o) = messagesTurn(m)
  BY <1>1, <1>5, Zenon DEF messagesTurn
<1>8. [i \in DOMAIN <<o>> |-> chatMessage(<<o>>[i])] = [i \in DOMAIN <<m>> |-> chatMessage(<<m>>[i])]
  BY <1>6
<1>9. [i \in DOMAIN <<o>> |-> messagesTurn(<<o>>[i])] = [i \in DOMAIN <<m>> |-> messagesTurn(<<m>>[i])]
  BY <1>7
<1>10. toMessages(p, <<o>>) = toMessages(p, <<m>>)
  BY <1>8, <1>9, Zenon DEF toMessages, toSystem
<1>11. QED
  BY <1>10 DEF o

-----------------------------------------------------------------------------
(* Faults.                                                                  *)
overflows(f) == f.says \in {"overflow", "overflowType"} /\ ~unread(f)
caused(f)    == f.via = "cancel" \/ overflows(f) \/ f.says \in {"encrypted", "auth"}
passing(f)   == \/ unread(f)
                \/ f.says \in {"other", "rate"} /\ (f.via \in {"event", "eof", "badEvent"} \/ f.code \in {429, 500, 502, 503, 504})

(* What the classification of a fault that may happen comes to.             *)
stops   == {is("canceled", FALSE), is("auth", FALSE), is("unknown", FALSE)}
repeats == {is("unknown", TRUE), is("rate_limit", TRUE)}

Sound(f, v) ==
    IF overflows(f) THEN v = is("context_length", FALSE)
    ELSE IF caused(f) THEN v \in stops
    ELSE IF passing(f) THEN v \in repeats ELSE v \in stops \cup repeats

(* What a fault is, and what its status says of it.                         *)
LEMMA FaultFields ==
    ASSUME NEW f \in Faults
    PROVE  /\ f.via \in {"cancel", "event", "badEvent", "eof", "reset", "http"} /\ f.code \in Nat
           /\ f.says \in {"other", "overflow", "overflowType", "encrypted", "auth", "rate"}
           /\ f.via \notin {"event", "http"} => f.code = 0 /\ f.says = "other"
           /\ f.via \in {"event", "http"} => (f.says = "auth" <=> f.code \in {401, 403})
           /\ f.says = "encrypted" => f.code \in {0, 400}
           /\ f.via = "http" /\ f.says \in {"overflow", "overflowType"} => f.code \in {400, 413}
<1>1. f \in Fault
  BY WireAssumption
<1>2. /\ f.via \in {"cancel", "event", "badEvent", "eof", "reset", "http"} /\ f.code \in Nat
      /\ f.says \in {"other", "overflow", "overflowType", "encrypted", "auth", "rate"}
  BY <1>1, Zenon DEF Fault
<1>3. QED
  BY <1>2, FaultsAssumption

plain(f) == f.code \notin {401, 403, 429, 500, 502, 503, 504} /\ ~(f.code \in {400, 413} /\ isContextLength(f))

(* The statuses that are told apart.                                        *)
LEMMA Statuses ==
    ASSUME NEW f, f.code \in Nat
    PROVE  /\ f.code \in {401, 403} => httpStatus(f) = is("auth", FALSE)
           /\ f.code = 429 => httpStatus(f) = is("rate_limit", TRUE)
           /\ f.code \in {400, 413} /\ isContextLength(f) => httpStatus(f) = is("context_length", FALSE)
           /\ f.code \in {500, 502, 503, 504} => httpStatus(f) = is("unknown", TRUE)
           /\ plain(f) => httpStatus(f) = is("unknown", FALSE)
<1> DEFINE a == f.code \in {401, 403}
           b == f.code = 429
           c == f.code \in {400, 413} /\ isContextLength(f)
           d == f.code \in {500, 502, 503, 504}
<1>1. httpStatus(f) = CASE a -> is("auth", FALSE)
                        [] b -> is("rate_limit", TRUE)
                        [] c -> is("context_length", FALSE)
                        [] d -> is("unknown", TRUE)
                        [] OTHER -> is("unknown", FALSE)
  BY Zenon DEF httpStatus
<1>2. (a => ~b /\ ~c /\ ~d) /\ (b => ~a /\ ~c /\ ~d) /\ (c => ~a /\ ~b /\ ~d) /\ (d => ~a /\ ~b /\ ~c)
  OBVIOUS
<1> DEFINE z == f.code \notin {401, 403, 429, 500, 502, 503, 504}
<1>3. z => ~a /\ ~b /\ ~d
  OBVIOUS
<1> HIDE DEF a, b, c, d, z
<1>5. /\ a => httpStatus(f) = is("auth", FALSE)
      /\ b => httpStatus(f) = is("rate_limit", TRUE)
      /\ c => httpStatus(f) = is("context_length", FALSE)
      /\ d => httpStatus(f) = is("unknown", TRUE)
      /\ z /\ ~c => httpStatus(f) = is("unknown", FALSE)
  <2>1. a => httpStatus(f) = is("auth", FALSE)
    BY <1>1, <1>2, Zenon
  <2>2. b => httpStatus(f) = is("rate_limit", TRUE)
    BY <1>1, <1>2, Zenon
  <2>3. c => httpStatus(f) = is("context_length", FALSE)
    BY <1>1, <1>2, Zenon
  <2>4. d => httpStatus(f) = is("unknown", TRUE)
    BY <1>1, <1>2, Zenon
  <2>5. z /\ ~c => httpStatus(f) = is("unknown", FALSE)
    BY <1>1, <1>3, Zenon
  <2>6. QED
    BY <2>1, <2>2, <2>3, <2>4, <2>5
<1>6. QED
  BY <1>5 DEF a, b, c, d, z, plain

(* The verdict on a fault that the request did not cause by itself.         *)
LEMMA Classified ==
    ASSUME prov \in Prov, NEW f \in Faults, mayFail(f), ~IsEncryptedReplayRejection(f)
    PROVE  Sound(f, classify(prov, f))
<1> DEFINE v == classify(prov, f)
<1>1. prov.api \in {"chat", "messages"}
  BY Zenon DEF Prov
<1>2. f.says # "encrypted"
  BY FaultFields DEF IsEncryptedReplayRejection
<1>3. f.via = "badEvent" => prov.api = "messages"
  BY DEF mayFail
<1>4. ASSUME f.via \notin {"event", "http"} PROVE f.code = 0 /\ f.says = "other" /\ ~overflows(f)
  BY <1>4, FaultFields DEF overflows
<1>40. f.via # "event" => ~unread(f)
  BY DEF unread
<1>5. CASE f.via = "cancel"
  <2>1. v = is("canceled", FALSE)
    BY <1>1, <1>5 DEF classify, chatClassify, messagesClassify
  <2> HIDE DEF v
  <2>2. caused(f) /\ ~overflows(f)
    BY <1>4, <1>5 DEF caused
  <2>3. QED
    BY <2>1, <2>2, Zenon DEF Sound, stops, v
<1>6. CASE f.via = "reset"
  <2>1. v = is("unknown", FALSE)
    BY <1>1, <1>6 DEF classify, chatClassify, messagesClassify
  <2>2. ~passing(f) /\ ~overflows(f)
    BY <1>4, <1>6, <1>40 DEF passing
  <2> HIDE DEF v
  <2>3. QED
    BY <2>1, <2>2, Zenon DEF Sound, stops, v
<1>7. CASE f.via \in {"eof", "badEvent"}
  <2>1. v = is("unknown", TRUE)
    BY <1>1, <1>3, <1>7 DEF classify, chatClassify, messagesClassify
  <2>2. ~caused(f) /\ ~overflows(f)
    BY <1>4, <1>7 DEF caused
  <2> HIDE DEF v
  <2>3. QED
    BY <2>1, <2>2, Zenon DEF Sound, repeats, v
<1>8. CASE f.via = "event"
  <2> DEFINE w == IF prov.api = "chat" THEN chatEvent(f) ELSE messagesEvent(f)
  <2>1. v = w
    BY <1>1, <1>8 DEF classify, chatClassify, messagesClassify
  <2>2. f.says = "auth" <=> f.code \in {401, 403}
    BY <1>8, FaultFields
  <2>3. CASE overflows(f)
    <3>1. isContextLength(f) /\ f.says # "auth" /\ f.says # "rate"
      BY <2>3 DEF isContextLength, overflows
    <3>2. prov.api = "chat" => chatEvent(f) = is("context_length", FALSE)
      <4>1. prov.api = "chat" => f.says = "overflow"
        BY <1>8, <2>3 DEF overflows, unread
      <4>2. QED
        BY <4>1, Zenon DEF chatEvent
    <3>3. messagesEvent(f) = is("context_length", FALSE)
      BY <3>1 DEF messagesEvent
    <3>4. QED
      BY <2>1, <2>3, <3>2, <3>3, Zenon DEF Sound, v
  <2>4. CASE f.says = "auth"
    <3>1. ~isContextLength(f) /\ ~overflows(f) /\ caused(f) /\ f.says # "rate" /\ f.says # "overflow" /\ f.code # 429
      BY <2>2, <2>4 DEF isContextLength, overflows, caused
    <3>2. chatEvent(f) = is("auth", FALSE)
      BY <1>2, <2>2, <2>4, <3>1 DEF chatEvent
    <3>3. messagesEvent(f) = is("auth", FALSE)
      BY <2>4, <3>1 DEF messagesEvent
    <3>4. QED
      BY <2>1, <3>1, <3>2, <3>3, Zenon DEF Sound, stops, v
  <2>5. CASE ~overflows(f) /\ f.says # "auth"
    <3>1. ~caused(f) /\ f.code \notin {401, 403}
      BY <1>2, <1>8, <2>2, <2>5 DEF caused
    <3>2. f.says # "overflow" /\ (prov.api = "messages" => ~isContextLength(f))
      BY <2>5 DEF isContextLength, overflows, unread
    <3>3. chatEvent(f) = is("rate_limit", TRUE) \/ chatEvent(f) = is("unknown", TRUE)
      BY <3>1, <3>2 DEF chatEvent
    <3>4. prov.api = "messages" => messagesEvent(f) = is("rate_limit", TRUE) \/ messagesEvent(f) = is("unknown", TRUE)
      BY <2>5, <3>2 DEF messagesEvent
    <3>5. v = is("rate_limit", TRUE) \/ v = is("unknown", TRUE)
      BY <1>1, <2>1, <3>3, <3>4
    <3> HIDE DEF v
    <3>6. QED
      BY <2>5, <3>1, <3>5, ZenonT(40) DEF Sound, repeats, v
  <2>6. QED
    BY <2>3, <2>4, <2>5
<1>9. CASE f.via = "http"
  <2>1. v = httpStatus(f) \/ (f.code = 529 /\ v = is("unknown", TRUE))
    BY <1>1, <1>9 DEF classify, chatClassify, messagesClassify
  <2> HIDE DEF v
  <2>2. (f.says = "auth" <=> f.code \in {401, 403}) /\ (overflows(f) => f.code \in {400, 413}) /\ f.code \in Nat /\ ~unread(f)
    BY <1>9, <1>40, FaultFields DEF overflows
  <2>3. CASE overflows(f)
    <3>1. isContextLength(f) /\ f.code \in {400, 413}
      BY <2>2, <2>3 DEF isContextLength, overflows
    <3>2. httpStatus(f) = is("context_length", FALSE)
      BY <2>2, <3>1, Statuses, Zenon
    <3>20. f.code # 529
      BY <3>1
    <3>3. QED
      BY <2>1, <2>3, <3>2, <3>20, Zenon DEF Sound, v
  <2>4. CASE f.says = "auth"
    <3>1. ~overflows(f) /\ caused(f) /\ f.code \in {401, 403}
      BY <2>2, <2>4 DEF overflows, caused
    <3>2. httpStatus(f) = is("auth", FALSE)
      BY <2>2, <3>1, Statuses, Zenon
    <3>20. f.code # 529
      BY <3>1
    <3>3. v = is("auth", FALSE)
      BY <2>1, <3>2, <3>20
    <3>4. QED
      BY <3>1, <3>3, Zenon DEF Sound, stops, v
  <2>5. CASE ~overflows(f) /\ f.says # "auth"
    <3>1. ~caused(f) /\ ~isContextLength(f) /\ f.code \notin {401, 403}
      BY <1>2, <1>9, <2>2, <2>5 DEF caused, overflows, isContextLength
    <3>2. httpStatus(f) = is("rate_limit", TRUE) \/ httpStatus(f) = is("unknown", TRUE) \/ httpStatus(f) = is("unknown", FALSE)
      <4>1. \/ f.code = 429 \/ f.code \in {500, 502, 503, 504}
            \/ plain(f)
        BY <2>2, <3>1 DEF plain
      <4>2. /\ f.code = 429 => httpStatus(f) = is("rate_limit", TRUE)
            /\ f.code \in {500, 502, 503, 504} => httpStatus(f) = is("unknown", TRUE)
            /\ plain(f) => httpStatus(f) = is("unknown", FALSE)
        BY <2>2, Statuses, ZenonT(40)
      <4>3. QED
        BY <4>1, <4>2, ZenonT(40)
    <3>3. CASE passing(f)
      <4>1. f.code \in {429, 500, 502, 503, 504}
        BY <1>9, <2>2, <3>3 DEF passing
      <4>2. httpStatus(f) = is("rate_limit", TRUE) \/ httpStatus(f) = is("unknown", TRUE)
        <5>1. f.code = 429 \/ f.code \in {500, 502, 503, 504}
          BY <4>1
        <5>2. /\ f.code = 429 => httpStatus(f) = is("rate_limit", TRUE)
              /\ f.code \in {500, 502, 503, 504} => httpStatus(f) = is("unknown", TRUE)
          BY <2>2, Statuses, ZenonT(40)
        <5>3. QED
          BY <5>1, <5>2, ZenonT(40)
      <4>20. f.code # 529
        BY <4>1
      <4>3. QED
        BY <4>20, <2>1, <2>5, <3>1, <3>3, <4>2, ZenonT(40) DEF Sound, repeats, v
    <3>4. CASE ~passing(f)
      BY <2>1, <2>5, <3>1, <3>2, <3>4, ZenonT(40) DEF Sound, repeats, stops, v
    <3>5. QED
      BY <3>3, <3>4
  <2>6. QED
    BY <2>3, <2>4, <2>5
<1>10. QED
  BY <1>5, <1>6, <1>7, <1>8, <1>9, FaultFields

(* A verdict settles the route.                                             *)
LEMMA RouteOf ==
    ASSUME NEW f, ~IsEncryptedReplayRejection(f), NEW k, NEW b \in BOOLEAN, classify(prov, f) = is(k, b)
    PROVE  /\ b => route(prov, f) = IF ask.retry < MaxResends THEN "resend" ELSE "stop"
           /\ ~b /\ k = "context_length" => route(prov, f) = "evict"
           /\ ~b /\ k # "context_length" => route(prov, f) = "stop"
<1>1. is(k, b).kind = k /\ is(k, b).retryable = b
  BY Zenon DEF is
<1>2. classify(prov, f).kind = k /\ classify(prov, f).retryable = b
  BY <1>1
<1>3. QED
  BY <1>2, Zenon DEF route

(* A route agrees with the fault.                                           *)
LEMMA Routes ==
    ASSUME prov \in Prov, NEW f \in Faults, mayFail(f), ask.retry \in 0..MaxResends
    PROVE  /\ route(prov, f) \in {"scrub", "stop", "resend", "evict"}
           /\ route(prov, f) = "resend" => ~caused(f) /\ ask.retry < MaxResends
           /\ passing(f) /\ route(prov, f) = "stop" => ask.retry = MaxResends
           /\ route(prov, f) = "evict" <=> overflows(f)
<1> DEFINE e == route(prov, f)
<1>0. MaxResends \in Nat
  BY WireAssumption
<1>1. CASE IsEncryptedReplayRejection(f)
  <2>1. f.says = "encrypted"
    BY <1>1 DEF IsEncryptedReplayRejection
  <2>2. e = "scrub" \/ e = "stop"
    BY <1>1, Zenon DEF route
  <2> HIDE DEF e
  <2>3. ~passing(f) /\ ~overflows(f)
    BY <2>1 DEF passing, overflows, unread
  <2>4. QED
    BY <2>2, <2>3 DEF e
<1>2. CASE ~IsEncryptedReplayRejection(f)
  <2>1. Sound(f, classify(prov, f))
    BY <1>2, Classified
  <2>2. caused(f) => ~passing(f) \/ f.via = "cancel"
    BY DEF caused, passing, overflows, unread
  <2>3. f.via = "cancel" => ~passing(f)
    BY FaultFields DEF passing, unread
  <2>4. overflows(f) => caused(f)
    BY DEF overflows, caused
  <2>5. classify(prov, f) = is("context_length", FALSE) => e = "evict"
    BY <1>2, RouteOf, Zenon
  <2>6. classify(prov, f) \in stops => e = "stop"
    <3>1. "canceled" # "context_length" /\ "auth" # "context_length" /\ "unknown" # "context_length"
      OBVIOUS
    <3>2. /\ classify(prov, f) = is("canceled", FALSE) => e = "stop"
          /\ classify(prov, f) = is("auth", FALSE) => e = "stop"
          /\ classify(prov, f) = is("unknown", FALSE) => e = "stop"
      BY <1>2, <3>1, RouteOf, Zenon
    <3>3. QED
      BY <3>2, Zenon DEF stops
  <2>7. classify(prov, f) \in repeats => e = IF ask.retry < MaxResends THEN "resend" ELSE "stop"
    <3>1. /\ classify(prov, f) = is("unknown", TRUE) => e = IF ask.retry < MaxResends THEN "resend" ELSE "stop"
          /\ classify(prov, f) = is("rate_limit", TRUE) => e = IF ask.retry < MaxResends THEN "resend" ELSE "stop"
      BY <1>2, RouteOf, Zenon
    <3>2. QED
      BY <3>1, Zenon DEF repeats
  <2> HIDE DEF e
  <2>8. CASE overflows(f)
    <3>1. e = "evict"
      BY <2>1, <2>5, <2>8 DEF Sound
    <3>2. QED
      BY <2>2, <2>3, <2>4, <2>8, <3>1 DEF e
  <2>9. CASE ~overflows(f) /\ caused(f)
    <3>1. e = "stop"
      BY <2>1, <2>6, <2>9 DEF Sound
    <3>2. QED
      BY <2>2, <2>3, <2>9, <3>1 DEF e
  <2>10. CASE ~overflows(f) /\ ~caused(f) /\ passing(f)
    <3>1. e = IF ask.retry < MaxResends THEN "resend" ELSE "stop"
      BY <2>1, <2>7, <2>10 DEF Sound
    <3>2. QED
      BY <1>0, <2>10, <3>1 DEF e
  <2>11. CASE ~overflows(f) /\ ~caused(f) /\ ~passing(f)
    <3>1. e = "stop" \/ (e = "resend" /\ ask.retry < MaxResends)
      BY <2>1, <2>6, <2>7, <2>11, Zenon DEF Sound
    <3>2. QED
      BY <2>11, <3>1 DEF e
  <2>12. QED
    BY <2>8, <2>9, <2>10, <2>11
<1>3. QED
  BY <1>1, <1>2

-----------------------------------------------------------------------------
(* The inductive invariant: the routing, what the state holds, what has come *)
(* of the answer under way, and that each turn is what was said.             *)
Typing ==
    /\ prov \in Prov
    /\ conv \in Seq(Turn \cup Note) /\ conv # <<>>
    /\ \A i \in 1..Len(conv) : conv[i].role = "assistant" => conv[i] \in Turn /\ Whole(prov, conv[i])
    /\ ask.at = "body" => /\ said = [reply |-> said.reply, sent |-> said.sent] /\ said.reply \in Replies
                          /\ Hearing(said.reply, said.sent, heard)

Faulting ==
    /\ ask.retry \in 0..MaxResends
    /\ fate.route # None => ask.at \in {"backoff", "over"} /\ FaultsAreRouted

WireInv == RoutingInv /\ Typing /\ Faulting

(* The provider that is picked.                                             *)
LEMMA ProviderType == \A c \in Runs : PickProvider(c) \in Prov
<1> SUFFICES ASSUME NEW c \in Runs PROVE PickProvider(c) \in Prov
  OBVIOUS
<1>1. /\ c.name \in {"openrouter", "openai", "anthropic"} /\ c.stream \in BOOLEAN /\ c.shared \in BOOLEAN /\ c.model \in Model
      /\ envPin(c) \in {None} \cup STRING
  <2>1. c \in Run
    BY WireAssumption
  <2>2. c.env \in STRING
    BY <2>1, Zenon DEF Run
  <2>3. QED
    BY <2>1, <2>2, Zenon DEF Run, envPin
<1>2. provider(c, "chat") \in Prov /\ provider(c, "messages") \in Prov
  BY <1>1, Zenon DEF provider, Prov
<1>3. \A p \in Prov : \A r \in BOOLEAN : \A u \in {None, "openai"} : [p EXCEPT !.router = r, !.preferred = u] \in Prov
  BY Zenon DEF Prov
<1>4. \A p \in Prov : [p EXCEPT !.cache = TRUE] \in Prov
  BY Zenon DEF Prov
<1>5. newOpenAICompat(c) \in Prov
  <2>1. (c.name = "openrouter") \in BOOLEAN /\ (IF c.name = "openrouter" THEN preferredUpstreams(c.model) ELSE None) \in {None, "openai"}
    BY DEF preferredUpstreams
  <2>2. QED
    BY <1>2, <1>3, <2>1, Zenon DEF newOpenAICompat
<1>6. newAnthropic(c) \in Prov
  BY <1>2, <1>4, Zenon DEF newAnthropic
<1>7. QED
  BY <1>1, <1>4, <1>5, <1>6 DEF PickProvider

(* A user message and a tool message are notes.                             *)
LEMMA MessageType == \A parts \in Seq(Part) : /\ message("user", parts) \in Note /\ message("tool", parts) \in Note
                                              /\ message("user", parts).role = "user" /\ message("tool", parts).role = "tool"
                                              /\ message("user", parts).parts = parts /\ message("tool", parts).parts = parts
BY DEF message, Note

(* A conversation starts in the invariant.                                  *)
LEMMA WireInvInit == WireInit => WireInv
<1> SUFFICES ASSUME WireInit PROVE WireInv
  OBVIOUS
<1>1. PICK c \in Runs : prov = PickProvider(c) /\ conv = <<message("user", c.task)>>
  BY DEF WireInit, begins
<1>2. ask.at = "idle" /\ ask.retry = 0 /\ fate.route = None
  BY DEF WireInit, idle, NoFate
<1>3. c.task \in Seq(Part)
  BY WireAssumption, Zenon DEF Run
<1> DEFINE m == message("user", c.task)
<1>4. m \in Note /\ m.role # "assistant"
  BY <1>3, MessageType
<1>5. prov \in Prov
  BY <1>1, ProviderType
<1> HIDE DEF m
<1>6. conv \in Seq(Turn \cup Note) /\ conv # <<>> /\ \A i \in 1..Len(conv) : conv[i].role # "assistant"
  <2>1. conv = <<m>> /\ m \in Turn \cup Note
    BY <1>1, <1>4 DEF m
  <2>2. QED
    BY <1>4, <2>1
<1>7. Typing
  BY <1>2, <1>5, <1>6 DEF Typing
<1>8. Faulting
  <2>1. MaxResends \in Nat
    BY WireAssumption
  <2>2. QED
    BY <1>2, <2>1 DEF Faulting
<1>9. QED
  BY <1>7, <1>8, RoutingInit DEF WireInv

(* The invariant where neither the transcript nor the answer changes.       *)
LEMMA TypingKept == Typing /\ UNCHANGED <<prov, conv, said, heard>> /\ (ask'.at = "body" => ask.at = "body") => Typing'
<1> SUFFICES ASSUME Typing, UNCHANGED <<prov, conv, said, heard>>, ask'.at = "body" => ask.at = "body" PROVE Typing'
  OBVIOUS
<1>1. prov' = prov /\ conv' = conv /\ said' = said /\ heard' = heard
  OBVIOUS
<1>2. QED
  BY <1>1, Zenon DEF Typing

(* And for the fault of a call.                                             *)
LEMMA FaultingKept ==
    ASSUME Faulting, UNCHANGED <<prov, fate, conv>>, ask'.retry = ask.retry, ask.at \in {"backoff", "over"} => ask'.at \in {"backoff", "over"}
    PROVE  Faulting'
<1>1. prov' = prov /\ fate' = fate /\ conv' = conv /\ ask'.retry = ask.retry
  OBVIOUS
<1>2. FaultsAreRouted => FaultsAreRouted'
  BY <1>1 DEF FaultsAreRouted, unread
<1>3. QED
  BY <1>1, <1>2 DEF Faulting

(* A call that has met no fault.                                            *)
LEMMA FaultingCleared == fate' = NoFate /\ ask'.retry \in 0..MaxResends => Faulting'
BY DEF Faulting, NoFate

(* A request is sent.                                                       *)
LEMMA SendKeeps == WireInv /\ send => Typing' /\ Faulting'
<1> SUFFICES ASSUME WireInv, send PROVE Typing' /\ Faulting'
  OBVIOUS
<1>0. Typing /\ Faulting /\ ask \in Asked
  BY DEF WireInv, RoutingInv, Routed
<1>1. PICK u \in serves(request.routing), r \in answers(prov) : /\ ask' = [ask EXCEPT !.at = "body", !.up = u, !.routing = request.routing]
                              /\ said' = [reply |-> r, sent |-> [b \in Blocks(r) |-> 0]]
  BY Zenon DEF send
<1>2. heard' = Silence /\ fate' = NoFate /\ prov' = prov /\ conv' = conv
  BY DEF send
<1>3. ask'.retry = ask.retry
  BY <1>0, <1>1, Zenon DEF Asked
<1>40. r \in Replies
  BY DEF answers
<1>4. said'.reply = r /\ said'.sent = [b \in Blocks(r) |-> 0] /\ said' = [reply |-> said'.reply, sent |-> said'.sent]
  BY <1>1
<1>5. Hearing(said'.reply, said'.sent, heard')
  BY <1>2, <1>4, <1>40, HearingStarts
<1>6. Typing'
  BY <1>0, <1>2, <1>4, <1>40, <1>5, Zenon DEF Typing
<1>7. Faulting'
  BY <1>0, <1>2, <1>3, FaultingCleared DEF Faulting
<1>8. QED
  BY <1>6, <1>7

(* A fragment is heard.                                                     *)
LEMMA FragmentKeeps == WireInv /\ Fragment => Typing' /\ Faulting'
<1> SUFFICES ASSUME WireInv, Fragment PROVE Typing' /\ Faulting'
  OBVIOUS
<1>0. Typing /\ Faulting
  BY DEF WireInv
<1> DEFINE r == said.reply
           n == said.sent
<1>1. ask.at = "body" /\ UNCHANGED <<prov, conv, ask, fate>>
  BY DEF Fragment
<1>2. r \in Replies /\ Hearing(r, n, heard) /\ n \in [Blocks(r) -> Nat]
  BY <1>0, <1>1 DEF Typing, Hearing
<1>3. PICK b \in DOMAIN n :
          /\ maySend(b)
          /\ heard' = added(r, n, heard, b)
          /\ said' = [said EXCEPT !.sent[b] = @ + 1]
  BY Zenon DEF Fragment, added, joined
<1>4. b \in Blocks(r) /\ DOMAIN n = Blocks(r)
  BY <1>2, <1>3
<1>5. n[b] < Len(piecesOf(r, b)) /\ \A d \in Blocks(r) : d[1] = b[1] /\ d[2] < b[2] => n[d] > 0 \/ piecesOf(r, d) = <<>>
  BY <1>3, <1>4, Zenon DEF maySend, mayStart
<1>6. Hearing(r, [n EXCEPT ![b] = @ + 1], heard')
  BY <1>2, <1>3, <1>4, <1>5, HearingGrows
<1>7. said = [reply |-> r, sent |-> n]
  BY <1>0, <1>1 DEF Typing
<1> DEFINE m == [n EXCEPT ![b] = @ + 1]
<1>8. said' = [reply |-> r, sent |-> m]
  <2>1. said' = [said EXCEPT !.sent = m]
    BY <1>3, Zenon
  <2> HIDE DEF m, r, n
  <2>2. QED
    BY <1>7, <2>1
<1>9. said'.reply = r /\ said'.sent = m /\ said' = [reply |-> said'.reply, sent |-> said'.sent]
  <2> HIDE DEF m, r
  <2>1. QED
    BY <1>8
<1>10. Typing'
  <2> HIDE DEF m, r, n
  <2>1. Hearing(said'.reply, said'.sent, heard')
    BY <1>6, <1>9 DEF m
  <2>2. prov' = prov /\ conv' = conv /\ said'.reply \in Replies
    BY <1>1, <1>2, <1>9
  <2>3. QED
    BY <1>0, <1>9, <2>1, <2>2, Zenon DEF Typing
<1>11. Faulting'
  BY <1>0, <1>1, FaultingKept
<1>12. QED
  BY <1>10, <1>11

(* A turn is appended that says what was said.                              *)
LEMMA CommitKeeps ==
    ASSUME WireInv, ask.at = "body", NEW parts \in Seq(Part), NEW cut \in BOOLEAN, commit(parts, cut),
           ~cut => Says(prov, parts, said.reply, unsplit(said.reply) \/ ~prov.stream)
    PROVE  /\ Typing' /\ Faulting'
           /\ conv' = Append(conv, assistantTurn(parts, said.reply, cut)) /\ assistantTurn(parts, said.reply, cut) \in Turn
<1> DEFINE r == said.reply
           t == assistantTurn(parts, r, cut)
<1>0. Typing
  BY DEF WireInv
<1>1. conv' = Append(conv, t) /\ ask' = [idle EXCEPT !.at = "said"] /\ fate' = NoFate /\ prov' = prov
  BY DEF commit
<1>2. prov \in Prov /\ r \in Reply
  BY <1>0, WireAssumption DEF Typing
<1> HIDE DEF r, t
<1>3. /\ t \in Turn /\ t.parts = parts /\ t.said = r /\ t.role = "assistant" /\ t.cut = cut
      /\ ~cut => t.usage = [prompt |-> 10 + r.read, cached |-> r.read]
  <2>1. r \in Reply /\ parts \in Seq(Part) /\ cut \in BOOLEAN /\ prov \in Prov
    BY <1>2
  <2>2. /\ assistantTurn(parts, r, cut) \in Turn
        /\ assistantTurn(parts, r, cut).parts = parts
        /\ assistantTurn(parts, r, cut).said = r
        /\ assistantTurn(parts, r, cut).role = "assistant"
        /\ assistantTurn(parts, r, cut).cut = cut
        /\ ~cut => assistantTurn(parts, r, cut).usage = [prompt |-> 10 + r.read, cached |-> r.read]
    <3>1. cut \in {TRUE, FALSE}
      OBVIOUS
    <3>2. assistantTurn(parts, r, cut) \in Turn
      BY <2>1, <3>1, TurnType, Zenon
    <3>3. /\ assistantTurn(parts, r, cut).parts = parts
          /\ assistantTurn(parts, r, cut).said = r
          /\ assistantTurn(parts, r, cut).role = "assistant"
          /\ assistantTurn(parts, r, cut).cut = cut
      BY DEF assistantTurn
    <3>4. ~cut => assistantTurn(parts, r, cut).usage = [prompt |-> 10 + r.read, cached |-> r.read]
      <4>1. r.read \in Nat
        BY <2>1, ReplyFields, Zenon
      <4>2. SUFFICES ASSUME ~cut PROVE assistantTurn(parts, r, cut).usage = [prompt |-> 10 + r.read, cached |-> r.read]
        OBVIOUS
      <4>3. CASE prov.api = "messages"
        BY <4>1, <4>2, <4>3 DEF assistantTurn, messagesUsage, counted
      <4>4. CASE prov.api = "chat"
        BY <4>1, <4>2, <4>4 DEF assistantTurn, chatUsage, counted
      <4>5. prov.api \in {"chat", "messages"}
        BY <2>1, Zenon DEF Prov
      <4>6. QED
        BY <4>3, <4>4, <4>5
    <3>5. QED
      BY <3>2, <3>3, <3>4, Zenon
  <2>3. QED
    BY <2>2, Zenon DEF t
<1>4. Whole(prov, t)
  BY <1>3, Zenon DEF Whole, r
<1>5. ask'.at = "said" /\ ask'.retry = 0
  BY <1>1 DEF idle
<1>6. conv \in Seq(Turn \cup Note) /\ \A i \in 1..Len(conv) : conv[i].role = "assistant" => conv[i] \in Turn /\ Whole(prov, conv[i])
  BY <1>0, Zenon DEF Typing
<1>7. conv' \in Seq(Turn \cup Note) /\ conv' # <<>> /\ \A i \in 1..Len(conv') : conv'[i].role = "assistant" => conv'[i] \in Turn /\ Whole(prov, conv'[i])
  <2>1. t \in Turn \cup Note
    BY <1>3
  <2>2. conv' \in Seq(Turn \cup Note) /\ Len(conv') = Len(conv) + 1 /\ conv'[Len(conv) + 1] = t /\ Len(conv) \in Nat
        /\ \A i \in 1..Len(conv) : conv'[i] = conv[i]
    BY <1>1, <1>6, <2>1
  <2>3. \A i \in 1..Len(conv') : i \in 1..Len(conv) \/ i = Len(conv) + 1
    BY <2>2
  <2>4. \A i \in 1..Len(conv') : conv'[i].role = "assistant" => conv'[i] \in Turn /\ Whole(prov, conv'[i])
    BY <1>3, <1>4, <1>6, <2>2, <2>3, Zenon
  <2>5. conv' # <<>>
    BY <2>2
  <2>6. QED
    BY <2>2, <2>4, <2>5
<1>8. Typing'
  BY <1>1, <1>2, <1>5, <1>7 DEF Typing
<1>9. Faulting'
  <2>1. MaxResends \in Nat
    BY WireAssumption
  <2>2. QED
    BY <1>1, <1>5, <2>1, FaultingCleared
<1>10. QED
  BY <1>1, <1>3, <1>8, <1>9 DEF t, r

(* What an answer that ends, or a stream that is closed, appends.           *)
LEMMA Commits ==
    ASSUME WireInv, Generate \/ Stream \/ StreamClosed
    PROVE  ask.at = "body" /\ \E parts \in Seq(Part), cut \in BOOLEAN :
               /\ ~cut => Says(prov, parts, said.reply, unsplit(said.reply) \/ ~prov.stream)
               /\ commit(parts, cut)
<1> DEFINE r == said.reply
           n == said.sent
           Fine(parts) == Says(prov, parts, r, unsplit(r) \/ ~prov.stream)
<1>0. Typing /\ ask.at = "body"
  BY DEF WireInv, Generate, Stream, StreamClosed
<1>1. prov \in Prov /\ r \in Replies /\ r \in Reply /\ Hearing(r, n, heard) /\ heard \in Heard /\ DOMAIN n = Blocks(r)
  BY <1>0, WireAssumption DEF Typing, Hearing
<1>2. heard.think \in Seq(Block) /\ heard.text \in Seq(STRING) /\ heard.calls \in Seq(Seq(STRING))
  BY <1>1, HeardFields
<1>3. \A k : LET h == named(heard, k)
            IN  /\ h.think = heard.think /\ h.text = heard.text
                /\ h.calls = [i \in 1..k |-> IF i \in DOMAIN heard.calls THEN heard.calls[i] ELSE <<>>]
  <2> SUFFICES ASSUME NEW k
               PROVE  LET h == named(heard, k)
                      IN  /\ h.think = heard.think /\ h.text = heard.text
                          /\ h.calls = [i \in 1..k |-> IF i \in DOMAIN heard.calls THEN heard.calls[i] ELSE <<>>]
    OBVIOUS
  <2> DEFINE c == [i \in 1..k |-> IF i \in DOMAIN heard.calls THEN heard.calls[i] ELSE <<>>]
  <2>1. named(heard, k) = [heard EXCEPT !.calls = c]
    BY Zenon DEF named
  <2> HIDE DEF c
  <2>2. [heard EXCEPT !.calls = c].think = heard.think /\ [heard EXCEPT !.calls = c].text = heard.text
        /\ [heard EXCEPT !.calls = c].calls = c
    BY <1>1, Zenon DEF Heard
  <2>3. QED
    BY <2>1, <2>2 DEF c
<1>4. CASE Generate
  <2>1. commit(toResponse(prov, r), FALSE)
    BY <1>4 DEF Generate
  <2>2. r.think \in Seq(Block)
    BY <1>1, ReplyFields
  <2>3. toResponse(prov, r) \in Seq(Part) /\ Says(prov, toResponse(prov, r), r, TRUE)
    BY <1>1, <2>2, ResponseSays
  <2>4. Fine(toResponse(prov, r))
    BY <2>3, Zenon DEF Says
  <2>5. QED
    BY <1>0, <2>1, <2>3, <2>4
<1>5. CASE Stream
  <2> DEFINE h == named(heard, Len(r.calls))
  <2>1. commit(collectStream(prov, h), FALSE) /\ prov.stream /\ \A b \in DOMAIN n : n[b] = Len(piecesOf(r, b))
    BY <1>5 DEF Stream
  <2>2. (unsplit(r) => heard.think = r.think) /\ heard.text = r.text
        /\ [i \in 1..Len(r.calls) |-> IF i \in DOMAIN heard.calls THEN heard.calls[i] ELSE <<>>] = r.calls
    BY <1>1, <2>1, HearingEnds
  <2>3. h.think = heard.think /\ h.text = r.text /\ h.calls = r.calls
    BY <1>3, <2>2, Zenon
  <2> HIDE DEF h
  <2>4. h.think \in Seq(Block)
    BY <1>2, <2>3
  <2>5. collectStream(prov, h) \in Seq(Part) /\ Says(prov, collectStream(prov, h), r, h.think = r.think)
    BY <1>1, <2>3, <2>4, ResponseSays
  <2>6. Fine(collectStream(prov, h))
    BY <2>1, <2>2, <2>3, <2>5, Zenon DEF Says
  <2>7. QED
    BY <1>0, <2>1, <2>5, <2>6
<1>6. CASE StreamClosed
  <2>1. PICK k \in Len(heard.calls)..Len(r.calls) : commit(collectStream(prov, named(heard, k)), TRUE)
    BY <1>6, Zenon DEF StreamClosed
  <2> DEFINE h == named(heard, k)
             c == [i \in 1..k |-> IF i \in DOMAIN heard.calls THEN heard.calls[i] ELSE <<>>]
  <2>2. k \in Nat
    BY <1>2
  <2>3. \A i \in 1..k : c[i] \in Seq(STRING)
    <3>1. \A i \in DOMAIN heard.calls : heard.calls[i] \in Seq(STRING)
      BY <1>2
    <3>2. <<>> \in Seq(STRING)
      BY Literals
    <3>3. QED
      BY <3>1, <3>2, Zenon
  <2>4. c \in Seq(Seq(STRING))
    <3>1. c = [i \in 1..k |-> c[i]]
      OBVIOUS
    <3> HIDE DEF c
    <3>2. QED
      BY <2>2, <2>3, <3>1
  <2>5. h.think = heard.think /\ h.text = heard.text /\ h.calls = c
    BY <1>3, Zenon
  <2> HIDE DEF h, c
  <2>6. h.think \in Seq(Block) /\ h.text \in Seq(STRING) /\ h.calls \in Seq(Seq(STRING))
    BY <1>2, <2>4, <2>5
  <2>7. collectStream(prov, h) \in Seq(Part)
    BY <1>1, <2>6, SaidTypes
  <2>8. QED
    BY <1>0, <2>1, <2>7 DEF h
<1>7. QED
  BY <1>4, <1>5, <1>6

(* A fault is met.                                                          *)
LEMMA FailureKeeps == WireInv /\ AttemptFails => Typing' /\ Faulting'
<1> SUFFICES ASSUME WireInv, AttemptFails PROVE Typing' /\ Faulting'
  OBVIOUS
<1>0. Typing /\ Faulting /\ ask \in Asked
  BY DEF WireInv, RoutingInv, Routed
<1>1. PICK f \in Faults :
          /\ mayFail(f)
          /\ fate' = [fault |-> f, route |-> route(prov, f)]
          /\ ask' = [ask EXCEPT !.at = IF route(prov, f) \in {"resend", "scrub"} THEN "backoff" ELSE "over",
                                !.up = None,
                                !.retry = CASE route(prov, f) = "resend" -> @ + 1
                                            [] route(prov, f) = "scrub"  -> 0
                                            [] OTHER                     -> @,
                                !.dropped = @ \/ route(prov, f) = "scrub"]
          /\ conv' = IF route(prov, f) = "scrub" THEN dropReplayReasoning(conv) ELSE conv
  BY DEF AttemptFails
<1>2. prov' = prov /\ prov \in Prov /\ ask.retry \in 0..MaxResends /\ MaxResends \in Nat
  BY <1>0, WireAssumption DEF AttemptFails, Typing, Faulting
<1> DEFINE e == route(prov, f)
           a == IF e \in {"resend", "scrub"} THEN "backoff" ELSE "over"
           k == CASE e = "resend" -> ask.retry + 1
                  [] e = "scrub"  -> 0
                  [] OTHER        -> ask.retry
           d == ask.dropped \/ e = "scrub"
<1>3. e \in {"scrub", "stop", "resend", "evict"} /\ (e = "resend" => ~caused(f) /\ ask.retry < MaxResends)
      /\ (passing(f) /\ e = "stop" => ask.retry = MaxResends) /\ (e = "evict" <=> overflows(f))
  BY <1>1, <1>2, Routes
<1> HIDE DEF e
<1>4. ask' = [ask EXCEPT !.at = a, !.up = None, !.retry = k, !.dropped = d]
  BY <1>1 DEF e
<1>5. a \in {"backoff", "over"} /\ k \in 0..MaxResends /\ (e = "stop" => k = ask.retry)
  BY <1>2, <1>3
<1> HIDE DEF a, k, d
<1>6. ask'.at = a /\ ask'.retry = k
  BY <1>0, <1>4, Zenon DEF Asked
<1>7. conv \in Seq(Turn \cup Note) /\ conv # <<>> /\ \A i \in 1..Len(conv) : conv[i].role = "assistant" => conv[i] \in Turn /\ Whole(prov, conv[i])
  BY <1>0, Zenon DEF Typing
<1> DEFINE c == dropReplayReasoning(conv)
<1>8. /\ c \in Seq(Turn \cup Note) /\ Len(c) = Len(conv) /\ dropReplayReasoning(c) = c
      /\ \A i \in 1..Len(conv) : c[i] = IF conv[i].role # "assistant" THEN conv[i] ELSE scrubbed(conv[i])
      /\ \A i \in 1..Len(conv) : c[i].role = conv[i].role
  <2>1. conv \in Seq(Turn \cup Note)
    BY <1>7
  <2>2. c \in Seq(Turn \cup Note) /\ Len(c) = Len(conv)
    BY <2>1, ScrubbedTranscript
  <2>3. dropReplayReasoning(c) = c
    BY <2>1, ScrubbedTranscript
  <2>4. \A i \in 1..Len(conv) : c[i] = IF conv[i].role # "assistant" THEN conv[i] ELSE scrubbed(conv[i])
    BY <2>1, ScrubbedTranscript
  <2>5. \A i \in 1..Len(conv) : c[i].role = conv[i].role
    BY <2>1, ScrubbedTranscript
  <2>6. QED
    BY <2>2, <2>3, <2>4, <2>5, Zenon
<1>9. e = "scrub" => conv' = c
  BY <1>1 DEF e
<1>10. e # "scrub" => conv' = conv
  BY <1>1 DEF e
<1> HIDE DEF c
<1>11. conv' \in Seq(Turn \cup Note) /\ conv' # <<>> /\ \A i \in 1..Len(conv') : conv'[i].role = "assistant" => conv'[i] \in Turn /\ Whole(prov, conv'[i])
  <2>1. CASE e = "scrub"
    <3>1. c # <<>>
      BY <1>7, <1>8
    <3>2. \A i \in 1..Len(conv) : c[i].role = "assistant" => c[i] \in Turn /\ Whole(prov, c[i])
      <4> SUFFICES ASSUME NEW i \in 1..Len(conv), c[i].role = "assistant" PROVE c[i] \in Turn /\ Whole(prov, c[i])
        OBVIOUS
      <4>1. conv[i] \in Turn /\ Whole(prov, conv[i]) /\ c[i] = scrubbed(conv[i])
        <5>1. conv[i].role = "assistant"
          BY <1>8
        <5>2. conv[i] \in Turn /\ Whole(prov, conv[i])
          BY <1>7, <5>1, Zenon
        <5>3. c[i] = scrubbed(conv[i])
          BY <1>8, <5>1, Zenon
        <5>4. QED
          BY <5>2, <5>3
      <4>2. scrubbed(conv[i]) \in Turn /\ Whole(prov, scrubbed(conv[i]))
        BY <1>2, <4>1, Scrubbed, ScrubbedWhole
      <4>3. QED
        BY <4>1, <4>2
    <3>3. QED
      BY <1>8, <1>9, <2>1, <3>1, <3>2
  <2>2. CASE e # "scrub"
    BY <1>7, <1>10, <2>2
  <2>3. QED
    BY <2>1, <2>2
<1>12. Typing'
  BY <1>2, <1>5, <1>6, <1>11 DEF Typing
<1>13. fate'.fault = f /\ fate'.route = e
  BY <1>1 DEF e
<1>14. FaultsAreRouted'
  <2>1. e = "scrub" => dropReplayReasoning(conv') = conv'
    BY <1>8, <1>9
  <2>2. (e = "resend" => ~caused(f)) /\ (passing(f) /\ e = "stop" => ask'.retry = MaxResends) /\ (e = "evict" <=> overflows(f))
    BY <1>3, <1>5, <1>6
  <2>3. QED
    BY <1>2, <1>13, <2>1, <2>2 DEF FaultsAreRouted, caused, passing, overflows, unread
<1>15. Faulting'
  BY <1>5, <1>6, <1>14 DEF Faulting
<1>16. QED
  BY <1>12, <1>15

(* What Answer appends.                                                     *)
LEMMA Answers ==
    ASSUME WireInv, Answer
    PROVE  LET m == Last(conv)
               called == ofKind(m.parts, {"call"})
           IN  /\ called \in Seq(Part)
               /\ \E notes \in Seq(Note) :
                     /\ conv' = conv \o notes
                     /\ \/ called = <<>> /\ notes = <<message("user", <<part("text", 0, <<"feedback">>)>>)>>
                        \/ /\ called # <<>> /\ Len(notes) = Len(called)
                           /\ \E k \in {"result", "error"} : \A i \in 1..Len(called) :
                                 notes[i] = message("tool", <<part(k, called[i].id, <<"saw">>)>>)
<1> DEFINE m == Last(conv)
           called == ofKind(m.parts, {"call"})
<1>0. conv \in Seq(Turn \cup Note) /\ conv # <<>>
  BY DEF WireInv, Typing
<1>1. m.parts \in Seq(Part)
  <2>1. m \in Turn \cup Note
    BY <1>0 DEF Last
  <2>2. QED
    BY <2>1, TurnFields, NoteFields
<1>2. called \in Seq(Part)
  BY <1>1, OfKindMembers
<1>3. PICK err \in BOOLEAN :
             conv' = conv \o (IF called = <<>> THEN <<message("user", <<part("text", 0, <<"feedback">>)>>)>>
                              ELSE [i \in DOMAIN called |->
                                      message("tool", <<part(IF err THEN "error" ELSE "result", called[i].id, <<"saw">>)>>)])
  BY Zenon DEF Answer
<1>4. "text" \in Kinds /\ "result" \in Kinds /\ "error" \in Kinds /\ 0 \in Nat
  BY DEF Kinds
<1>5. \A p \in Part : p.id \in Nat
  BY Zenon DEF Part
<1>6. CASE called = <<>>
  <2> DEFINE f == message("user", <<part("text", 0, <<"feedback">>)>>)
  <2>1. part("text", 0, <<"feedback">>) \in Part
    BY <1>4, Literals, PartType, Zenon
  <2>2. <<part("text", 0, <<"feedback">>)>> \in Seq(Part)
    BY <2>1, One, Zenon
  <2>3. f \in Note
    BY <2>2, MessageType, Zenon
  <2> HIDE DEF f
  <2>4. <<f>> \in Seq(Note)
    BY <2>3, One, Zenon
  <2>5. conv' = conv \o <<f>>
    BY <1>3, <1>6, Zenon DEF f
  <2>6. QED
    BY <1>2, <1>6, <2>4, <2>5, Zenon DEF f
<1>7. CASE called # <<>>
  <2> DEFINE k == IF err THEN "error" ELSE "result"
             g(i) == message("tool", <<part(k, called[i].id, <<"saw">>)>>)
             notes == [i \in DOMAIN called |-> g(i)]
  <2>1. k \in {"result", "error"} /\ k \in Kinds
    BY <1>4
  <2> HIDE DEF k
  <2>2. \A i \in DOMAIN called : called[i].id \in Nat
    <3> HIDE DEF called
    <3>1. \A i \in DOMAIN called : called[i] \in Part
      BY <1>2
    <3>2. QED
      BY <1>5, <3>1
  <2>3. \A i \in DOMAIN called : part(k, called[i].id, <<"saw">>) \in Part
    BY <2>1, <2>2, Literals, PartType, Zenon
  <2>4. \A i \in DOMAIN called : g(i) \in Note
    BY <2>3, One, MessageType, Zenon
  <2> HIDE DEF g
  <2>5. notes \in Seq(Note) /\ Len(notes) = Len(called)
    <3>1. DOMAIN notes = DOMAIN called /\ notes = [i \in DOMAIN called |-> notes[i]] /\ \A i \in DOMAIN called : notes[i] \in Note
      BY <2>4, Zenon
    <3> HIDE DEF notes, called
    <3>2. QED
      BY <1>2, <3>1, MapType
  <2>6. conv' = conv \o notes
    BY <1>3, <1>7, Zenon DEF g, k
  <2>7. \A i \in 1..Len(called) : notes[i] = g(i)
    <3>1. DOMAIN called = 1..Len(called)
      <4> HIDE DEF called
      <4>1. QED
        BY <1>2
    <3>2. QED
      BY <3>1, Zenon
  <2> HIDE DEF notes
  <2>8. QED
    BY <1>2, <1>7, <2>1, <2>5, <2>6, <2>7, Zenon DEF g
<1>8. QED
  BY <1>6, <1>7

(* Notes are appended to the transcript.                                    *)
LEMMA NotesKeep ==
    ASSUME Typing, NEW notes \in Seq(Note), conv' = conv \o notes, prov' = prov, ask'.at # "body"
    PROVE  Typing'
<1>1. conv \in Seq(Turn \cup Note) /\ conv # <<>> /\ \A i \in 1..Len(conv) : conv[i].role = "assistant" => conv[i] \in Turn /\ Whole(prov, conv[i])
  BY Zenon DEF Typing
<1>2. notes \in Seq(Turn \cup Note)
  OBVIOUS
<1>3. conv' \in Seq(Turn \cup Note) /\ Len(conv') = Len(conv) + Len(notes) /\ Len(conv) \in Nat /\ Len(notes) \in Nat
      /\ \A i \in 1..Len(conv') : IF i <= Len(conv) THEN conv'[i] = conv[i] ELSE conv'[i] = notes[i - Len(conv)]
  BY <1>1, <1>2, ConcatProperties
<1>4. conv' # <<>>
  BY <1>1, <1>3
<1>5. \A i \in 1..Len(notes) : notes[i].role # "assistant"
  <2>1. \A i \in 1..Len(notes) : notes[i] \in Note
    OBVIOUS
  <2>2. QED
    BY <2>1, NoteFields
<1>6. \A i \in 1..Len(conv') : conv'[i].role = "assistant" => conv'[i] \in Turn /\ Whole(prov, conv'[i])
  <2> SUFFICES ASSUME NEW i \in 1..Len(conv'), conv'[i].role = "assistant" PROVE conv'[i] \in Turn /\ Whole(prov, conv'[i])
    OBVIOUS
  <2>1. CASE i <= Len(conv)
    BY <1>1, <1>3, <2>1
  <2>2. CASE i > Len(conv)
    <3>1. i - Len(conv) \in 1..Len(notes) /\ conv'[i] = notes[i - Len(conv)]
      BY <1>3, <2>2
    <3>2. QED
      BY <1>5, <3>1
  <2>3. QED
    BY <1>3, <2>1, <2>2
<1>7. QED
  BY <1>3, <1>4, <1>6 DEF Typing

(* Every step keeps the invariant.                                          *)
LEMMA WireStep == WireInv /\ [WireNext]_wireVars => WireInv'
<1> SUFFICES ASSUME WireInv, [WireNext]_wireVars PROVE Typing' /\ Faulting'
  BY RoutingStep DEF WireInv
<1>0. Typing /\ Faulting /\ ask \in Asked
  BY DEF WireInv, RoutingInv, Routed
<1>1. CASE Ask \/ Resend
  BY <1>1, SendKeeps DEF Ask, Resend
<1>2. CASE Fragment
  BY <1>2, FragmentKeeps
<1>3. CASE Generate \/ Stream \/ StreamClosed
  <2>1. ask.at = "body" /\ \E parts \in Seq(Part), cut \in BOOLEAN :
            /\ ~cut => Says(prov, parts, said.reply, unsplit(said.reply) \/ ~prov.stream)
            /\ commit(parts, cut)
    BY <1>3, Commits
  <2>2. QED
    BY <2>1, CommitKeeps
<1>4. CASE AttemptFails
  BY <1>4, FailureKeeps
<1>5. CASE CanceledInBackoff
  <2>1. ask' = [ask EXCEPT !.at = "over"] /\ ask.at = "backoff" /\ UNCHANGED <<prov, conv, said, heard, fate>>
    BY <1>5 DEF CanceledInBackoff
  <2>2. ask'.at = "over" /\ ask'.retry = ask.retry
    BY <1>0, <2>1, Zenon DEF Asked
  <2>3. QED
    BY <1>0, <2>1, <2>2, TypingKept, FaultingKept
<1>6. CASE Answer
  <2>1. ask.at = "said" /\ ask' = [ask EXCEPT !.at = "idle"] /\ prov' = prov /\ fate' = fate
    BY <1>6 DEF Answer
  <2>2. ask'.at = "idle" /\ ask'.retry = ask.retry
    BY <1>0, <2>1, Zenon DEF Asked
  <2>3. PICK notes \in Seq(Note) : conv' = conv \o notes
    BY <1>6, Answers, Zenon
  <2>4. Typing'
    BY <1>0, <2>1, <2>2, <2>3, NotesKeep
  <2>5. fate.route = None
    BY <1>0, <2>1 DEF Faulting
  <2>6. Faulting'
    BY <1>0, <2>1, <2>2, <2>5 DEF Faulting
  <2>7. QED
    BY <2>4, <2>6
<1>7. CASE AsideAsks \/ AsideReturns \/ UNCHANGED wireVars
  <2>1. UNCHANGED <<prov, conv, ask, said, heard, fate>>
    BY <1>7 DEF AsideAsks, AsideReturns, wireVars
  <2>2. QED
    BY <1>0, <2>1, TypingKept, FaultingKept
<1>8. QED
  BY <1>1, <1>2, <1>3, <1>4, <1>5, <1>6, <1>7 DEF WireNext

(* A fault the request causes is never answered by the same request, a      *)
(* passing one is until the re-sends are spent, and an overflow goes to the *)
(* eviction unless the chat wire's error event tells of it by its type      *)
(* alone, which no adapter reads (classify, generateWithRetry).             *)
THEOREM FaultsRouted == WireSpec => []FaultsAreRouted
<1>1. WireInv => FaultsAreRouted
  <2>1. fate.route = None => FaultsAreRouted
    BY Zenon DEF FaultsAreRouted
  <2>2. QED
    BY <2>1 DEF WireInv, Faulting
<1>2. QED
  BY WireInvInit, WireStep, <1>1, PTL DEF WireSpec

(* The provider is pinned to what the environment names or to an upstream's *)
(* slug, a call is re-sent no more often than its bound, and the transcript *)
(* is made of parts and of the turns the server said (WireTypeOK).          *)
THEOREM WireTypes == WireSpec => []WireTypeOK
<1>1. WireInv => WireTypeOK
  <2> SUFFICES ASSUME WireInv PROVE WireTypeOK
    OBVIOUS
  <2>1. /\ pinned \in {None} \cup {envPin(c) : c \in Runs} \cup {pinProviderName[u] : u \in Upstreams}
        /\ ask.at \in {"idle", "body", "said", "backoff", "over"}
    BY DEF WireInv, RoutingInv, Routed, Asked, Pins
  <2>2. ask.retry \in 0..MaxResends
    BY DEF WireInv, Faulting
  <2>3. DOMAIN conv = 1..Len(conv)
    BY DEF WireInv, Typing
  <2>4. \A i \in DOMAIN conv : conv[i].parts \in Seq(Part)
    <3> SUFFICES ASSUME NEW i \in DOMAIN conv PROVE conv[i].parts \in Seq(Part)
      OBVIOUS
    <3>1. conv[i] \in Turn \/ conv[i] \in Note
      BY DEF WireInv, Typing
    <3>2. QED
      BY <3>1, Zenon DEF Turn, Note
  <2>5. \A i \in assistantTurns : conv[i].said \in Reply
    <3> SUFFICES ASSUME NEW i \in assistantTurns PROVE conv[i].said \in Reply
      OBVIOUS
    <3>1. conv[i] \in Turn
      BY <2>3 DEF WireInv, Typing, assistantTurns
    <3>2. QED
      BY <3>1, TurnFields
  <2>6. QED
    BY <2>1, <2>2, <2>4, <2>5 DEF WireTypeOK
<1>2. QED
  BY WireInvInit, WireStep, <1>1, PTL DEF WireSpec

(* A turn whose answer ended is replayed as if it had come at once, however *)
(* its fragments were interleaved, keyed by an index, by an id or coming    *)
(* alone, and after its reasoning is dropped; of one whose blocks came in   *)
(* fragments without an identity, all but the reasoning is (Stream,         *)
(* collectStream, reasoningAccumulator, toResponse, dropReplayReasoning).   *)
THEOREM TurnsWhole == WireSpec => []TurnsArriveWhole
<1>1. WireInv => TurnsArriveWhole
  <2> SUFFICES ASSUME WireInv, NEW i \in assistantTurns, ~conv[i].cut
               PROVE  LET whole == toResponse(prov, conv[i].said)
                      IN  /\ ofKind(conv[i].parts, {"text"}) = ofKind(whole, {"text"})
                          /\ ofKind(conv[i].parts, {"call"}) = ofKind(whole, {"call"})
                          /\ unsplit(conv[i].said) \/ ~prov.stream =>
                                 toMessages(prov, <<conv[i]>>) = toMessages(prov, <<[conv[i] EXCEPT !.parts = whole]>>)
                          /\ conv[i].usage = [prompt |-> 10 + conv[i].said.read, cached |-> conv[i].said.read]
    BY Zenon DEF TurnsArriveWhole
  <2> DEFINE m == conv[i]
             q == toResponse(prov, m.said)
  <2>1. m \in Turn /\ Whole(prov, m) /\ prov \in Prov /\ ~m.cut
    BY DEF WireInv, Typing, assistantTurns
  <2> HIDE DEF m
  <2>2. m.said \in Reply /\ m.said.think \in Seq(Block)
    BY <2>1, TurnFields, ReplyFields
  <2>3. q \in Seq(Part) /\ Says(prov, q, m.said, TRUE)
    BY <2>1, <2>2, ResponseSays
  <2> HIDE DEF q
  <2>4. Says(prov, m.parts, m.said, unsplit(m.said) \/ ~prov.stream) /\ m.usage = [prompt |-> 10 + m.said.read, cached |-> m.said.read]
    BY <2>1, Zenon DEF Whole
  <2>5. ofKind(m.parts, {"text"}) = ofKind(q, {"text"}) /\ ofKind(m.parts, {"call"}) = ofKind(q, {"call"})
    BY <2>3, <2>4, Zenon DEF Says
  <2>6. ASSUME unsplit(m.said) \/ ~prov.stream
        PROVE  toMessages(prov, <<m>>) = toMessages(prov, <<[m EXCEPT !.parts = q]>>)
    <3>1. Says(prov, m.parts, m.said, TRUE)
      BY <2>4, <2>6, Zenon DEF Says
    <3>2. QED
      BY <2>1, <2>3, <3>1, ReplaySays
  <2>7. QED
    BY <2>4, <2>5, <2>6, Zenon DEF m, q
<1>2. QED
  BY WireInvInit, WireStep, <1>1, PTL DEF WireSpec

-----------------------------------------------------------------------------
(* ofKind leaves nothing of its kinds out.                                  *)
LEMMA OfKindHolds ==
    ASSUME NEW T, NEW s \in Seq(T), NEW ks, NEW i \in DOMAIN s, s[i].k \in ks
    PROVE  \E j \in DOMAIN ofKind(s, ks) : ofKind(s, ks)[j] = s[i]
<1> DEFINE Holds(a) == \A l \in DOMAIN a : a[l].k \in ks => \E j \in DOMAIN ofKind(a, ks) : ofKind(a, ks)[j] = a[l]
           C == {a \in Seq(T) : Holds(a)}
<1>1. <<>> \in C
  OBVIOUS
<1>2. ASSUME NEW a \in Seq(T), a \in C, NEW c \in T PROVE Append(a, c) \in C
  <2> DEFINE q == ofKind(a, ks)
             r == ofKind(Append(a, c), ks)
  <2>1. q \in Seq(T) /\ r = keep(q, c, ks)
    BY OfKindAppend
  <2>2. Holds(a)
    BY <1>2
  <2>3. Append(a, c) \in Seq(T) /\ Len(Append(a, c)) = Len(a) + 1 /\ Append(a, c)[Len(a) + 1] = c
        /\ DOMAIN a = 1..Len(a) /\ DOMAIN Append(a, c) = 1..(Len(a) + 1) /\ Len(a) \in Nat
        /\ \A l \in 1..Len(a) : Append(a, c)[l] = a[l]
    OBVIOUS
  <2> DEFINE b == Append(a, c)
  <2> HIDE DEF q, r, b
  <2>4. \A l \in DOMAIN a : a[l].k \in ks => \E j \in DOMAIN q : q[j] = a[l]
    BY <2>2 DEF q
  <2>5. \A j \in DOMAIN q : j \in DOMAIN r /\ r[j] = q[j]
    BY <2>1 DEF keep
  <2>6. c.k \in ks => Len(q) + 1 \in DOMAIN r /\ r[Len(q) + 1] = c
    BY <2>1 DEF keep
  <2>7. ASSUME NEW l \in DOMAIN b, b[l].k \in ks PROVE \E j \in DOMAIN r : r[j] = b[l]
    <3>1. CASE l = Len(a) + 1
      <4>1. b[l] = c
        BY <2>3, <3>1 DEF b
      <4>2. QED
        BY <2>6, <2>7, <4>1, Zenon
    <3>2. CASE l # Len(a) + 1
      <4>1. l \in DOMAIN a /\ b[l] = a[l]
        BY <2>3, <3>2 DEF b
      <4>2. QED
        BY <2>4, <2>5, <2>7, <4>1, Zenon
    <3>3. QED
      BY <3>1, <3>2
  <2>8. Holds(b)
    BY <2>7 DEF r, b
  <2>9. QED
    BY <2>3, <2>8 DEF b
<1> HIDE DEF C
<1>3. \A a \in Seq(T) : a \in C
  BY <1>1, <1>2, SeqInduction
<1>4. s \in C
  BY <1>3
<1>5. QED
  BY <1>4 DEF C

(* o tells of each element of f which of the first n sequences it is.       *)
Embeds(f, s, n, o) ==
    /\ o \in [1..Len(f) -> 1..n]
    /\ \A i \in 1..Len(f) : s[o[i]] = <<f[i]>>
    /\ \A i, j \in 1..Len(f) : i < j => o[i] < o[j]
    /\ \A k \in 1..n : s[k] # <<>> => \E i \in 1..Len(f) : o[i] = k

(* Joining sequences of at most one element keeps their order.              *)
LEMMA FlattenOnes ==
    ASSUME NEW T, NEW s \in Seq(Seq(T)), \A i \in 1..Len(s) : Len(s[i]) <= 1
    PROVE  FlattenSeq(s) \in Seq(T) /\ \E o : Embeds(FlattenSeq(s), s, Len(s), o)
<1> DEFINE n == Len(s)
<1>1. PICK d \in [0..n -> Seq(T)] : FlattenSeq(s) = d[n] /\ d[0] = <<>> /\ \A i \in 1..n : d[i] = d[i - 1] \o s[i]
  <2>1. PICK d \in [0..Len(s) -> Seq(T)] : FlattenSeq(s) = d[Len(s)] /\ Joins(d, s)
    BY FlattenRuns
  <2>2. QED
    BY <2>1, Zenon DEF Joins
<1>2. n \in Nat /\ \A i \in 1..n : s[i] \in Seq(T) /\ (s[i] = <<>> \/ \E t \in T : s[i] = <<t>>)
  <2>1. n \in Nat
    OBVIOUS
  <2>2. ASSUME NEW i \in 1..n PROVE s[i] \in Seq(T) /\ (s[i] = <<>> \/ \E t \in T : s[i] = <<t>>)
    <3>1. s[i] \in Seq(T) /\ Len(s[i]) <= 1
      OBVIOUS
    <3> DEFINE x == s[i]
    <3> HIDE DEF x
    <3>2. x \in Seq(T) /\ Len(x) <= 1
      BY <3>1 DEF x
    <3>3. x = <<>> \/ (x[1] \in T /\ x = <<x[1]>>)
      <4>1. Len(x) = 0 \/ Len(x) = 1
        BY <3>2, SMTT(30)
      <4>2. Len(x) = 0 => x = <<>>
        BY <3>2
      <4>3. ASSUME Len(x) = 1 PROVE x[1] \in T /\ x = <<x[1]>>
        <5>1. x[1] \in T
          <6>1. 1 \in 1..Len(x)
            BY <4>3
          <6>2. QED
            BY <3>2, <6>1, ElementOfSeq
        <5> DEFINE y == <<x[1]>>
        <5>2. y \in Seq(T) /\ Len(y) = 1 /\ y[1] = x[1]
          BY <5>1
        <5> HIDE DEF y
        <5>3. \A l \in 1..Len(x) : x[l] = y[l]
          BY <4>3, <5>2
        <5>4. x = y
          BY <3>2, <4>3, <5>2, <5>3, SeqEqual
        <5>5. QED
          BY <5>1, <5>4 DEF y
      <4>4. QED
        BY <4>1, <4>2, <4>3
    <3>4. QED
      BY <3>1, <3>3, Zenon DEF x
  <2>3. QED
    BY <2>1, <2>2
<1> HIDE DEF n
<1> DEFINE S == {m \in Nat : m <= n => \E o : Embeds(d[m], s, m, o)}
<1>3. 0 \in S
  <2>1. d[0] = <<>> /\ Len(<<>>) = 0
    BY <1>1
  <2> DEFINE o == [i \in 1..0 |-> 0]
  <2>2. Embeds(<<>>, s, 0, o)
    BY DEF Embeds
  <2>3. QED
    BY <2>1, <2>2
<1>4. ASSUME NEW m \in Nat, m \in S PROVE m + 1 \in S
  <2> SUFFICES ASSUME m + 1 <= n PROVE \E o : Embeds(d[m + 1], s, m + 1, o)
    OBVIOUS
  <2> DEFINE f == d[m]
             k == m + 1
  <2>1. k \in 1..n /\ k - 1 = m /\ m \in 0..n
    BY <1>2
  <2>2. f \in Seq(T) /\ s[k] \in Seq(T)
    BY <1>1, <1>2, <2>1
  <2>3. d[k] = f \o s[k]
    <3> HIDE DEF k
    <3>1. d[k] = d[k - 1] \o s[k]
      BY <1>1, <2>1, Zenon
    <3>2. QED
      BY <2>1, <3>1
  <2>4. PICK o : Embeds(f, s, m, o)
    BY <1>4, <2>1
  <2>5. /\ o \in [1..Len(f) -> 1..m]
        /\ \A i \in 1..Len(f) : s[o[i]] = <<f[i]>>
        /\ \A i, j \in 1..Len(f) : i < j => o[i] < o[j]
        /\ \A l \in 1..m : s[l] # <<>> => \E i \in 1..Len(f) : o[i] = l
    BY <2>4, Zenon DEF Embeds
  <2>6. Len(f) \in Nat /\ (\A l \in 1..k : l = k \/ l \in 1..m) /\ (\A l \in 1..m : l \in 1..k /\ l < k)
    BY <2>2
  <2>7. k \in 1..k
    BY <1>4
  <2> HIDE DEF f, k
  <2>8. CASE s[k] = <<>>
    <3>1. d[k] = f
      BY <2>2, <2>3, <2>8
    <3>2. o \in [1..Len(f) -> 1..k]
      BY <2>5, <2>6
    <3>3. \A l \in 1..k : s[l] # <<>> => \E i \in 1..Len(f) : o[i] = l
      BY <2>5, <2>6, <2>8, Zenon
    <3>4. Embeds(f, s, k, o)
      BY <2>5, <3>2, <3>3, Zenon DEF Embeds
    <3>5. QED
      BY <3>1, <3>4, Zenon DEF k
  <2>9. CASE s[k] # <<>>
    <3>1. PICK t \in T : s[k] = <<t>>
      BY <1>2, <2>1, <2>9, Zenon
    <3> DEFINE g == d[k]
               q == [i \in 1..(Len(f) + 1) |-> IF i \in 1..Len(f) THEN o[i] ELSE k]
    <3>2. g \in Seq(T) /\ Len(g) = Len(f) + 1 /\ g[Len(f) + 1] = t /\ \A i \in 1..Len(f) : g[i] = f[i]
      BY <2>2, <2>3, <3>1
    <3>3. Len(f) + 1 \in 1..Len(g) /\ Len(f) + 1 \notin 1..Len(f) /\ (\A i \in 1..Len(g) : i = Len(f) + 1 \/ i \in 1..Len(f))
          /\ \A i \in 1..Len(f) : i \in 1..Len(g)
      BY <2>6, <3>2
    <3>4. q \in [1..Len(g) -> 1..k] /\ q[Len(f) + 1] = k /\ \A i \in 1..Len(f) : q[i] = o[i] /\ o[i] \in 1..m
      <4>1. \A i \in 1..Len(f) : o[i] \in 1..m /\ o[i] \in 1..k
        BY <2>5, <2>6
      <4>2. 1..Len(g) = 1..(Len(f) + 1)
        BY <3>2
      <4>3. QED
        BY <2>7, <3>3, <4>1, <4>2
    <3> HIDE DEF q, g
    <3>5. \A i \in 1..Len(g) : s[q[i]] = <<g[i]>>
      <4>1. \A i \in 1..Len(f) : s[q[i]] = <<g[i]>>
        BY <2>5, <3>2, <3>4, Zenon
      <4>2. s[q[Len(f) + 1]] = <<g[Len(f) + 1]>>
        BY <3>1, <3>2, <3>4, Zenon
      <4>3. QED
        BY <3>3, <4>1, <4>2, Zenon
    <3>6. ASSUME NEW i \in 1..Len(g), NEW j \in 1..Len(g), i < j PROVE q[i] < q[j]
      <4>1. i \in 1..Len(f)
        BY <2>6, <3>2, <3>6
      <4>2. CASE j \in 1..Len(f)
        BY <2>5, <3>4, <3>6, <4>1, <4>2
      <4>3. CASE j = Len(f) + 1
        BY <2>6, <3>4, <4>1, <4>3
      <4>4. QED
        BY <3>3, <4>2, <4>3
    <3>7. \A l \in 1..k : s[l] # <<>> => \E i \in 1..Len(g) : q[i] = l
      <4>1. \A l \in 1..m : s[l] # <<>> => \E i \in 1..Len(g) : q[i] = l
        BY <2>5, <3>3, <3>4, Zenon
      <4>2. QED
        BY <2>6, <3>3, <3>4, <4>1, Zenon
    <3>8. Embeds(g, s, k, q)
      BY <3>4, <3>5, <3>6, <3>7 DEF Embeds
    <3>9. QED
      BY <3>8, Zenon DEF g, k
  <2>10. QED
    BY <2>8, <2>9
<1> HIDE DEF S
<1>5. \A m \in Nat : m \in S
  BY <1>3, <1>4, Induction
<1>6. n \in S
  BY <1>2, <1>5
<1>7. \E o : Embeds(d[n], s, n, o)
  BY <1>2, <1>6 DEF S
<1>8. d[n] \in Seq(T)
  BY <1>1, <1>2
<1>9. QED
  BY <1>1, <1>7, <1>8, Zenon DEF n

-----------------------------------------------------------------------------
(* A message on the wire.                                                   *)
WireMsg == [role : {"system", "user", "assistant", "tool"}, blocks : Seq(Part)]

(* What a message of the transcript becomes: one message, or none.          *)
slot(p, m) == IF p.api = "chat" THEN chatMessage(m) ELSE messagesTurn(m)

holds(parts, k) == \E i \in DOMAIN parts : parts[i].k = k

(* What a user says, and what becomes of it.                                *)
Task(parts) == holds(parts, "text") /\ \A i \in DOMAIN parts : parts[i].k \in {"text", "image", "url"}
UserBody(parts, B) ==
    /\ B \in Seq(Part) /\ Task(B)
    /\ holds(parts, "image") => holds(B, "image")

(* What an assistant says.                                                  *)
Leading(B) == \A b \in DOMAIN B : B[b].k = "think" => \A d \in 1..b : B[d].k = "think"
Argued(B)  == \A b \in DOMAIN B : B[b].k = "call" => B[b].x # <<>>
Asks(B, id) == \E b \in DOMAIN B : B[b].k = "call" /\ B[b].id = id
AssistantBody(parts, B) ==
    /\ B \in Seq(Part) /\ Leading(B) /\ Argued(B)
    /\ \A b \in DOMAIN B : B[b].k \in {"think", "text", "call"}
    /\ \A i \in DOMAIN ofKind(parts, {"call"}) : Asks(B, ofKind(parts, {"call"})[i].id)

(* What a message on the wire holds.                                        *)
LEMMA WireFields == \A r, b : wire(r, b).role = r /\ wire(r, b).blocks = b
BY DEF wire

(* A message on the wire is made of a role and blocks.                      *)
LEMMA WireType == \A r \in {"system", "user", "assistant", "tool"} : \A b \in Seq(Part) : wire(r, b) \in WireMsg
BY Zenon DEF wire, WireMsg

(* What a part holds.                                                       *)
LEMMA PartFields ==
    /\ \A k, i, x : part(k, i, x).k = k /\ part(k, i, x).id = i /\ part(k, i, x).x = x
    /\ \A p \in Part : p.k \in Kinds /\ p.id \in Nat /\ p.x \in Seq(STRING)
<1>1. \A k, i, x : part(k, i, x).k = k /\ part(k, i, x).id = i /\ part(k, i, x).x = x
  BY DEF part
<1>2. \A p \in Part : p.k \in Kinds /\ p.id \in Nat /\ p.x \in Seq(STRING)
  BY Zenon DEF Part
<1>3. QED
  BY <1>1, <1>2

(* The prose of a message.                                                  *)
LEMMA ProseType ==
    ASSUME NEW parts \in Seq(Part)
    PROVE  /\ textOf(parts) \in Seq(STRING) /\ part("text", 0, textOf(parts)) \in Part
           /\ prose(parts) \in Seq(Part) /\ AllOf(prose(parts), "text")
<1> DEFINE t == ofKind(parts, {"text"})
           f == [i \in DOMAIN t |-> t[i].x]
<1>1. t \in Seq(Part)
  BY OfKindMembers
<1> HIDE DEF t
<1>2. f \in Seq(Seq(STRING))
  <2>1. \A i \in DOMAIN t : t[i] \in Part
    BY <1>1
  <2>2. DOMAIN f = DOMAIN t /\ f = [i \in DOMAIN t |-> f[i]] /\ \A i \in DOMAIN t : f[i] \in Seq(STRING)
    BY <2>1, PartFields, Zenon
  <2> HIDE DEF f
  <2>3. QED
    BY <1>1, <2>2, MapType
<1>3. textOf(parts) = FlattenSeq(f)
  BY Zenon DEF textOf, t
<1> HIDE DEF f
<1>4. textOf(parts) \in Seq(STRING)
  BY <1>2, <1>3, FlattenMembers
<1>5. part("text", 0, textOf(parts)) \in Part
  <2>1. "text" \in Kinds /\ 0 \in Nat
    BY DEF Kinds
  <2>2. QED
    BY <1>4, <2>1, PartType, Zenon
<1> DEFINE w == part("text", 0, textOf(parts))
<1>6. w \in Part /\ w.k = "text"
  BY <1>5, PartFields
<1>7. prose(parts) = <<>> \/ prose(parts) = <<w>>
  BY DEF prose
<1> HIDE DEF w
<1>8. prose(parts) \in Seq(Part) /\ AllOf(prose(parts), "text")
  <2> DEFINE y == <<w>>
  <2>1. y \in Seq(Part) /\ DOMAIN y = {1} /\ y[1] = w
    BY <1>6, One
  <2> HIDE DEF y
  <2>2. AllOf(y, "text")
    BY <1>6, <2>1, Zenon DEF AllOf
  <2>3. <<>> \in Seq(Part) /\ AllOf(<<>>, "text")
    BY DEF AllOf
  <2>4. prose(parts) = <<>> \/ prose(parts) = y
    BY <1>7, Zenon DEF y
  <2>5. QED
    BY <2>1, <2>2, <2>3, <2>4, Zenon
<1>9. QED
  BY <1>4, <1>5, <1>8

(* The calls of a message, each with arguments.                             *)
LEMMA CallsType ==
    ASSUME NEW parts \in Seq(Part)
    PROVE  LET c == ofKind(parts, {"call"})
           IN  /\ calls(parts) \in Seq(Part) /\ DOMAIN calls(parts) = DOMAIN c /\ (calls(parts) = <<>> => c = <<>>)
               /\ \A i \in DOMAIN c : calls(parts)[i].k = "call" /\ calls(parts)[i].id = c[i].id /\ calls(parts)[i].x # <<>>
<1> DEFINE c == ofKind(parts, {"call"})
           f == calls(parts)
           g(q) == [q EXCEPT !.x = rawOrEmptyObject(@)]
<1>1. c \in Seq(Part) /\ \A i \in DOMAIN c : c[i].k = "call"
  BY OfKindMembers
<1> HIDE DEF c
<1>2. ASSUME NEW q \in Part PROVE g(q) \in Part /\ g(q).k = q.k /\ g(q).id = q.id /\ g(q).x # <<>>
  <2> DEFINE x == rawOrEmptyObject(q.x)
  <2>1. x \in Seq(STRING) /\ x # <<>>
    <3>1. q.x \in Seq(STRING) /\ <<"{}">> \in Seq(STRING) /\ <<"{}">> # <<>>
      BY PartFields, Literals
    <3>2. QED
      BY <3>1, Zenon DEF rawOrEmptyObject
  <2>2. g(q) = [q EXCEPT !.x = x]
    BY Zenon
  <2> HIDE DEF x, g
  <2>3. QED
    BY <2>1, <2>2, Zenon DEF Part
<1>3. DOMAIN f = DOMAIN c /\ f = [i \in DOMAIN c |-> f[i]] /\ \A i \in DOMAIN c : f[i] = g(c[i])
  BY Zenon DEF calls, c
<1> HIDE DEF f, g
<1>4. \A i \in DOMAIN c : c[i] \in Part
  BY <1>1
<1>5. ASSUME NEW i \in DOMAIN c PROVE f[i] \in Part /\ f[i].k = "call" /\ f[i].id = c[i].id /\ f[i].x # <<>>
  <2>1. c[i] \in Part /\ c[i].k = "call" /\ f[i] = g(c[i])
    BY <1>1, <1>3, <1>4
  <2>2. g(c[i]) \in Part /\ g(c[i]).k = c[i].k /\ g(c[i]).id = c[i].id /\ g(c[i]).x # <<>>
    BY <1>2, <2>1
  <2>3. QED
    BY <2>1, <2>2
<1>6. f \in Seq(Part)
  <2>1. \A i \in DOMAIN c : f[i] \in Part
    BY <1>5
  <2>2. QED
    BY <1>1, <1>3, <2>1, MapType
<1>7. f = <<>> => c = <<>>
  BY <1>1, <1>3
<1>8. QED
  BY <1>3, <1>5, <1>6, <1>7, Zenon DEF c, f

(* Reasoning first, then text, then calls.                                  *)
LEMMA LeadingRuns ==
    ASSUME NEW t \in Seq(Part), NEW w \in Seq(Part), NEW c \in Seq(Part),
           AllOf(t, "think"), AllOf(w, "text"), AllOf(c, "call"), \A i \in DOMAIN c : c[i].x # <<>>
    PROVE  LET B == (t \o w) \o c
           IN  /\ B \in Seq(Part) /\ Leading(B) /\ Argued(B)
               /\ \A b \in DOMAIN B : B[b].k \in {"think", "text", "call"}
               /\ \A i \in DOMAIN c : \E b \in DOMAIN B : B[b] = c[i]
<1> DEFINE a == t \o w
           B == a \o c
<1>1. a \in Seq(Part) /\ Len(a) = Len(t) + Len(w) /\ Len(t) \in Nat /\ Len(w) \in Nat
      /\ (\A i \in 1..Len(t) : a[i] = t[i]) /\ \A i \in 1..Len(w) : a[Len(t) + i] = w[i]
  OBVIOUS
<1>2. \A i \in 1..Len(a) : i \in 1..Len(t) \/ (i > Len(t) /\ i - Len(t) \in 1..Len(w) /\ i = Len(t) + (i - Len(t)))
  BY <1>1
<1> HIDE DEF a
<1>3. B \in Seq(Part) /\ Len(B) = Len(a) + Len(c) /\ Len(c) \in Nat /\ Len(a) \in Nat /\ DOMAIN B = 1..Len(B) /\ DOMAIN c = 1..Len(c)
      /\ (\A i \in 1..Len(a) : B[i] = a[i]) /\ \A i \in 1..Len(c) : B[Len(a) + i] = c[i]
  <2>1. a \in Seq(Part) /\ c \in Seq(Part)
    BY <1>1
  <2>2. B \in Seq(Part) /\ Len(B) = Len(a) + Len(c) /\ Len(c) \in Nat /\ Len(a) \in Nat /\ DOMAIN B = 1..Len(B) /\ DOMAIN c = 1..Len(c)
    BY <2>1
  <2>3. \A i \in 1..Len(a) : B[i] = a[i]
    BY <2>1
  <2>4. \A i \in 1..Len(c) : B[Len(a) + i] = c[i]
    BY <2>1
  <2>5. QED
    BY <2>2, <2>3, <2>4
<1>4. \A i \in 1..Len(B) : i \in 1..Len(a) \/ (i > Len(a) /\ i - Len(a) \in 1..Len(c) /\ i = Len(a) + (i - Len(a)))
  BY <1>1, <1>3
<1>5. \A i \in 1..Len(t) : t[i].k = "think"
  BY DEF AllOf
<1>6. \A i \in 1..Len(w) : w[i].k = "text"
  BY DEF AllOf
<1>7. \A i \in 1..Len(c) : c[i].k = "call" /\ c[i].x # <<>>
  BY DEF AllOf
<1> HIDE DEF B
<1>8. \A i \in 1..Len(t) : i \in 1..Len(a) /\ a[i].k = "think" /\ B[i].k = "think"
  <2>1. \A i \in 1..Len(t) : i \in 1..Len(a)
    BY <1>1
  <2>2. QED
    BY <1>1, <1>3, <1>5, <2>1, Zenon
<1>9. \A i \in 1..Len(a) : i > Len(t) => B[i].k = "text"
  <2> SUFFICES ASSUME NEW i \in 1..Len(a), i > Len(t) PROVE B[i].k = "text"
    OBVIOUS
  <2>1. i - Len(t) \in 1..Len(w) /\ i = Len(t) + (i - Len(t))
    BY <1>1, <1>2
  <2>2. a[i] = w[i - Len(t)]
    <3> DEFINE z == i - Len(t)
    <3>1. z \in 1..Len(w) /\ i = Len(t) + z
      BY <2>1
    <3> HIDE DEF z
    <3>2. a[i] = w[z]
      BY <1>1, <3>1
    <3>3. QED
      BY <3>2 DEF z
  <2>3. QED
    BY <1>3, <1>6, <2>1, <2>2
<1>10. \A i \in 1..Len(B) : i > Len(a) => \E j \in 1..Len(c) : B[i] = c[j]
  <2> SUFFICES ASSUME NEW i \in 1..Len(B), i > Len(a) PROVE \E j \in 1..Len(c) : B[i] = c[j]
    OBVIOUS
  <2> DEFINE z == i - Len(a)
  <2>1. z \in 1..Len(c) /\ i = Len(a) + z
    BY <1>1, <1>3
  <2> HIDE DEF z
  <2>2. B[i] = c[z]
    BY <1>3, <2>1
  <2>3. QED
    BY <2>1, <2>2
<1>11. \A i \in 1..Len(B) : i \in 1..Len(t) \/ B[i].k = "text" \/ \E j \in 1..Len(c) : B[i] = c[j]
  <2>1. \A i \in 1..Len(B) : i \in 1..Len(t) \/ (i \in 1..Len(a) /\ i > Len(t)) \/ i > Len(a)
    BY <1>1, <1>3
  <2>2. QED
    BY <1>9, <1>10, <2>1, Zenon
<1>12. \A b \in DOMAIN B : B[b].k \in {"think", "text", "call"}
  <2> SUFFICES ASSUME NEW b \in 1..Len(B) PROVE B[b].k = "think" \/ B[b].k = "text" \/ B[b].k = "call"
    BY <1>3
  <2>1. QED
    BY <1>7, <1>8, <1>11, Zenon
<1>13. Argued(B)
  <2> SUFFICES ASSUME NEW b \in 1..Len(B), B[b].k = "call" PROVE B[b].x # <<>>
    BY <1>3 DEF Argued
  <2>1. "think" # "call" /\ "text" # "call"
    OBVIOUS
  <2>2. QED
    BY <1>7, <1>8, <1>11, <2>1, Zenon
<1>14. Leading(B)
  <2> SUFFICES ASSUME NEW b \in 1..Len(B), B[b].k = "think", NEW d \in 1..b PROVE B[d].k = "think"
    BY <1>3 DEF Leading
  <2>1. "think" # "call" /\ "text" # "think"
    OBVIOUS
  <2>2. b \in 1..Len(t)
    BY <1>7, <1>11, <2>1, Zenon
  <2>3. d \in 1..Len(t)
    BY <1>1, <2>2
  <2>4. QED
    BY <1>8, <2>3
<1>15. \A i \in DOMAIN c : \E b \in DOMAIN B : B[b] = c[i]
  <2> SUFFICES ASSUME NEW i \in 1..Len(c) PROVE \E b \in 1..Len(B) : B[b] = c[i]
    BY <1>3
  <2>1. Len(a) + i \in 1..Len(B)
    BY <1>3
  <2>2. QED
    BY <1>3, <2>1
<1>16. QED
  BY <1>3, <1>12, <1>13, <1>14, <1>15, Zenon DEF B, a

(* A user's message.                                                        *)
LEMMA UserSlot ==
    ASSUME NEW p \in Prov, NEW m, m.role = "user", m.parts \in Seq(Part), Task(m.parts)
    PROVE  \/ slot(p, m) = <<>> /\ ~holds(m.parts, "image")
           \/ \E B : slot(p, m) = <<wire("user", B)>> /\ UserBody(m.parts, B) /\ B # <<>>
<1> DEFINE s == m.parts
           pics == ofKind(s, {"image", "url"})
           w == part("text", 0, textOf(s))
           none == pics = <<>>
<1>1. s \in Seq(Part) /\ w \in Part /\ w.k = "text" /\ Task(s)
  BY ProseType, PartFields
<1>2. none => ~holds(s, "image")
  <2>1. ASSUME NEW i \in DOMAIN s, s[i].k = "image" PROVE pics # <<>>
    <3>1. s[i].k \in {"image", "url"}
      BY <2>1
    <3>2. PICK j \in DOMAIN pics : pics[j] = s[i]
      BY <1>1, <3>1, OfKindHolds, ZenonT(40)
    <3>3. QED
      BY <3>2
  <2>2. QED
    BY <2>1 DEF holds
<1>3. <<w>> \in Seq(Part) /\ Task(<<w>>) /\ <<w>> # <<>>
  <2> HIDE DEF w
  <2>1. <<w>> \in Seq(Part) /\ DOMAIN <<w>> = {1} /\ <<w>>[1] = w /\ <<w>> # <<>>
    BY <1>1
  <2>2. QED
    BY <1>1, <2>1 DEF Task, holds
<1>4. s # <<>>
  BY <1>1 DEF Task, holds
<1>5. m.role # "assistant" /\ m.role # "tool"
  OBVIOUS
<1>6. CASE p.api = "chat"
  <2>1. slot(p, m) = <<userMessage(s)>>
    BY <1>5, <1>6 DEF slot, chatMessage
  <2>2. userMessage(s) = wire("user", IF none THEN <<w>> ELSE s)
    BY Zenon DEF userMessage
  <2> DEFINE B == IF none THEN <<w>> ELSE s
  <2>3. UserBody(s, B) /\ B # <<>>
    <3> HIDE DEF none, w, s
    <3>1. QED
      BY <1>1, <1>2, <1>3, <1>4, Zenon DEF UserBody
  <2>4. QED
    BY <2>1, <2>2, <2>3, Zenon
<1>7. CASE p.api # "chat"
  <2>1. slot(p, m) = IF userBlocks(s) = <<>> THEN <<>> ELSE <<wire("user", userBlocks(s))>>
    BY <1>5, <1>7 DEF slot, messagesTurn
  <2>2. CASE none
    <3>1. userBlocks(s) = prose(s) /\ (prose(s) = <<>> \/ prose(s) = <<w>>)
      BY <2>2, Zenon DEF userBlocks, prose
    <3>2. UserBody(s, <<w>>)
      BY <1>2, <1>3, <2>2, Zenon DEF UserBody
    <3> HIDE DEF none, w, s
    <3>3. QED
      BY <1>2, <1>3, <2>1, <2>2, <3>1, <3>2, Zenon DEF s
  <2>3. CASE ~none
    <3> DEFINE B == ofKind(s, {"text", "image"})
    <3>1. userBlocks(s) = B
      BY <2>3, Zenon DEF userBlocks
    <3>2. B \in Seq(Part) /\ \A i \in DOMAIN B : B[i].k \in {"text", "image"}
      BY <1>1, OfKindMembers
    <3>3. \A k \in {"text", "image"} : holds(s, k) => holds(B, k)
      <4> SUFFICES ASSUME NEW k \in {"text", "image"}, NEW i \in DOMAIN s, s[i].k = k PROVE \E j \in DOMAIN B : B[j].k = k
        BY DEF holds
      <4>1. s[i].k \in {"text", "image"}
        OBVIOUS
      <4>2. PICK j \in DOMAIN B : B[j] = s[i]
        BY <1>1, <4>1, OfKindHolds, ZenonT(40)
      <4>3. QED
        BY <4>2
    <3>4. holds(s, "text")
      BY <1>1 DEF Task
    <3> HIDE DEF B, none
    <3>5. holds(B, "text") /\ (holds(s, "image") => holds(B, "image"))
      BY <3>3, <3>4
    <3>6. UserBody(s, B) /\ B # <<>>
      BY <3>2, <3>5 DEF UserBody, Task, holds
    <3>7. slot(p, m) = <<wire("user", B)>>
      BY <2>1, <3>1, <3>6
    <3>8. QED
      BY <3>6, <3>7, Zenon
  <2>4. QED
    BY <2>2, <2>3
<1>8. QED
  BY <1>6, <1>7

(* The result of a call, and what becomes of it.                            *)
Result(parts) == \E k \in {"result", "error"}, id \in Nat : parts = <<part(k, id, <<"saw">>)>>
ResultBody(p, parts, B) ==
    \E b \in Part : /\ B = <<b>> /\ b.id = parts[1].id
                    /\ b.k \in {"result", "error"} /\ (p.api = "chat" => b.k = "result")

(* The answer to a call is a message of one block, under its id.            *)
LEMMA ToolSlot ==
    ASSUME NEW p \in Prov, NEW m, m.role = "tool", Result(m.parts)
    PROVE  \E r \in {"tool", "user"}, B \in Seq(Part) : slot(p, m) = <<wire(r, B)>> /\ ResultBody(p, m.parts, B)
<1>01. PICK k \in {"result", "error"}, id \in Nat : m.parts = <<part(k, id, <<"saw">>)>>
  BY Zenon DEF Result
<1> DEFINE q == part(k, id, <<"saw">>)
<1>0. q \in Part /\ q.k = k /\ q.id = id
  <2>1. k \in Kinds
    BY DEF Kinds
  <2>2. <<"saw">> \in Seq(STRING)
    BY Literals
  <2>3. q \in Part
    BY <2>1, <2>2, PartType, Zenon
  <2>4. q.k = k /\ q.id = id
    BY DEF part
  <2>5. QED
    BY <2>3, <2>4, Zenon
<1> HIDE DEF q
<1>1. m.parts = <<q>> /\ m.role # "assistant" /\ m.role = "tool"
  BY <1>01 DEF q
<1>02. m.parts[1].id = id
  BY <1>0, <1>1
<1>03. ASSUME NEW b \in Part, b.id = id, b.k \in {"result", "error"}, p.api = "chat" => b.k = "result"
      PROVE  <<b>> \in Seq(Part) /\ ResultBody(p, m.parts, <<b>>)
  BY <1>02, <1>03, One, Zenon DEF ResultBody
<1>2. CASE p.api = "chat"
  <2>1. slot(p, m) = toolMessages(<<q>>)
    BY <1>1, <1>2 DEF slot, chatMessage
  <2> DEFINE b == [q EXCEPT !.k = "result"]
  <2>2. toolMessages(<<q>>) = <<wire("tool", <<b>>)>>
    <3> DEFINE y == <<q>>
    <3>1. y \in Seq(Part) /\ DOMAIN y = 1..1 /\ y[1] = q
      BY <1>0
    <3> HIDE DEF y
    <3>2. toolMessages(y) = [i \in 1..1 |-> wire("tool", <<[y[i] EXCEPT !.k = "result"]>>)]
      BY <3>1, Zenon DEF toolMessages
    <3>3. \A i \in 1..1 : i = 1
      OBVIOUS
    <3>4. \A i \in 1..1 : wire("tool", <<[y[i] EXCEPT !.k = "result"]>>) = wire("tool", <<b>>)
      BY <3>1, <3>3, Zenon
    <3> DEFINE z == wire("tool", <<b>>)
    <3>5. toolMessages(y) = [i \in 1..1 |-> z]
      BY <3>2, <3>4, Zenon
    <3> HIDE DEF z
    <3>6. toolMessages(y) = <<z>>
      BY <3>5
    <3>7. QED
      BY <3>6, Zenon DEF y, z
  <2>3. b \in Part /\ b.k = "result" /\ b.id = id
    <3>1. "result" \in Kinds
      BY DEF Kinds
    <3>2. QED
      BY <1>0, <3>1, Zenon DEF Part
  <2> HIDE DEF b
  <2>4. b.k \in {"result", "error"} /\ "tool" \in {"tool", "user"}
    BY <2>3
  <2>5. <<b>> \in Seq(Part) /\ ResultBody(p, m.parts, <<b>>)
    BY <1>03, <2>3, <2>4
  <2>6. slot(p, m) = <<wire("tool", <<b>>)>>
    BY <2>1, <2>2
  <2>7. QED
    BY <2>4, <2>5, <2>6, Zenon
<1>3. CASE p.api # "chat"
  <2>1. slot(p, m) = <<wire("user", <<q>>)>>
    BY <1>1, <1>3 DEF slot, messagesTurn
  <2>2. "user" \in {"tool", "user"} /\ q.k \in {"result", "error"}
    BY <1>0
  <2>3. <<q>> \in Seq(Part) /\ ResultBody(p, m.parts, <<q>>)
    BY <1>0, <1>3, <1>03, <2>2
  <2>4. QED
    BY <2>1, <2>2, <2>3, Zenon
<1>4. QED
  BY <1>2, <1>3

(* A turn.                                                                  *)
LEMMA AssistantSlot ==
    ASSUME NEW p \in Prov, NEW m \in Turn
    PROVE  \/ slot(p, m) = <<>> /\ ofKind(m.parts, {"call"}) = <<>>
           \/ \E B : slot(p, m) = <<wire("assistant", B)>> /\ AssistantBody(m.parts, B) /\ (p.api = "messages" => B # <<>>)
<1> DEFINE s == m.parts
           th == ofKind(s, {"think"})
           w == prose(s)
           c == calls(s)
           o == ofKind(s, {"call"})
<1>1. s \in Seq(Part) /\ m.role = "assistant"
  BY TurnFields
<1>2. th \in Seq(Part) /\ AllOf(th, "think")
  BY <1>1, OfKindMembers DEF AllOf
<1>3. w \in Seq(Part) /\ AllOf(w, "text")
  BY <1>1, ProseType
<1>4. /\ c \in Seq(Part) /\ DOMAIN c = DOMAIN o /\ (c = <<>> => o = <<>>)
      /\ \A i \in DOMAIN o : c[i].k = "call" /\ c[i].id = o[i].id /\ c[i].x # <<>>
  BY <1>1, CallsType
<1>5. AllOf(c, "call") /\ \A i \in DOMAIN c : c[i].x # <<>>
  BY <1>4, Zenon DEF AllOf
<1> HIDE DEF th, w, c, o, s
<1>6. ASSUME NEW t \in Seq(Part), AllOf(t, "think") PROVE AssistantBody(s, (t \o w) \o c)
  <2> DEFINE B == (t \o w) \o c
  <2>1. /\ B \in Seq(Part) /\ Leading(B) /\ Argued(B)
        /\ \A b \in DOMAIN B : B[b].k \in {"think", "text", "call"}
        /\ \A i \in DOMAIN c : \E b \in DOMAIN B : B[b] = c[i]
    BY <1>3, <1>4, <1>5, <1>6, LeadingRuns
  <2> HIDE DEF B
  <2>2. \A i \in DOMAIN o : Asks(B, o[i].id)
    BY <1>4, <2>1, Zenon DEF Asks
  <2>3. QED
    BY <2>1, <2>2, Zenon DEF AssistantBody, B, o
<1>7. CASE p.api = "chat"
  <2> DEFINE t == IF th = <<>> THEN <<>> ELSE <<Last(th)>>
  <2>1. t \in Seq(Part) /\ AllOf(t, "think")
    <3>1. CASE th = <<>>
      BY <3>1 DEF AllOf
    <3>2. CASE th # <<>>
      <4>1. Len(th) \in DOMAIN th /\ Last(th) = th[Len(th)]
        BY <1>2, <3>2 DEF Last
      <4>2. Last(th) \in Part /\ Last(th).k = "think"
        BY <1>2, <4>1 DEF AllOf
      <4>3. t = <<Last(th)>>
        BY <3>2
      <4> HIDE DEF t
      <4>4. DOMAIN t = {1} /\ t[1] = Last(th)
        BY <4>3
      <4>5. QED
        BY <4>2, <4>3, <4>4, One DEF AllOf
    <3>3. QED
      BY <3>1, <3>2
  <2>2. slot(p, m) = <<assistantMessage(s)>>
    BY <1>1, <1>7 DEF slot, chatMessage, s
  <2>3. assistantMessage(s) = wire("assistant", (t \o w) \o c)
    BY Zenon DEF assistantMessage, th, w, c
  <2> HIDE DEF t
  <2>4. AssistantBody(s, (t \o w) \o c)
    BY <1>6, <2>1
  <2>5. p.api # "messages"
    BY <1>7
  <2>6. QED
    BY <2>2, <2>3, <2>4, <2>5, Zenon DEF s
<1>8. CASE p.api # "chat"
  <2> DEFINE B == (th \o w) \o c
  <2>1. slot(p, m) = IF assistantBlocks(s) = <<>> THEN <<>> ELSE <<wire("assistant", assistantBlocks(s))>>
    BY <1>1, <1>8 DEF slot, messagesTurn, s
  <2>2. assistantBlocks(s) = B
    BY Zenon DEF assistantBlocks, th, w, c
  <2>3. AssistantBody(s, B)
    BY <1>2, <1>6
  <2>4. B = <<>> => o = <<>>
    <3>1. B = <<>> => c = <<>>
      BY <1>2, <1>3, <1>4
    <3>2. QED
      BY <1>4, <3>1
  <2> HIDE DEF B
  <2>5. QED
    BY <2>1, <2>2, <2>3, <2>4, Zenon DEF s, o
<1>9. QED
  BY <1>7, <1>8

(* What a message of the transcript may hold, and what it becomes.          *)
Shaped(m) == (m.role = "user" => Task(m.parts)) /\ (m.role = "tool" => Result(m.parts))

Fits(p, m, w) ==
    /\ m.role = "assistant" => w.role = "assistant" /\ AssistantBody(m.parts, w.blocks) /\ (p.api = "messages" => w.blocks # <<>>)
    /\ m.role = "user"      => w.role = "user" /\ UserBody(m.parts, w.blocks) /\ w.blocks # <<>>
    /\ m.role = "tool"      => w.role \in {"tool", "user"} /\ ResultBody(p, m.parts, w.blocks)

(* A message that is left out asks for nothing and shows nothing.           *)
Silent(m) == /\ m.role = "assistant" => ofKind(m.parts, {"call"}) = <<>>
             /\ m.role = "user"      => ~holds(m.parts, "image")

(* Each message of a transcript becomes at most one.                        *)
LEMMA SlotFits ==
    ASSUME NEW p \in Prov, NEW m \in Turn \cup Note, Shaped(m)
    PROVE  \/ slot(p, m) = <<>> /\ Silent(m)
           \/ \E w \in WireMsg : slot(p, m) = <<w>> /\ Fits(p, m, w)
<1>0. m.role \in {"assistant", "user", "tool"} /\ m.parts \in Seq(Part) /\ (m.role = "assistant" => m \in Turn)
  BY TurnFields, NoteFields
<1>1. CASE m.role = "assistant"
  <2>0. m.role # "user" /\ m.role # "tool"
    BY <1>1
  <2>1. CASE slot(p, m) = <<>> /\ ofKind(m.parts, {"call"}) = <<>>
    BY <2>0, <2>1, Zenon DEF Silent
  <2>2. ASSUME NEW B, slot(p, m) = <<wire("assistant", B)>>, AssistantBody(m.parts, B), p.api = "messages" => B # <<>>
        PROVE  \E w \in WireMsg : slot(p, m) = <<w>> /\ Fits(p, m, w)
    <3>1. B \in Seq(Part)
      BY <2>2, Zenon DEF AssistantBody
    <3>2. wire("assistant", B) \in WireMsg
      BY <3>1, WireType
    <3>3. wire("assistant", B).role = "assistant" /\ wire("assistant", B).blocks = B
      BY WireFields, Zenon
    <3>4. Fits(p, m, wire("assistant", B))
      BY <2>0, <2>2, <3>3, Zenon DEF Fits
    <3>5. QED
      BY <2>2, <3>2, <3>4, Zenon
  <2>3. QED
    BY <1>0, <1>1, <2>1, <2>2, AssistantSlot, Zenon
<1>2. CASE m.role = "user"
  <2>0. m.role # "assistant" /\ m.role # "tool" /\ Task(m.parts)
    BY <1>2 DEF Shaped
  <2>1. CASE slot(p, m) = <<>> /\ ~holds(m.parts, "image")
    BY <2>0, <2>1, Zenon DEF Silent
  <2>2. ASSUME NEW B, slot(p, m) = <<wire("user", B)>>, UserBody(m.parts, B), B # <<>>
        PROVE  \E w \in WireMsg : slot(p, m) = <<w>> /\ Fits(p, m, w)
    <3>1. B \in Seq(Part)
      BY <2>2, Zenon DEF UserBody
    <3>2. wire("user", B) \in WireMsg
      BY <3>1, WireType
    <3>3. wire("user", B).role = "user" /\ wire("user", B).blocks = B
      BY WireFields, Zenon
    <3>4. Fits(p, m, wire("user", B))
      BY <2>0, <2>2, <3>3, Zenon DEF Fits
    <3>5. QED
      BY <2>2, <3>2, <3>4, Zenon
  <2>3. QED
    BY <1>0, <1>2, <2>0, <2>1, <2>2, UserSlot, Zenon
<1>3. CASE m.role = "tool"
  <2>0. m.role # "assistant" /\ m.role # "user" /\ Result(m.parts)
    BY <1>3 DEF Shaped
  <2>1. PICK r \in {"tool", "user"}, B \in Seq(Part) : slot(p, m) = <<wire(r, B)>> /\ ResultBody(p, m.parts, B)
    BY <1>3, <2>0, ToolSlot
  <2>2. wire(r, B) \in WireMsg /\ wire(r, B).role = r /\ wire(r, B).blocks = B
    <3>1. r \in {"system", "user", "assistant", "tool"}
      BY <2>1
    <3>2. QED
      BY <3>1, WireType, WireFields, Zenon
  <2>3. Fits(p, m, wire(r, B))
    BY <2>0, <2>1, <2>2, Zenon DEF Fits
  <2>4. QED
    BY <2>1, <2>2, <2>3, Zenon
<1>4. QED
  BY <1>0, <1>1, <1>2, <1>3

-----------------------------------------------------------------------------
(* The messages of a request: o tells which message of the transcript each  *)
(* one is.                                                                  *)
Carries(p, c, msgs, o) ==
    /\ msgs \in Seq(WireMsg) /\ 1 \in DOMAIN msgs /\ msgs[1] = system
    /\ o \in [2..Len(msgs) -> 1..Len(c)]
    /\ \A i \in 2..Len(msgs) : Fits(p, c[o[i]], msgs[i])
    /\ \A i, j \in 2..Len(msgs) : i < j => o[i] < o[j]
    /\ \A k \in 1..Len(c) : Silent(c[k]) \/ \E i \in 2..Len(msgs) : o[i] = k

(* A request carries the transcript.                                        *)
LEMMA RequestCarries ==
    ASSUME NEW p \in Prov, NEW c \in Seq(Turn \cup Note), \A i \in 1..Len(c) : Shaped(c[i])
    PROVE  \E o : Carries(p, c, toMessages(p, c), o)
<1> DEFINE s == [i \in DOMAIN c |-> slot(p, c[i])]
           n == Len(c)
           F == FlattenSeq(s)
           msgs == <<system>> \o F
<1>1. n \in Nat /\ DOMAIN c = 1..n /\ \A i \in 1..n : c[i] \in Turn \cup Note
  OBVIOUS
<1>2. toMessages(p, c) = msgs
  <2>1. CASE p.api = "chat"
    <3>1. s = [i \in DOMAIN c |-> chatMessage(c[i])]
      BY <2>1, Zenon DEF slot
    <3>2. QED
      BY <2>1, <3>1, Zenon DEF toMessages
  <2>2. CASE p.api # "chat"
    <3>1. s = [i \in DOMAIN c |-> messagesTurn(c[i])]
      BY <2>2, Zenon DEF slot
    <3>2. QED
      BY <2>2, <3>1, Zenon DEF toMessages, toSystem
  <2>3. QED
    BY <2>1, <2>2
<1>3. \A i \in 1..n : \/ s[i] = <<>> /\ Silent(c[i])
                      \/ \E w \in WireMsg : s[i] = <<w>> /\ Fits(p, c[i], w)
  <2>1. \A i \in 1..n : s[i] = slot(p, c[i])
    BY <1>1, Zenon
  <2> HIDE DEF s
  <2>2. QED
    BY <1>1, <2>1, SlotFits, Zenon
<1>4. s \in Seq(Seq(WireMsg)) /\ Len(s) = n
  <2>1. \A i \in DOMAIN c : s[i] \in Seq(WireMsg)
    <3> HIDE DEF s
    <3>1. \A w \in WireMsg : <<w>> \in Seq(WireMsg)
      BY One, Zenon
    <3>2. <<>> \in Seq(WireMsg)
      OBVIOUS
    <3>3. QED
      BY <1>1, <1>3, <3>1, <3>2, Zenon
  <2>2. DOMAIN s = DOMAIN c /\ s = [i \in DOMAIN c |-> s[i]]
    OBVIOUS
  <2> HIDE DEF s
  <2>3. QED
    BY <2>1, <2>2, MapType
<1> HIDE DEF s, F, n
<1>5. \A i \in 1..Len(s) : Len(s[i]) <= 1
  <2> SUFFICES ASSUME NEW i \in 1..n PROVE Len(s[i]) <= 1
    BY <1>4
  <2>1. CASE s[i] = <<>>
    BY <2>1
  <2>2. CASE \E w \in WireMsg : s[i] = <<w>>
    BY <2>2
  <2>3. QED
    BY <1>3, <2>1, <2>2
<1>6. F \in Seq(WireMsg) /\ \E q : Embeds(F, s, n, q)
  BY <1>4, <1>5, FlattenOnes DEF F
<1>7. PICK q : Embeds(F, s, n, q)
  BY <1>6
<1>8. /\ q \in [1..Len(F) -> 1..n]
      /\ \A i \in 1..Len(F) : s[q[i]] = <<F[i]>>
      /\ \A i, j \in 1..Len(F) : i < j => q[i] < q[j]
      /\ \A k \in 1..n : s[k] # <<>> => \E i \in 1..Len(F) : q[i] = k
  BY <1>7, Zenon DEF Embeds
<1>9. system \in WireMsg
  <2>1. "text" \in Kinds /\ 0 \in Nat
    BY DEF Kinds
  <2>2. part("text", 0, <<"system">>) \in Part
    BY <2>1, Literals, PartType, Zenon
  <2>3. <<part("text", 0, <<"system">>)>> \in Seq(Part)
    BY <2>2, One, Zenon
  <2>4. QED
    BY <2>3, WireType, Zenon DEF system
<1>10. msgs \in Seq(WireMsg) /\ Len(msgs) = Len(F) + 1 /\ Len(F) \in Nat /\ msgs[1] = system /\ \A i \in 1..Len(F) : msgs[i + 1] = F[i]
  <2> DEFINE y == <<system>>
  <2>1. y \in Seq(WireMsg) /\ Len(y) = 1 /\ y[1] = system
    BY <1>9
  <2> HIDE DEF y
  <2>2. y \o F \in Seq(WireMsg) /\ Len(y \o F) = Len(F) + 1 /\ Len(F) \in Nat
    <3>1. F \in Seq(WireMsg) /\ Len(F) \in Nat
      BY <1>6
    <3>2. y \o F \in Seq(WireMsg) /\ Len(y \o F) = Len(y) + Len(F)
      BY <2>1, <3>1, ConcatProperties
    <3>3. QED
      BY <2>1, <3>1, <3>2
  <2>3. (y \o F)[1] = system
    BY <1>6, <2>1
  <2>4. \A i \in 1..Len(F) : (y \o F)[i + 1] = F[i]
    <3> SUFFICES ASSUME NEW i \in 1..Len(F) PROVE (y \o F)[i + 1] = F[i]
      OBVIOUS
    <3> DEFINE z == i + 1
    <3>1. z \in 1..Len(y \o F) /\ ~(z <= Len(y)) /\ z - Len(y) = i
      BY <2>1, <2>2
    <3> HIDE DEF z
    <3>2. (y \o F)[z] = F[z - Len(y)]
      BY <1>6, <2>1, <3>1, ConcatProperties, ZenonT(40)
    <3>3. QED
      BY <3>1, <3>2 DEF z
  <2>5. QED
    BY <2>2, <2>3, <2>4 DEF y
<1> HIDE DEF msgs
<1> DEFINE o == [i \in 2..Len(msgs) |-> q[i - 1]]
<1>11. \A i \in 2..Len(msgs) : i - 1 \in 1..Len(F) /\ o[i] = q[i - 1] /\ msgs[i] = F[i - 1]
  <2>1. \A i \in 2..Len(msgs) : i - 1 \in 1..Len(F) /\ i = (i - 1) + 1
    BY <1>10
  <2>2. \A i \in 2..Len(msgs) : msgs[i] = F[i - 1]
    <3> SUFFICES ASSUME NEW i \in 2..Len(msgs) PROVE msgs[i] = F[i - 1]
      OBVIOUS
    <3> DEFINE z == i - 1
    <3>1. z \in 1..Len(F) /\ i = z + 1
      BY <2>1
    <3> HIDE DEF z
    <3>2. msgs[i] = F[z]
      BY <1>10, <3>1
    <3>3. QED
      BY <3>2 DEF z
  <2>3. QED
    BY <2>1, <2>2
<1>12. \A i \in 1..Len(F) : i + 1 \in 2..Len(msgs) /\ o[i + 1] = q[i]
  <2>1. \A i \in 1..Len(F) : i + 1 \in 2..Len(msgs) /\ (i + 1) - 1 = i
    BY <1>10
  <2>2. QED
    BY <2>1
<1>13. o \in [2..Len(msgs) -> 1..n]
  BY <1>8, <1>11
<1> HIDE DEF o
<1>14. \A i \in 2..Len(msgs) : Fits(p, c[o[i]], msgs[i])
  <2> SUFFICES ASSUME NEW i \in 2..Len(msgs) PROVE Fits(p, c[o[i]], msgs[i])
    OBVIOUS
  <2> DEFINE k == q[i - 1]
             w == F[i - 1]
  <2>1. i - 1 \in 1..Len(F) /\ o[i] = k /\ msgs[i] = w
    BY <1>11
  <2>2. k \in 1..n /\ s[k] = <<w>>
    BY <1>8, <2>1
  <2> HIDE DEF k, w
  <2>3. s[k] # <<>>
    BY <2>2
  <2>4. PICK v \in WireMsg : s[k] = <<v>> /\ Fits(p, c[k], v)
    BY <1>3, <2>2, <2>3, Zenon
  <2>5. v = w
    BY <2>2, <2>4
  <2>6. QED
    BY <2>1, <2>4, <2>5
<1>15. \A i, j \in 2..Len(msgs) : i < j => o[i] < o[j]
  <2> SUFFICES ASSUME NEW i \in 2..Len(msgs), NEW j \in 2..Len(msgs), i < j PROVE o[i] < o[j]
    OBVIOUS
  <2>1. i - 1 < j - 1 /\ i - 1 \in 1..Len(F) /\ j - 1 \in 1..Len(F)
    BY <1>11
  <2>2. q[i - 1] < q[j - 1]
    BY <1>8, <2>1
  <2>3. QED
    BY <1>11, <2>2
<1>16. \A k \in 1..n : Silent(c[k]) \/ \E i \in 2..Len(msgs) : o[i] = k
  <2> SUFFICES ASSUME NEW k \in 1..n, ~Silent(c[k]) PROVE \E i \in 2..Len(msgs) : o[i] = k
    OBVIOUS
  <2>1. s[k] # <<>>
    <3>1. PICK v \in WireMsg : s[k] = <<v>>
      BY <1>3, Zenon
    <3>2. QED
      BY <3>1
  <2>2. PICK i \in 1..Len(F) : q[i] = k
    BY <1>8, <2>1
  <2>3. QED
    BY <1>12, <2>2
<1>17. 1 \in DOMAIN msgs
  BY <1>10
<1>18. Carries(p, c, msgs, o)
  BY <1>10, <1>13, <1>14, <1>15, <1>16, <1>17, Zenon DEF Carries, n
<1>19. QED
  BY <1>2, <1>18, Zenon

(* A nonempty set of numbers has a least one, and a greatest one when it is *)
(* bounded.                                                                 *)
LEMMA Extremes ==
    ASSUME NEW n \in Nat, NEW S, S \subseteq 1..n, S # {}
    PROVE  /\ \E x \in S : \A y \in S : x <= y
           /\ \E x \in S : \A y \in S : y <= x
<1>1. ASSUME NEW U, U \subseteq 0..n, U # {} PROVE \E x \in U : \A y \in U : x <= y
  <2> DEFINE R == OpToRel(<, Nat)
  <2>1. IsWellFoundedOn(R, Nat)
    BY NatLessThanWellFounded
  <2>2. \A i, j \in Nat : i < j => <<i, j>> \in R
    BY DEF OpToRel
  <2> HIDE DEF R
  <2>3. U \subseteq Nat
    BY <1>1
  <2>4. PICK x \in U : \A y \in U : ~(<<y, x>> \in R)
    BY <1>1, <2>1, <2>3, WFMin
  <2>5. \A y \in U : x <= y
    <3>1. \A y \in U : y \in Nat /\ x \in Nat
      BY <2>3
    <3>2. \A y \in U : ~(y < x)
      BY <2>2, <2>4, <3>1, Zenon
    <3>3. QED
      BY <3>1, <3>2
  <2>6. QED
    BY <2>5
<1>2. \E x \in S : \A y \in S : x <= y
  <2>1. S \subseteq 0..n
    OBVIOUS
  <2>2. QED
    BY <1>1, <2>1
<1>3. \E x \in S : \A y \in S : y <= x
  <2> DEFINE U == {n - y : y \in S}
  <2>1. U \subseteq 0..n /\ U # {}
    <3>1. \A y \in S : n - y \in 0..n
      OBVIOUS
    <3>2. U # {}
      OBVIOUS
    <3>3. QED
      BY <3>1, <3>2
  <2>2. PICK u \in U : \A v \in U : u <= v
    <3> HIDE DEF U
    <3>1. QED
      BY <1>1, <2>1
  <2>3. PICK x \in S : u = n - x
    OBVIOUS
  <2>4. \A y \in S : n - x <= n - y
    BY <2>2, <2>3
  <2>5. \A y \in S : y <= x
    BY <2>4
  <2>6. QED
    BY <2>5
<1>4. QED
  BY <1>2, <1>3

(* A pair has at most two members.                                          *)
LEMMA AtMostTwo == \A a, b, S : S \subseteq {a, b} => Cardinality(S) <= 2
<1> SUFFICES ASSUME NEW a, NEW b, NEW S, S \subseteq {a, b} PROVE Cardinality(S) <= 2
  OBVIOUS
<1>1. IsFiniteSet({a}) /\ Cardinality({a}) = 1
  BY FS_Singleton
<1>2. IsFiniteSet({a} \cup {b}) /\ Cardinality({a} \cup {b}) <= 2
  BY <1>1, FS_AddElement
<1>3. {a} \cup {b} = {a, b}
  OBVIOUS
<1>4. Cardinality(S) <= Cardinality({a, b}) /\ IsFiniteSet(S)
  BY <1>2, <1>3, FS_Subset
<1>5. Cardinality(S) \in Nat /\ Cardinality({a, b}) \in Nat
  BY <1>2, <1>3, <1>4, FS_CardinalityType
<1>6. QED
  BY <1>2, <1>3, <1>4, <1>5

-----------------------------------------------------------------------------
(* What the API wants of each message.                                      *)
Clean(p, w) ==
    /\ Argued(w.blocks) /\ Leading(w.blocks)
    /\ w.role # "assistant" \/ p.api = "messages" => w.blocks # <<>>

reports(b) == b.k \in {"result", "error"}

(* What a message of the transcript becomes is one the API takes; only tool *)
(* messages report, and all but turns have a block that can carry the mark. *)
LEMMA FittingClean ==
    ASSUME NEW p \in Prov, NEW m \in Turn \cup Note, NEW w \in WireMsg, Fits(p, m, w)
    PROVE  /\ Clean(p, w)
           /\ w.role = "assistant" <=> m.role = "assistant"
           /\ \A b \in DOMAIN w.blocks : reports(w.blocks[b]) => m.role = "tool" /\ w.blocks[b].id = m.parts[1].id
           /\ m.role # "assistant" => \E b \in DOMAIN w.blocks :
                 w.blocks[b].k = "text" \/ w.blocks[b].k = "result" \/ (p.api # "chat" /\ w.blocks[b].k = "error")
           /\ m.role = "user" /\ holds(m.parts, "image") => holds(w.blocks, "image")
<1> DEFINE B == w.blocks
           Held == \A b \in DOMAIN B : reports(B[b]) => m.role = "tool" /\ B[b].id = m.parts[1].id
           Able == \E b \in DOMAIN B : B[b].k = "text" \/ B[b].k = "result" \/ (p.api # "chat" /\ B[b].k = "error")
<1>0. m.role \in {"assistant", "user", "tool"}
  BY TurnFields, NoteFields
<1> HIDE DEF B
<1>1. CASE m.role = "assistant"
  <2>1. w.role = "assistant" /\ AssistantBody(m.parts, B) /\ (p.api = "messages" => B # <<>>)
    BY <1>1 DEF Fits, B
  <2>2. Leading(B) /\ Argued(B) /\ \A b \in DOMAIN B : B[b].k \in {"think", "text", "call"}
    BY <2>1, Zenon DEF AssistantBody
  <2>3. Clean(p, w)
    BY <2>1, <2>2, Zenon DEF Clean, B
  <2>4. Held
    BY <2>2 DEF reports
  <2>5. m.role # "user"
    BY <1>1
  <2>6. QED
    BY <1>1, <2>1, <2>3, <2>4, <2>5, Zenon DEF B
<1>2. CASE m.role = "user"
  <2>1. w.role = "user" /\ UserBody(m.parts, B) /\ B # <<>>
    BY <1>2 DEF Fits, B
  <2>2. /\ \E i \in DOMAIN B : B[i].k = "text"
        /\ \A b \in DOMAIN B : B[b].k \in {"text", "image", "url"}
        /\ holds(m.parts, "image") => holds(B, "image")
    BY <2>1, Zenon DEF UserBody, Task, holds
  <2>3. Argued(B) /\ Leading(B) /\ Held
    BY <2>2 DEF Argued, Leading, reports
  <2>4. Clean(p, w)
    BY <2>1, <2>3, Zenon DEF Clean, B
  <2>5. m.role # "assistant" /\ w.role # "assistant"
    BY <1>2, <2>1
  <2>6. Able
    BY <2>2, Zenon
  <2>7. QED
    BY <2>2, <2>3, <2>4, <2>5, <2>6, Zenon DEF B
<1>3. CASE m.role = "tool"
  <2>1. w.role \in {"tool", "user"} /\ ResultBody(p, m.parts, B)
    BY <1>3 DEF Fits, B
  <2>2. PICK b \in Part : /\ B = <<b>> /\ b.id = m.parts[1].id
                          /\ b.k \in {"result", "error"} /\ (p.api = "chat" => b.k = "result")
    BY <2>1, Zenon DEF ResultBody
  <2>3. DOMAIN B = {1} /\ B[1] = b /\ B # <<>>
    BY <2>2
  <2>4. Argued(B) /\ Leading(B)
    BY <2>2, <2>3 DEF Argued, Leading
  <2>5. Held
    BY <1>3, <2>2, <2>3
  <2>6. Able
    BY <2>2, <2>3
  <2>7. m.role # "assistant" /\ w.role # "assistant" /\ m.role # "user"
    BY <1>3, <2>1
  <2>8. Clean(p, w)
    BY <2>3, <2>4, <2>7, Zenon DEF Clean, B
  <2>9. QED
    BY <2>5, <2>6, <2>7, <2>8, Zenon DEF B
<1>4. QED
  BY <1>0, <1>1, <1>2, <1>3

(* The system message.                                                      *)
LEMMA SystemShape ==
    /\ system.role = "system" /\ system.blocks # <<>> /\ DOMAIN system.blocks = {1} /\ system.blocks[1].k = "text"
    /\ \A p : Clean(p, system)
<1> DEFINE q == part("text", 0, <<"system">>)
           B == <<q>>
<1>1. q.k = "text"
  BY DEF part
<1>2. system.role = "system" /\ system.blocks = B
  BY WireFields, Zenon DEF system
<1> HIDE DEF q
<1>3. B # <<>> /\ DOMAIN B = {1} /\ B[1].k = "text"
  BY <1>1
<1> HIDE DEF B
<1>4. Argued(B) /\ Leading(B)
  BY <1>3 DEF Argued, Leading
<1>5. QED
  BY <1>2, <1>3, <1>4, Zenon DEF Clean

-----------------------------------------------------------------------------
(* The result at i is of a call of the turn before it.                      *)
Matched(c, i) ==
    \E j \in 1..(i - 1) : /\ c[j].role = "assistant" /\ \A l \in (j + 1)..i : c[l].role # "assistant"
                          /\ Asks(ofKind(c[j].parts, {"call"}), c[i].parts[1].id)

Answered(c) ==
    /\ c[1].role = "user"
    /\ \A i \in 1..Len(c) : Shaped(c[i]) /\ (c[i].role = "tool" => Matched(c, i))

(* The turn a message of a request comes after.                             *)
back(msgs, i) == CHOOSE j \in 1..i : msgs[j].role = "assistant" /\ \A l \in (j + 1)..i : msgs[l].role # "assistant"

(* There is one turn a message comes after.                                 *)
LEMMA BackIs ==
    ASSUME NEW msgs, NEW i \in Nat, NEW j \in 1..i, msgs[j].role = "assistant", \A l \in (j + 1)..i : msgs[l].role # "assistant"
    PROVE  back(msgs, i) = j
<1> DEFINE P(k) == msgs[k].role = "assistant" /\ \A l \in (k + 1)..i : msgs[l].role # "assistant"
<1>1. P(j)
  OBVIOUS
<1>2. ASSUME NEW k \in 1..i, P(k) PROVE k = j
  <2>1. ~(k < j)
    <3>1. k < j => j \in (k + 1)..i
      OBVIOUS
    <3>2. QED
      BY <1>2, <3>1
  <2>2. ~(j < k)
    <3>1. j < k => k \in (j + 1)..i
      OBVIOUS
    <3>2. QED
      BY <1>1, <1>2, <3>1
  <2>3. QED
    BY <2>1, <2>2
<1>3. back(msgs, i) = CHOOSE k \in 1..i : P(k)
  BY Zenon DEF back
<1> HIDE DEF P
<1>4. QED
  BY <1>1, <1>2, <1>3

(* Each message of a request is one the API takes.                          *)
LEMMA BodyClean ==
    ASSUME NEW p \in Prov, NEW c \in Seq(Turn \cup Note), NEW msgs, NEW o, Carries(p, c, msgs, o)
    PROVE  \A i \in DOMAIN msgs : Clean(p, msgs[i])
<1>1. /\ msgs \in Seq(WireMsg) /\ 1 \in DOMAIN msgs /\ msgs[1] = system
      /\ o \in [2..Len(msgs) -> 1..Len(c)]
      /\ \A i \in 2..Len(msgs) : Fits(p, c[o[i]], msgs[i])
  BY Zenon DEF Carries
<1>2. ASSUME NEW i \in DOMAIN msgs PROVE Clean(p, msgs[i])
  <2>1. CASE i = 1
    BY <1>1, <2>1, SystemShape
  <2>2. CASE i # 1
    <3>1. i \in 2..Len(msgs)
      BY <1>1, <2>2
    <3>2. o[i] \in 1..Len(c) /\ msgs[i] \in WireMsg /\ Fits(p, c[o[i]], msgs[i])
      BY <1>1, <3>1
    <3>3. c[o[i]] \in Turn \cup Note
      BY <3>2
    <3>4. QED
      BY <3>2, <3>3, FittingClean
  <2>3. QED
    BY <2>1, <2>2
<1>3. QED
  BY <1>2

(* A result answers a call of the turn before it.                           *)
LEMMA BodyAnswers ==
    ASSUME NEW p \in Prov, NEW c \in Seq(Turn \cup Note), Answered(c), NEW msgs, NEW o, Carries(p, c, msgs, o),
           NEW i \in DOMAIN msgs, NEW b \in DOMAIN msgs[i].blocks, reports(msgs[i].blocks[b])
    PROVE  Asks(msgs[back(msgs, i)].blocks, msgs[i].blocks[b].id)
<1>1. /\ msgs \in Seq(WireMsg) /\ 1 \in DOMAIN msgs /\ msgs[1] = system
      /\ o \in [2..Len(msgs) -> 1..Len(c)]
      /\ \A k \in 2..Len(msgs) : Fits(p, c[o[k]], msgs[k])
      /\ \A k, j \in 2..Len(msgs) : k < j => o[k] < o[j]
      /\ \A k \in 1..Len(c) : Silent(c[k]) \/ \E j \in 2..Len(msgs) : o[j] = k
  BY Zenon DEF Carries
<1>2. i # 1
  BY <1>1, SystemShape DEF reports
<1>3. i \in 2..Len(msgs) /\ Len(msgs) \in Nat /\ Len(c) \in Nat
  BY <1>1, <1>2
<1>4. \A k \in 2..Len(msgs) : o[k] \in 1..Len(c) /\ msgs[k] \in WireMsg /\ Fits(p, c[o[k]], msgs[k]) /\ c[o[k]] \in Turn \cup Note
  <2> SUFFICES ASSUME NEW k \in 2..Len(msgs)
               PROVE  o[k] \in 1..Len(c) /\ msgs[k] \in WireMsg /\ Fits(p, c[o[k]], msgs[k]) /\ c[o[k]] \in Turn \cup Note
    OBVIOUS
  <2>1. o[k] \in 1..Len(c) /\ msgs[k] \in WireMsg /\ Fits(p, c[o[k]], msgs[k])
    BY <1>1
  <2>2. QED
    BY <2>1
<1> DEFINE t == o[i]
<1>5. t \in 1..Len(c) /\ c[t].role = "tool" /\ msgs[i].blocks[b].id = c[t].parts[1].id
  BY <1>3, <1>4, FittingClean
<1> HIDE DEF t
<1>6. PICK j \in 1..(t - 1) : /\ c[j].role = "assistant" /\ \A l \in (j + 1)..t : c[l].role # "assistant"
                              /\ Asks(ofKind(c[j].parts, {"call"}), c[t].parts[1].id)
  BY <1>5 DEF Answered, Matched
<1>7. ~Silent(c[j])
  BY <1>6 DEF Asks, Silent
<1>8. j \in 1..Len(c) /\ j < t
  BY <1>3, <1>5, <1>6
<1>9. PICK e \in 2..Len(msgs) : o[e] = j
  BY <1>1, <1>7, <1>8
<1>10. e < i
  <2>1. e # i
    BY <1>8, <1>9 DEF t
  <2>2. ~(i < e)
    <3>1. i < e => o[i] < o[e]
      BY <1>1, <1>3
    <3>2. QED
      BY <1>3, <1>5, <1>8, <1>9, <3>1 DEF t
  <2>3. QED
    BY <1>3, <2>1, <2>2
<1>11. msgs[e].role = "assistant"
  BY <1>4, <1>6, <1>9, FittingClean
<1>12. \A l \in (e + 1)..i : msgs[l].role # "assistant"
  <2> SUFFICES ASSUME NEW l \in (e + 1)..i PROVE msgs[l].role # "assistant"
    OBVIOUS
  <2>1. l \in 2..Len(msgs) /\ e < l /\ (l < i \/ l = i)
    BY <1>3
  <2>2. o[l] \in 1..Len(c) /\ j < o[l]
    BY <1>1, <1>4, <1>9, <2>1
  <2>3. o[l] <= t
    <3>1. CASE l = i
      BY <2>2, <3>1 DEF t
    <3>2. CASE l < i
      <4>1. o[l] < o[i]
        BY <1>1, <1>3, <2>1, <3>2
      <4>2. QED
        BY <1>5, <2>2, <4>1 DEF t
    <3>3. QED
      BY <2>1, <3>1, <3>2
  <2>4. o[l] \in (j + 1)..t
    BY <1>5, <1>8, <2>2, <2>3
  <2>5. c[o[l]].role # "assistant"
    BY <1>6, <2>4
  <2>6. QED
    BY <1>4, <2>1, <2>5, FittingClean
<1>13. back(msgs, i) = e
  <2>1. i \in Nat /\ e \in 1..i
    BY <1>3, <1>10
  <2>2. QED
    BY <1>11, <1>12, <2>1, BackIs
<1>14. Asks(msgs[e].blocks, c[t].parts[1].id)
  <2>1. AssistantBody(c[j].parts, msgs[e].blocks)
    BY <1>4, <1>6, <1>9, Zenon DEF Fits
  <2> DEFINE called == ofKind(c[j].parts, {"call"})
  <2>2. PICK d \in DOMAIN called : called[d].id = c[t].parts[1].id
    BY <1>6, Zenon DEF Asks
  <2>3. Asks(msgs[e].blocks, called[d].id)
    BY <2>1, Zenon DEF AssistantBody
  <2>4. QED
    BY <2>2, <2>3
<1>15. QED
  BY <1>5, <1>13, <1>14

(* The task's images are in the message after the system prefix.            *)
LEMMA BodyShows ==
    ASSUME NEW p \in Prov, NEW c \in Seq(Turn \cup Note), c # <<>>, c[1].role = "user", NEW msgs, NEW o, Carries(p, c, msgs, o),
           holds(c[1].parts, "image")
    PROVE  holds(msgs[2].blocks, "image")
<1>1. /\ msgs \in Seq(WireMsg)
      /\ o \in [2..Len(msgs) -> 1..Len(c)]
      /\ \A k \in 2..Len(msgs) : Fits(p, c[o[k]], msgs[k])
      /\ \A k, j \in 2..Len(msgs) : k < j => o[k] < o[j]
      /\ \A k \in 1..Len(c) : Silent(c[k]) \/ \E j \in 2..Len(msgs) : o[j] = k
  BY Zenon DEF Carries
<1>2. 1 \in 1..Len(c) /\ Len(msgs) \in Nat /\ Len(c) \in Nat
  BY <1>1
<1>3. ~Silent(c[1])
  BY DEF Silent
<1>4. PICK e \in 2..Len(msgs) : o[e] = 1
  BY <1>1, <1>2, <1>3
<1>5. 2 \in 2..Len(msgs)
  BY <1>2
<1>6. ~(2 < e)
  <2>1. o[2] \in 1..Len(c)
    BY <1>1, <1>5
  <2>2. 2 < e => o[2] < o[e]
    BY <1>1, <1>5
  <2>3. QED
    BY <1>2, <1>4, <2>1, <2>2
<1>7. e = 2
  BY <1>2, <1>6
<1>8. Fits(p, c[1], msgs[2]) /\ msgs[2] \in WireMsg
  BY <1>1, <1>4, <1>5, <1>7
<1>9. c[1] \in Turn \cup Note
  BY <1>2
<1>10. QED
  BY <1>8, <1>9, FittingClean

-----------------------------------------------------------------------------
(* The cache mark of a message: one at most, on the first block that can    *)
(* carry it.                                                                *)
markable(b) == b.k \in {"text", "result"}

(* A message has at most one mark, and one when it is no turn and can carry *)
(* it.                                                                      *)
LEMMA Breakpoint ==
    ASSUME NEW m \in WireMsg
    PROVE  /\ \E j : markCacheBreakpoint(m) \subseteq {j}
           /\ m.role # "assistant" /\ (\E b \in DOMAIN m.blocks : markable(m.blocks[b])) =>
                 \E j \in DOMAIN m.blocks : markable(m.blocks[j]) /\ markCacheBreakpoint(m) = {j}
<1> DEFINE texts == {i \in DOMAIN m.blocks : m.blocks[i].k \in {"text", "result"}}
           least == CHOOSE i \in texts : \A j \in texts : i <= j
<1>1. markCacheBreakpoint(m) = IF m.role = "assistant" \/ texts = {} THEN {} ELSE {least}
  BY Zenon DEF markCacheBreakpoint
<1>2. \E j : markCacheBreakpoint(m) \subseteq {j}
  <2> HIDE DEF texts, least
  <2>1. markCacheBreakpoint(m) \subseteq {least}
    BY <1>1
  <2>2. QED
    BY <2>1
<1>3. texts # {} => least \in texts
  <2> SUFFICES ASSUME texts # {} PROVE least \in texts
    OBVIOUS
  <2>1. m.blocks \in Seq(Part)
    BY Zenon DEF WireMsg
  <2>2. Len(m.blocks) \in Nat /\ texts \subseteq 1..Len(m.blocks)
    BY <2>1
  <2> HIDE DEF texts
  <2>3. \E i \in texts : \A j \in texts : i <= j
    BY <2>2, Extremes
  <2>4. QED
    BY <2>3
<1>4. (\E b \in DOMAIN m.blocks : markable(m.blocks[b])) => texts # {}
  BY DEF markable
<1>5. \A j \in texts : j \in DOMAIN m.blocks /\ markable(m.blocks[j])
  BY DEF markable
<1> HIDE DEF texts, least
<1>6. QED
  BY <1>1, <1>2, <1>3, <1>4, <1>5, Zenon

(* What the cache wants of the marks.                                       *)
Marked(msgs, marks) ==
    /\ <<1, 1>> \in marks /\ Cardinality(marks) <= 2
    /\ msgs[Len(msgs)].role # "assistant" => \E j \in DOMAIN msgs[Len(msgs)].blocks : <<Len(msgs), j>> \in marks

(* The chat wire marks the system message and the last message.             *)
LEMMA ChatMarked ==
    ASSUME NEW msgs \in Seq(WireMsg), 1 \in DOMAIN msgs, msgs[1] = system,
           LET last == msgs[Len(msgs)]
           IN  last.role # "assistant" => \E b \in DOMAIN last.blocks : markable(last.blocks[b])
    PROVE  Marked(msgs, applyCacheBreakpoints(msgs))
<1> DEFINE n == Len(msgs)
           marks == applyCacheBreakpoints(msgs)
           at(i) == markCacheBreakpoint(msgs[i])
<1>1. n \in DOMAIN msgs /\ msgs[n] \in WireMsg /\ msgs[1] \in WireMsg
  <2>1. Len(msgs) \in DOMAIN msgs /\ \A i \in DOMAIN msgs : msgs[i] \in WireMsg
    OBVIOUS
  <2>2. QED
    BY <2>1
<1>2. marks = ({1} \X at(1)) \cup ({n} \X at(n))
  <2>1. marks = UNION {{i} \X at(i) : i \in {1, n}}
    BY Zenon DEF applyCacheBreakpoints
  <2> HIDE DEF marks, at, n
  <2>2. QED
    BY <2>1
<1>3. at(1) = {1}
  <2>1. system.role # "assistant" /\ DOMAIN system.blocks = {1} /\ system.blocks[1].k = "text"
    BY SystemShape
  <2>2. markable(system.blocks[1])
    BY <2>1 DEF markable
  <2>3. \E j \in DOMAIN system.blocks : markCacheBreakpoint(system) = {j}
    BY <1>1, <2>1, <2>2, Breakpoint
  <2>4. QED
    BY <2>1, <2>3
<1>4. PICK a : at(n) \subseteq {a}
  BY <1>1, Breakpoint
<1>5. msgs[n].role # "assistant" => \E j \in DOMAIN msgs[n].blocks : at(n) = {j}
  BY <1>1, Breakpoint
<1> HIDE DEF at, n, marks
<1>6. <<1, 1>> \in marks
  BY <1>2, <1>3
<1>7. marks \subseteq {<<1, 1>>, <<n, a>>}
  BY <1>2, <1>3, <1>4
<1>8. Cardinality(marks) <= 2
  BY <1>7, AtMostTwo, Zenon
<1>9. msgs[n].role # "assistant" => \E j \in DOMAIN msgs[n].blocks : <<n, j>> \in marks
  <2> SUFFICES ASSUME msgs[n].role # "assistant" PROVE \E j \in DOMAIN msgs[n].blocks : <<n, j>> \in marks
    OBVIOUS
  <2>1. PICK j \in DOMAIN msgs[n].blocks : at(n) = {j}
    BY <1>5
  <2>2. <<n, j>> \in marks
    BY <1>2, <2>1
  <2>3. QED
    BY <2>2
<1>10. QED
  BY <1>6, <1>8, <1>9, Zenon DEF Marked, n, marks

(* The messages wire marks the system prompt and the last block that can    *)
(* carry a mark.                                                            *)
LEMMA TailMarked ==
    ASSUME NEW msgs \in Seq(WireMsg), 1 \in DOMAIN msgs, msgs[1] = system,
           LET last == msgs[Len(msgs)]
           IN  last.role # "assistant" => \E b \in DOMAIN last.blocks : last.blocks[b].k \in {"text", "result", "error"}
    PROVE  Marked(msgs, {<<1, 1>>} \cup markTailCacheControl(msgs))
<1> DEFINE n == Len(msgs)
           has(i) == {j \in DOMAIN msgs[i].blocks : msgs[i].blocks[j].k \in {"text", "result", "error", "call"}}
           able == UNION {{i} \X has(i) : i \in 2..n}
           tail == {b \in able : \A d \in able : d[1] < b[1] \/ (d[1] = b[1] /\ d[2] <= b[2])}
<1>1. n \in DOMAIN msgs /\ n \in Nat /\ n >= 1
  OBVIOUS
<1>2. markTailCacheControl(msgs) = tail
  BY Zenon DEF markTailCacheControl
<1>3. ASSUME NEW i \in 2..n PROVE Len(msgs[i].blocks) \in Nat /\ has(i) \subseteq 1..Len(msgs[i].blocks) /\ has(i) \subseteq DOMAIN msgs[i].blocks
  <2>1. msgs[i] \in WireMsg
    OBVIOUS
  <2>2. msgs[i].blocks \in Seq(Part)
    BY <2>1, Zenon DEF WireMsg
  <2>3. QED
    BY <2>2
<1>4. msgs[n].role # "assistant" /\ n # 1 => has(n) # {}
  BY <1>1
<1> HIDE DEF has, n
<1>5. \A d \in able : d[1] \in 2..n /\ d[2] \in has(d[1]) /\ d = <<d[1], d[2]>>
  OBVIOUS
<1>6. \A i \in 2..n : \A j \in has(i) : <<i, j>> \in able
  OBVIOUS
<1>7. \A d \in able : d[1] \in Nat /\ d[2] \in Nat
  <2> SUFFICES ASSUME NEW d \in able PROVE d[1] \in Nat /\ d[2] \in Nat
    OBVIOUS
  <2>1. d[1] \in 2..n /\ d[2] \in has(d[1])
    BY <1>5
  <2>2. d[2] \in 1..Len(msgs[d[1]].blocks) /\ Len(msgs[d[1]].blocks) \in Nat
    BY <1>3, <2>1
  <2>3. QED
    BY <1>1, <2>1, <2>2
<1> HIDE DEF able
<1>8. \A b, d \in tail : b = d
  <2> SUFFICES ASSUME NEW b \in tail, NEW d \in tail PROVE b = d
    OBVIOUS
  <2>1. b \in able /\ d \in able /\ (d[1] < b[1] \/ (d[1] = b[1] /\ d[2] <= b[2])) /\ (b[1] < d[1] \/ (b[1] = d[1] /\ b[2] <= d[2]))
    OBVIOUS
  <2> HIDE DEF tail
  <2>2. b[1] = d[1] /\ b[2] = d[2]
    BY <1>7, <2>1
  <2>3. b = <<b[1], b[2]>> /\ d = <<d[1], d[2]>>
    BY <1>5, <2>1
  <2>4. QED
    BY <2>2, <2>3
<1>9. msgs[n].role # "assistant" => \E j \in DOMAIN msgs[n].blocks : <<n, j>> \in {<<1, 1>>} \cup tail
  <2> SUFFICES ASSUME msgs[n].role # "assistant" PROVE \E j \in DOMAIN msgs[n].blocks : <<n, j>> \in {<<1, 1>>} \cup tail
    OBVIOUS
  <2>1. CASE n = 1
    <3>1. 1 \in DOMAIN msgs[n].blocks
      BY <2>1, SystemShape
    <3>2. QED
      BY <2>1, <3>1
  <2>2. CASE n # 1
    <3>1. n \in 2..n
      BY <1>1, <2>2
    <3>2. Len(msgs[n].blocks) \in Nat /\ has(n) \subseteq 1..Len(msgs[n].blocks) /\ has(n) \subseteq DOMAIN msgs[n].blocks /\ has(n) # {}
      BY <1>3, <1>4, <2>2, <3>1
    <3>3. PICK j \in has(n) : \A l \in has(n) : l <= j
      BY <3>2, Extremes
    <3>4. <<n, j>> \in able
      BY <1>6, <3>1
    <3> DEFINE z == <<n, j>>
    <3>5. z[1] = n /\ z[2] = j
      OBVIOUS
    <3> HIDE DEF z
    <3>6. \A d \in able : d[1] < z[1] \/ (d[1] = z[1] /\ d[2] <= z[2])
      <4> SUFFICES ASSUME NEW d \in able PROVE d[1] < n \/ (d[1] = n /\ d[2] <= j)
        BY <3>5
      <4>1. d[1] \in 2..n /\ d[2] \in has(d[1])
        BY <1>5
      <4>2. CASE d[1] = n
        BY <3>3, <4>1, <4>2
      <4>3. CASE d[1] # n
        BY <1>1, <4>1, <4>3
      <4>4. QED
        BY <4>2, <4>3
    <3>7. z \in tail
      BY <3>4, <3>6 DEF z
    <3>8. QED
      BY <3>2, <3>7 DEF z
  <2>3. QED
    BY <2>1, <2>2
<1> HIDE DEF tail
<1>10. \E t : tail \subseteq {t}
  <2>1. CASE tail = {}
    BY <2>1
  <2>2. ASSUME NEW t \in tail PROVE tail \subseteq {t}
    BY <1>8
  <2>3. QED
    BY <2>1, <2>2
<1>11. PICK t : {<<1, 1>>} \cup tail \subseteq {<<1, 1>>, t}
  BY <1>10
<1>12. Cardinality({<<1, 1>>} \cup tail) <= 2
  BY <1>11, AtMostTwo, Zenon
<1>13. <<1, 1>> \in {<<1, 1>>} \cup tail
  OBVIOUS
<1>14. QED
  BY <1>2, <1>9, <1>12, <1>13, Zenon DEF Marked, n

(* The last message of a request can carry the mark.                        *)
LEMMA LastMarkable ==
    ASSUME NEW p \in Prov, NEW c \in Seq(Turn \cup Note), NEW msgs, NEW o, Carries(p, c, msgs, o), msgs[Len(msgs)].role # "assistant"
    PROVE  \E b \in DOMAIN msgs[Len(msgs)].blocks :
              LET d == msgs[Len(msgs)].blocks[b]
              IN  d.k = "text" \/ d.k = "result" \/ (p.api # "chat" /\ d.k = "error")
<1> DEFINE n == Len(msgs)
<1>1. /\ msgs \in Seq(WireMsg) /\ 1 \in DOMAIN msgs /\ msgs[1] = system
      /\ o \in [2..Len(msgs) -> 1..Len(c)]
      /\ \A k \in 2..Len(msgs) : Fits(p, c[o[k]], msgs[k])
  BY Zenon DEF Carries
<1>2. n \in Nat /\ n >= 1
  BY <1>1
<1> HIDE DEF n
<1>3. CASE n = 1
  <2>1. msgs[n] = system
    BY <1>1, <1>3
  <2>2. 1 \in DOMAIN msgs[n].blocks /\ msgs[n].blocks[1].k = "text"
    BY <2>1, SystemShape
  <2>3. QED
    BY <2>2, Zenon DEF n
<1>4. CASE n # 1
  <2>1. n \in 2..Len(msgs)
    <3>1. n \in 2..n
      BY <1>2, <1>4
    <3>2. QED
      BY <3>1 DEF n
  <2>2. o[n] \in 1..Len(c) /\ msgs[n] \in WireMsg /\ Fits(p, c[o[n]], msgs[n])
    BY <1>1, <2>1
  <2>3. c[o[n]] \in Turn \cup Note
    BY <2>2
  <2>4. msgs[n].role # "assistant"
    BY DEF n
  <2>5. \E b \in DOMAIN msgs[n].blocks :
           msgs[n].blocks[b].k = "text" \/ msgs[n].blocks[b].k = "result" \/ (p.api # "chat" /\ msgs[n].blocks[b].k = "error")
    BY <2>2, <2>3, <2>4, FittingClean
  <2>6. QED
    BY <2>5, Zenon DEF n
<1>5. QED
  BY <1>3, <1>4

(* The marks of a request.                                                  *)
LEMMA RequestMarked ==
    ASSUME NEW p \in Prov, p.cache, NEW pin, NEW c \in Seq(Turn \cup Note), NEW o, Carries(p, c, toMessages(p, c), o)
    PROVE  buildParams(p, pin, c).messages = toMessages(p, c) /\ Marked(toMessages(p, c), buildParams(p, pin, c).marks)
<1> DEFINE msgs == toMessages(p, c)
           last == msgs[Len(msgs)]
<1> HIDE DEF msgs
<1>1. msgs \in Seq(WireMsg) /\ 1 \in DOMAIN msgs /\ msgs[1] = system
  BY Zenon DEF Carries, msgs
<1>2. last.role # "assistant" => \E b \in DOMAIN last.blocks :
         last.blocks[b].k = "text" \/ last.blocks[b].k = "result" \/ (p.api # "chat" /\ last.blocks[b].k = "error")
  BY LastMarkable, Zenon DEF msgs
<1>3. CASE p.api = "chat"
  <2>1. buildParams(p, pin, c).messages = msgs /\ buildParams(p, pin, c).marks = applyCacheBreakpoints(msgs)
    BY <1>3 DEF buildParams, chatParams, msgs
  <2>2. last.role # "assistant" => \E b \in DOMAIN last.blocks : markable(last.blocks[b])
    BY <1>2, <1>3 DEF markable
  <2>3. Marked(msgs, applyCacheBreakpoints(msgs))
    BY <1>1, <2>2, ChatMarked
  <2>4. QED
    BY <2>1, <2>3 DEF msgs
<1>4. CASE p.api # "chat"
  <2>1. buildParams(p, pin, c).messages = msgs /\ buildParams(p, pin, c).marks = {<<1, 1>>} \cup markTailCacheControl(msgs)
    BY <1>4 DEF buildParams, messagesParams, msgs
  <2>2. last.role # "assistant" => \E b \in DOMAIN last.blocks : last.blocks[b].k \in {"text", "result", "error"}
    BY <1>2
  <2>3. Marked(msgs, {<<1, 1>>} \cup markTailCacheControl(msgs))
    BY <1>1, <2>2, TailMarked
  <2>4. QED
    BY <2>1, <2>3 DEF msgs
<1>5. QED
  BY <1>3, <1>4

-----------------------------------------------------------------------------
(* Transcripts that agree on what answers what.                             *)
Agree(a, b) ==
    /\ b.role = a.role
    /\ a.role = "assistant" => ofKind(b.parts, {"call"}) = ofKind(a.parts, {"call"})
    /\ a.role # "assistant" => b.parts = a.parts

(* A result is answered in every transcript that agrees up to it.           *)
LEMMA AgreeMatched ==
    ASSUME NEW c, NEW d, NEW i \in Nat, \A l \in 1..i : Agree(c[l], d[l]), i >= 1, Shaped(c[i]), c[i].role = "tool" => Matched(c, i)
    PROVE  Shaped(d[i]) /\ (d[i].role = "tool" => Matched(d, i))
<1>1. i \in 1..i
  OBVIOUS
<1>2. Agree(c[i], d[i])
  BY <1>1
<1>3. Shaped(d[i])
  BY <1>2 DEF Agree, Shaped
<1>4. ASSUME d[i].role = "tool" PROVE Matched(d, i)
  <2>1. c[i].role = "tool" /\ d[i].parts = c[i].parts
    BY <1>2, <1>4 DEF Agree
  <2>2. PICK j \in 1..(i - 1) : /\ c[j].role = "assistant" /\ \A l \in (j + 1)..i : c[l].role # "assistant"
                                /\ Asks(ofKind(c[j].parts, {"call"}), c[i].parts[1].id)
    BY <2>1, Zenon DEF Matched
  <2>3. j \in 1..i /\ \A l \in (j + 1)..i : l \in 1..i
    OBVIOUS
  <2>4. d[j].role = "assistant" /\ ofKind(d[j].parts, {"call"}) = ofKind(c[j].parts, {"call"})
    BY <2>2, <2>3 DEF Agree
  <2>5. \A l \in (j + 1)..i : d[l].role # "assistant"
    BY <2>2, <2>3 DEF Agree
  <2>6. QED
    BY <2>1, <2>2, <2>4, <2>5, Zenon DEF Matched
<1>5. QED
  BY <1>3, <1>4

(* A message agrees with itself.                                            *)
LEMMA SameAgree == \A a : Agree(a, a)
BY DEF Agree

(* A transcript that agrees with one whose results are answered.            *)
LEMMA AnsweredAgain ==
    ASSUME NEW c \in Seq(Turn \cup Note), NEW d \in Seq(Turn \cup Note), c # <<>>, Len(d) = Len(c), Answered(c),
           \A i \in 1..Len(c) : Agree(c[i], d[i])
    PROVE  Answered(d)
<1>1. Len(c) \in Nat /\ 1 \in 1..Len(c)
  OBVIOUS
<1>2. d[1].role = "user"
  BY <1>1 DEF Answered, Agree
<1>3. ASSUME NEW i \in 1..Len(d) PROVE Shaped(d[i]) /\ (d[i].role = "tool" => Matched(d, i))
  <2>1. i \in Nat /\ i >= 1 /\ i \in 1..Len(c) /\ \A l \in 1..i : l \in 1..Len(c)
    BY <1>1
  <2>2. \A l \in 1..i : Agree(c[l], d[l])
    BY <2>1
  <2>3. Shaped(c[i]) /\ (c[i].role = "tool" => Matched(c, i))
    BY <2>1 DEF Answered
  <2>4. QED
    BY <2>1, <2>2, <2>3, AgreeMatched
<1>4. QED
  BY <1>2, <1>3, Zenon DEF Answered

(* A transcript that is continued.                                          *)
LEMMA AnsweredLonger ==
    ASSUME NEW c \in Seq(Turn \cup Note), c # <<>>, Answered(c), NEW s \in Seq(Turn \cup Note),
           \A i \in 1..Len(s) : Shaped(s[i]) /\ (s[i].role = "tool" => Matched(c \o s, Len(c) + i))
    PROVE  Answered(c \o s)
<1> DEFINE d == c \o s
<1>1. d \in Seq(Turn \cup Note) /\ Len(d) = Len(c) + Len(s) /\ Len(c) \in Nat /\ Len(s) \in Nat /\ 1 \in 1..Len(c)
      /\ \A i \in 1..Len(d) : IF i <= Len(c) THEN d[i] = c[i] ELSE d[i] = s[i - Len(c)]
  <2>1. Len(c) \in Nat /\ Len(s) \in Nat /\ 1 \in 1..Len(c)
    OBVIOUS
  <2>2. QED
    BY <2>1, ConcatProperties
<1>2. \A i \in 1..Len(c) : i \in 1..Len(d) /\ d[i] = c[i]
  BY <1>1
<1>3. d[1].role = "user"
  BY <1>1, <1>2 DEF Answered
<1>4. ASSUME NEW i \in 1..Len(d) PROVE Shaped(d[i]) /\ (d[i].role = "tool" => Matched(d, i))
  <2>1. CASE i <= Len(c)
    <3>1. i \in Nat /\ i >= 1 /\ i \in 1..Len(c) /\ \A l \in 1..i : l \in 1..Len(c)
      BY <1>1, <2>1
    <3>2. \A l \in 1..i : Agree(c[l], d[l])
      <4> HIDE DEF d
      <4>1. QED
        BY <1>2, <3>1, SameAgree
    <3>3. Shaped(c[i]) /\ (c[i].role = "tool" => Matched(c, i))
      BY <3>1 DEF Answered
    <3> HIDE DEF d
    <3>4. QED
      BY <3>1, <3>2, <3>3, AgreeMatched
  <2>2. CASE i > Len(c)
    <3> DEFINE k == i - Len(c)
    <3>1. k \in 1..Len(s) /\ i = Len(c) + k /\ d[i] = s[k]
      BY <1>1, <2>2
    <3> HIDE DEF k
    <3>2. Shaped(s[k]) /\ (s[k].role = "tool" => Matched(c \o s, Len(c) + k))
      BY <3>1
    <3>3. QED
      BY <3>1, <3>2
  <2>3. QED
    BY <1>1, <2>1, <2>2
<1>5. QED
  BY <1>3, <1>4, Zenon DEF Answered

-----------------------------------------------------------------------------
(* The rest of the invariant: the transcript begins with the task, each     *)
(* result answers the turn before it, and a turn comes last when it is to   *)
(* be answered.                                                             *)
Answering == Answered(conv) /\ (ask.at = "said" => conv[Len(conv)].role = "assistant")

RequestInv == WireInv /\ Answering

(* A conversation begins with its task.                                     *)
LEMMA AnsweringInit == WireInit => Answering
<1> SUFFICES ASSUME WireInit PROVE Answering
  OBVIOUS
<1>1. PICK c \in Runs : conv = <<message("user", c.task)>>
  BY DEF WireInit, begins
<1>2. ask.at = "idle"
  BY DEF WireInit, idle
<1>3. c.task \in Seq(Part)
  BY WireAssumption, Zenon DEF Run
<1> DEFINE m == message("user", c.task)
<1>4. m.role = "user" /\ m.parts = c.task
  BY <1>3, MessageType
<1>5. Task(c.task)
  BY TasksAssumption, Zenon DEF Task, holds
<1> HIDE DEF m
<1>6. conv = <<m>>
  BY <1>1 DEF m
<1>7. Shaped(m) /\ m.role # "tool"
  BY <1>4, <1>5 DEF Shaped
<1>8. Len(conv) = 1 /\ conv[1] = m
  BY <1>6
<1>9. Answered(conv)
  BY <1>4, <1>7, <1>8 DEF Answered
<1>10. QED
  BY <1>2, <1>9 DEF Answering

(* A turn is appended.                                                      *)
LEMMA TurnAnswering ==
    ASSUME RequestInv, NEW t \in Turn, conv' = Append(conv, t)
    PROVE  Answering'
<1>1. conv \in Seq(Turn \cup Note) /\ conv # <<>> /\ Answered(conv)
  BY DEF RequestInv, WireInv, Typing, Answering
<1> DEFINE s == <<t>>
<1>2. t.role = "assistant"
  BY TurnFields
<1>3. Shaped(t) /\ t.role # "tool"
  BY <1>2 DEF Shaped
<1>4. s \in Seq(Turn \cup Note) /\ Len(s) = 1 /\ s[1] = t
  OBVIOUS
<1>5. conv' = conv \o s /\ conv'[Len(conv')] = t
  BY <1>1
<1> HIDE DEF s
<1>6. \A i \in 1..Len(s) : Shaped(s[i]) /\ (s[i].role = "tool" => Matched(conv \o s, Len(conv) + i))
  BY <1>3, <1>4
<1>7. Answered(conv \o s)
  BY <1>1, <1>4, <1>6, AnsweredLonger
<1>8. Answered(conv')
  BY <1>5, <1>7
<1>9. QED
  BY <1>2, <1>5, <1>8 DEF Answering

(* The reasoning is dropped.                                                *)
LEMMA DroppedAnswering ==
    ASSUME RequestInv, conv' = dropReplayReasoning(conv) \/ conv' = conv, ask'.at # "said"
    PROVE  Answering'
<1>1. conv \in Seq(Turn \cup Note) /\ conv # <<>> /\ Answered(conv) /\ prov \in Prov
      /\ \A i \in 1..Len(conv) : conv[i].role = "assistant" => conv[i] \in Turn /\ Whole(prov, conv[i])
  BY Zenon DEF RequestInv, WireInv, Typing, Answering
<1> DEFINE d == dropReplayReasoning(conv)
<1>2. d \in Seq(Turn \cup Note) /\ Len(d) = Len(conv)
  BY <1>1, ScrubbedTranscript
<1>3. \A i \in 1..Len(conv) : d[i] = IF conv[i].role # "assistant" THEN conv[i] ELSE scrubbed(conv[i])
  BY <1>1, ScrubbedTranscript
<1>4. \A i \in 1..Len(conv) : d[i].role = conv[i].role
  BY <1>1, ScrubbedTranscript
<1> HIDE DEF d
<1>5. \A i \in 1..Len(conv) : Agree(conv[i], d[i])
  <2> SUFFICES ASSUME NEW i \in 1..Len(conv) PROVE Agree(conv[i], d[i])
    OBVIOUS
  <2> DEFINE m == conv[i]
  <2>1. CASE m.role = "assistant"
    <3>1. m \in Turn /\ Whole(prov, m) /\ d[i] = scrubbed(m) /\ d[i].role = m.role
      BY <1>1, <1>3, <1>4, <2>1, Zenon
    <3> HIDE DEF m
    <3>2. ofKind(scrubbed(m).parts, {"call"}) = ofKind(m.parts, {"call"})
      BY <1>1, <3>1, ScrubbedWhole
    <3>3. QED
      BY <2>1, <3>1, <3>2, Zenon DEF Agree, m
  <2>2. CASE m.role # "assistant"
    <3>1. d[i] = m
      BY <1>3, <2>2, Zenon
    <3>2. QED
      BY <3>1, SameAgree
  <2>3. QED
    BY <2>1, <2>2
<1>6. Answered(d)
  BY <1>1, <1>2, <1>5, AnsweredAgain
<1>7. Answered(conv')
  BY <1>1, <1>6 DEF d
<1>8. QED
  BY <1>7 DEF Answering

(* The turn is answered.                                                    *)
LEMMA AnswerAnswering == RequestInv /\ Answer => Answering'
<1> SUFFICES ASSUME RequestInv, Answer PROVE Answering'
  OBVIOUS
<1>1. conv \in Seq(Turn \cup Note) /\ conv # <<>> /\ Answered(conv) /\ ask \in Asked
  BY DEF RequestInv, WireInv, Typing, Answering, RoutingInv, Routed
<1>2. ask.at = "said" /\ ask' = [ask EXCEPT !.at = "idle"]
  BY DEF Answer
<1>3. ask'.at = "idle" /\ conv[Len(conv)].role = "assistant"
  <2>1. conv[Len(conv)].role = "assistant"
    BY <1>2 DEF RequestInv, Answering
  <2>2. ask'.at = "idle"
    BY <1>1, <1>2, Zenon DEF Asked
  <2>3. QED
    BY <2>1, <2>2
<1> DEFINE n == Len(conv)
           m == Last(conv)
           called == ofKind(m.parts, {"call"})
<1>4. /\ called \in Seq(Part)
      /\ \E notes \in Seq(Note) :
            /\ conv' = conv \o notes
            /\ \/ called = <<>> /\ notes = <<message("user", <<part("text", 0, <<"feedback">>)>>)>>
               \/ /\ called # <<>> /\ Len(notes) = Len(called)
                  /\ \E k \in {"result", "error"} : \A i \in 1..Len(called) :
                        notes[i] = message("tool", <<part(k, called[i].id, <<"saw">>)>>)
  BY Answers DEF RequestInv
<1>5. m = conv[n] /\ n \in Nat /\ n >= 1
  BY <1>1 DEF Last
<1>6. m.parts \in Seq(Part)
  <2>1. m \in Turn \cup Note
    BY <1>1 DEF Last
  <2>2. QED
    BY <2>1, TurnFields, NoteFields
<1>7. \A i \in DOMAIN called : called[i] \in Part /\ called[i].k = "call" /\ called[i].id \in Nat
  <2>1. \A i \in DOMAIN called : called[i].k \in {"call"}
    BY <1>6, OfKindMembers
  <2> HIDE DEF called
  <2>2. \A i \in DOMAIN called : called[i] \in Part
    BY <1>4
  <2>3. QED
    BY <2>1, <2>2, PartFields
<1> HIDE DEF called, m, n
<1>8. PICK notes \in Seq(Note) :
            /\ conv' = conv \o notes
            /\ \/ called = <<>> /\ notes = <<message("user", <<part("text", 0, <<"feedback">>)>>)>>
               \/ /\ called # <<>> /\ Len(notes) = Len(called)
                  /\ \E k \in {"result", "error"} : \A i \in 1..Len(called) :
                        notes[i] = message("tool", <<part(k, called[i].id, <<"saw">>)>>)
  BY <1>4, Zenon
<1>9. notes \in Seq(Turn \cup Note) /\ Len(notes) \in Nat /\ \A i \in 1..Len(notes) : notes[i] \in Note
  OBVIOUS
<1>10. CASE called = <<>>
  <2> DEFINE q == part("text", 0, <<"feedback">>)
             u == message("user", <<q>>)
  <2>1. q.k = "text" /\ q \in Part
    <3>1. "text" \in Kinds /\ 0 \in Nat
      BY DEF Kinds
    <3>2. q \in Part
      BY <3>1, Literals, PartType, Zenon
    <3>3. q.k = "text"
      BY DEF part
    <3>4. QED
      BY <3>2, <3>3
  <2> HIDE DEF q
  <2>2. <<q>> \in Seq(Part) /\ DOMAIN <<q>> = {1} /\ <<q>>[1] = q
    BY <2>1
  <2>3. Task(<<q>>)
    BY <2>1, <2>2 DEF Task, holds
  <2>4. u.role = "user" /\ u.parts = <<q>>
    BY <2>2, MessageType
  <2> HIDE DEF u
  <2>5. Shaped(u) /\ u.role # "tool"
    BY <2>3, <2>4 DEF Shaped
  <2>6. notes = <<u>>
    BY <1>8, <1>10 DEF u, q
  <2>7. Len(notes) = 1 /\ notes[1] = u
    BY <2>6
  <2>8. \A i \in 1..Len(notes) : Shaped(notes[i]) /\ (notes[i].role = "tool" => Matched(conv \o notes, Len(conv) + i))
    BY <2>5, <2>7
  <2>9. Answered(conv \o notes)
    BY <1>1, <1>9, <2>8, AnsweredLonger
  <2>10. QED
    BY <1>3, <1>8, <2>9 DEF Answering
<1>11. CASE called # <<>>
  <2>1. Len(notes) = Len(called)
    BY <1>8, <1>11
  <2>2. PICK k \in {"result", "error"} : \A i \in 1..Len(called) : notes[i] = message("tool", <<part(k, called[i].id, <<"saw">>)>>)
    BY <1>8, <1>11
  <2>3. ASSUME NEW i \in 1..Len(notes)
        PROVE  Result(notes[i].parts) /\ notes[i].role = "tool" /\ notes[i].parts[1].id = called[i].id /\ i \in DOMAIN called
    <3> DEFINE q == part(k, called[i].id, <<"saw">>)
    <3>1. i \in 1..Len(called) /\ i \in DOMAIN called
      BY <1>4, <2>1
    <3>2. called[i].id \in Nat /\ k \in Kinds
      BY <1>7, <3>1 DEF Kinds
    <3>3. q \in Part
      BY <3>2, Literals, PartType, Zenon
    <3>4. q.id = called[i].id
      BY DEF part
    <3>5. notes[i] = message("tool", <<q>>)
      BY <2>2, <3>1
    <3>6. Result(<<q>>)
      BY <3>2, Zenon DEF Result
    <3> HIDE DEF q
    <3>7. <<q>> \in Seq(Part) /\ <<q>>[1] = q
      BY <3>3
    <3>8. notes[i].parts = <<q>> /\ notes[i].role = "tool"
      BY <3>5, <3>7, MessageType
    <3>9. QED
      BY <3>1, <3>4, <3>6, <3>7, <3>8
  <2>4. \A i \in 1..Len(notes) : notes[i].role # "assistant" /\ Shaped(notes[i])
    <3>1. \A i \in 1..Len(notes) : notes[i].role = "tool" /\ Result(notes[i].parts)
      BY <2>3
    <3>2. QED
      BY <3>1 DEF Shaped
  <2> DEFINE d == conv \o notes
  <2>5. /\ Len(d) = n + Len(notes)
        /\ d[n] = conv[n]
        /\ \A i \in 1..Len(notes) : d[n + i] = notes[i]
    <3>1. Len(d) = n + Len(notes)
      BY <1>1, <1>9, ConcatProperties DEF n
    <3>2. d[n] = conv[n]
      BY <1>1, <1>5, <1>9, ConcatProperties DEF n
    <3>3. \A i \in 1..Len(notes) : d[n + i] = notes[i]
      <4> SUFFICES ASSUME NEW i \in 1..Len(notes) PROVE d[n + i] = notes[i]
        OBVIOUS
      <4> DEFINE z == n + i
      <4>1. z \in 1..(n + Len(notes)) /\ ~(z <= n) /\ z - n = i
        BY <1>5, <1>9
      <4> HIDE DEF z
      <4>2. d[z] = notes[z - n]
        BY <1>1, <1>9, <4>1, ConcatProperties DEF n
      <4>3. QED
        BY <4>1, <4>2 DEF z
    <3>4. QED
      BY <3>1, <3>2, <3>3
  <2> HIDE DEF d
  <2>6. ASSUME NEW i \in 1..Len(notes) PROVE Matched(d, n + i)
    <3>1. n \in 1..((n + i) - 1)
      BY <1>5
    <3>2. d[n].role = "assistant" /\ d[n] = m
      BY <1>3, <1>5, <2>5 DEF n
    <3>3. \A l \in (n + 1)..(n + i) : d[l].role # "assistant"
      <4> SUFFICES ASSUME NEW l \in (n + 1)..(n + i) PROVE d[l].role # "assistant"
        OBVIOUS
      <4> DEFINE z == l - n
      <4>1. z \in 1..Len(notes) /\ l = n + z
        BY <1>5, <1>9
      <4> HIDE DEF z
      <4>2. d[l] = notes[z]
        BY <2>5, <4>1
      <4>3. QED
        BY <2>4, <4>1, <4>2
    <3>4. d[n + i].parts[1].id = called[i].id /\ i \in DOMAIN called
      BY <2>3, <2>5
    <3>5. Asks(called, d[n + i].parts[1].id)
      BY <1>7, <3>4, Zenon DEF Asks
    <3>6. Asks(ofKind(d[n].parts, {"call"}), d[n + i].parts[1].id)
      BY <3>2, <3>5 DEF called
    <3>7. QED
      BY <3>1, <3>2, <3>3, <3>6, Zenon DEF Matched
  <2>7. \A i \in 1..Len(notes) : Shaped(notes[i]) /\ (notes[i].role = "tool" => Matched(conv \o notes, Len(conv) + i))
    BY <2>4, <2>6 DEF d, n
  <2>8. Answered(conv \o notes)
    BY <1>1, <1>9, <2>7, AnsweredLonger
  <2>9. QED
    BY <1>3, <1>8, <2>8 DEF Answering
<1>12. QED
  BY <1>10, <1>11

(* No step leaves a result without its call.                                *)
LEMMA AnsweringStep == RequestInv /\ [WireNext]_wireVars => Answering'
<1> SUFFICES ASSUME RequestInv, [WireNext]_wireVars PROVE Answering'
  OBVIOUS
<1>0. ask \in Asked /\ Answering /\ WireInv
  BY DEF RequestInv, WireInv, RoutingInv, Routed
<1>1. CASE Ask \/ Resend
  <2>1. conv' = conv /\ \E u \in serves(request.routing) : ask' = [ask EXCEPT !.at = "body", !.up = u, !.routing = request.routing]
    BY <1>1, Zenon DEF Ask, Resend, send
  <2>2. ask'.at = "body"
    BY <1>0, <2>1, Zenon DEF Asked
  <2>3. QED
    BY <2>1, <2>2, DroppedAnswering
<1>2. CASE Fragment
  <2>1. ask.at = "body" /\ ask' = ask /\ conv' = conv
    BY <1>2 DEF Fragment
  <2>2. QED
    BY <2>1, DroppedAnswering
<1>3. CASE Generate \/ Stream \/ StreamClosed
  <2> DEFINE Fine(parts, cut) == ~cut => Says(prov, parts, said.reply, unsplit(said.reply) \/ ~prov.stream)
  <2>1. ask.at = "body" /\ \E parts \in Seq(Part), cut \in BOOLEAN : Fine(parts, cut) /\ commit(parts, cut)
    BY <1>0, <1>3, Commits
  <2>2. PICK parts \in Seq(Part), cut \in BOOLEAN : Fine(parts, cut) /\ commit(parts, cut)
    BY <2>1, Zenon
  <2>3. conv' = Append(conv, assistantTurn(parts, said.reply, cut)) /\ assistantTurn(parts, said.reply, cut) \in Turn
    BY <1>0, <2>1, <2>2, CommitKeeps
  <2>4. QED
    BY <2>3, TurnAnswering
<1>4. CASE AttemptFails
  <2>1. PICK f \in Faults :
          /\ ask' = [ask EXCEPT !.at = IF route(prov, f) \in {"resend", "scrub"} THEN "backoff" ELSE "over",
                                !.up = None,
                                !.retry = CASE route(prov, f) = "resend" -> @ + 1
                                            [] route(prov, f) = "scrub"  -> 0
                                            [] OTHER                     -> @,
                                !.dropped = @ \/ route(prov, f) = "scrub"]
          /\ conv' = IF route(prov, f) = "scrub" THEN dropReplayReasoning(conv) ELSE conv
    BY <1>4 DEF AttemptFails
  <2>2. conv' = dropReplayReasoning(conv) \/ conv' = conv
    BY <2>1
  <2> DEFINE a == IF route(prov, f) \in {"resend", "scrub"} THEN "backoff" ELSE "over"
             k == CASE route(prov, f) = "resend" -> ask.retry + 1
                    [] route(prov, f) = "scrub"  -> 0
                    [] OTHER                     -> ask.retry
             b == ask.dropped \/ route(prov, f) = "scrub"
  <2>3. ask' = [ask EXCEPT !.at = a, !.up = None, !.retry = k, !.dropped = b]
    BY <2>1
  <2>4. a # "said"
    OBVIOUS
  <2> HIDE DEF a, k, b
  <2>5. ask'.at = a
    BY <1>0, <2>3, Zenon DEF Asked
  <2>6. QED
    BY <2>2, <2>4, <2>5, DroppedAnswering
<1>5. CASE CanceledInBackoff
  <2>1. ask' = [ask EXCEPT !.at = "over"] /\ conv' = conv
    BY <1>5 DEF CanceledInBackoff
  <2>2. ask'.at = "over"
    BY <1>0, <2>1, Zenon DEF Asked
  <2>3. QED
    BY <2>1, <2>2, DroppedAnswering
<1>6. CASE Answer
  BY <1>6, AnswerAnswering
<1>7. CASE AsideAsks \/ AsideReturns \/ UNCHANGED wireVars
  <2>1. conv' = conv /\ ask' = ask
    BY <1>7 DEF AsideAsks, AsideReturns, wireVars
  <2>2. QED
    BY <1>0, <2>1 DEF Answering
<1>8. QED
  BY <1>1, <1>2, <1>3, <1>4, <1>5, <1>6, <1>7 DEF WireNext

(* Every step keeps the strengthened invariant.                             *)
LEMMA RequestInvStep == RequestInv /\ [WireNext]_wireVars => RequestInv'
BY WireStep, AnsweringStep DEF RequestInv

(* The arguments of a turn that gave them whole are replayed as JSON.       *)
LEMMA CallsGiven ==
    ASSUME NEW p \in Prov, NEW m \in Turn, Whole(p, m), ~m.cut,
           \A i \in DOMAIN m.said.calls : m.said.calls[i] = <<>> \/ json(m.said.calls[i])
    PROVE  \A i \in DOMAIN calls(m.parts) : json(calls(m.parts)[i].x)
<1> DEFINE c  == ofKind(m.parts, {"call"})
           cs == m.said.calls
<1>1. m.parts \in Seq(Part) /\ m.said \in Reply /\ cs \in Seq(Seq(STRING))
  BY ReplyFields, Zenon DEF Turn
<1>2. c = chatCalls(cs) \/ c = messagesCalls(cs)
  BY Zenon DEF Whole, Says, asked
<1>3. c \in Seq(Part)
  BY <1>1, OfKindMembers
<1>4. DOMAIN c = DOMAIN cs /\ \A i \in DOMAIN cs : c[i].x = cs[i] \/ c[i].x = rawOrEmptyObject(cs[i])
  BY <1>2 DEF chatCalls, messagesCalls, part
<1>5. DOMAIN calls(m.parts) = DOMAIN c /\ \A i \in DOMAIN c : calls(m.parts)[i] = [c[i] EXCEPT !.x = rawOrEmptyObject(@)]
  BY Zenon DEF calls
<1> HIDE DEF c
<1>6. ASSUME NEW i \in DOMAIN c PROVE json(calls(m.parts)[i].x)
  <2> DEFINE x == rawOrEmptyObject(c[i].x)
  <2>1. c[i] \in Part
    BY <1>3
  <2>2. calls(m.parts)[i].x = x
    <3>1. calls(m.parts)[i] = [c[i] EXCEPT !.x = x]
      BY <1>5, Zenon
    <3> HIDE DEF x
    <3>2. QED
      BY <2>1, <3>1, Zenon DEF Part
  <2>3. x = rawOrEmptyObject(cs[i])
    BY <1>4, Zenon DEF rawOrEmptyObject
  <2>4. i \in DOMAIN cs /\ (cs[i] = <<>> \/ json(cs[i]))
    BY <1>4
  <2>5. json(<<"{}">>)
    BY DEF json
  <2>6. QED
    BY <2>2, <2>3, <2>4, <2>5, Zenon DEF rawOrEmptyObject
<1>7. QED
  BY <1>5, <1>6

(* Whatever the run has been through, its request keeps to the wire.        *)
LEMMA WellFormed == RequestInv => RequestIsWellFormed
<1> SUFFICES ASSUME RequestInv, ask.at \in {"idle", "backoff"} PROVE RequestIsWellFormed
  BY DEF RequestIsWellFormed
<1> DEFINE msgs == request.messages
           marks == request.marks
<1>1. conv \in Seq(Turn \cup Note) /\ conv # <<>> /\ Answered(conv) /\ prov \in Prov
  BY DEF RequestInv, WireInv, Typing, Answering
<1>2. \A i \in 1..Len(conv) : Shaped(conv[i])
  BY <1>1 DEF Answered
<1>3. msgs = toMessages(prov, conv)
  BY DEF request, buildParams, chatParams, messagesParams
<1>4. PICK o : Carries(prov, conv, msgs, o)
  BY <1>1, <1>2, <1>3, RequestCarries
<1> HIDE DEF msgs, marks
<1>5. \A i \in DOMAIN msgs : Clean(prov, msgs[i])
  BY <1>1, <1>4, BodyClean
<1>6. \A i \in DOMAIN msgs : \A b \in DOMAIN msgs[i].blocks :
         /\ msgs[i].blocks[b].k = "call" => msgs[i].blocks[b].x # <<>>
         /\ msgs[i].blocks[b].k = "think" => \A d \in 1..b : msgs[i].blocks[d].k = "think"
  BY <1>5, Zenon DEF Clean, Argued, Leading
<1>7. \A i \in DOMAIN msgs : msgs[i].role # "assistant" \/ prov.api = "messages" => msgs[i].blocks # <<>>
  BY <1>5, Zenon DEF Clean
<1>8. \A i \in DOMAIN msgs : \A b \in DOMAIN msgs[i].blocks :
         msgs[i].blocks[b].k \in {"result", "error"} => Asks(msgs[back(msgs, i)].blocks, msgs[i].blocks[b].id)
  BY <1>1, <1>4, BodyAnswers DEF reports
<1>9. \A i \in DOMAIN conv[1].parts : conv[1].parts[i].k = "image" => holds(msgs[2].blocks, "image")
  <2>1. conv[1].role = "user"
    BY <1>1 DEF Answered
  <2>2. (\E i \in DOMAIN conv[1].parts : conv[1].parts[i].k = "image") => holds(conv[1].parts, "image")
    BY Zenon DEF holds
  <2>3. QED
    BY <1>1, <1>4, <2>1, <2>2, BodyShows
<1>10. prov.cache => Marked(msgs, marks)
  <2> SUFFICES ASSUME prov.cache PROVE Marked(msgs, marks)
    OBVIOUS
  <2>1. Carries(prov, conv, toMessages(prov, conv), o)
    BY <1>3, <1>4
  <2>2. Marked(toMessages(prov, conv), buildParams(prov, pinned, conv).marks)
    BY <1>1, <2>1, RequestMarked
  <2>3. QED
    BY <1>3, <2>2 DEF request, marks
<1>11. \A i \in DOMAIN msgs : \A b \in DOMAIN msgs[i].blocks :
          msgs[i].blocks[b].k \in {"result", "error"} =>
             LET j == CHOOSE j \in 1..i : msgs[j].role = "assistant" /\ \A l \in (j + 1)..i : msgs[l].role # "assistant"
             IN  \E d \in DOMAIN msgs[j].blocks : msgs[j].blocks[d].k = "call" /\ msgs[j].blocks[d].id = msgs[i].blocks[b].id
  BY <1>8, Zenon DEF back, Asks
<1>12. \A i \in DOMAIN conv[1].parts : conv[1].parts[i].k = "image" =>
          \E b \in DOMAIN msgs[2].blocks : msgs[2].blocks[b].k \in {"image"}
  BY <1>9 DEF holds
<1>13. prov.cache => /\ <<1, 1>> \in marks /\ Cardinality(marks) <= 2
                     /\ msgs[Len(msgs)].role # "assistant" =>
                            \E j \in DOMAIN msgs[Len(msgs)].blocks : <<Len(msgs), j>> \in marks
  BY <1>10, Zenon DEF Marked
<1>14. QED
  <2>1. \A i \in DOMAIN msgs : \A b \in DOMAIN msgs[i].blocks :
           msgs[i].blocks[b].k = "call" => msgs[i].blocks[b].x # <<>>
    BY <1>6, Zenon
  <2>2. \A i \in DOMAIN msgs : \A b \in DOMAIN msgs[i].blocks :
           msgs[i].blocks[b].k = "think" => \A d \in 1..b : msgs[i].blocks[d].k = "think"
    BY <1>6, Zenon
  <2>3. \A i \in assistantTurns :
           ~conv[i].cut /\ (\A j \in DOMAIN conv[i].said.calls : conv[i].said.calls[j] = <<>> \/ json(conv[i].said.calls[j])) =>
              \A c \in DOMAIN calls(conv[i].parts) : json(calls(conv[i].parts)[c].x)
    <3>1. \A i \in assistantTurns : i \in 1..Len(conv) /\ conv[i].role = "assistant"
      BY <1>1 DEF assistantTurns
    <3>2. \A i \in assistantTurns : conv[i] \in Turn /\ Whole(prov, conv[i])
      BY <3>1, Zenon DEF RequestInv, WireInv, Typing
    <3>3. QED
      BY <1>1, <3>2, CallsGiven
  <2>4. QED
    BY <1>7, <1>11, <1>12, <1>13, <2>1, <2>2, <2>3 DEF RequestIsWellFormed, msgs, marks

(* No message of a request is empty but the chat wire's of an assistant     *)
(* turn without text or calls, no call lacks arguments, which are JSON      *)
(* where the answer ended and gave them as JSON, the thinking leads its     *)
(* turn, every result answers a call of the turn before it, the task's      *)
(* images are there, and the cache marks are on the prefix and the tail     *)
(* (buildParams, toMessages, rawOrEmptyObject, applyCacheBreakpoints).      *)
THEOREM RequestsWellFormed == WireSpec => []RequestIsWellFormed
<1>1. WireInit => RequestInv
  BY WireInvInit, AnsweringInit DEF RequestInv
<1>2. QED
  BY <1>1, RequestInvStep, WellFormed, PTL DEF WireSpec
=============================================================================
