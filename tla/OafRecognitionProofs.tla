------------------------- MODULE OafRecognitionProofs ------------------------
(***************************************************************************)
(* The kernel recognises what the features describe, for every library of  *)
(* features and every packet.                                              *)
(***************************************************************************)
EXTENDS OafFeatures, OafFeatureProofs, OafRegexpProofs

(***************************************************************************)
(* Positions of the payload.                                               *)
(***************************************************************************)

\* An entry of a dictionary.
LEMMA EntryType ==
  ASSUME NEW f \in Features, Readable(f), NEW i \in DOMAIN f.dict
  PROVE  ~f.dict[i].bad /\ f.dict[i].pos \in IntValue /\ f.dict[i].value \in Int
<1> DEFINE d == f.dict
<1>1. d \in Seq(DictEntry)
  BY DictAssumption
<1>2. ~d[i].bad
  BY DEF Readable
<1> HIDE DEF d
<1>3. d[i] \in DictEntry
  BY <1>1 DEF d
<1>4. d[i] # Unreadable
  BY <1>2 DEF Unreadable
<1>5. d[i] \in [bad : {FALSE}, pos : IntValue, value : Int]
  BY <1>3, <1>4 DEF DictEntry
<1> QED
  BY <1>2, <1>5 DEF d

\* The kernel keeps a dictionary it can read as it is.
LEMMA ReadableInfo ==
  ASSUME NEW f \in Features, Readable(f)
  PROVE  /\ PosInfo(f.dict)
              = [i \in DOMAIN f.dict |-> [pos |-> f.dict[i].pos, value |-> f.dict[i].value]]
         /\ PosInfo(f.dict) = << >> <=> f.dict = << >>
<1> DEFINE d == f.dict
           n == Len(d)
           V(i) == [pos |-> d[i].pos, value |-> d[i].value]
           All == [i \in DOMAIN d |-> V(i)]
<1>1. d \in Seq(DictEntry)
  BY DictAssumption
<1>2. \A i \in DOMAIN d : ~d[i].bad
  BY EntryType
<1> HIDE DEF d
<1>3. n \in Nat /\ DOMAIN d = 1 .. n
  BY <1>1
<1>4. ASSUME NEW i \in DOMAIN d PROVE PosEntry(d, i) = V(i)
  <2> DEFINE R == {j \in 1 .. i : ~d[j].bad}
             last == CHOOSE j \in R : \A k \in R : k <= j
  <2>1. i \in Nat /\ i \in 1 .. n
    BY <1>3
  <2>2. R = 1 .. i
    BY <1>2, <1>3, <2>1
  <2>3. PosEntry(d, i) = IF R = {} THEN [pos |-> 0, value |-> 0] ELSE V(last)
    BY DEF PosEntry
  <2> HIDE DEF R
  <2>4. i \in R /\ \A k \in R : k <= i
    BY <2>1, <2>2
  <2>5. last \in R /\ \A k \in R : k <= last
    BY <2>4
  <2> HIDE DEF last
  <2>6. last = i
    BY <2>1, <2>2, <2>4, <2>5
  <2> QED
    BY <2>3, <2>4, <2>6
<1>5. [i \in DOMAIN d |-> PosEntry(d, i)] = All
  BY <1>4
<1>6. ~(d # << >> /\ d[Len(d)].bad)
  <2> SUFFICES ASSUME d # << >> PROVE ~d[n].bad
    OBVIOUS
  <2>1. n \in DOMAIN d
    BY <1>1, <1>3
  <2> QED
    BY <1>2, <2>1
<1>7. PosInfo(d) = All
  BY <1>5, <1>6 DEF PosInfo
<1>8. All = << >> <=> d = << >>
  <2> HIDE DEF V
  <2>1. All \in [1 .. n -> {V(i) : i \in 1 .. n}] /\ DOMAIN All = 1 .. n
    BY <1>3
  <2> DEFINE W == {V(i) : i \in 1 .. n}
  <2> HIDE DEF All, W
  <2>2. All \in Seq(W) /\ Len(All) = n
    BY <1>3, <2>1 DEF W
  <2> QED
    BY <1>1, <2>2
<1> QED
  BY <1>7, <1>8 DEF d

\* An unsigned int that holds a position is inside the payload exactly if the
\* position is, although what is below 0 wraps.
LEMMA WrapExact ==
  ASSUME NEW p \in IntValue, NEW n \in Nat, 2 * n <= UintRange
  PROVE  LET at == IF p < 0 THEN n + p ELSE p
         IN  (at % UintRange < n <=> at \in 0 .. n - 1)
             /\ (at \in 0 .. n - 1 => at % UintRange = at)
<1> DEFINE at == IF p < 0 THEN n + p ELSE p
           K == UintRange
<1>1. K \in Nat /\ K # 0 /\ p \in Int /\ -K <= 2 * p /\ 2 * p < K
  BY FeaturesAssumption DEF IntValue
<1>2. at \in Int /\ (p < 0 => at = n + p) /\ (~(p < 0) => at = p)
  BY <1>1
<1>3. at < K /\ -K <= at
  BY <1>1, <1>2
<1>4. at < 0 => at + K >= n
  BY <1>1, <1>2
<1> HIDE DEF at, K
<1>5. CASE at >= 0
  <2>1. at % K = at
    BY <1>1, <1>2, <1>3, <1>5
  <2>2. (at % K < n <=> at \in 0 .. n - 1) /\ (at \in 0 .. n - 1 => at % K = at)
    BY <1>2, <1>5, <2>1
  <2> QED
    BY <2>2 DEF at, K
<1>6. CASE at < 0
  <2>1. at % K = at + K
    BY <1>1, <1>2, <1>3, <1>6
  <2>2. ~(at % K < n) /\ at \notin 0 .. n - 1
    BY <1>1, <1>2, <1>4, <1>6, <2>1
  <2> QED
    BY <2>2 DEF at, K
<1> QED
  BY <1>2, <1>5, <1>6

\* A position holds in the kernel exactly if it holds.
LEMMA PosExact ==
  ASSUME NEW pos \in IntValue, NEW value, NEW data \in Seq(Int), 2 * Len(data) <= UintRange
  PROVE  PosMatches([pos |-> pos, value |-> value], data) <=>
           LET at == IF pos < 0 THEN Len(data) + pos ELSE pos
           IN  at \in 0 .. Len(data) - 1 /\ data[at + 1] = value
<1> DEFINE n == Len(data)
           at == IF pos < 0 THEN n + pos ELSE pos
<1>1. n \in Nat /\ 2 * n <= UintRange
  OBVIOUS
<1>2. PosMatches([pos |-> pos, value |-> value], data)
        <=> at % UintRange < n /\ data[(at % UintRange) + 1] = value
  BY DEF PosMatches
<1>3. (at % UintRange < n <=> at \in 0 .. n - 1) /\ (at \in 0 .. n - 1 => at % UintRange = at)
  <2> HIDE DEF n
  <2> QED
    BY <1>1, WrapExact
<1>4. PosMatches([pos |-> pos, value |-> value], data)
        <=> at \in 0 .. n - 1 /\ data[at + 1] = value
  <2> HIDE DEF at, n
  <2> QED
    BY <1>2, <1>3
<1> QED
  BY <1>4

\* All positions together.
LEMMA DictExact ==
  ASSUME NEW f \in Features, Readable(f), NEW flow \in Flows
  PROVE  (\A i \in DOMAIN PosInfo(f.dict) : PosMatches(PosInfo(f.dict)[i], flow.data))
           <=> DictHolds(f.dict, flow.data)
<1> DEFINE d == f.dict
           V(i) == [pos |-> d[i].pos, value |-> d[i].value]
           At(i) == IF d[i].pos < 0 THEN Len(flow.data) + d[i].pos ELSE d[i].pos
           Holds(i) == At(i) \in 0 .. Len(flow.data) - 1 /\ flow.data[At(i) + 1] = d[i].value
<1>1. PosInfo(d) = [i \in DOMAIN d |-> V(i)]
  BY ReadableInfo
<1>2. flow.data \in Seq(Int) /\ 2 * Len(flow.data) <= UintRange
  BY FlowsAssumption
<1>3. ASSUME NEW i \in DOMAIN d PROVE PosMatches(V(i), flow.data) <=> Holds(i)
  <2> DEFINE p == d[i].pos
             v == d[i].value
             data == flow.data
  <2>1. p \in IntValue /\ data \in Seq(Int) /\ 2 * Len(data) <= UintRange
    BY <1>2, EntryType
  <2> HIDE DEF p, v, data
  <2>2. PosMatches([pos |-> p, value |-> v], data) <=>
           LET at == IF p < 0 THEN Len(data) + p ELSE p
           IN  at \in 0 .. Len(data) - 1 /\ data[at + 1] = v
    BY <2>1, PosExact
  <2> QED
    BY <2>2 DEF p, v, data
<1>4. DictHolds(d, flow.data) <=> \A i \in DOMAIN d : Holds(i)
  BY DEF DictHolds
<1> HIDE DEF Holds, V
<1>5. DOMAIN PosInfo(d) = DOMAIN d /\ \A i \in DOMAIN d : PosInfo(d)[i] = V(i)
  BY <1>1
<1>6. (\A i \in DOMAIN PosInfo(d) : PosMatches(PosInfo(d)[i], flow.data)) <=> DictHolds(d, flow.data)
  BY <1>3, <1>4, <1>5
<1> QED
  BY <1>6

(***************************************************************************)
(* Hosts and requests.                                                     *)
(***************************************************************************)

\* A text that is cut is a text, and empty only if it was.
LEMMA CutText ==
  ASSUME NEW text, IsText(text)
  PROVE  IsText(Cut(text)) /\ (Cut(text) = << >> <=> text = << >>)
<1>1. text \in Seq(Char) /\ Len(text) \in Nat
  BY DEF IsText
<1>2. MaxUrl \in Nat /\ MaxUrl >= 2
  BY FeaturesAssumption
<1>3. CASE Len(text) >= MaxUrl
  <2> DEFINE s == SubSeq(text, 1, MaxUrl - 1)
  <2>1. Cut(text) = s
    BY <1>3 DEF Cut
  <2>2. \A i \in 1 .. MaxUrl - 1 : text[i] \in Char
    BY <1>1, <1>2, <1>3
  <2>3. 1 \in Int /\ MaxUrl - 1 \in Int
    BY <1>2
  <2>4. s \in Seq(Char) /\ Len(s) = MaxUrl - 1
    <3>1. s \in Seq(Char)
      BY <2>2, <2>3, SubSeqProperties
    <3>2. Len(s) = IF 1 <= MaxUrl - 1 THEN MaxUrl - 1 - 1 + 1 ELSE 0
      BY <2>2, <2>3, SubSeqProperties
    <3>3. Len(s) = MaxUrl - 1
      BY <1>2, <3>2
    <3> QED
      BY <3>1, <3>3
  <2> HIDE DEF s
  <2>5. s # << >> /\ text # << >>
    BY <1>1, <1>2, <1>3, <2>4
  <2> QED
    BY <2>1, <2>4, <2>5 DEF IsText
<1>4. CASE ~(Len(text) >= MaxUrl)
  BY <1>4 DEF Cut
<1> QED
  BY <1>3, <1>4

\* A pattern of a feature that junk has no part in, on a text that is cut.
LEMMA PatternExact ==
  ASSUME NEW f \in Features, NEW junk, Plain(f, junk), NEW text, IsText(text),
         NEW e \in f.host \cup f.request
  PROVE  RegexpMatch(Written(e), Cut(text), junk) <=> Fits(e, Cut(text))
<1>1. IsExpression(e)
  BY PatternsAssumption
<1>2. ExactAll(e, junk)
  BY DEF Plain, ExactAll
<1>3. IsText(Cut(text))
  BY CutText
<1> QED
  BY <1>1, <1>2, <1>3, MatchExact

\* Hosts and requests together.
LEMMA UrlExact ==
  ASSUME NEW f \in Features, NEW junk, Plain(f, junk), NEW flow \in Flows
  PROVE  af_match_by_url(f, flow, junk) <=>
           \/ \E e \in f.host : flow.kind # "other" /\ flow.host # << >> /\ Fits(e, Cut(flow.host))
           \/ \E e \in f.request : flow.kind = "http" /\ flow.url # << >> /\ Fits(e, Cut(flow.url))
<1> DEFINE host == IF flow.kind \in {"https", "http"} THEN Cut(flow.host) ELSE << >>
           url == IF flow.kind = "http" THEN Cut(flow.url) ELSE << >>
           Matches(es, text) == text # << >> /\ \E e \in es : RegexpMatch(Written(e), text, junk)
<1>1. flow.kind \in {"https", "http", "other"} /\ IsText(flow.host) /\ IsText(flow.url)
  BY FlowsAssumption
<1>2. af_match_by_url(f, flow, junk) <=> Matches(f.host, host) \/ Matches(f.request, url)
  BY DEF af_match_by_url
<1>3. /\ Cut(flow.host) = << >> <=> flow.host = << >>
      /\ Cut(flow.url) = << >> <=> flow.url = << >>
  BY <1>1, CutText
<1>4. /\ \A e \in f.host : RegexpMatch(Written(e), Cut(flow.host), junk) <=> Fits(e, Cut(flow.host))
      /\ \A e \in f.request : RegexpMatch(Written(e), Cut(flow.url), junk) <=> Fits(e, Cut(flow.url))
  BY <1>1, PatternExact
<1>5. Matches(f.host, host) <=>
        \E e \in f.host : flow.kind # "other" /\ flow.host # << >> /\ Fits(e, Cut(flow.host))
  <2>1. CASE flow.kind = "other"
    BY <2>1
  <2>2. CASE flow.kind # "other"
    <3>1. host = Cut(flow.host)
      BY <1>1, <2>2
    <3> QED
      BY <1>3, <1>4, <2>2, <3>1
  <2> QED
    BY <2>1, <2>2
<1>6. Matches(f.request, url) <=>
        \E e \in f.request : flow.kind = "http" /\ flow.url # << >> /\ Fits(e, Cut(flow.url))
  <2>1. CASE flow.kind # "http"
    BY <2>1
  <2>2. CASE flow.kind = "http"
    <3>1. url = Cut(flow.url)
      BY <2>2
    <3> QED
      BY <1>3, <1>4, <2>2, <3>1
  <2> QED
    BY <2>1, <2>2
<1> QED
  BY <1>2, <1>5, <1>6

(***************************************************************************)
(* The feature and the list.                                               *)
(***************************************************************************)

\* A feature matches the packets it describes.
LEMMA FeatureExact ==
  ASSUME NEW f \in Features, NEW junk, Plain(f, junk), NEW flow \in Flows
  PROVE  af_match_one(f, flow, junk) <=> Describes(f, flow)
<1>1. Readable(f)
  BY DEF Plain
<1>2. CASE f.host # {} \/ f.request # {}
  <2>1. f.host \cup f.request # {}
    BY <1>2
  <2>2. af_match_one(f, flow, junk) <=>
          /\ flow.proto = f.proto /\ flow.data # << >>
          /\ f.sport \in {0, flow.sport} /\ af_match_port(f.ports, flow.dport)
          /\ af_match_by_url(f, flow, junk)
    BY <1>2, Zenon DEF af_match_one
  <2>3. Describes(f, flow) <=>
          /\ flow.proto = f.proto /\ flow.data # << >>
          /\ f.sport \in {0, flow.sport} /\ af_match_port(f.ports, flow.dport)
          /\ \/ \E e \in f.host : flow.kind # "other" /\ flow.host # << >> /\ Fits(e, Cut(flow.host))
             \/ \E e \in f.request : flow.kind = "http" /\ flow.url # << >> /\ Fits(e, Cut(flow.url))
    BY <2>1, Zenon DEF Describes
  <2> QED
    BY <2>2, <2>3, UrlExact
<1>3. CASE ~(f.host # {} \/ f.request # {})
  <2>1. f.host \cup f.request = {}
    BY <1>3
  <2> DEFINE Search == f.search # << >> => Occurs(f.search, flow.data)
             All == \A i \in DOMAIN PosInfo(f.dict) : PosMatches(PosInfo(f.dict)[i], flow.data)
  <2>2. af_match_by_pos(f, flow) <=> PosInfo(f.dict) # << >> /\ All /\ Search
    BY DEF af_match_by_pos
  <2>3. (PosInfo(f.dict) = << >> <=> f.dict = << >>) /\ (All <=> DictHolds(f.dict, flow.data))
    BY <1>1, ReadableInfo, DictExact
  <2>4. af_match_one(f, flow, junk) <=>
          /\ flow.proto = f.proto /\ flow.data # << >>
          /\ f.sport \in {0, flow.sport} /\ af_match_port(f.ports, flow.dport)
          /\ PosInfo(f.dict) # << >> => af_match_by_pos(f, flow)
    BY <1>3, Zenon DEF af_match_one
  <2>5. Describes(f, flow) <=>
          /\ flow.proto = f.proto /\ flow.data # << >>
          /\ f.sport \in {0, flow.sport} /\ af_match_port(f.ports, flow.dport)
          /\ f.dict # << >> => DictHolds(f.dict, flow.data) /\ Search
    BY <2>1, Zenon DEF Describes
  <2> HIDE DEF All, Search
  <2> QED
    BY <2>2, <2>3, <2>4, <2>5
<1> QED
  BY <1>2, <1>3

\* The first feature of a list that matches is the first that describes the
\* packet.
LEMMA ListExact ==
  ASSUME NEW list \in Seq(Features), NEW junk, NEW flow \in Flows,
         \A i \in DOMAIN list : Plain(list[i], junk)
  PROVE  LET fits == {i \in DOMAIN list : Describes(list[i], flow)}
             app == match_feature(list, flow, junk)
         IN  IF fits = {} THEN app = NoApp
             ELSE \E i \in fits : (\A j \in fits : i <= j) /\ app = list[i].app
<1> DEFINE fits == {i \in DOMAIN list : Describes(list[i], flow)}
           hits == {i \in DOMAIN list : af_match_one(list[i], flow, junk)}
           app == match_feature(list, flow, junk)
           first == CHOOSE i \in hits : \A j \in hits : i <= j
<1>1. \A i \in DOMAIN list : list[i] \in Features
  OBVIOUS
<1>2. \A i \in DOMAIN list : af_match_one(list[i], flow, junk) <=> Describes(list[i], flow)
  BY <1>1, FeatureExact
<1>3. hits = fits
  BY <1>2
<1>4. app = IF hits = {} THEN NoApp ELSE list[first].app
  BY DEF match_feature
<1>5. hits \in SUBSET Nat
  OBVIOUS
<1> HIDE DEF hits, app
<1>6. ASSUME hits # {} PROVE first \in hits /\ \A j \in hits : first <= j
  <2>1. \E i \in hits : \A j \in hits : i <= j
    BY <1>5, <1>6, NatMin
  <2> QED
    BY <2>1, Zenon
<1> HIDE DEF first, fits
<1>7. IF fits = {} THEN app = NoApp
      ELSE \E i \in fits : (\A j \in fits : i <= j) /\ app = list[i].app
  BY <1>3, <1>4, <1>6
<1> QED
  BY <1>7 DEF fits, app

\* Whatever files are uploaded and whatever fresh memory holds, a packet is
\* given the application of the feature that was added last among those that
\* describe it.  (match_feature, af_match_one, af_match_by_url,
\* af_match_by_pos, regexp_match)
THEOREM Recognises == Spec => []RecognisesAsDescribed
<1>1. TypeInv => RecognisesAsDescribed
  <2> SUFFICES ASSUME TypeInv, NEW junk \in Junk, NEW flow \in Flows,
                      \A i \in DOMAIN features : Plain(features[i], junk)
               PROVE  LET fits == {i \in DOMAIN features : Describes(features[i], flow)}
                          app == match_feature(features, flow, junk)
                      IN  IF fits = {} THEN app = NoApp
                          ELSE \E i \in fits : (\A j \in fits : i <= j) /\ app = features[i].app
    BY DEF RecognisesAsDescribed
  <2>1. features \in Seq(Features)
    BY DEF TypeInv, Wanted
  <2> QED
    BY <2>1, ListExact
<1> QED
  BY <1>1, TypeHolds, PTL

==============================================================================
