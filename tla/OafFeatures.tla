----------------------------- MODULE OafFeatures -----------------------------
(***************************************************************************)
(* How the kernel recognises the application of a packet with the list of  *)
(* features that OafFeatureReload puts together (app_filter.c), and what   *)
(* the features mean.                                                      *)
(***************************************************************************)
EXTENDS OafFeatureReload, OafRegexp

CONSTANTS
  Flows,            \* packets to be recognised
  Junk,             \* what fresh memory may hold, see OafRegexp
  MaxUrl,           \* MAX_URL_MATCH_LEN (64)
  MaxPosInfo,       \* MAX_POS_INFO_PER_FEATURE (16)
  UintRange         \* 2^32, the range of unsigned int

ASSUME FeaturesAssumption ==
  MaxUrl \in Nat \ {0, 1} /\ UintRange \in Nat \ {0} /\ MaxPosInfo \in Nat

(***************************************************************************)
(* Ports and dictionary of a feature (parse_port_info, __add_app_feature). *)
(***************************************************************************)

\* A port entry or a dictionary entry that sscanf cannot read.
Unreadable == [bad |-> TRUE]

\* The values of an int, and what a dictionary entry may be.
IntValue == {p \in Int : -UintRange <= 2 * p /\ 2 * p < UintRange}
DictEntry == {Unreadable} \cup [bad : {FALSE}, pos : IntValue, value : Int]

\* Patterns and dictionaries of the files, and the packets.  A dictionary fits
\* into pos_info, and a packet is shorter than the largest int.
ASSUME PatternsAssumption == \A f \in Features : \A e \in f.host \cup f.request : IsExpression(e)
ASSUME DictAssumption ==
  \A f \in Features : f.dict \in Seq(DictEntry) /\ Len(f.dict) < MaxPosInfo
ASSUME FlowsAssumption ==
  \A flow \in Flows :
    /\ flow.kind \in {"https", "http", "other"}
    /\ IsText(flow.host) /\ IsText(flow.url)
    /\ flow.data \in Seq(Int) /\ 2 * Len(flow.data) <= UintRange

\* parse_port_info keeps the ranges it can read.
PortRanges(ports) == SelectSeq(ports, LAMBDA r : ~r.bad)

\* Only the last dictionary entry is dropped when it cannot be read; one
\* before it repeats the entry before, or stands for 0:00.
PosEntry(dict, i) ==
  LET readable == {j \in 1 .. i : ~dict[j].bad}
      last == CHOOSE j \in readable : \A k \in readable : k <= j
  IN  IF readable = {} THEN [pos |-> 0, value |-> 0]
      ELSE [pos |-> dict[last].pos, value |-> dict[last].value]

PosInfo(dict) ==
  LET All == [i \in DOMAIN dict |-> PosEntry(dict, i)]
  IN  IF dict # << >> /\ dict[Len(dict)].bad THEN Front(All) ELSE All

(***************************************************************************)
(* Recognising a packet.                                                   *)
(***************************************************************************)
InRange(port, r) == r.start <= port /\ port <= r.end

\* One "!" range makes the list a list of exceptions.
af_match_port(ports, port) ==
  LET ranges == PortRanges(ports)
      Not == {i \in DOMAIN ranges : ranges[i].not}
  IN  \/ ranges = << >>
      \/ Not # {} /\ \A i \in Not : ~InRange(port, ranges[i])
      \/ Not = {} /\ \E i \in DOMAIN ranges : InRange(port, ranges[i])

\* k_memstr: the text somewhere in the payload
Occurs(str, data) ==
  \E p \in 0 .. Len(data) - Len(str) : SubSeq(data, p + 1, p + Len(str)) = str

\* pos is an unsigned int: what a negative position leaves below 0 wraps.
PosMatches(p, data) ==
  LET pos == (IF p.pos < 0 THEN Len(data) + p.pos ELSE p.pos) % UintRange
  IN  pos < Len(data) /\ data[pos + 1] = p.value

af_match_by_pos(f, flow) ==
  LET info == PosInfo(f.dict)
  IN  /\ info # << >>
      /\ \A i \in DOMAIN info : PosMatches(info[i], flow.data)
      /\ f.search # << >> => Occurs(f.search, flow.data)

Cut(text) == IF Len(text) >= MaxUrl THEN SubSeq(text, 1, MaxUrl - 1) ELSE text

\* The host of a TLS hello, else the host of an HTTP request, else its path.
\* An expression is matched in the form it is written in the file.
af_match_by_url(f, flow, junk) ==
  LET host == IF flow.kind \in {"https", "http"} THEN Cut(flow.host) ELSE << >>
      url == IF flow.kind = "http" THEN Cut(flow.url) ELSE << >>
      Matches(es, text) ==
        text # << >> /\ \E e \in es : RegexpMatch(Written(e), text, junk)
  IN  Matches(f.host, host) \/ Matches(f.request, url)

\* A feature without patterns and positions matches all on its ports; its
\* search text counts only after positions.
af_match_one(f, flow, junk) ==
  /\ flow.proto = f.proto
  /\ flow.data # << >>
  /\ f.sport \in {0, flow.sport}
  /\ af_match_port(f.ports, flow.dport)
  /\ IF f.host # {} \/ f.request # {} THEN af_match_by_url(f, flow, junk)
     ELSE PosInfo(f.dict) # << >> => af_match_by_pos(f, flow)

\* The application of the first feature in the list that matches.
match_feature(list, flow, junk) ==
  LET hits == {i \in DOMAIN list : af_match_one(list[i], flow, junk)}
  IN  IF hits = {} THEN NoApp ELSE list[CHOOSE i \in hits : \A j \in hits : i <= j].app

(***************************************************************************)
(* What a feature means, apart from how the kernel finds out.              *)
(***************************************************************************)

\* Every entry of the dictionary holds, counted from the end if negative.
DictHolds(dict, data) ==
  \A i \in DOMAIN dict :
    LET at == IF dict[i].pos < 0 THEN Len(data) + dict[i].pos ELSE dict[i].pos
    IN  at \in 0 .. Len(data) - 1 /\ data[at + 1] = dict[i].value

Describes(f, flow) ==
  /\ flow.proto = f.proto /\ flow.data # << >>
  /\ f.sport \in {0, flow.sport}
  /\ af_match_port(f.ports, flow.dport)
  /\ IF f.host \cup f.request # {}
     THEN \/ \E e \in f.host : flow.kind # "other" /\ flow.host # << >> /\ Fits(e, Cut(flow.host))
          \/ \E e \in f.request : flow.kind = "http" /\ flow.url # << >> /\ Fits(e, Cut(flow.url))
     ELSE f.dict # << >> =>
            DictHolds(f.dict, flow.data) /\ (f.search # << >> => Occurs(f.search, flow.data))

Readable(f) == \A i \in DOMAIN f.dict : ~f.dict[i].bad
Plain(f, junk) ==
  Readable(f) /\ (junk = [ch |-> NoChar, ccl |-> NoChar]
                  \/ \A e \in f.host \cup f.request : NoList(e))

\* For every list the kernel can have (each arises in a reload) and whatever
\* fresh memory holds, a packet is given the application of the feature that
\* was added last among those that describe it: backtracking, the wrap-around
\* of positions and the order of the list add and lose nothing.  Features
\* with \d, whose nodes the junk in memory takes part in, are exact when the
\* memory was clean.  (regexp_match, af_match_by_pos, match_feature)
RecognisesAsDescribed ==
  pc = "add" => \A junk \in Junk, flow \in Flows :
    (\A i \in DOMAIN features : Plain(features[i], junk)) =>
      LET fits == {i \in DOMAIN features : Describes(features[i], flow)}
          app == match_feature(features, flow, junk)
      IN  IF fits = {} THEN app = NoApp
          ELSE \E i \in fits : (\A j \in fits : i <= j) /\ app = features[i].app
==============================================================================
