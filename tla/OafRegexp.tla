------------------------------ MODULE OafRegexp ------------------------------
(***************************************************************************)
(* The regular expressions of the kernel module (oaf/src/regexp.c), that   *)
(* host and request patterns of a feature are matched with.                *)
(*                                                                         *)
(* A pattern and a text are sequences of characters.  compile turns the    *)
(* pattern into nodes; matchhere and the three repetition functions walk   *)
(* the nodes by backtracking, shortest repetition first (match_longest is  *)
(* 0 and nothing sets it, so matchstar_l and matchplus_l are never         *)
(* called).  Nodes come from kmalloc: the field ch of a node that is no    *)
(* character, and the last byte of the list of \d and \D, hold whatever    *)
(* the memory held before.  Both are the parameter junk.                   *)
(*                                                                         *)
(* The branch of compile for "[" is left out: af_init_feature takes what   *)
(* follows the LAST "[" of a line for the features, so no pattern with a   *)
(* "[" gets here, and without it compile cannot fail on a pattern that is  *)
(* not empty.                                                              *)
(***************************************************************************)
EXTENDS Naturals, Sequences, SequencesExt

\* The characters that compile takes for operators, and "[".
Special == {"\\", ".", "*", "+", "?", "^", "$", "["}

\* Atoms that are no characters.
Classes == {"any", "dot", "digit", "nondigit"}

\* A value of junk that equals no character.
NoChar == "none"

CONSTANTS
  Char,    \* the characters of patterns and texts
  Digits   \* the ten digits of \d

ASSUME CharAssumption ==
  /\ Special \cup {"d", "D"} \subseteq Char
  /\ (Classes \cup {NoChar}) \cap Char = {}

CharNode(c) == [type |-> "CHAR", ch |-> c, ccl |-> {}, nccl |-> FALSE]
PlainNode(t, junk) == [type |-> t, ch |-> junk.ch, ccl |-> {}, nccl |-> FALSE]

\* getmem(11) holds the ten digits and one byte nobody writes; the
\* terminator goes to the byte after it.
DigitNode(not, junk) ==
  [type |-> "LIST", ch |-> junk.ch, nccl |-> not,
   ccl |-> Digits \cup ({junk.ccl} \ {NoChar})]

Operator(c) ==
  CASE c = "." -> "DOT" [] c = "*" -> "STAR" [] c = "+" -> "PLUS" [] c = "?" -> "QUES"

\* The node that character i of the pattern begins.
NodeAt(reg, i, junk) ==
  CASE reg[i] = "\\" -> IF reg[i + 1] \in {"d", "D"} THEN DigitNode(reg[i + 1] = "D", junk)
                                                    ELSE CharNode(reg[i + 1])
    [] reg[i] \in {".", "*", "+", "?"} -> PlainNode(Operator(reg[i]), junk)
    [] reg[i] = "^" -> [CharNode("^") EXCEPT !.type = "BEGIN"]
    [] reg[i] = "$" -> [CharNode("$") EXCEPT !.type = "END"]
    [] OTHER -> CharNode(reg[i])

\* An escaped character belongs to the node of its backslash.
After(reg, i) == IF reg[i] = "\\" THEN i + 2 ELSE i + 1

\* nodes[i] are the nodes of the pattern from character i on.
Compile(reg, junk) ==
  LET nodes[i \in 1 .. Len(reg) + 2] ==
        IF i > Len(reg) THEN << >> ELSE <<NodeAt(reg, i, junk)>> \o nodes[After(reg, i)]
  IN  nodes[1]

InList(c, node) == node.type = "LIST" /\ (c \in node.ccl) # node.nccl

MatchOne(node, c) == node.type = "DOT" \/ InList(c, node) \/ c = node.ch

(***************************************************************************)
(* A function that matches is modelled by the set of positions of the text *)
(* it answers 1 at; the position after the last character is the           *)
(* terminator.  rest is this set for the nodes that follow.                *)
(***************************************************************************)
Positions(text) == 1 .. Len(text) + 1

\* The node takes the characters from t on, up to and not including u.
TakesAll(node, text, t, u) == \A v \in t .. u - 1 : MatchOne(node, text[v])

MatchStar(cur, rest, text) ==
  {t \in Positions(text) : \E u \in rest : t <= u /\ TakesAll(cur, text, t, u)}

\* Faulty: the rest is tried before a character is taken.
MatchPlusEmpty(cur, rest, text) == MatchStar(cur, rest, text)

MatchPlus(cur, rest, text) ==
  {t \in Positions(text) : \E u \in rest : t < u /\ TakesAll(cur, text, t, u)}

MatchSingle(cur, rest, text) ==
  {t \in Positions(text) : t + 1 \in rest /\ TakesAll(cur, text, t, t + 1)}

MatchQues(cur, rest, text) == MatchSingle(cur, rest, text) \cup rest

Follows(re, n, type) == n < Len(re) /\ re[n + 1].type = type

\* here[n]: matchhere, called with the n-th node.
MatchHere(re, text) ==
  LET here[n \in 1 .. Len(re) + 1] ==
        IF n > Len(re) THEN Positions(text)
        ELSE IF re[n].type = "END" /\ n = Len(re) THEN {Len(text) + 1}
        ELSE IF Follows(re, n, "STAR") THEN MatchStar(re[n], here[n + 2], text)
        ELSE IF Follows(re, n, "PLUS") THEN MatchPlus(re[n], here[n + 2], text)
        ELSE IF Follows(re, n, "QUES") THEN MatchQues(re[n], here[n + 2], text)
        ELSE MatchSingle(re[n], here[n + 1], text)
  IN  here

\* A pattern that does not begin with ^ is tried from every position, the
\* one after the last character included.
RegexpMatch(reg, text, junk) ==
  LET re == Compile(reg, junk)
      here == MatchHere(re, text)
  IN  IF re[1].type = "BEGIN" THEN 1 \in here[2] ELSE here[1] # {}

(***************************************************************************)
(* What a pattern means.  An expression is a sequence of items, each an    *)
(* atom with a repetition, and two anchors.                                *)
(***************************************************************************)

IsExpression(e) ==
  /\ {e.begin, e.end} \subseteq BOOLEAN
  /\ e.items \in Seq([atom : (Char \ Special) \cup Classes, rep : {"1", "*", "+", "?"}])
  /\ e.items # << >>

IsText(text) == text \in Seq(Char)

\* An atom, an item and an expression, as the author of a feature writes them.
Atom(a) ==
  CASE a = "any" -> <<".">> [] a = "dot" -> <<"\\", ".">> [] a = "digit" -> <<"\\", "d">>
    [] a = "nondigit" -> <<"\\", "D">> [] OTHER -> <<a>>

WrittenItem(item) == Atom(item.atom) \o (IF item.rep = "1" THEN << >> ELSE <<item.rep>>)

Written(e) ==
  (IF e.begin THEN <<"^">> ELSE << >>)
  \o (FlattenSeq([i \in DOMAIN e.items |-> WrittenItem(e.items[i])])
      \o (IF e.end THEN <<"$">> ELSE << >>))

Means(a, c) ==
  CASE a = "any" -> TRUE [] a = "dot" -> c = "." [] a = "digit" -> c \in Digits
    [] a = "nondigit" -> c \notin Digits [] OTHER -> c = a

\* The item covers the text from position t to before position u.
Covers(item, text, t, u) ==
  /\ CASE item.rep = "1" -> u = t + 1 [] item.rep = "?" -> u \in {t, t + 1}
       [] item.rep = "*" -> u >= t [] item.rep = "+" -> u > t
  /\ \A v \in t .. u - 1 : Means(item.atom, text[v])

\* The text has a part that the items cover one after the other, each from
\* where the one before it ended.
Fits(e, text) ==
  \E p \in [1 .. Len(e.items) + 1 -> Positions(text)] :
    /\ \A i \in DOMAIN e.items : Covers(e.items[i], text, p[i], p[i + 1])
    /\ e.begin => p[1] = 1
    /\ e.end => p[Len(e.items) + 1] = Len(text) + 1

\* The expressions that junk has no part in.
NoList(e) == \A i \in DOMAIN e.items : e.items[i].atom \notin {"digit", "nondigit"}
==============================================================================
