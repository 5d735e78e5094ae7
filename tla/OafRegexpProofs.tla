--------------------------- MODULE OafRegexpProofs ---------------------------
(***************************************************************************)
(* The matcher of regexp.c finds exactly the texts a pattern means, for    *)
(* every expression and every text, of any length.                         *)
(*                                                                         *)
(* compile and matchhere are functions that recur towards the end of the   *)
(* pattern, so the proof follows the items of the expression from the last *)
(* to the first: the nodes from an item on are those of the items that     *)
(* remain, and the positions they match at are those from which the items  *)
(* that remain can cover the text.                                         *)
(***************************************************************************)
EXTENDS OafRegexp, SequenceLemmas, TLAPS

(***************************************************************************)
(* compile.                                                                *)
(***************************************************************************)

\* f is the function in the definition of Compile.
IsNodes(f, reg, junk) ==
  f = [i \in 1 .. Len(reg) + 2 |->
         IF i > Len(reg) THEN << >> ELSE <<NodeAt(reg, i, junk)>> \o f[After(reg, i)]]

\* There is such a function.
LEMMA NodesExist ==
  ASSUME NEW X, NEW reg \in Seq(X), NEW junk
  PROVE  \E f : IsNodes(f, reg, junk)
<1> DEFINE n == Len(reg)
           m == n + 2
           V == Seq({NodeAt(reg, i, junk) : i \in 1 .. n})
           c == << >>
           b == [i \in 1 .. n |-> After(reg, i)]
           d == [i \in 1 .. n |-> [v \in V |-> <<NodeAt(reg, i, junk)>> \o v]]
<1>1. m \in Nat /\ n \in 0 .. m /\ c \in V
  OBVIOUS
<1>2. \A i \in 1 .. n : After(reg, i) \in 1 .. m /\ After(reg, i) > i
  BY DEF After
<1>3. b \in [1 .. n -> 1 .. m] /\ Later(b, n)
  BY <1>2 DEF Later
<1>4. d \in [1 .. n -> [V -> V]]
  <2>1. ASSUME NEW i \in 1 .. n, NEW v \in V PROVE <<NodeAt(reg, i, junk)>> \o v \in V
    <3> DEFINE N == {NodeAt(reg, j, junk) : j \in 1 .. n}
               a == NodeAt(reg, i, junk)
    <3>1. a \in N /\ v \in Seq(N)
      OBVIOUS
    <3> HIDE DEF N, a
    <3>2. <<a>> \o v \in Seq(N)
      BY <3>1
    <3> QED
      BY <3>2 DEF N, a
  <2> HIDE DEF V
  <2> QED
    BY <2>1
<1>5. \A i \in 1 .. n : \A v \in V : d[i][v] = <<NodeAt(reg, i, junk)>> \o v
  <2> HIDE DEF V
  <2> QED
    OBVIOUS
<1>6. \A i \in 1 .. n : b[i] = After(reg, i)
  OBVIOUS
<1> HIDE DEF m, V, b, d, c
<1>7. n \in 0 .. m
  BY <1>1
<1> HIDE DEF n
<1>8. PICK f \in [1 .. m -> V] : Descends(f, m, n, c, b, d)
  BY <1>1, <1>3, <1>4, RecursionDown
<1>9. ASSUME NEW i \in 1 .. m
      PROVE  f[i] = IF i > n THEN c ELSE <<NodeAt(reg, i, junk)>> \o f[After(reg, i)]
  <2>1. CASE i > n
    BY <1>8, <2>1 DEF Descends
  <2>2. CASE ~(i > n)
    <3>1. i \in 1 .. n
      BY <1>1, <2>2
    <3>2. b[i] \in 1 .. m /\ b[i] = After(reg, i)
      BY <1>3, <1>6, <3>1
    <3>3. f[b[i]] \in V
      BY <3>2
    <3>4. f[i] = d[i][f[b[i]]]
      BY <1>8, <2>2 DEF Descends
    <3> QED
      BY <1>5, <2>2, <3>1, <3>2, <3>3, <3>4
  <2> QED
    BY <2>1, <2>2
<1>10. f = [i \in 1 .. m |-> IF i > n THEN c ELSE <<NodeAt(reg, i, junk)>> \o f[After(reg, i)]]
  BY <1>9
<1> QED
  BY <1>10 DEF IsNodes, m, n, c

\* Compile returns its first value.
LEMMA CompileIs ==
  ASSUME NEW X, NEW reg \in Seq(X), NEW junk
  PROVE  \E f : IsNodes(f, reg, junk) /\ Compile(reg, junk) = f[1]
<1> DEFINE f == CHOOSE g : g = [i \in 1 .. Len(reg) + 2 |->
                                  IF i > Len(reg) THEN << >>
                                  ELSE <<NodeAt(reg, i, junk)>> \o g[After(reg, i)]]
<1>1. Compile(reg, junk) = f[1]
  BY Zenon DEF Compile
<1>2. \E g : IsNodes(g, reg, junk)
  BY NodesExist
<1>3. IsNodes(f, reg, junk)
  BY <1>2, Zenon DEF IsNodes
<1> HIDE DEF f
<1> QED
  BY <1>1, <1>3

\* Its value at a character of the pattern, and after the last one.
LEMMA NodesValue ==
  ASSUME NEW X, NEW reg \in Seq(X), NEW junk, NEW f, IsNodes(f, reg, junk)
  PROVE  /\ \A i \in 1 .. Len(reg) : f[i] = <<NodeAt(reg, i, junk)>> \o f[After(reg, i)]
         /\ f[Len(reg) + 1] = << >>
<1> DEFINE Next(i) == <<NodeAt(reg, i, junk)>> \o f[After(reg, i)]
<1>1. \A i \in 1 .. Len(reg) + 2 : f[i] = IF i > Len(reg) THEN << >> ELSE Next(i)
  BY Zenon DEF IsNodes
<1> HIDE DEF Next
<1>2. Len(reg) \in Nat
  OBVIOUS
<1>3. /\ \A i \in 1 .. Len(reg) : f[i] = Next(i)
      /\ f[Len(reg) + 1] = << >>
  BY <1>1, <1>2
<1> QED
  BY <1>3 DEF Next

\* The node of an atom.
AtomNode(a, junk) ==
  CASE a = "any" -> PlainNode("DOT", junk) [] a = "dot" -> CharNode(".")
    [] a = "digit" -> DigitNode(FALSE, junk) [] a = "nondigit" -> DigitNode(TRUE, junk)
    [] OTHER -> CharNode(a)

\* An atom is written with one or two of them.
LEMMA AtomType ==
  ASSUME NEW a \in (Char \ Special) \cup Classes
  PROVE  Atom(a) \in Seq(Char) /\ Len(Atom(a)) \in {1, 2}
<1>1. \A x, y \in Char : <<x>> \in Seq(Char) /\ <<x, y>> \in Seq(Char) /\ Len(<<x>>) = 1 /\ Len(<<x, y>>) = 2
  OBVIOUS
<1>2. Atom(a) \in {<<".">>, <<"\\", ".">>, <<"\\", "d">>, <<"\\", "D">>, <<a>>} /\ (a \in Classes => Atom(a) # <<a>>)
  BY DEF Atom, Classes
<1>3. "." \in Char /\ "\\" \in Char /\ "d" \in Char /\ "D" \in Char
  BY CharAssumption DEF Special
<1> QED
  BY <1>1, <1>2, <1>3

\* From character i on the pattern begins with that node, and goes on with w.
BeginsWith(f, reg, i, node, w) == \E k : SuffixAt(reg, k, w) /\ f[i] = <<node>> \o f[k]

\* An atom compiles to its node, one or two characters long.
LEMMA AtomStep ==
  ASSUME NEW reg \in Seq(Char), NEW junk, NEW f, IsNodes(f, reg, junk),
         NEW a \in (Char \ Special) \cup Classes, NEW i, NEW w \in Seq(Char), SuffixAt(reg, i, Atom(a) \o w)
  PROVE  BeginsWith(f, reg, i, AtomNode(a, junk), w)
<1>1. Atom(a) \in Seq(Char) /\ Len(Atom(a)) \in {1, 2}
  BY AtomType
<1> DEFINE u == Atom(a)
<1>2. u \in Seq(Char) /\ Len(u) \in {1, 2} /\ SuffixAt(reg, i, u \o w)
  BY <1>1
<1> HIDE DEF u
<1>3. /\ i \in 1 .. Len(reg) + 1 /\ i + Len(u) <= Len(reg) + 1
      /\ \A j \in 1 .. Len(u) : reg[i + j - 1] = u[j]
      /\ SuffixAt(reg, i + Len(u), w)
  BY <1>2, SuffixStep
<1>4. i \in 1 .. Len(reg) /\ Len(reg) \in Nat
  <2>1. Len(u) \in Nat /\ Len(u) # 0 /\ Len(reg) \in Nat
    <3>1. Len(u) = 1 \/ Len(u) = 2
      BY <1>2
    <3>2. Len(reg) \in Nat /\ Len(u) \in Nat
      BY <1>2
    <3>3. Len(u) # 0
      <4>1. CASE Len(u) = 1
        BY <4>1
      <4>2. CASE Len(u) = 2
        BY <4>2
      <4> QED
        BY <3>1, <4>1, <4>2
    <3> QED
      BY <3>2, <3>3
  <2> QED
    BY <1>3, <2>1
<1>5. f[i] = <<NodeAt(reg, i, junk)>> \o f[After(reg, i)]
  BY <1>4, NodesValue
<1>6. reg[i] = u[1] /\ (Len(u) = 2 => reg[i + 1] = u[2])
  BY <1>2, <1>3
<1>7. After(reg, i) = i + Len(u) /\ NodeAt(reg, i, junk) = AtomNode(a, junk)
  <2>1. CASE a = "any"
    <3>1. u = <<".">>
      BY <2>1 DEF u, Atom
    <3> QED
      BY <1>6, <2>1, <3>1 DEF After, NodeAt, AtomNode, Operator
  <2>2. CASE a = "dot"
    <3>1. u = <<"\\", ".">>
      BY <2>2 DEF u, Atom
    <3> QED
      BY <1>6, <2>2, <3>1 DEF After, NodeAt, AtomNode
  <2>3. CASE a = "digit"
    <3>1. u = <<"\\", "d">>
      BY <2>3 DEF u, Atom
    <3> QED
      BY <1>6, <2>3, <3>1 DEF After, NodeAt, AtomNode
  <2>4. CASE a = "nondigit"
    <3>1. u = <<"\\", "D">>
      BY <2>4 DEF u, Atom
    <3> QED
      BY <1>6, <2>4, <3>1 DEF After, NodeAt, AtomNode
  <2>5. CASE a \notin Classes
    <3>1. u = <<a>>
      BY <2>5 DEF u, Atom, Classes
    <3> QED
      BY <1>6, <2>5, <3>1 DEF After, NodeAt, AtomNode, Special, Classes
  <2> QED
    BY <2>1, <2>2, <2>3, <2>4, <2>5 DEF Classes
<1> QED
  BY <1>3, <1>5, <1>7 DEF BeginsWith

\* A repetition compiles to a node of its own.
LEMMA RepStep ==
  ASSUME NEW reg \in Seq(Char), NEW junk, NEW f, IsNodes(f, reg, junk),
         NEW r \in {"*", "+", "?"}, NEW i, NEW w \in Seq(Char), SuffixAt(reg, i, <<r>> \o w)
  PROVE  BeginsWith(f, reg, i, PlainNode(Operator(r), junk), w)
<1> DEFINE u == <<r>>
<1>1. u \in Seq(Char) /\ Len(u) = 1 /\ u[1] = r /\ SuffixAt(reg, i, u \o w)
  BY CharAssumption DEF Special
<1> HIDE DEF u
<1>2. /\ i \in 1 .. Len(reg) + 1 /\ i + Len(u) <= Len(reg) + 1
      /\ \A j \in 1 .. Len(u) : reg[i + j - 1] = u[j]
      /\ SuffixAt(reg, i + Len(u), w)
  BY <1>1, SuffixStep
<1>3. i \in 1 .. Len(reg) /\ Len(reg) \in Nat
  BY <1>1, <1>2
<1>4. f[i] = <<NodeAt(reg, i, junk)>> \o f[After(reg, i)]
  BY <1>3, NodesValue
<1>5. reg[i] = r
  BY <1>1, <1>2
<1>6. After(reg, i) = i + Len(u) /\ NodeAt(reg, i, junk) = PlainNode(Operator(r), junk)
  BY <1>1, <1>5 DEF After, NodeAt
<1> QED
  BY <1>2, <1>4, <1>6 DEF BeginsWith

\* An anchor compiles to a node of its own.
Anchor(c) == [CharNode(c) EXCEPT !.type = IF c = "^" THEN "BEGIN" ELSE "END"]

LEMMA AnchorStep ==
  ASSUME NEW reg \in Seq(Char), NEW junk, NEW f, IsNodes(f, reg, junk),
         NEW c \in {"^", "$"}, NEW i, NEW w \in Seq(Char), SuffixAt(reg, i, <<c>> \o w)
  PROVE  BeginsWith(f, reg, i, Anchor(c), w)
<1> DEFINE u == <<c>>
<1>1. u \in Seq(Char) /\ Len(u) = 1 /\ u[1] = c /\ SuffixAt(reg, i, u \o w)
  BY CharAssumption DEF Special
<1> HIDE DEF u
<1>2. /\ i \in 1 .. Len(reg) + 1 /\ i + Len(u) <= Len(reg) + 1
      /\ \A j \in 1 .. Len(u) : reg[i + j - 1] = u[j]
      /\ SuffixAt(reg, i + Len(u), w)
  BY <1>1, SuffixStep
<1>3. i \in 1 .. Len(reg) /\ Len(reg) \in Nat
  BY <1>1, <1>2
<1>4. f[i] = <<NodeAt(reg, i, junk)>> \o f[After(reg, i)]
  BY <1>3, NodesValue
<1>5. reg[i] = c
  BY <1>1, <1>2
<1>6. After(reg, i) = i + Len(u) /\ NodeAt(reg, i, junk) = Anchor(c)
  BY <1>1, <1>5 DEF After, NodeAt, Anchor
<1> QED
  BY <1>2, <1>4, <1>6 DEF BeginsWith

\* Nothing is left.
LEMMA NothingLeft ==
  ASSUME NEW reg \in Seq(Char), NEW junk, NEW f, IsNodes(f, reg, junk),
         NEW i, SuffixAt(reg, i, << >>)
  PROVE  f[i] = << >>
<1>1. i = Len(reg) + 1 /\ Len(reg) \in Nat
  BY DEF SuffixAt
<1> QED
  BY <1>1, NodesValue


(***************************************************************************)
(* The characters and the nodes of an expression from item k on.           *)
(***************************************************************************)
Rep(item) == IF item.rep = "1" THEN << >> ELSE <<item.rep>>
RepNodes(item, junk) == IF item.rep = "1" THEN << >> ELSE <<PlainNode(Operator(item.rep), junk)>>
ItemNodes(item, junk) == <<AtomNode(item.atom, junk)>> \o RepNodes(item, junk)

EndChars(e) == IF e.end THEN <<"$">> ELSE << >>
EndNodes(e) == IF e.end THEN <<Anchor("$")>> ELSE << >>

CharsFrom(e, k) == From([i \in DOMAIN e.items |-> WrittenItem(e.items[i])], EndChars(e), k)
NodesFrom(e, k, junk) ==
  From([i \in DOMAIN e.items |-> ItemNodes(e.items[i], junk)], EndNodes(e), k)

\* All the nodes there are.
Nodes(junk) ==
  {AtomNode(a, junk) : a \in (Char \ Special) \cup Classes}
  \cup {PlainNode(Operator(r), junk) : r \in {"*", "+", "?"}} \cup {Anchor("^"), Anchor("$")}

\* What an item of an expression is made of.
LEMMA ItemType ==
  ASSUME NEW e, IsExpression(e)
  PROVE  /\ Len(e.items) \in Nat /\ Len(e.items) # 0
         /\ DOMAIN e.items = 1 .. Len(e.items)
         /\ \A k \in 1 .. Len(e.items) :
              /\ e.items[k].atom \in (Char \ Special) \cup Classes
              /\ e.items[k].rep \in {"1", "*", "+", "?"}
<1> DEFINE s == e.items
           I == [atom : (Char \ Special) \cup Classes, rep : {"1", "*", "+", "?"}]
<1>1. s \in Seq(I) /\ s # << >>
  BY DEF IsExpression
<1>2. \A x \in I : x.atom \in (Char \ Special) \cup Classes /\ x.rep \in {"1", "*", "+", "?"}
  OBVIOUS
<1> HIDE DEF s, I
<1>3. /\ Len(s) \in Nat /\ Len(s) # 0 /\ DOMAIN s = 1 .. Len(s)
      /\ \A k \in 1 .. Len(s) : s[k] \in I
  BY <1>1
<1> QED
  BY <1>2, <1>3 DEF s

\* The written items are sequences of characters.
LEMMA WrittenType ==
  ASSUME NEW e, IsExpression(e)
  PROVE  /\ [i \in DOMAIN e.items |-> WrittenItem(e.items[i])] \in Seq(Seq(Char))
         /\ EndChars(e) \in Seq(Char)
<1>1. "$" \in Char /\ "*" \in Char /\ "+" \in Char /\ "?" \in Char
  BY CharAssumption DEF Special
<1>2. EndChars(e) \in Seq(Char)
  <2>1. <<"$">> \in Seq(Char) /\ << >> \in Seq(Char)
    BY <1>1
  <2> QED
    BY <2>1 DEF EndChars
<1>3. ASSUME NEW k \in 1 .. Len(e.items) PROVE WrittenItem(e.items[k]) \in Seq(Char)
  <2> DEFINE a == Atom(e.items[k].atom)
             r == Rep(e.items[k])
  <2>1. a \in Seq(Char)
    BY AtomType, ItemType
  <2>2. r \in Seq(Char)
    <3>1. e.items[k].rep \in {"1", "*", "+", "?"}
      BY ItemType
    <3> DEFINE x == e.items[k].rep
    <3> HIDE DEF x
    <3>2. x \in {"1", "*", "+", "?"}
      BY <3>1 DEF x
    <3>3. (IF x = "1" THEN << >> ELSE <<x>>) \in Seq(Char)
      BY <1>1, <3>2
    <3> QED
      BY <3>3 DEF x, Rep
  <2>3. WrittenItem(e.items[k]) = a \o r
    BY DEF WrittenItem, Rep
  <2> HIDE DEF a, r
  <2>4. a \o r \in Seq(Char)
    BY <2>1, <2>2
  <2> QED
    BY <2>3, <2>4
<1> DEFINE g == [i \in 1 .. Len(e.items) |-> WrittenItem(e.items[i])]
<1>4. Len(e.items) \in Nat /\ DOMAIN e.items = 1 .. Len(e.items)
  BY ItemType
<1>5. g \in Seq(Seq(Char))
  <2> HIDE DEF g
  <2>1. g \in [1 .. Len(e.items) -> Seq(Char)]
    BY <1>3 DEF g
  <2> QED
    BY <1>4, <2>1
<1> QED
  BY <1>2, <1>4, <1>5

\* Their nodes are sequences of nodes.
LEMMA NodesType ==
  ASSUME NEW e, IsExpression(e), NEW junk
  PROVE  /\ [i \in DOMAIN e.items |-> ItemNodes(e.items[i], junk)] \in Seq(Seq(Nodes(junk)))
         /\ EndNodes(e) \in Seq(Nodes(junk))
<1> DEFINE N == Nodes(junk)
<1>1. Anchor("$") \in N
  BY DEF Nodes
<1>2. ASSUME NEW a \in (Char \ Special) \cup Classes PROVE AtomNode(a, junk) \in N
  BY DEF Nodes
<1>3. ASSUME NEW r \in {"*", "+", "?"} PROVE PlainNode(Operator(r), junk) \in N
  BY DEF Nodes
<1> HIDE DEF N
<1>4. EndNodes(e) \in Seq(N)
  <2> DEFINE x == Anchor("$")
  <2> HIDE DEF x
  <2>1. x \in N
    BY <1>1 DEF x
  <2>2. <<x>> \in Seq(N) /\ << >> \in Seq(N)
    BY <2>1
  <2> QED
    BY <2>2 DEF EndNodes, x
<1>5. ASSUME NEW k \in 1 .. Len(e.items) PROVE ItemNodes(e.items[k], junk) \in Seq(N)
  <2> DEFINE a == AtomNode(e.items[k].atom, junk)
             p == PlainNode(Operator(e.items[k].rep), junk)
             r == RepNodes(e.items[k], junk)
  <2>1. e.items[k].atom \in (Char \ Special) \cup Classes /\ e.items[k].rep \in {"1", "*", "+", "?"}
    BY ItemType
  <2>2. a \in N
    BY <1>2, <2>1
  <2>3. r \in Seq(N)
    <3>1. e.items[k].rep # "1" => p \in N
      <4>1. e.items[k].rep # "1" => e.items[k].rep \in {"*", "+", "?"}
        BY <2>1
      <4> QED
        BY <1>3, <4>1
    <3>2. r = IF e.items[k].rep = "1" THEN << >> ELSE <<p>>
      BY DEF RepNodes
    <3> HIDE DEF r, p
    <3> QED
      BY <3>1, <3>2
  <2>4. ItemNodes(e.items[k], junk) = <<a>> \o r
    BY DEF ItemNodes
  <2> HIDE DEF a, r
  <2>5. <<a>> \o r \in Seq(N)
    BY <2>2, <2>3
  <2> QED
    BY <2>4, <2>5
<1> DEFINE g == [i \in 1 .. Len(e.items) |-> ItemNodes(e.items[i], junk)]
<1>6. Len(e.items) \in Nat /\ DOMAIN e.items = 1 .. Len(e.items)
  BY ItemType
<1>7. g \in Seq(Seq(N))
  <2> HIDE DEF g
  <2>1. g \in [1 .. Len(e.items) -> Seq(N)]
    BY <1>5 DEF g
  <2> QED
    BY <1>6, <2>1
<1> QED
  BY <1>4, <1>6, <1>7 DEF N


\* The characters from an item on: its atom, its repetition, and the rest.
LEMMA CharsStep ==
  ASSUME NEW e, IsExpression(e), NEW k \in 1 .. Len(e.items)
  PROVE  /\ CharsFrom(e, k + 1) \in Seq(Char) /\ Rep(e.items[k]) \in Seq(Char)
         /\ Rep(e.items[k]) \o CharsFrom(e, k + 1) \in Seq(Char)
         /\ CharsFrom(e, k) = Atom(e.items[k].atom) \o (Rep(e.items[k]) \o CharsFrom(e, k + 1))
<1> DEFINE s == [i \in DOMAIN e.items |-> WrittenItem(e.items[i])]
           z == EndChars(e)
           n == Len(e.items)
           a == Atom(e.items[k].atom)
           r == Rep(e.items[k])
           w == CharsFrom(e, k + 1)
<1>1. n \in Nat /\ DOMAIN e.items = 1 .. n /\ k \in 1 .. n
  BY ItemType
<1>2. s \in Seq(Seq(Char)) /\ z \in Seq(Char)
  BY WrittenType
<1>3. DOMAIN s = 1 .. n /\ s[k] = a \o r
  BY <1>1 DEF WrittenItem, Rep
<1>4. a \in Seq(Char)
  BY <1>1, ItemType, AtomType
<1>5. r \in Seq(Char)
  <2>1. "*" \in Char /\ "+" \in Char /\ "?" \in Char
    BY CharAssumption DEF Special
  <2> DEFINE x == e.items[k].rep
  <2>2. x \in {"1", "*", "+", "?"}
    BY <1>1, ItemType
  <2> HIDE DEF x
  <2>3. (IF x = "1" THEN << >> ELSE <<x>>) \in Seq(Char)
    BY <2>1, <2>2
  <2> QED
    BY <2>3 DEF x, Rep
<1>6. CharsFrom(e, k) = From(s, z, k) /\ w = From(s, z, k + 1)
  BY DEF CharsFrom
<1> HIDE DEF s, z, a, r, w, n
<1>7. Len(s) = n
  BY <1>1, <1>2, <1>3
<1>8. k \in 1 .. Len(s) /\ k + 1 \in 1 .. Len(s) + 1
  BY <1>1, <1>7
<1>9. w \in Seq(Char)
  BY <1>2, <1>6, <1>8, FromType
<1>10. CharsFrom(e, k) = (a \o r) \o w
  BY <1>2, <1>3, <1>6, <1>8, FromStep
<1>11. (a \o r) \o w = a \o (r \o w) /\ r \o w \in Seq(Char)
  BY <1>4, <1>5, <1>9, SMT
<1> QED
  BY <1>5, <1>9, <1>10, <1>11 DEF a, r, w

\* The whole pattern, and what is left after the last item.
LEMMA CharsEnds ==
  ASSUME NEW e, IsExpression(e)
  PROVE  /\ CharsFrom(e, Len(e.items) + 1) = EndChars(e)
         /\ CharsFrom(e, 1) \in Seq(Char)
         /\ Written(e) = (IF e.begin THEN <<"^">> ELSE << >>) \o CharsFrom(e, 1)
<1> DEFINE s == [i \in DOMAIN e.items |-> WrittenItem(e.items[i])]
           z == EndChars(e)
<1>1. Len(e.items) \in Nat /\ DOMAIN e.items = 1 .. Len(e.items)
  BY ItemType
<1>2. s \in Seq(Seq(Char)) /\ z \in Seq(Char) /\ DOMAIN s = 1 .. Len(e.items)
  BY <1>1, WrittenType
<1>3. /\ CharsFrom(e, Len(e.items) + 1) = From(s, z, Len(e.items) + 1)
      /\ CharsFrom(e, 1) = From(s, z, 1)
  BY DEF CharsFrom
<1>4. Written(e) = (IF e.begin THEN <<"^">> ELSE << >>) \o (FlattenSeq(s) \o z)
  BY DEF Written, EndChars
<1> HIDE DEF s, z
<1>5. Len(s) = Len(e.items)
  BY <1>1, <1>2
<1>6. From(s, z, Len(s) + 1) = z /\ From(s, z, 1) = FlattenSeq(s) \o z
  BY <1>2, FromEnd, FromAll
<1>7. 1 \in 1 .. Len(s) + 1
  BY <1>1, <1>5
<1>8. From(s, z, 1) \in Seq(Char)
  BY <1>2, <1>7, FromType
<1> QED
  BY <1>3, <1>4, <1>5, <1>6, <1>8 DEF z

\* The same for the nodes.
LEMMA NodesStep ==
  ASSUME NEW e, IsExpression(e), NEW junk, NEW k \in 1 .. Len(e.items)
  PROVE  /\ NodesFrom(e, k + 1, junk) \in Seq(Nodes(junk))
         /\ RepNodes(e.items[k], junk) \in Seq(Nodes(junk))
         /\ RepNodes(e.items[k], junk) \o NodesFrom(e, k + 1, junk) \in Seq(Nodes(junk))
         /\ AtomNode(e.items[k].atom, junk) \in Nodes(junk)
         /\ NodesFrom(e, k, junk)
              = <<AtomNode(e.items[k].atom, junk)>>
                \o (RepNodes(e.items[k], junk) \o NodesFrom(e, k + 1, junk))
<1> DEFINE s == [i \in DOMAIN e.items |-> ItemNodes(e.items[i], junk)]
           z == EndNodes(e)
           n == Len(e.items)
           N == Nodes(junk)
           a == AtomNode(e.items[k].atom, junk)
           r == RepNodes(e.items[k], junk)
           w == NodesFrom(e, k + 1, junk)
<1>1. n \in Nat /\ DOMAIN e.items = 1 .. n /\ k \in 1 .. n
  BY ItemType
<1>2. s \in Seq(Seq(N)) /\ z \in Seq(N)
  BY NodesType
<1>3. DOMAIN s = 1 .. n /\ s[k] = <<a>> \o r
  BY <1>1 DEF ItemNodes
<1>4. a \in N
  <2>1. e.items[k].atom \in (Char \ Special) \cup Classes
    BY <1>1, ItemType
  <2> QED
    BY <2>1 DEF Nodes
<1>5. r \in Seq(N)
  <2> DEFINE p == PlainNode(Operator(e.items[k].rep), junk)
  <2>1. e.items[k].rep # "1" => p \in N
    <3>1. e.items[k].rep # "1" => e.items[k].rep \in {"*", "+", "?"}
      BY <1>1, ItemType
    <3> QED
      BY <3>1 DEF Nodes
  <2>2. r = IF e.items[k].rep = "1" THEN << >> ELSE <<p>>
    BY DEF RepNodes
  <2> HIDE DEF r, p, N
  <2> QED
    BY <2>1, <2>2
<1>6. NodesFrom(e, k, junk) = From(s, z, k) /\ w = From(s, z, k + 1)
  BY DEF NodesFrom
<1> HIDE DEF s, z, a, r, w, n, N
<1>7. Len(s) = n
  BY <1>1, <1>2, <1>3
<1>8. k \in 1 .. Len(s) /\ k + 1 \in 1 .. Len(s) + 1
  BY <1>1, <1>7
<1>9. w \in Seq(N)
  BY <1>2, <1>6, <1>8, FromType
<1>10. NodesFrom(e, k, junk) = (<<a>> \o r) \o w
  BY <1>2, <1>3, <1>6, <1>8, FromStep
<1> DEFINE b == <<a>>
<1>11. b \in Seq(N)
  BY <1>4
<1> HIDE DEF b
<1>12. (b \o r) \o w = b \o (r \o w) /\ r \o w \in Seq(N)
  BY <1>5, <1>9, <1>11, SMT
<1> QED
  BY <1>4, <1>5, <1>9, <1>10, <1>12 DEF a, r, w, N, b

\* The end of the nodes.
LEMMA NodesEnds ==
  ASSUME NEW e, IsExpression(e), NEW junk
  PROVE  /\ NodesFrom(e, Len(e.items) + 1, junk) = EndNodes(e)
         /\ NodesFrom(e, 1, junk) \in Seq(Nodes(junk))
<1> DEFINE s == [i \in DOMAIN e.items |-> ItemNodes(e.items[i], junk)]
           z == EndNodes(e)
           N == Nodes(junk)
<1>1. Len(e.items) \in Nat /\ DOMAIN e.items = 1 .. Len(e.items)
  BY ItemType
<1>2. s \in Seq(Seq(N)) /\ z \in Seq(N) /\ DOMAIN s = 1 .. Len(e.items)
  BY <1>1, NodesType
<1>3. /\ NodesFrom(e, Len(e.items) + 1, junk) = From(s, z, Len(e.items) + 1)
      /\ NodesFrom(e, 1, junk) = From(s, z, 1)
  BY DEF NodesFrom
<1> HIDE DEF s, z, N
<1>4. Len(s) = Len(e.items)
  BY <1>1, <1>2
<1>5. From(s, z, Len(s) + 1) = z
  BY <1>2, FromEnd
<1>6. 1 \in 1 .. Len(s) + 1
  BY <1>1, <1>4
<1>7. From(s, z, 1) \in Seq(N)
  BY <1>2, <1>6, FromType
<1> QED
  BY <1>3, <1>4, <1>5, <1>7 DEF z, N


\* compile turns the characters from item k on into the nodes from item k on.
CompilesFrom(f, reg, e, k, junk) ==
  \A i : SuffixAt(reg, i, CharsFrom(e, k)) => f[i] = NodesFrom(e, k, junk)

\* One item more, at the front.
LEMMA CompileItem ==
  ASSUME NEW e, IsExpression(e), NEW junk, NEW reg \in Seq(Char), NEW f, IsNodes(f, reg, junk),
         NEW k \in 1 .. Len(e.items), CompilesFrom(f, reg, e, k + 1, junk)
  PROVE  CompilesFrom(f, reg, e, k, junk)
<1> DEFINE it == e.items[k]
           w == CharsFrom(e, k + 1)
           v == Rep(it) \o w
           N == NodesFrom(e, k + 1, junk)
<1> SUFFICES ASSUME NEW i, SuffixAt(reg, i, CharsFrom(e, k)) PROVE f[i] = NodesFrom(e, k, junk)
  BY DEF CompilesFrom
<1>1. it.atom \in (Char \ Special) \cup Classes /\ it.rep \in {"1", "*", "+", "?"}
  BY ItemType
<1>2. w \in Seq(Char) /\ v \in Seq(Char) /\ CharsFrom(e, k) = Atom(it.atom) \o v
  BY CharsStep
<1>3. NodesFrom(e, k, junk) = <<AtomNode(it.atom, junk)>> \o (RepNodes(it, junk) \o N)
  BY NodesStep
<1>4. N \in Seq(Nodes(junk))
  BY NodesStep
<1>5. SuffixAt(reg, i, Atom(it.atom) \o v)
  BY <1>2
<1> DEFINE a == it.atom
<1> HIDE DEF v, a
<1>6. PICK j : SuffixAt(reg, j, v) /\ f[i] = <<AtomNode(a, junk)>> \o f[j]
  <2>1. a \in (Char \ Special) \cup Classes /\ SuffixAt(reg, i, Atom(a) \o v)
    BY <1>1, <1>5 DEF a
  <2> QED
    <3>1. BeginsWith(f, reg, i, AtomNode(a, junk), v)
      BY <1>2, <2>1, AtomStep
    <3> QED
      BY <3>1 DEF BeginsWith
<1>7. f[j] = RepNodes(it, junk) \o N
  <2>1. CASE it.rep = "1"
    <3>1. v = << >> \o w /\ RepNodes(it, junk) = << >>
      BY <2>1 DEF v, Rep, RepNodes
    <3> HIDE DEF w
    <3>2. v = w
      BY <1>2, <3>1
    <3>3. f[j] = N
      BY <1>6, <3>2 DEF CompilesFrom, w
    <3> HIDE DEF N
    <3>4. << >> \o N = N
      BY <1>4
    <3> QED
      BY <3>1, <3>3, <3>4
  <2>2. CASE it.rep # "1"
    <3> DEFINE r == it.rep
    <3>1. r \in {"*", "+", "?"}
      BY <1>1, <2>2
    <3>2. v = <<r>> \o w /\ RepNodes(it, junk) = <<PlainNode(Operator(r), junk)>>
      BY <2>2 DEF v, Rep, RepNodes
    <3> HIDE DEF r, w
    <3>3. SuffixAt(reg, j, <<r>> \o w)
      BY <1>6, <3>2
    <3>4. PICK l : SuffixAt(reg, l, w) /\ f[j] = <<PlainNode(Operator(r), junk)>> \o f[l]
      <4>1. BeginsWith(f, reg, j, PlainNode(Operator(r), junk), w)
        BY <1>2, <3>1, <3>3, RepStep
      <4> QED
        BY <4>1 DEF BeginsWith
    <3>5. f[l] = N
      BY <3>4 DEF CompilesFrom, w
    <3> QED
      BY <3>2, <3>4, <3>5
  <2> QED
    BY <2>1, <2>2
<1> QED
  BY <1>3, <1>6, <1>7 DEF a

\* After the last item there is the anchor, or nothing.
LEMMA CompileEnd ==
  ASSUME NEW e, IsExpression(e), NEW junk, NEW reg \in Seq(Char), NEW f, IsNodes(f, reg, junk)
  PROVE  CompilesFrom(f, reg, e, Len(e.items) + 1, junk)
<1> SUFFICES ASSUME NEW i, SuffixAt(reg, i, EndChars(e)) PROVE f[i] = EndNodes(e)
  BY CharsEnds, NodesEnds DEF CompilesFrom
<1>1. CASE e.end
  <2>1. EndChars(e) = <<"$">> /\ EndNodes(e) = <<Anchor("$")>>
    BY <1>1 DEF EndChars, EndNodes
  <2> DEFINE c == "$"
             w == << >>
  <2>2. <<c>> \o w = <<c>> /\ w \in Seq(Char) /\ c \in {"^", "$"}
    OBVIOUS
  <2> HIDE DEF c, w
  <2>3. SuffixAt(reg, i, <<c>> \o w)
    BY <2>1, <2>2 DEF c
  <2>4. PICK k : SuffixAt(reg, k, w) /\ f[i] = <<Anchor(c)>> \o f[k]
    <3>1. BeginsWith(f, reg, i, Anchor(c), w)
      BY <2>2, <2>3, AnchorStep
    <3> QED
      BY <3>1 DEF BeginsWith
  <2>5. f[k] = << >>
    BY <2>4, NothingLeft DEF w
  <2> DEFINE x == Anchor(c)
  <2> HIDE DEF x
  <2>6. <<x>> \o << >> = <<x>>
    OBVIOUS
  <2> QED
    BY <2>1, <2>4, <2>5, <2>6 DEF c, x
<1>2. CASE ~e.end
  <2>1. EndChars(e) = << >> /\ EndNodes(e) = << >>
    BY <1>2 DEF EndChars, EndNodes
  <2> QED
    BY <2>1, NothingLeft
<1> QED
  BY <1>1, <1>2

\* So it is from every item on.
LEMMA CompileItems ==
  ASSUME NEW e, IsExpression(e), NEW junk, NEW reg \in Seq(Char), NEW f, IsNodes(f, reg, junk)
  PROVE  CompilesFrom(f, reg, e, 1, junk)
<1> DEFINE P(k) == CompilesFrom(f, reg, e, k, junk)
           n == Len(e.items) + 1
           T == {k \in 1 .. n : ~P(k)}
<1>1. n \in Nat /\ 1 \in 1 .. n /\ n = Len(e.items) + 1 /\ Len(e.items) \in Nat
  BY ItemType
<1>2. P(n)
  BY CompileEnd
<1>3. ASSUME NEW k \in 1 .. Len(e.items), P(k + 1) PROVE P(k)
  BY <1>3, CompileItem
<1> HIDE DEF P, n
<1>4. SUFFICES ASSUME T # {} PROVE FALSE
  BY <1>1 DEF P
<1>5. T \in SUBSET (0 .. n)
  BY <1>1
<1>6. PICK k \in T : \A j \in T : j <= k
  BY <1>1, <1>4, <1>5, NatMax
<1>7. k \in 1 .. n /\ ~P(k)
  OBVIOUS
<1>8. k # n
  BY <1>2, <1>7
<1>9. k \in 1 .. Len(e.items) /\ k + 1 \in 1 .. n
  BY <1>1, <1>7, <1>8
<1>10. k + 1 \notin T
  BY <1>6, <1>9
<1>11. P(k + 1)
  BY <1>9, <1>10
<1> QED
  BY <1>3, <1>7, <1>9, <1>11

\* What compile makes of a written expression.
LEMMA CompileExact ==
  ASSUME NEW e, IsExpression(e), NEW junk
  PROVE  Compile(Written(e), junk)
           = (IF e.begin THEN <<Anchor("^")>> ELSE << >>) \o NodesFrom(e, 1, junk)
<1> DEFINE reg == Written(e)
           w == CharsFrom(e, 1)
           N == NodesFrom(e, 1, junk)
<1>1. w \in Seq(Char) /\ reg = (IF e.begin THEN <<"^">> ELSE << >>) \o w
  BY CharsEnds
<1>2. N \in Seq(Nodes(junk))
  BY NodesEnds
<1> DEFINE c == "^"
<1>3. c \in Char /\ c \in {"^", "$"}
  BY CharAssumption DEF Special
<1> HIDE DEF reg, c
<1>4. reg \in Seq(Char)
  <2>1. <<c>> \in Seq(Char) /\ << >> \in Seq(Char)
    BY <1>3
  <2>2. \A s \in Seq(Char) : s \o w \in Seq(Char)
    <3> HIDE DEF w
    <3> QED
      BY <1>1
  <2> QED
    BY <1>1, <2>1, <2>2 DEF c
<1>5. PICK f : IsNodes(f, reg, junk) /\ Compile(reg, junk) = f[1]
  BY <1>4, CompileIs
<1>6. CompilesFrom(f, reg, e, 1, junk)
  BY <1>4, <1>5, CompileItems
<1>7. SuffixAt(reg, 1, reg)
  BY <1>4, SuffixAll
<1>8. CASE e.begin
  <2>1. reg = <<c>> \o w
    BY <1>1, <1>8 DEF c
  <2> HIDE DEF w
  <2>2. SuffixAt(reg, 1, <<c>> \o w)
    BY <1>7, <2>1
  <2>3. PICK k : SuffixAt(reg, k, w) /\ f[1] = <<Anchor(c)>> \o f[k]
    <3>1. BeginsWith(f, reg, 1, Anchor(c), w)
      BY <1>1, <1>3, <1>4, <1>5, <2>2, AnchorStep
    <3> QED
      BY <3>1 DEF BeginsWith
  <2>4. f[k] = N
    BY <1>6, <2>3 DEF CompilesFrom, w
  <2> QED
    BY <1>5, <1>8, <2>3, <2>4 DEF reg, c
<1>9. CASE ~e.begin
  <2> HIDE DEF w, N
  <2>1. reg = w
    BY <1>1, <1>9
  <2>2. f[1] = N
    BY <1>6, <1>7, <2>1 DEF CompilesFrom, w, N
  <2>3. << >> \o N = N
    BY <1>2
  <2> QED
    BY <1>5, <1>9, <2>2, <2>3 DEF reg, N
<1> QED
  BY <1>8, <1>9


(***************************************************************************)
(* matchhere.                                                              *)
(***************************************************************************)

\* h is the function in the definition of MatchHere.
IsHere(h, re, text) ==
  h = [n \in 1 .. Len(re) + 1 |->
         IF n > Len(re) THEN Positions(text)
         ELSE IF re[n].type = "END" /\ n = Len(re) THEN {Len(text) + 1}
         ELSE IF Follows(re, n, "STAR") THEN MatchStar(re[n], h[n + 2], text)
         ELSE IF Follows(re, n, "PLUS") THEN MatchPlus(re[n], h[n + 2], text)
         ELSE IF Follows(re, n, "QUES") THEN MatchQues(re[n], h[n + 2], text)
         ELSE MatchSingle(re[n], h[n + 1], text)]

\* There is such a function.
LEMMA HereExists ==
  ASSUME NEW X, NEW re \in Seq(X), NEW Y, NEW text \in Seq(Y)
  PROVE  \E h : IsHere(h, re, text)
<1> DEFINE n == Len(re)
           m == n + 1
           c == Positions(text)
           V == SUBSET c
           Star(i) == Follows(re, i, "STAR")
           Plus(i) == Follows(re, i, "PLUS")
           Ques(i) == Follows(re, i, "QUES")
           End(i) == re[i].type = "END" /\ i = n
           Value(i, v) ==
             IF End(i) THEN {Len(text) + 1}
             ELSE IF Star(i) THEN MatchStar(re[i], v, text)
             ELSE IF Plus(i) THEN MatchPlus(re[i], v, text)
             ELSE IF Ques(i) THEN MatchQues(re[i], v, text)
             ELSE MatchSingle(re[i], v, text)
           b == [i \in 1 .. n |-> IF Star(i) \/ Plus(i) \/ Ques(i) THEN i + 2 ELSE i + 1]
           d == [i \in 1 .. n |-> [v \in V |-> Value(i, v)]]
<1>1. m \in Nat /\ n \in 0 .. m /\ c \in V
  OBVIOUS
<1>2. \A i \in 1 .. n : Star(i) \/ Plus(i) \/ Ques(i) => i + 2 \in 1 .. m
  BY DEF Follows
<1> HIDE DEF Star, Plus, Ques, End
<1>3. b \in [1 .. n -> 1 .. m] /\ Later(b, n)
  BY <1>2 DEF Later
<1>4. \A i \in 1 .. n : b[i] = IF Star(i) \/ Plus(i) \/ Ques(i) THEN i + 2 ELSE i + 1
  OBVIOUS
<1>5. ASSUME NEW i \in 1 .. n, NEW v \in V PROVE Value(i, v) \in V
  <2>1. {Len(text) + 1} \in V
    BY DEF Positions
  <2>2. MatchStar(re[i], v, text) \in V /\ MatchPlus(re[i], v, text) \in V
    BY DEF MatchStar, MatchPlus
  <2>3. MatchSingle(re[i], v, text) \in V
    BY DEF MatchSingle
  <2>4. MatchQues(re[i], v, text) \in V
    BY <2>3 DEF MatchQues
  <2> QED
    BY <2>1, <2>2, <2>3, <2>4
<1> HIDE DEF Value, V
<1>6. d \in [1 .. n -> [V -> V]]
  BY <1>5
<1>7. \A i \in 1 .. n : \A v \in V : d[i][v] = Value(i, v)
  OBVIOUS
<1> HIDE DEF m, b, d, c, n
<1>8. PICK h \in [1 .. m -> V] : Descends(h, m, n, c, b, d)
  BY <1>1, <1>3, <1>6, RecursionDown
<1>9. ASSUME NEW i \in 1 .. m
      PROVE  h[i] = IF i > n THEN c
                    ELSE IF End(i) THEN {Len(text) + 1}
                    ELSE IF Star(i) THEN MatchStar(re[i], h[i + 2], text)
                    ELSE IF Plus(i) THEN MatchPlus(re[i], h[i + 2], text)
                    ELSE IF Ques(i) THEN MatchQues(re[i], h[i + 2], text)
                    ELSE MatchSingle(re[i], h[i + 1], text)
  <2>1. CASE i > n
    BY <1>8, <2>1 DEF Descends
  <2>2. CASE ~(i > n)
    <3>1. i \in 1 .. n
      BY <1>1, <2>2
    <3>2. b[i] \in 1 .. m /\ b[i] = IF Star(i) \/ Plus(i) \/ Ques(i) THEN i + 2 ELSE i + 1
      BY <1>3, <1>4, <3>1
    <3>3. h[b[i]] \in V
      BY <3>2
    <3>4. h[i] = d[i][h[b[i]]]
      BY <1>8, <2>2 DEF Descends
    <3>5. h[i] = Value(i, h[b[i]])
      BY <1>7, <3>1, <3>3, <3>4
    <3> QED
      BY <2>2, <3>2, <3>5 DEF Value
  <2> QED
    BY <2>1, <2>2
<1>10. h = [i \in 1 .. m |->
             IF i > n THEN c
             ELSE IF End(i) THEN {Len(text) + 1}
             ELSE IF Star(i) THEN MatchStar(re[i], h[i + 2], text)
             ELSE IF Plus(i) THEN MatchPlus(re[i], h[i + 2], text)
             ELSE IF Ques(i) THEN MatchQues(re[i], h[i + 2], text)
             ELSE MatchSingle(re[i], h[i + 1], text)]
  BY <1>9
<1>11. IsHere(h, re, text)
  BY <1>10, Zenon DEF IsHere, m, n, c, End, Star, Plus, Ques
<1> QED
  BY <1>11

\* MatchHere is one.
LEMMA MatchHereIs ==
  ASSUME NEW X, NEW re \in Seq(X), NEW Y, NEW text \in Seq(Y)
  PROVE  IsHere(MatchHere(re, text), re, text)
<1> DEFINE f == CHOOSE h :
                  h = [n \in 1 .. Len(re) + 1 |->
                         IF n > Len(re) THEN Positions(text)
                         ELSE IF re[n].type = "END" /\ n = Len(re) THEN {Len(text) + 1}
                         ELSE IF Follows(re, n, "STAR") THEN MatchStar(re[n], h[n + 2], text)
                         ELSE IF Follows(re, n, "PLUS") THEN MatchPlus(re[n], h[n + 2], text)
                         ELSE IF Follows(re, n, "QUES") THEN MatchQues(re[n], h[n + 2], text)
                         ELSE MatchSingle(re[n], h[n + 1], text)]
<1>1. MatchHere(re, text) = f
  BY Zenon DEF MatchHere
<1>2. \E h : IsHere(h, re, text)
  BY HereExists
<1>3. IsHere(f, re, text)
  BY <1>2, Zenon DEF IsHere
<1> QED
  BY <1>1, <1>3

\* Its values.
LEMMA HereValue ==
  ASSUME NEW X, NEW re \in Seq(X), NEW text, NEW h, IsHere(h, re, text)
  PROVE  /\ \A n \in 1 .. Len(re) :
              h[n] = IF re[n].type = "END" /\ n = Len(re) THEN {Len(text) + 1}
                     ELSE IF Follows(re, n, "STAR") THEN MatchStar(re[n], h[n + 2], text)
                     ELSE IF Follows(re, n, "PLUS") THEN MatchPlus(re[n], h[n + 2], text)
                     ELSE IF Follows(re, n, "QUES") THEN MatchQues(re[n], h[n + 2], text)
                     ELSE MatchSingle(re[n], h[n + 1], text)
         /\ h[Len(re) + 1] = Positions(text)
<1> DEFINE Value(n) ==
             IF re[n].type = "END" /\ n = Len(re) THEN {Len(text) + 1}
             ELSE IF Follows(re, n, "STAR") THEN MatchStar(re[n], h[n + 2], text)
             ELSE IF Follows(re, n, "PLUS") THEN MatchPlus(re[n], h[n + 2], text)
             ELSE IF Follows(re, n, "QUES") THEN MatchQues(re[n], h[n + 2], text)
             ELSE MatchSingle(re[n], h[n + 1], text)
<1>1. \A n \in 1 .. Len(re) + 1 : h[n] = IF n > Len(re) THEN Positions(text) ELSE Value(n)
  BY Zenon DEF IsHere
<1> HIDE DEF Value
<1>2. Len(re) \in Nat
  OBVIOUS
<1>3. /\ \A n \in 1 .. Len(re) : h[n] = Value(n)
      /\ h[Len(re) + 1] = Positions(text)
  BY <1>1, <1>2
<1> QED
  BY <1>3 DEF Value


(***************************************************************************)
(* What the nodes of an item match.                                        *)
(***************************************************************************)

\* The junk in memory has no part in the node of the atom.
Exact(a, junk) == a \in {"digit", "nondigit"} => junk = [ch |-> NoChar, ccl |-> NoChar]

\* A node takes the characters its atom means.
LEMMA NodeMeans ==
  ASSUME NEW a \in (Char \ Special) \cup Classes, NEW junk, Exact(a, junk), NEW c \in Char
  PROVE  MatchOne(AtomNode(a, junk), c) <=> Means(a, c)
<1>1. c # NoChar
  BY CharAssumption
<1>2. CASE a = "any"
  BY <1>2 DEF AtomNode, PlainNode, MatchOne, Means
<1>3. CASE a = "dot"
  BY <1>3 DEF AtomNode, CharNode, MatchOne, InList, Means
<1>4. CASE a \in {"digit", "nondigit"}
  <2>1. junk.ch = NoChar /\ junk.ccl = NoChar
    BY <1>4 DEF Exact
  <2> DEFINE node == AtomNode(a, junk)
  <2>2. /\ node.type = "LIST" /\ node.ch = NoChar /\ node.ccl = Digits
        /\ node.nccl = (a = "nondigit")
    BY <1>4, <2>1 DEF AtomNode, DigitNode
  <2>3. MatchOne(node, c) <=> (c \in Digits) # (a = "nondigit")
    <3> HIDE DEF node
    <3> QED
      BY <1>1, <2>2 DEF MatchOne, InList
  <2> QED
    BY <1>4, <2>3 DEF Means
<1>5. CASE a \notin Classes
  BY <1>5 DEF AtomNode, CharNode, MatchOne, InList, Means, Classes
<1> QED
  BY <1>2, <1>3, <1>4, <1>5 DEF Classes

\* The positions from which the item covers the text to a position of rest.
Covered(item, rest, text) == {t \in Positions(text) : \E u \in rest : Covers(item, text, t, u)}

\* The types of nodes that are no repetition.
LEMMA AtomNodeType ==
  ASSUME NEW a, NEW junk
  PROVE  AtomNode(a, junk).type \in {"DOT", "CHAR", "LIST"}
<1>1. CASE a = "any"
  BY <1>1 DEF AtomNode, PlainNode
<1>2. CASE a = "dot"
  BY <1>2 DEF AtomNode, CharNode
<1>3. CASE a = "digit"
  BY <1>3 DEF AtomNode, DigitNode
<1>4. CASE a = "nondigit"
  BY <1>4 DEF AtomNode, DigitNode
<1>5. CASE a \notin {"any", "dot", "digit", "nondigit"}
  BY <1>5 DEF AtomNode, CharNode
<1> QED
  BY <1>1, <1>2, <1>3, <1>4, <1>5

\* The node takes a part of the text if the atom means all its characters.
LEMMA TakesMeans ==
  ASSUME NEW a \in (Char \ Special) \cup Classes, NEW junk, Exact(a, junk), NEW text, IsText(text),
         NEW t \in Positions(text), NEW u \in Positions(text)
  PROVE  TakesAll(AtomNode(a, junk), text, t, u) <=> \A v \in t .. u - 1 : Means(a, text[v])
<1>1. ASSUME NEW v \in t .. u - 1 PROVE text[v] \in Char
  BY DEF IsText, Positions
<1>2. \A v \in t .. u - 1 : MatchOne(AtomNode(a, junk), text[v]) <=> Means(a, text[v])
  BY <1>1, NodeMeans
<1> QED
  BY <1>2 DEF TakesAll

\* The four ways to repeat an atom match what the item covers.
LEMMA ItemMatches ==
  ASSUME NEW item, item.atom \in (Char \ Special) \cup Classes,
         NEW junk, Exact(item.atom, junk), NEW text, IsText(text),
         NEW rest \in SUBSET Positions(text)
  PROVE  /\ item.rep = "1" =>
              MatchSingle(AtomNode(item.atom, junk), rest, text) = Covered(item, rest, text)
         /\ item.rep = "*" =>
              MatchStar(AtomNode(item.atom, junk), rest, text) = Covered(item, rest, text)
         /\ item.rep = "+" =>
              MatchPlus(AtomNode(item.atom, junk), rest, text) = Covered(item, rest, text)
         /\ item.rep = "?" =>
              MatchQues(AtomNode(item.atom, junk), rest, text) = Covered(item, rest, text)
<1> DEFINE node == AtomNode(item.atom, junk)
           All(t, u) == \A v \in t .. u - 1 : Means(item.atom, text[v])
<1>0. Positions(text) \in SUBSET Int
  BY DEF Positions
<1>1. \A t, u \in Positions(text) : TakesAll(node, text, t, u) <=> All(t, u)
  BY TakesMeans
<1>2. \A t, u : Covers(item, text, t, u) <=>
        (CASE item.rep = "1" -> u = t + 1 [] item.rep = "?" -> u \in {t, t + 1}
           [] item.rep = "*" -> u >= t [] item.rep = "+" -> u > t) /\ All(t, u)
  BY DEF Covers
<1>3. ASSUME NEW t \in Positions(text) PROVE All(t, t)
  BY <1>0, <1>3
<1> HIDE DEF node, All
<1>4. ASSUME item.rep = "1" PROVE MatchSingle(node, rest, text) = Covered(item, rest, text)
  <2>1. \A t, u : Covers(item, text, t, u) <=> u = t + 1 /\ All(t, u)
    BY <1>2, <1>4
  <2>2. ASSUME NEW t \in Positions(text), t + 1 \in rest
        PROVE  TakesAll(node, text, t, t + 1) <=> All(t, t + 1)
    BY <1>1, <2>2
  <2> QED
    BY <2>1, <2>2 DEF MatchSingle, Covered
<1>5. ASSUME item.rep = "*" PROVE MatchStar(node, rest, text) = Covered(item, rest, text)
  <2>1. \A t, u : Covers(item, text, t, u) <=> u >= t /\ All(t, u)
    BY <1>2, <1>5
  <2>2. \A t, u \in Positions(text) : u >= t <=> t <= u
    BY <1>0
  <2> QED
    BY <1>1, <2>1, <2>2 DEF MatchStar, Covered
<1>6. ASSUME item.rep = "+" PROVE MatchPlus(node, rest, text) = Covered(item, rest, text)
  <2>1. \A t, u : Covers(item, text, t, u) <=> u > t /\ All(t, u)
    BY <1>2, <1>6
  <2>2. \A t, u \in Positions(text) : u > t <=> t < u
    BY <1>0
  <2> QED
    BY <1>1, <2>1, <2>2 DEF MatchPlus, Covered
<1>7. ASSUME item.rep = "?" PROVE MatchQues(node, rest, text) = Covered(item, rest, text)
  <2>1. \A t, u : Covers(item, text, t, u) <=> u \in {t, t + 1} /\ All(t, u)
    BY <1>2, <1>7
  <2>2. ASSUME NEW t \in Positions(text), t + 1 \in rest
        PROVE  TakesAll(node, text, t, t + 1) <=> All(t, t + 1)
    BY <1>1, <2>2
  <2>3. ASSUME NEW t \in Positions(text)
        PROVE  t \in MatchQues(node, rest, text) <=> t \in Covered(item, rest, text)
    <3>1. t \in MatchQues(node, rest, text) <=> t \in rest \/ (t + 1 \in rest /\ All(t, t + 1))
      BY <2>2 DEF MatchQues, MatchSingle
    <3>2. t \in Covered(item, rest, text) <=> (t \in rest /\ All(t, t)) \/ (t + 1 \in rest /\ All(t, t + 1))
      BY <2>1 DEF Covered
    <3> QED
      BY <1>3, <3>1, <3>2
  <2>4. MatchQues(node, rest, text) \subseteq Positions(text)
    BY DEF MatchQues, MatchSingle
  <2>5. Covered(item, rest, text) \subseteq Positions(text)
    BY DEF Covered
  <2> QED
    BY <2>3, <2>4, <2>5
<1> QED
  BY <1>4, <1>5, <1>6, <1>7 DEF node


(***************************************************************************)
(* The positions from which the items from k on fit.                       *)
(***************************************************************************)

\* p leads the items from k on through the text.
IsPath(p, e, text, k) ==
  /\ p \in [k .. Len(e.items) + 1 -> Positions(text)]
  /\ \A i \in k .. Len(e.items) : Covers(e.items[i], text, p[i], p[i + 1])
  /\ e.end => p[Len(e.items) + 1] = Len(text) + 1

Reach(e, text, k) == {t \in Positions(text) : \E p : IsPath(p, e, text, k) /\ p[k] = t}

\* A path is one step and then a path of the items after.
LEMMA ReachStep ==
  ASSUME NEW e, IsExpression(e), NEW text, NEW k \in 1 .. Len(e.items)
  PROVE  Reach(e, text, k) = Covered(e.items[k], Reach(e, text, k + 1), text)
<1> DEFINE n == Len(e.items)
           P == Positions(text)
<1>1. n \in Nat /\ k \in 1 .. n
  BY ItemType
<1>2. ASSUME NEW t \in Reach(e, text, k) PROVE t \in Covered(e.items[k], Reach(e, text, k + 1), text)
  <2>1. PICK p : IsPath(p, e, text, k) /\ p[k] = t
    BY DEF Reach
  <2> DEFINE q == [i \in k + 1 .. n + 1 |-> p[i]]
  <2>2. /\ p \in [k .. n + 1 -> P]
        /\ \A i \in k .. n : Covers(e.items[i], text, p[i], p[i + 1])
        /\ e.end => p[n + 1] = Len(text) + 1
    BY <2>1 DEF IsPath
  <2>3. q \in [k + 1 .. n + 1 -> P] /\ \A i \in k + 1 .. n + 1 : q[i] = p[i]
    BY <1>1, <2>2
  <2> HIDE DEF q
  <2>4. \A i \in k + 1 .. n : Covers(e.items[i], text, q[i], q[i + 1])
    <3> SUFFICES ASSUME NEW i \in k + 1 .. n PROVE Covers(e.items[i], text, q[i], q[i + 1])
      OBVIOUS
    <3>1. i \in k .. n /\ i \in k + 1 .. n + 1 /\ i + 1 \in k + 1 .. n + 1
      BY <1>1
    <3> QED
      BY <2>2, <2>3, <3>1
  <2>5. n + 1 \in k + 1 .. n + 1 /\ k + 1 \in k + 1 .. n + 1 /\ k \in k .. n
    BY <1>1
  <2>6. e.end => q[n + 1] = Len(text) + 1
    BY <2>2, <2>3, <2>5
  <2>7. IsPath(q, e, text, k + 1)
    BY <2>3, <2>4, <2>6 DEF IsPath
  <2>8. q[k + 1] = p[k + 1] /\ q[k + 1] \in P
    BY <2>3, <2>5
  <2>9. q[k + 1] \in Reach(e, text, k + 1)
    BY <2>7, <2>8 DEF Reach
  <2>10. Covers(e.items[k], text, t, q[k + 1])
    BY <2>1, <2>2, <2>5, <2>8
  <2>11. t \in P
    BY DEF Reach
  <2> QED
    BY <2>9, <2>10, <2>11 DEF Covered
<1>3. ASSUME NEW t \in Covered(e.items[k], Reach(e, text, k + 1), text) PROVE t \in Reach(e, text, k)
  <2>1. PICK u \in Reach(e, text, k + 1) : Covers(e.items[k], text, t, u)
    BY DEF Covered
  <2>2. t \in P
    BY DEF Covered
  <2>3. PICK q : IsPath(q, e, text, k + 1) /\ q[k + 1] = u
    BY DEF Reach
  <2> DEFINE p == [i \in k .. n + 1 |-> IF i = k THEN t ELSE q[i]]
  <2>4. /\ q \in [k + 1 .. n + 1 -> P]
        /\ \A i \in k + 1 .. n : Covers(e.items[i], text, q[i], q[i + 1])
        /\ e.end => q[n + 1] = Len(text) + 1
    BY <2>3 DEF IsPath
  <2>5. p \in [k .. n + 1 -> P] /\ p[k] = t /\ \A i \in k + 1 .. n + 1 : p[i] = q[i]
    BY <1>1, <2>2, <2>4
  <2> HIDE DEF p
  <2>6. \A i \in k .. n : Covers(e.items[i], text, p[i], p[i + 1])
    <3> SUFFICES ASSUME NEW i \in k .. n PROVE Covers(e.items[i], text, p[i], p[i + 1])
      OBVIOUS
    <3>1. CASE i = k
      <4>1. k + 1 \in k + 1 .. n + 1
        BY <1>1
      <4>2. p[k + 1] = u
        BY <2>3, <2>5, <4>1
      <4> QED
        BY <2>1, <2>5, <3>1, <4>2
    <3>2. CASE i # k
      <4>1. i \in k + 1 .. n /\ i \in k + 1 .. n + 1 /\ i + 1 \in k + 1 .. n + 1
        BY <1>1, <3>2
      <4> QED
        BY <2>4, <2>5, <4>1
    <3> QED
      BY <3>1, <3>2
  <2>7. n + 1 \in k + 1 .. n + 1
    BY <1>1
  <2>8. e.end => p[n + 1] = Len(text) + 1
    BY <2>4, <2>5, <2>7
  <2>9. IsPath(p, e, text, k)
    BY <2>5, <2>6, <2>8 DEF IsPath
  <2> QED
    BY <2>2, <2>5, <2>9 DEF Reach
<1> QED
  BY <1>2, <1>3

\* After the last item, the end of the text if the pattern ends with $.
LEMMA ReachEnd ==
  ASSUME NEW e, IsExpression(e), NEW text, IsText(text)
  PROVE  Reach(e, text, Len(e.items) + 1)
           = IF e.end THEN {Len(text) + 1} ELSE Positions(text)
<1> DEFINE n == Len(e.items)
           P == Positions(text)
<1>1. n \in Nat
  BY ItemType
<1>2. Len(text) + 1 \in P
  BY DEF IsText, Positions
<1>3. ASSUME NEW t \in P, e.end => t = Len(text) + 1 PROVE t \in Reach(e, text, n + 1)
  <2> DEFINE p == [i \in n + 1 .. n + 1 |-> t]
  <2>1. p \in [n + 1 .. n + 1 -> P] /\ p[n + 1] = t
    BY <1>1
  <2> HIDE DEF p
  <2>2. n + 1 .. n = {}
    BY <1>1
  <2>3. IsPath(p, e, text, n + 1)
    BY <1>3, <2>1, <2>2 DEF IsPath
  <2> QED
    BY <2>1, <2>3 DEF Reach
<1>4. ASSUME NEW t \in Reach(e, text, n + 1) PROVE t \in P /\ (e.end => t = Len(text) + 1)
  BY DEF Reach, IsPath
<1> HIDE DEF P
<1> QED
  BY <1>2, <1>3, <1>4 DEF P

\* The text fits if the first item has such a position.
LEMMA ReachFits ==
  ASSUME NEW e, IsExpression(e), NEW text
  PROVE  Fits(e, text) <=> \E t \in Reach(e, text, 1) : e.begin => t = 1
<1> DEFINE n == Len(e.items)
           P == Positions(text)
<1>1. n \in Nat /\ DOMAIN e.items = 1 .. n /\ 1 \in 1 .. n + 1
  BY ItemType
<1>2. ASSUME Fits(e, text) PROVE \E t \in Reach(e, text, 1) : e.begin => t = 1
  <2>1. PICK p \in [1 .. n + 1 -> P] :
          /\ \A i \in DOMAIN e.items : Covers(e.items[i], text, p[i], p[i + 1])
          /\ e.begin => p[1] = 1
          /\ e.end => p[n + 1] = Len(text) + 1
    BY <1>2 DEF Fits
  <2>2. IsPath(p, e, text, 1) /\ p[1] \in P
    BY <1>1, <2>1 DEF IsPath
  <2>3. p[1] \in Reach(e, text, 1)
    BY <2>2 DEF Reach
  <2> QED
    BY <2>1, <2>3
<1>3. ASSUME NEW t \in Reach(e, text, 1), e.begin => t = 1 PROVE Fits(e, text)
  <2>1. PICK p : IsPath(p, e, text, 1) /\ p[1] = t
    BY DEF Reach
  <2>2. /\ p \in [1 .. n + 1 -> P]
        /\ \A i \in DOMAIN e.items : Covers(e.items[i], text, p[i], p[i + 1])
        /\ e.end => p[n + 1] = Len(text) + 1
    BY <1>1, <2>1 DEF IsPath
  <2> QED
    BY <1>3, <2>1, <2>2 DEF Fits
<1> QED
  BY <1>2, <1>3


(***************************************************************************)
(* The matcher, along the items.                                           *)
(***************************************************************************)
HereFrom(h, re, e, k, text, junk) ==
  \A m : SuffixAt(re, m, NodesFrom(e, k, junk)) => h[m] = Reach(e, text, k)

\* The nodes from an item on do not begin with a repetition.
NoRep(w) == w # << >> => w[1].type \in {"DOT", "CHAR", "LIST", "END"}

\* Nor do those after the last item.
LEMMA FirstNode ==
  ASSUME NEW e, IsExpression(e), NEW junk, NEW k \in 1 .. Len(e.items) + 1
  PROVE  NoRep(NodesFrom(e, k, junk))
<1>1. CASE k = Len(e.items) + 1
  <2>1. NodesFrom(e, k, junk) = EndNodes(e)
    BY <1>1, NodesEnds
  <2>2. Anchor("$").type = "END"
    BY DEF Anchor, CharNode
  <2>3. NoRep(EndNodes(e))
    <3> DEFINE x == Anchor("$")
    <3> HIDE DEF x
    <3>1. EndNodes(e) = IF e.end THEN <<x>> ELSE << >>
      BY DEF EndNodes, x
    <3>2. x.type = "END"
      BY <2>2 DEF x
    <3> QED
      BY <3>1, <3>2 DEF NoRep
  <2> QED
    BY <2>1, <2>3
<1>2. CASE k # Len(e.items) + 1
  <2>1. k \in 1 .. Len(e.items)
    BY <1>2, ItemType
  <2> DEFINE a == AtomNode(e.items[k].atom, junk)
             w == RepNodes(e.items[k], junk) \o NodesFrom(e, k + 1, junk)
  <2>2. NodesFrom(e, k, junk) = <<a>> \o w /\ w \in Seq(Nodes(junk)) /\ a \in Nodes(junk)
    BY <2>1, NodesStep
  <2>3. a.type \in {"DOT", "CHAR", "LIST"}
    BY AtomNodeType
  <2> HIDE DEF a, w
  <2>4. (<<a>> \o w)[1] = a
    BY <2>2
  <2> QED
    BY <2>2, <2>3, <2>4 DEF NoRep
<1> QED
  BY <1>1, <1>2

\* One item more, at the front.
LEMMA HereItem ==
  ASSUME NEW e, IsExpression(e), NEW junk, NEW text, IsText(text),
         NEW re \in Seq(Nodes(junk)), NEW h, IsHere(h, re, text),
         NEW k \in 1 .. Len(e.items), Exact(e.items[k].atom, junk),
         HereFrom(h, re, e, k + 1, text, junk)
  PROVE  HereFrom(h, re, e, k, text, junk)
<1> DEFINE it == e.items[k]
           a == AtomNode(it.atom, junk)
           b == <<a>>
           r == RepNodes(it, junk)
           w == NodesFrom(e, k + 1, junk)
           N == Nodes(junk)
           rest == Reach(e, text, k + 1)
<1> SUFFICES ASSUME NEW m, SuffixAt(re, m, NodesFrom(e, k, junk)) PROVE h[m] = Reach(e, text, k)
  BY DEF HereFrom
<1>1. it.atom \in (Char \ Special) \cup Classes /\ it.rep \in {"1", "*", "+", "?"}
  BY ItemType
<1>2. /\ a \in N /\ r \in Seq(N) /\ w \in Seq(N) /\ r \o w \in Seq(N)
      /\ NodesFrom(e, k, junk) = <<a>> \o (r \o w)
  BY NodesStep
<1>3. Reach(e, text, k) = Covered(it, rest, text) /\ rest \in SUBSET Positions(text)
  <2>1. Reach(e, text, k) = Covered(it, rest, text)
    BY ReachStep
  <2>2. rest \in SUBSET Positions(text)
    BY DEF Reach
  <2> QED
    BY <2>1, <2>2
<1>4. /\ it.rep = "1" => MatchSingle(a, rest, text) = Covered(it, rest, text)
      /\ it.rep = "*" => MatchStar(a, rest, text) = Covered(it, rest, text)
      /\ it.rep = "+" => MatchPlus(a, rest, text) = Covered(it, rest, text)
      /\ it.rep = "?" => MatchQues(a, rest, text) = Covered(it, rest, text)
  <2> HIDE DEF rest, it
  <2>1. Exact(it.atom, junk)
    BY DEF it
  <2> QED
    BY <1>1, <1>3, <2>1, ItemMatches
<1>5. a.type \in {"DOT", "CHAR", "LIST"}
  BY AtomNodeType
<1>6. k + 1 \in 1 .. Len(e.items) + 1
  BY ItemType
<1>7. NoRep(w)
  BY <1>6, FirstNode
<1>8. \A j : SuffixAt(re, j, w) => h[j] = rest
  BY DEF HereFrom
<1>9. re \in Seq(N) /\ IsHere(h, re, text)
  OBVIOUS
<1> HIDE DEF a, w, N, rest, it
<1>10. b \in Seq(N) /\ Len(b) = 1 /\ b[1] = a
  BY <1>2
<1>11. SuffixAt(re, m, b \o (r \o w))
  BY <1>2
<1> HIDE DEF b, r
<1>12. /\ m \in 1 .. Len(re) + 1 /\ m + Len(b) <= Len(re) + 1
       /\ \A j \in 1 .. Len(b) : re[m + j - 1] = b[j]
       /\ SuffixAt(re, m + Len(b), r \o w)
  <2> DEFINE v == r \o w
  <2> HIDE DEF v
  <2>1. v \in Seq(N) /\ SuffixAt(re, m, b \o v)
    BY <1>2, <1>11 DEF v
  <2>2. /\ m \in 1 .. Len(re) + 1 /\ m + Len(b) <= Len(re) + 1
        /\ \A j \in 1 .. Len(b) : re[m + j - 1] = b[j]
        /\ SuffixAt(re, m + Len(b), v)
    BY <1>9, <1>10, <2>1, SuffixStep
  <2> QED
    BY <2>2 DEF v
<1>13. m \in 1 .. Len(re) /\ Len(re) \in Nat /\ re[m] = a /\ SuffixAt(re, m + 1, r \o w)
  <2>1. Len(re) \in Nat
    BY <1>9
  <2>2. m \in 1 .. Len(re)
    BY <1>10, <1>12, <2>1
  <2>3. re[m + 1 - 1] = a
    BY <1>10, <1>12
  <2>4. m + 1 - 1 = m
    BY <2>2
  <2> QED
    BY <1>10, <1>12, <2>1, <2>2, <2>3, <2>4
<1>14. h[m] = IF Follows(re, m, "STAR") THEN MatchStar(a, h[m + 2], text)
              ELSE IF Follows(re, m, "PLUS") THEN MatchPlus(a, h[m + 2], text)
              ELSE IF Follows(re, m, "QUES") THEN MatchQues(a, h[m + 2], text)
              ELSE MatchSingle(a, h[m + 1], text)
  <2>1. h[m] = IF re[m].type = "END" /\ m = Len(re) THEN {Len(text) + 1}
               ELSE IF Follows(re, m, "STAR") THEN MatchStar(re[m], h[m + 2], text)
               ELSE IF Follows(re, m, "PLUS") THEN MatchPlus(re[m], h[m + 2], text)
               ELSE IF Follows(re, m, "QUES") THEN MatchQues(re[m], h[m + 2], text)
               ELSE MatchSingle(re[m], h[m + 1], text)
    BY <1>9, <1>13, HereValue
  <2>2. re[m].type # "END"
    BY <1>5, <1>13
  <2> QED
    BY <1>13, <2>1, <2>2
<1>15. CASE it.rep = "1"
  <2>1. r = << >>
    BY <1>15 DEF r, RepNodes
  <2>2. SuffixAt(re, m + 1, w)
    <3>1. << >> \o w = w
      BY <1>2
    <3> QED
      BY <1>13, <2>1, <3>1
  <2>3. h[m + 1] = rest
    BY <1>8, <2>2
  <2>4. m < Len(re) => re[m + 1].type \in {"DOT", "CHAR", "LIST", "END"}
    <3> SUFFICES ASSUME m < Len(re) PROVE re[m + 1].type \in {"DOT", "CHAR", "LIST", "END"}
      OBVIOUS
    <3>1. Len(re) = m + 1 + Len(w) - 1 /\ \A j \in 1 .. Len(w) : re[m + 1 + j - 1] = w[j]
      BY <2>2 DEF SuffixAt
    <3>2. Len(w) \in Nat
      BY <1>2
    <3>3. 1 \in 1 .. Len(w) /\ m + 1 + 1 - 1 = m + 1
      BY <1>13, <3>1, <3>2
    <3>4. re[m + 1] = w[1]
      BY <3>1, <3>3
    <3>5. w # << >>
      BY <1>2, <3>3
    <3> QED
      BY <1>7, <3>4, <3>5 DEF NoRep
  <2>5. ~Follows(re, m, "STAR") /\ ~Follows(re, m, "PLUS") /\ ~Follows(re, m, "QUES")
    BY <2>4 DEF Follows
  <2>6. h[m] = MatchSingle(a, rest, text)
    BY <1>14, <2>3, <2>5
  <2> QED
    BY <1>3, <1>4, <1>15, <2>6
<1>16. CASE it.rep \in {"*", "+", "?"}
  <2> DEFINE x == PlainNode(Operator(it.rep), junk)
  <2>1. r = <<x>>
    BY <1>16 DEF r, RepNodes
  <2>2. x.type = Operator(it.rep)
    BY DEF PlainNode
  <2> HIDE DEF x
  <2>3. Len(r) = 1 /\ r[1] = x
    BY <2>1
  <2>4. /\ m + 1 \in 1 .. Len(re) + 1 /\ m + 1 + Len(r) <= Len(re) + 1
        /\ \A j \in 1 .. Len(r) : re[m + 1 + j - 1] = r[j]
        /\ SuffixAt(re, m + 1 + Len(r), w)
    BY <1>2, <1>9, <1>13, SuffixStep
  <2>5. m + 1 + 1 - 1 = m + 1 /\ m + 1 + 1 = m + 2 /\ m < Len(re)
    BY <1>13, <2>3, <2>4
  <2>6. re[m + 1] = x /\ SuffixAt(re, m + 2, w)
    BY <2>3, <2>4, <2>5
  <2>7. h[m + 2] = rest
    BY <1>8, <2>6
  <2>8. \A type : Follows(re, m, type) <=> Operator(it.rep) = type
    BY <2>2, <2>5, <2>6 DEF Follows
  <2>9. CASE it.rep = "*"
    <3>1. Operator(it.rep) = "STAR"
      BY <2>9 DEF Operator
    <3>2. Follows(re, m, "STAR")
      BY <2>8, <3>1
    <3>3. h[m] = MatchStar(a, rest, text)
      BY <1>14, <2>7, <3>2
    <3> QED
      BY <1>3, <1>4, <2>9, <3>3
  <2>10. CASE it.rep = "+"
    <3>1. Operator(it.rep) = "PLUS"
      BY <2>10 DEF Operator
    <3>2. Follows(re, m, "PLUS") /\ ~Follows(re, m, "STAR")
      BY <2>8, <3>1
    <3>3. h[m] = MatchPlus(a, rest, text)
      BY <1>14, <2>7, <3>2
    <3> QED
      BY <1>3, <1>4, <2>10, <3>3
  <2>11. CASE it.rep = "?"
    <3>1. Operator(it.rep) = "QUES"
      BY <2>11 DEF Operator
    <3>2. Follows(re, m, "QUES") /\ ~Follows(re, m, "STAR") /\ ~Follows(re, m, "PLUS")
      BY <2>8, <3>1
    <3>3. h[m] = MatchQues(a, rest, text)
      BY <1>14, <2>7, <3>2
    <3> QED
      BY <1>3, <1>4, <2>11, <3>3
  <2> QED
    BY <1>16, <2>9, <2>10, <2>11
<1> QED
  BY <1>1, <1>15, <1>16


\* After the last item.
LEMMA HereEnd ==
  ASSUME NEW e, IsExpression(e), NEW junk, NEW text, IsText(text),
         NEW re \in Seq(Nodes(junk)), NEW h, IsHere(h, re, text)
  PROVE  HereFrom(h, re, e, Len(e.items) + 1, text, junk)
<1> DEFINE N == Nodes(junk)
<1>1. /\ NodesFrom(e, Len(e.items) + 1, junk) = EndNodes(e)
      /\ Reach(e, text, Len(e.items) + 1) = IF e.end THEN {Len(text) + 1} ELSE Positions(text)
  BY NodesEnds, ReachEnd
<1> SUFFICES ASSUME NEW m, SuffixAt(re, m, EndNodes(e))
             PROVE  h[m] = IF e.end THEN {Len(text) + 1} ELSE Positions(text)
  BY <1>1 DEF HereFrom
<1>2. re \in Seq(N) /\ IsHere(h, re, text)
  OBVIOUS
<1> HIDE DEF N
<1>3. Len(re) \in Nat
  BY <1>2
<1>4. CASE e.end
  <2> DEFINE x == Anchor("$")
             z == <<x>>
  <2>1. SuffixAt(re, m, z)
    BY <1>4 DEF EndNodes
  <2>2. x.type = "END"
    BY DEF Anchor, CharNode
  <2> HIDE DEF x
  <2>3. Len(z) = 1 /\ z[1] = x
    OBVIOUS
  <2> HIDE DEF z
  <2>4. m \in 1 .. Len(re) + 1 /\ Len(re) = m + 1 - 1 /\ re[m + 1 - 1] = x
    BY <2>1, <2>3 DEF SuffixAt
  <2>5. m = Len(re) /\ m \in 1 .. Len(re) /\ re[m] = x
    BY <1>3, <2>4
  <2>6. h[m] = IF re[m].type = "END" /\ m = Len(re) THEN {Len(text) + 1}
               ELSE IF Follows(re, m, "STAR") THEN MatchStar(re[m], h[m + 2], text)
               ELSE IF Follows(re, m, "PLUS") THEN MatchPlus(re[m], h[m + 2], text)
               ELSE IF Follows(re, m, "QUES") THEN MatchQues(re[m], h[m + 2], text)
               ELSE MatchSingle(re[m], h[m + 1], text)
    BY <1>2, <2>5, HereValue
  <2>7. re[m].type = "END"
    BY <2>2, <2>5
  <2> QED
    BY <1>4, <2>5, <2>6, <2>7
<1>5. CASE ~e.end
  <2>1. SuffixAt(re, m, << >>)
    BY <1>5 DEF EndNodes
  <2>2. m = Len(re) + 1
    BY <1>3, <2>1 DEF SuffixAt
  <2>3. h[Len(re) + 1] = Positions(text)
    BY <1>2, HereValue
  <2> QED
    BY <1>5, <2>2, <2>3
<1> QED
  BY <1>4, <1>5

\* The junk in memory has no part in the nodes of the expression.
ExactAll(e, junk) == junk = [ch |-> NoChar, ccl |-> NoChar] \/ NoList(e)

\* So it is from every item on.
LEMMA HereItems ==
  ASSUME NEW e, IsExpression(e), NEW junk, ExactAll(e, junk), NEW text, IsText(text),
         NEW re \in Seq(Nodes(junk)), NEW h, IsHere(h, re, text)
  PROVE  HereFrom(h, re, e, 1, text, junk)
<1> DEFINE P(k) == HereFrom(h, re, e, k, text, junk)
           n == Len(e.items) + 1
           T == {k \in 1 .. n : ~P(k)}
<1>1. n \in Nat /\ 1 \in 1 .. n /\ n = Len(e.items) + 1 /\ Len(e.items) \in Nat
  BY ItemType
<1>2. P(n)
  BY HereEnd
<1>3. ASSUME NEW k \in 1 .. Len(e.items), P(k + 1) PROVE P(k)
  <2>1. Exact(e.items[k].atom, junk)
    <3>1. k \in DOMAIN e.items
      BY ItemType
    <3> QED
      BY <3>1 DEF ExactAll, NoList, Exact
  <2> QED
    BY <1>3, <2>1, HereItem
<1> HIDE DEF P, n
<1>4. SUFFICES ASSUME T # {} PROVE FALSE
  BY <1>1 DEF P
<1>5. T \in SUBSET (0 .. n)
  BY <1>1
<1>6. PICK k \in T : \A j \in T : j <= k
  BY <1>1, <1>4, <1>5, NatMax
<1>7. k \in 1 .. n /\ ~P(k)
  OBVIOUS
<1>8. k # n
  BY <1>2, <1>7
<1>9. k \in 1 .. Len(e.items) /\ k + 1 \in 1 .. n
  BY <1>1, <1>7, <1>8
<1>10. k + 1 \notin T
  BY <1>6, <1>9
<1>11. P(k + 1)
  BY <1>9, <1>10
<1> QED
  BY <1>3, <1>7, <1>9, <1>11

\* regexp_match answers 1 for a written expression exactly if the text has a
\* part that the items of the expression cover in order, at its begin after
\* ^ and up to its end before $: backtracking with the shortest repetition
\* first finds a match if there is one, and no other.  (compile, matchhere,
\* matchstar, matchplus, matchques, regexp_match)
THEOREM MatchExact ==
  ASSUME NEW e, IsExpression(e), NEW junk, ExactAll(e, junk), NEW text, IsText(text)
  PROVE  RegexpMatch(Written(e), text, junk) <=> Fits(e, text)
<1> DEFINE re == Compile(Written(e), junk)
           h == MatchHere(re, text)
           w == NodesFrom(e, 1, junk)
           N == Nodes(junk)
           S == Reach(e, text, 1)
<1>1. re = (IF e.begin THEN <<Anchor("^")>> ELSE << >>) \o w
  BY CompileExact
<1>2. w \in Seq(N)
  BY NodesEnds
<1>3. Anchor("^") \in N /\ Anchor("^").type = "BEGIN"
  <2>1. Anchor("^") \in N
    BY DEF Nodes
  <2>2. Anchor("^").type = "BEGIN"
    BY DEF Anchor, CharNode
  <2> QED
    BY <2>1, <2>2
<1>4. RegexpMatch(Written(e), text, junk) <=>
        IF re[1].type = "BEGIN" THEN 1 \in h[2] ELSE h[1] # {}
  BY DEF RegexpMatch
<1>5. Fits(e, text) <=> \E t \in S : e.begin => t = 1
  BY ReachFits
<1> HIDE DEF re
<1> DEFINE x == Anchor("^")
           b == <<x>>
<1> HIDE DEF x, N, w
<1>6. b \in Seq(N) /\ Len(b) = 1 /\ b[1] = x /\ x.type = "BEGIN"
  BY <1>3 DEF x
<1>7. re = IF e.begin THEN b \o w ELSE w
  <2>1. << >> \o w = w
    BY <1>2
  <2> QED
    BY <1>1, <2>1 DEF x
<1> HIDE DEF b
<1>8. re \in Seq(N)
  BY <1>2, <1>6, <1>7
<1>9. IsHere(h, re, text)
  BY <1>8, MatchHereIs DEF IsText
<1> HIDE DEF h
<1>10. \A m : SuffixAt(re, m, w) => h[m] = S
  <2>1. HereFrom(h, re, e, 1, text, junk)
    BY <1>8, <1>9, HereItems DEF N
  <2> QED
    BY <2>1 DEF HereFrom, w
<1>11. SuffixAt(re, 1, re)
  BY <1>8, SuffixAll
<1> HIDE DEF S
<1>12. CASE e.begin
  <2>1. SuffixAt(re, 1, b \o w)
    BY <1>7, <1>11, <1>12
  <2>2. /\ \A j \in 1 .. Len(b) : re[1 + j - 1] = b[j]
        /\ SuffixAt(re, 1 + Len(b), w)
    <3> DEFINE i == 1
    <3>1. SuffixAt(re, i, b \o w)
      BY <2>1
    <3> HIDE DEF i
    <3>2. b \in Seq(N)
      BY <1>6
    <3>3. /\ i \in 1 .. Len(re) + 1 /\ i + Len(b) <= Len(re) + 1
          /\ \A j \in 1 .. Len(b) : re[i + j - 1] = b[j]
          /\ SuffixAt(re, i + Len(b), w)
      BY <1>2, <1>8, <3>1, <3>2, SuffixStep
    <3> QED
      BY <3>3 DEF i
  <2>3. re[1 + 1 - 1] = x /\ SuffixAt(re, 1 + 1, w)
    BY <1>6, <2>2
  <2>4. re[1] = x /\ h[2] = S
    BY <1>10, <2>3
  <2>5. RegexpMatch(Written(e), text, junk) <=> 1 \in S
    BY <1>4, <1>6, <2>4
  <2> QED
    BY <1>5, <1>12, <2>5
<1>13. CASE ~e.begin
  <2>1. SuffixAt(re, 1, w) /\ re = w
    BY <1>7, <1>11, <1>13
  <2>2. h[1] = S
    BY <1>10, <2>1
  <2>3. NoRep(w) /\ w # << >>
    <3>1. 1 \in 1 .. Len(e.items) + 1 /\ 1 \in 1 .. Len(e.items)
      BY ItemType
    <3>2. NoRep(w)
      BY <3>1, FirstNode DEF w
    <3> DEFINE a == AtomNode(e.items[1].atom, junk)
               v == RepNodes(e.items[1], junk) \o NodesFrom(e, 1 + 1, junk)
    <3>3. w = <<a>> \o v /\ v \in Seq(N) /\ a \in N
      BY <3>1, NodesStep DEF w, N
    <3> HIDE DEF a, v
    <3>4. <<a>> \o v # << >>
      BY <3>3
    <3> QED
      BY <3>2, <3>3, <3>4
  <2>4. re[1].type # "BEGIN"
    BY <2>1, <2>3 DEF NoRep
  <2>5. RegexpMatch(Written(e), text, junk) <=> S # {}
    BY <1>4, <2>2, <2>4
  <2> QED
    BY <1>5, <1>13, <2>5
<1> QED
  BY <1>12, <1>13

==============================================================================
