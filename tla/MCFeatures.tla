----------------------------- MODULE MCFeatures ------------------------------
(* Files, packets and expressions for TLC.                                 *)
EXTENDS OafFeatures

CONSTANTS Letters, Atoms, MaxItems, MaxText

SomeChars == Special \cup Digits \cup Letters \cup {"a", "b", "d", "D"}

Item == [atom : Atoms, rep : {"1", "*", "+", "?"}]
Expressions ==
  {[begin |-> b, items |-> s, end |-> e] :
     b \in BOOLEAN, e \in BOOLEAN, s \in SeqOf(Item, MaxItems) \ {<< >>}}

Blank == [app |-> 0, proto |-> "tcp", sport |-> 0, ports |-> << >>, host |-> {},
        request |-> {}, dict |-> << >>, search |-> << >>]

\* Expressions with \D, and of three items
Longer == {[begin |-> b, items |-> <<[atom |-> "nondigit", rep |-> r], [atom |-> x, rep |-> "?"],
                                     [atom |-> "a", rep |-> "1"]>>, end |-> TRUE] :
             b \in BOOLEAN, r \in {"*", "+"}, x \in {"a", "any"}}

\* One feature with one pattern, for every pattern
PatternFiles == {<< <<[Blank EXCEPT !.app = 1, !.host = {e}]>> >> : e \in Expressions \cup Longer}

Port(s, e) == [bad |-> FALSE, not |-> FALSE, start |-> s, end |-> e]
Except(s, e) == [bad |-> FALSE, not |-> TRUE, start |-> s, end |-> e]
Byte(p, v) == [bad |-> FALSE, pos |-> p, value |-> v]

AB == [begin |-> TRUE, end |-> FALSE,
       items |-> <<[atom |-> "a", rep |-> "*"], [atom |-> "b", rep |-> "1"]>>]

\* Features of every other kind, in files of several lines
Ports == <<[Blank EXCEPT !.app = 1, !.ports = <<Port(1, 2), Unreadable>>],
           [Blank EXCEPT !.app = 1, !.ports = <<Port(1, 1), Except(3, 3)>>, !.sport = 1]>>
Payload == <<[Blank EXCEPT !.app = 2, !.dict = <<Byte(0, 1), Byte(-1, 2)>>],
             [Blank EXCEPT !.app = 2, !.dict = <<Byte(-2, 1)>>, !.search = <<2, 1>>],
             [Blank EXCEPT !.app = 2, !.proto = "icmp"]>>
Requests == <<[Blank EXCEPT !.app = 3, !.request = {AB}, !.proto = "tcp"],
              [Blank EXCEPT !.app = 3, !.proto = "udp", !.dict = <<Unreadable, Byte(1, 1)>>]>>
Comment == << >>

MixedFiles == {<<Comment, Ports, Payload>>, <<Payload, Requests>>, <<Requests, Comment, Ports>>}

BootFiles == PatternFiles \cup MixedFiles \cup {NoFile}
NewFiles == {<<Comment, Ports, Payload>>, <<Payload, Requests>>}

Texts == SeqOf(Letters, MaxText)
Packet(k, h, u, d, s, p) == [proto |-> "tcp", sport |-> s, dport |-> p, data |-> d,
                             kind |-> k, host |-> h, url |-> u]
UrlPackets == {Packet("https", t, << >>, <<1>>, 1, 4) : t \in Texts}
HttpPackets == {Packet("http", h, u, <<1>>, 1, 3) :
                  h \in {<<"a">>, << >>}, u \in {<<"b">>, <<"b", "a">>, <<"a", "a", "b">>}}
PayloadPackets ==
  {Packet("other", << >>, << >>, d, sp[1], sp[2]) :
     d \in SeqOf({1, 2}, 3), sp \in {<<1, 1>>, <<2, 2>>, <<1, 3>>, <<2, 3>>}}
  \cup {[Packet("other", << >>, << >>, d, 1, 1) EXCEPT !.proto = "udp"] : d \in SeqOf({1, 2}, 3)}
SomePackets == UrlPackets \cup HttpPackets \cup PayloadPackets

SomeJunk == {[ch |-> c, ccl |-> NoChar] : c \in {NoChar, "a"}}
==============================================================================
