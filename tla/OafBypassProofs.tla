-------------------------- MODULE OafBypassProofs ----------------------------
(***************************************************************************)
(* Theorems about OafBypass, for every set of connections, processors and  *)
(* applications, every hash function, and all limits that are related as   *)
(* those of the code are.                                                  *)
(***************************************************************************)
EXTENDS OafBypass, TLAPS

-----------------------------------------------------------------------------
(* The inductive invariants.                                               *)

\* A processor on its way through the handler points to an entry of the
\* table that has been idle no longer than the packet has been under way.
HookHoldsEntry(c) ==
  IF hook[c].pc = "idle"
  THEN hook[c].conn = NoConn
  ELSE /\ hook[c].conn \in Conn
       /\ table[hook[c].conn].present
       /\ table[hook[c].conn].idle <= hook[c].age

HooksSafe ==
  /\ BypassTypeOK
  /\ \A c \in Cpu : HookHoldsEntry(c)
  /\ dangling = {}

\* The decision about application a under the present rules.
Wanted(a) == switch["enable"] /\ MatchRule(a)

Storing(c, k) == hook[c].conn = k /\ hook[c].pc \in {"store_app", "store_drop"}

\* What a processor is about to store for connection k: all of them store
\* QUIC, or none does, and the decision is the same for all.
StoresWanted(c, k) ==
  IF IsQuic(k)
  THEN hook[c].app = Quic
  ELSE /\ hook[c].app \in {Carries[k], NoApp}
       /\ hook[c].app = NoApp => switch["app_filter_mode"]
       /\ hook[c].drop = Wanted(hook[c].app)

\* What is in the table about it; where the decision is not the wanted one,
\* a processor is between the two stores.
HoldsWanted(k) ==
  IF IsQuic(k)
  THEN table[k].app \in {Quic, NoApp}
  ELSE /\ table[k].app \in {Carries[k], NoApp}
       /\ table[k].app \in App =>
            \/ table[k].drop = Wanted(table[k].app)
            \/ \E c \in Cpu : hook[c].conn = k /\ hook[c].pc = "store_drop"

DecisionsWanted ==
  \A k \in constant :
    /\ \A c \in Cpu : Storing(c, k) => StoresWanted(c, k)
    /\ table[k].present => HoldsWanted(k)

-----------------------------------------------------------------------------
(* Entries.                                                                *)

\* An entry that is present has all fields (struct af_conn).
LEMMA PresentEntry ==
  ASSUME NEW e \in Entry \cup {NoEntry}
  PROVE  e.present => e \in Entry
<1>1. ~NoEntry.present
  BY DEF NoEntry
<1> QED
  BY <1>1

\* The counters of an entry and their limits.
LEMMA Counters ==
  ASSUME NEW e \in Entry
  PROVE  /\ e.idle \in Nat /\ e.idle <= Timeout + 1
         /\ e.pkts \in Nat /\ e.pkts <= AcclPackets + 1
<1>1. Timeout \in Nat /\ AcclPackets \in Nat
  BY BypassAssumption
<1>2. e.idle \in 0 .. Timeout + 1 /\ e.pkts \in 0 .. AcclPackets + 1
  BY DEF Entry
<1> QED
  BY <1>1, <1>2

\* The other fields.
LEMMA Fields ==
  ASSUME NEW e \in Entry
  PROVE  e.present /\ e.app \in App \cup {NoApp, Quic} /\ e.drop \in BOOLEAN
<1>1. e.present \in {TRUE}
  BY DEF Entry
<1> QED
  BY <1>1, Zenon DEF Entry

\* A new entry (af_conn_add).
LEMMA NewConnType == NewConn \in Entry /\ NewConn.app = NoApp
<1>1. 0 \in 0 .. Timeout + 1 /\ 0 \in 0 .. AcclPackets + 1
  BY BypassAssumption
<1> QED
  BY <1>1 DEF NewConn, Entry

\* Fields are set one or two at a time.
LEMMA SetFields ==
  ASSUME NEW e \in Entry, NEW i \in 0 .. Timeout + 1
  PROVE  /\ [e EXCEPT !.idle = i] \in Entry
         /\ \A n \in 0 .. AcclPackets + 1 : [e EXCEPT !.idle = i, !.pkts = n] \in Entry
         /\ \A a \in App \cup {NoApp, Quic} : [e EXCEPT !.app = a] \in Entry
         /\ \A d \in BOOLEAN : [e EXCEPT !.drop = d] \in Entry
<1>1. [e EXCEPT !.idle = i] \in Entry
  BY DEF Entry
<1>2. \A n \in 0 .. AcclPackets + 1 : [e EXCEPT !.idle = i, !.pkts = n] \in Entry
  BY DEF Entry
<1>3. \A a \in App \cup {NoApp, Quic} : [e EXCEPT !.app = a] \in Entry
  BY DEF Entry
<1>4. \A d \in BOOLEAN : [e EXCEPT !.drop = d] \in Entry
  BY DEF Entry
<1> QED
  BY <1>1, <1>2, <1>3, <1>4

\* A packet makes the entry young again and leaves the decision.
LEMMA TouchedEntry ==
  ASSUME NEW e \in Entry
  PROVE  /\ Touched(e) \in Entry /\ Touched(e).idle = 0
         /\ Touched(e).app = e.app /\ Touched(e).drop = e.drop
<1> DEFINE n == IF e.pkts > AcclPackets THEN e.pkts ELSE e.pkts + 1
<1>1. n \in 0 .. AcclPackets + 1
  BY Counters, BypassAssumption
<1>2. 0 \in 0 .. Timeout + 1
  BY BypassAssumption
<1>3. Touched(e) = [e EXCEPT !.idle = 0, !.pkts = n]
  BY DEF Touched
<1> HIDE DEF n
<1>4. [e EXCEPT !.idle = 0, !.pkts = n] \in Entry
  BY <1>1, <1>2, SetFields
<1>5. Touched(e) \in Entry
  BY <1>3, <1>4, Zenon
<1>6. Touched(e).idle = 0 /\ Touched(e).app = e.app
  BY <1>3 DEF Entry
<1>7. Touched(e).drop = e.drop
  BY <1>3 DEF Entry
<1> QED
  BY <1>5, <1>6, <1>7

\* A second more.
AgedConn(e) == [e EXCEPT !.idle = IF @ > Timeout THEN @ ELSE @ + 1]

\* It makes the entry older by one second at most, and leaves the decision.
LEMMA AgedEntry ==
  ASSUME NEW e \in Entry
  PROVE  /\ AgedConn(e) \in Entry /\ AgedConn(e).idle <= e.idle + 1
         /\ AgedConn(e).app = e.app /\ AgedConn(e).drop = e.drop
<1> DEFINE i == IF e.idle > Timeout THEN e.idle ELSE e.idle + 1
<1>1. i \in 0 .. Timeout + 1 /\ i <= e.idle + 1
  BY Counters, BypassAssumption
<1>2. AgedConn(e) = [e EXCEPT !.idle = i]
  BY DEF AgedConn
<1> HIDE DEF i
<1>3. [e EXCEPT !.idle = i] \in Entry
  BY <1>1, SetFields
<1>4. AgedConn(e) \in Entry
  BY <1>2, <1>3, Zenon
<1>5. AgedConn(e).idle = i /\ AgedConn(e).app = e.app
  BY <1>2 DEF Entry
<1>6. AgedConn(e).drop = e.drop
  BY <1>2 DEF Entry
<1> QED
  BY <1>1, <1>4, <1>5, <1>6

\* The two stores of the handler change one field each.
LEMMA StoredApp ==
  ASSUME NEW e \in Entry, NEW a \in App \cup {NoApp, Quic}
  PROVE  /\ [e EXCEPT !.app = a] \in Entry
         /\ [e EXCEPT !.app = a].idle = e.idle
         /\ [e EXCEPT !.app = a].app = a
<1>1. 0 \in 0 .. Timeout + 1
  BY BypassAssumption
<1>2. [e EXCEPT !.app = a] \in Entry
  BY <1>1, SetFields
<1>3. [e EXCEPT !.app = a].idle = e.idle /\ [e EXCEPT !.app = a].app = a
  BY DEF Entry
<1> QED
  BY <1>2, <1>3

\* The second store.
LEMMA StoredDrop ==
  ASSUME NEW e \in Entry, NEW d \in BOOLEAN
  PROVE  /\ [e EXCEPT !.drop = d] \in Entry
         /\ [e EXCEPT !.drop = d].idle = e.idle
         /\ [e EXCEPT !.drop = d].app = e.app
         /\ [e EXCEPT !.drop = d].drop = d
<1>1. 0 \in 0 .. Timeout + 1
  BY BypassAssumption
<1>2. [e EXCEPT !.drop = d] \in Entry
  BY <1>1, SetFields
<1>3. [e EXCEPT !.drop = d].idle = e.idle /\ [e EXCEPT !.drop = d].app = e.app
  BY DEF Entry
<1>4. [e EXCEPT !.drop = d].drop = d
  BY DEF Entry
<1> QED
  BY <1>2, <1>3, <1>4

\* One entry of the table is written.
LEMMA SetConn ==
  ASSUME BypassTypeOK, NEW k \in Conn, NEW e \in Entry,
         table' = [table EXCEPT ![k] = e]
  PROVE  /\ table' \in [Conn -> Entry \cup {NoEntry}]
         /\ table'[k] = e
         /\ \A j \in Conn : j # k => table'[j] = table[j]
BY DEF BypassTypeOK

-----------------------------------------------------------------------------
(* Packets under way.                                                      *)

HookStates ==
  [pc : {"idle", "judge", "store_app", "store_drop", "done"},
   conn : Conn \cup {NoConn}, app : App \cup {NoApp, Quic},
   drop : BOOLEAN, ret : {"accept", "drop"}, age : 0 .. HookSeconds]

\* The steps of the handler change the record of their packet, ...
LEMMA HookEnters ==
  ASSUME NEW h \in HookStates, NEW k \in Conn
  PROVE  LET g == [h EXCEPT !.pc = "judge", !.conn = k]
         IN  g \in HookStates /\ g.pc = "judge" /\ g.conn = k /\ g.age = h.age
<1> DEFINE g == [h EXCEPT !.pc = "judge", !.conn = k]
<1>1. g \in HookStates
  BY DEF HookStates
<1>2. g.pc = "judge" /\ g.conn = k /\ g.age = h.age
  BY DEF HookStates
<1> QED
  BY <1>1, <1>2

\* ... with the answer, ...
LEMMA HookReturns ==
  ASSUME NEW h \in HookStates, NEW r \in {"accept", "drop"}
  PROVE  LET g == [h EXCEPT !.pc = "done", !.ret = r]
         IN  g \in HookStates /\ g.pc = "done" /\ g.conn = h.conn /\ g.age = h.age
<1> DEFINE g == [h EXCEPT !.pc = "done", !.ret = r]
<1>1. g \in HookStates
  BY DEF HookStates
<1>2. g.pc = "done" /\ g.conn = h.conn /\ g.age = h.age
  BY DEF HookStates
<1> QED
  BY <1>1, <1>2

\* ... and between the two stores.
LEMMA HookStored ==
  ASSUME NEW h \in HookStates
  PROVE  LET g == [h EXCEPT !.pc = "store_drop"]
         IN  /\ g \in HookStates /\ g.pc = "store_drop" /\ g.conn = h.conn
             /\ g.age = h.age /\ g.app = h.app /\ g.drop = h.drop
<1> DEFINE g == [h EXCEPT !.pc = "store_drop"]
<1>1. g \in HookStates
  BY DEF HookStates
<1>2. g.pc = "store_drop" /\ g.conn = h.conn /\ g.age = h.age /\ g.app = h.app
  BY DEF HookStates
<1>3. g.drop = h.drop
  BY DEF HookStates
<1> QED
  BY <1>1, <1>2, <1>3

\* ... and a second later.
LEMMA HookAges ==
  ASSUME NEW h \in HookStates, h.age < HookSeconds
  PROVE  LET g == [h EXCEPT !.age = @ + 1]
         IN  /\ g \in HookStates /\ g.pc = h.pc /\ g.conn = h.conn
             /\ g.age = h.age + 1 /\ g.app = h.app /\ g.drop = h.drop
<1> DEFINE n == h.age + 1
           g == [h EXCEPT !.age = n]
<1>1. n \in 0 .. HookSeconds
  <2>1. h.age \in 0 .. HookSeconds
    BY DEF HookStates
  <2> QED
    BY <2>1, BypassAssumption
<1> HIDE DEF n
<1>2. g \in HookStates
  BY <1>1 DEF HookStates
<1>3. g.pc = h.pc /\ g.conn = h.conn /\ g.age = n /\ g.app = h.app
  BY DEF HookStates
<1>4. g.drop = h.drop
  BY DEF HookStates
<1> QED
  BY <1>2, <1>3, <1>4 DEF n

\* The types of the record of a packet.
LEMMA HookFields ==
  ASSUME NEW h \in HookStates
  PROVE  /\ h.age \in Nat /\ h.age <= HookSeconds
         /\ h.app \in App \cup {NoApp, Quic} /\ h.drop \in BOOLEAN
<1>1. h.age \in Nat /\ h.age <= HookSeconds
  <2>1. h.age \in 0 .. HookSeconds
    BY DEF HookStates
  <2> QED
    BY <2>1, BypassAssumption
<1>2. h.app \in App \cup {NoApp, Quic} /\ h.drop \in BOOLEAN
  BY Zenon DEF HookStates
<1> QED
  BY <1>1, <1>2

\* No packet: the record at the beginning and after the handler.
LEMMA NoPacketType == NoPacket \in HookStates /\ NoPacket.pc = "idle" /\ NoPacket.conn = NoConn
<1>1. 0 \in 0 .. HookSeconds
  BY BypassAssumption
<1> QED
  BY <1>1 DEF NoPacket, HookStates

-----------------------------------------------------------------------------
(* What the actions of the handler do.                                     *)

\* af_conn_find_and_add: the entry of the connection, the old one or a new.
LEMMA EnterWrites ==
  ASSUME HooksSafe, NEW c \in Cpu, NEW k \in Conn, Enter(c, k)
  PROVE  /\ \E e \in Entry :
              /\ table' = [table EXCEPT ![k] = e] /\ e.idle = 0
              /\ table[k].present => e.app = table[k].app /\ e.drop = table[k].drop
              /\ ~table[k].present => e.app = NoApp
         /\ \E h \in HookStates :
              /\ hook' = [hook EXCEPT ![c] = h]
              /\ h.pc = "judge" /\ h.conn = k /\ h.age = hook[c].age
<1>1. table[k] \in Entry \cup {NoEntry} /\ hook \in [Cpu -> HookStates]
  BY DEF HooksSafe, BypassTypeOK, HookStates
<1> DEFINE o == IF table[k].present THEN table[k] ELSE NewConn
           e == Touched(o)
           h == [hook[c] EXCEPT !.pc = "judge", !.conn = k]
<1>2. o \in Entry
  BY <1>1, PresentEntry, NewConnType
<1>3. table' = [table EXCEPT ![k] = e]
  BY DEF Enter
<1>4. /\ table[k].present => o = table[k]
      /\ ~table[k].present => o.app = NoApp
  BY NewConnType
<1> HIDE DEF o
<1>5. e \in Entry /\ e.idle = 0 /\ e.app = o.app /\ e.drop = o.drop
  BY <1>2, TouchedEntry
<1>6. hook' = [hook EXCEPT ![c] = h]
  BY <1>1 DEF Enter
<1>7. h \in HookStates /\ h.pc = "judge" /\ h.conn = k /\ h.age = hook[c].age
  BY <1>1, HookEnters
<1> HIDE DEF e, h
<1> QED
  BY <1>3, <1>4, <1>5, <1>6, <1>7

\* The judgement changes nothing but the record of the packet; what it
\* decides for the table is the same for all packets of a connection, while
\* rules and switches are.
LEMMA JudgeDecides ==
  ASSUME HooksSafe, NEW c \in Cpu, Judge(c)
  PROVE  \E h \in HookStates :
           LET k == hook[c].conn
           IN  /\ hook' = [hook EXCEPT ![c] = h]
               /\ h.conn = k /\ h.age = hook[c].age
               /\ h.pc \in {"done", "store_app"}
               /\ h.pc = "store_app" =>
                    IF IsQuic(k) THEN h.app = Quic
                    ELSE /\ h.app \in {Carries[k], NoApp}
                         /\ h.app = NoApp => switch["app_filter_mode"]
                         /\ h.drop = Wanted(h.app)
<1> DEFINE k == hook[c].conn
<1>1. hook \in [Cpu -> HookStates] /\ k \in Conn
  BY DEF HooksSafe, BypassTypeOK, HookStates, HookHoldsEntry, Judge
<1>2. ASSUME NEW r \in {"accept", "drop"}, Returns(c, r)
      PROVE  \E h \in HookStates : /\ hook' = [hook EXCEPT ![c] = h] /\ h.pc = "done"
                                   /\ h.conn = k /\ h.age = hook[c].age
  <2> DEFINE h == [hook[c] EXCEPT !.pc = "done", !.ret = r]
  <2>1. hook' = [hook EXCEPT ![c] = h]
    BY <1>1, <1>2 DEF Returns
  <2>2. h \in HookStates /\ h.pc = "done" /\ h.conn = k /\ h.age = hook[c].age
    BY <1>1, HookReturns, ZenonT(60)
  <2> HIDE DEF h
  <2> QED
    BY <2>1, <2>2
<1>3. ASSUME NEW a \in App \cup {NoApp, Quic}, NEW d \in BOOLEAN,
             hook' = [hook EXCEPT ![c].pc = "store_app", ![c].app = a, ![c].drop = d]
      PROVE  \E h \in HookStates : /\ hook' = [hook EXCEPT ![c] = h]
                                   /\ h.pc = "store_app" /\ h.conn = k
                                   /\ h.age = hook[c].age /\ h.app = a /\ h.drop = d
  <2> DEFINE h == [hook[c] EXCEPT !.pc = "store_app", !.app = a, !.drop = d]
  <2>1. hook' = [hook EXCEPT ![c] = h]
    BY <1>1, <1>3
  <2>2. /\ h \in HookStates /\ h.pc = "store_app" /\ h.conn = k
        /\ h.age = hook[c].age /\ h.app = a /\ h.drop = d
    <3>1. hook[c] \in HookStates
      BY <1>1
    <3>2. h \in HookStates
      BY <3>1 DEF HookStates
    <3>3. h.pc = "store_app" /\ h.conn = k /\ h.age = hook[c].age /\ h.app = a
      BY <3>1 DEF HookStates
    <3>4. h.drop = d
      BY <3>1 DEF HookStates
    <3> QED
      BY <3>2, <3>3, <3>4
  <2> HIDE DEF h
  <2> QED
    BY <2>1, <2>2
<1> HIDE DEF k
<1>4. \/ \E r \in {"accept", "drop"} : Returns(c, r)
      \/ /\ IsQuic(k)
         /\ hook' = [hook EXCEPT ![c].pc = "store_app", ![c].app = Quic, ![c].drop = TRUE]
      \/ /\ ~IsQuic(k)
         /\ \E id \in {Carries[k], NoApp} :
              (id = NoApp => switch["app_filter_mode"]) /\ Decide(c, id)
  <2>1. CASE JudgeByEntry(c, table[k])
    BY <2>1 DEF JudgeByEntry
  <2>2. CASE Recognise(c, k, table[k])
    BY <2>2 DEF Recognise
  <2> QED
    BY <2>1, <2>2 DEF Judge, k
<1>5. CASE \E r \in {"accept", "drop"} : Returns(c, r)
  BY <1>2, <1>5 DEF k
<1>6. CASE /\ IsQuic(k)
           /\ hook' = [hook EXCEPT ![c].pc = "store_app", ![c].app = Quic, ![c].drop = TRUE]
  BY <1>3, <1>6, ZenonT(60) DEF k
<1>7. CASE /\ ~IsQuic(k)
           /\ \E id \in {Carries[k], NoApp} :
                (id = NoApp => switch["app_filter_mode"]) /\ Decide(c, id)
  <2>1. PICK id \in {Carries[k], NoApp} :
                (id = NoApp => switch["app_filter_mode"]) /\ Decide(c, id)
    BY <1>7
  <2>2. id \in App \cup {NoApp, Quic}
    BY <1>1, BypassAssumption DEF k
  <2>3. Wanted(id) \in BOOLEAN
    BY DEF Wanted
  <2>4. hook' = [hook EXCEPT ![c].pc = "store_app", ![c].app = id,
                             ![c].drop = Wanted(id)]
    BY <2>1 DEF Decide, Wanted
  <2>5. PICK h \in HookStates : /\ hook' = [hook EXCEPT ![c] = h]
                                /\ h.pc = "store_app" /\ h.conn = k
                                /\ h.age = hook[c].age /\ h.app = id
                                /\ h.drop = Wanted(id)
    BY <1>3, <2>2, <2>3, <2>4
  <2> QED
    BY <1>7, <2>1, <2>5 DEF k
<1> QED
  BY <1>4, <1>5, <1>6, <1>7

\* conn->app_id = flow.app_id
LEMMA StoreAppWrites ==
  ASSUME HooksSafe, NEW c \in Cpu, StoreApp(c)
  PROVE  LET k == hook[c].conn
         IN  /\ \E e \in Entry : /\ table' = [table EXCEPT ![k] = e]
                                 /\ e.idle = table[k].idle /\ e.app = hook[c].app
             /\ \E h \in HookStates :
                  /\ hook' = [hook EXCEPT ![c] = h]
                  /\ h.pc = "store_drop" /\ h.conn = k /\ h.age = hook[c].age
                  /\ h.app = hook[c].app /\ h.drop = hook[c].drop
<1> DEFINE k == hook[c].conn
           e == [table[k] EXCEPT !.app = hook[c].app]
           h == [hook[c] EXCEPT !.pc = "store_drop"]
<1>1. hook \in [Cpu -> HookStates] /\ table \in [Conn -> Entry \cup {NoEntry}]
  BY DEF HooksSafe, BypassTypeOK, HookStates
<1>2. k \in Conn /\ table[k].present
  BY DEF HooksSafe, HookHoldsEntry, StoreApp
<1>3. table[k] \in Entry
  BY <1>1, <1>2, PresentEntry
<1>4. hook[c].app \in App \cup {NoApp, Quic}
  BY <1>1, HookFields
<1>5. e \in Entry /\ e.idle = table[k].idle /\ e.app = hook[c].app
  BY <1>3, <1>4, StoredApp
<1>6. table' = [table EXCEPT ![k] = e]
  BY DEF StoreApp
<1>7. hook' = [hook EXCEPT ![c] = h]
  BY <1>1 DEF StoreApp
<1>8. /\ h \in HookStates /\ h.pc = "store_drop" /\ h.conn = k /\ h.age = hook[c].age
      /\ h.app = hook[c].app /\ h.drop = hook[c].drop
  BY <1>1, HookStored
<1> HIDE DEF e, h
<1> QED
  BY <1>5, <1>6, <1>7, <1>8

\* conn->drop = flow.drop
LEMMA StoreDropWrites ==
  ASSUME HooksSafe, NEW c \in Cpu, StoreDrop(c)
  PROVE  LET k == hook[c].conn
         IN  /\ \E e \in Entry : /\ table' = [table EXCEPT ![k] = e]
                                 /\ e.idle = table[k].idle /\ e.app = table[k].app
                                 /\ e.drop = hook[c].drop
             /\ \E h \in HookStates :
                  /\ hook' = [hook EXCEPT ![c] = h]
                  /\ h.pc = "done" /\ h.conn = k /\ h.age = hook[c].age
<1> DEFINE k == hook[c].conn
           r == IF hook[c].drop /\ (switch["enable"] \/ hook[c].app = Quic)
                THEN "drop" ELSE "accept"
           e == [table[k] EXCEPT !.drop = hook[c].drop]
           h == [hook[c] EXCEPT !.pc = "done", !.ret = r]
<1>1. hook \in [Cpu -> HookStates] /\ table \in [Conn -> Entry \cup {NoEntry}]
  BY DEF HooksSafe, BypassTypeOK, HookStates
<1>2. k \in Conn /\ table[k].present
  BY DEF HooksSafe, HookHoldsEntry, StoreDrop
<1>3. table[k] \in Entry
  BY <1>1, <1>2, PresentEntry
<1>4. hook[c].drop \in BOOLEAN
  BY <1>1, HookFields
<1>5. e \in Entry /\ e.idle = table[k].idle /\ e.app = table[k].app /\ e.drop = hook[c].drop
  BY <1>3, <1>4, StoredDrop
<1>6. table' = [table EXCEPT ![k] = e]
  BY DEF StoreDrop
<1>7. r \in {"accept", "drop"}
  OBVIOUS
<1>8. hook' = [hook EXCEPT ![c] = h]
  BY <1>1 DEF StoreDrop, Returns
<1> HIDE DEF r
<1>9. h \in HookStates /\ h.pc = "done" /\ h.conn = k /\ h.age = hook[c].age
  <2>1. hook[c] \in HookStates
    BY <1>1
  <2> QED
    BY <1>7, <2>1, HookReturns, Zenon
<1> HIDE DEF e, h
<1> QED
  BY <1>5, <1>6, <1>8, <1>9

-----------------------------------------------------------------------------
(* Types, and no use after free.                                           *)

\* The entries that af_conn_clean_timeout frees are held by nobody.
LEMMA HeldNotTimedOut ==
  ASSUME HooksSafe, NEW c \in Cpu
  PROVE  hook[c].conn \notin TimedOut
<1>1. hook \in [Cpu -> HookStates] /\ table \in [Conn -> Entry \cup {NoEntry}]
  BY DEF HooksSafe, BypassTypeOK, HookStates
<1>2. CASE hook[c].pc = "idle"
  BY <1>2, BypassAssumption DEF HooksSafe, HookHoldsEntry, TimedOut
<1>3. CASE hook[c].pc # "idle"
  <2> DEFINE k == hook[c].conn
  <2>1. k \in Conn /\ table[k].present /\ table[k].idle <= hook[c].age
    BY <1>3 DEF HooksSafe, HookHoldsEntry
  <2>2. hook[c].age \in Nat /\ hook[c].age <= HookSeconds
    BY <1>1, HookFields
  <2>3. table[k].idle \in Nat
    BY <1>1, <2>1, PresentEntry, Counters
  <2>4. ~(table[k].idle > Timeout)
    BY <2>1, <2>2, <2>3, BypassAssumption
  <2> QED
    BY <2>4 DEF TimedOut
<1> QED
  BY <1>2, <1>3

\* The walk over the buckets stays in the table (af_conn_clean_timeout).
LEMMA BucketType ==
  ASSUME last_bucket \in 0 .. Buckets - 1
  PROVE  NextBucket \in 0 .. Buckets - 1
<1>1. Buckets \in Nat \ {0} /\ CheckCount \in Nat \ {0}
  BY BypassAssumption
<1> QED
  BY <1>1 DEF NextBucket, LastSeen

\* The invariant is inductive.
LEMMA HooksSafeStep == HooksSafe /\ [Next]_bypassVars => HooksSafe'
<1> SUFFICES ASSUME HooksSafe, [Next]_bypassVars
             PROVE  HooksSafe'
  OBVIOUS
<1> DEFINE Entries == [Conn -> Entry \cup {NoEntry}]
           Others == /\ locked \in BOOLEAN /\ last_bucket \in 0 .. Buckets - 1
                     /\ rules \in RuleSets /\ switch \in [SwitchNames -> BOOLEAN]
                     /\ recent \in 0 .. Window /\ due \in BOOLEAN
                     /\ constant \subseteq Conn /\ dangling = {}
<1>1. /\ BypassTypeOK /\ table \in Entries /\ hook \in [Cpu -> HookStates] /\ Others
      /\ \A c \in Cpu : HookHoldsEntry(c)
  BY DEF HooksSafe, BypassTypeOK, HookStates
<1>2. ASSUME table' \in Entries, hook' \in [Cpu -> HookStates], Others',
             \A c \in Cpu : HookHoldsEntry(c)'
      PROVE  HooksSafe'
  BY <1>2 DEF HooksSafe, BypassTypeOK, HookStates
\* The packet of processor c stays with its entry, and this gets no older.
<1>3. ASSUME NEW c \in Cpu, hook'[c].conn = hook[c].conn, hook'[c].age = hook[c].age,
             hook'[c].pc = "idle" <=> hook[c].pc = "idle",
             \A k \in Conn : table[k].present =>
               /\ k = hook[c].conn => table'[k].present
               /\ table'[k].present => table'[k].idle \in {0, table[k].idle}
      PROVE  HookHoldsEntry(c)'
  <2>1. CASE hook[c].pc = "idle"
    BY <1>1, <1>3, <2>1 DEF HookHoldsEntry
  <2>2. CASE hook[c].pc # "idle"
    <3> DEFINE k == hook[c].conn
    <3>1. k \in Conn /\ table[k].present /\ table[k].idle <= hook[c].age
      BY <1>1, <2>2 DEF HookHoldsEntry
    <3>2. hook[c].age \in Nat
      BY <1>1, HookFields
    <3>3. table'[k].present /\ table'[k].idle \in {0, table[k].idle}
      BY <1>3, <3>1
    <3>4. table'[k].idle <= hook[c].age
      BY <3>1, <3>2, <3>3
    <3> QED
      BY <1>3, <2>2, <3>1, <3>3, <3>4 DEF HookHoldsEntry
  <2> QED
    BY <2>1, <2>2
\* The processor c writes the entry k, the one it holds or has found.
<1>4. ASSUME NEW c \in Cpu, NEW k \in Conn, NEW e \in Entry, NEW h \in HookStates,
             table' = [table EXCEPT ![k] = e], hook' = [hook EXCEPT ![c] = h],
             h.pc # "idle", h.conn = k, h.age = hook[c].age,
             e.idle = 0 \/ (table[k].present /\ e.idle = table[k].idle /\ hook[c].conn = k
                            /\ hook[c].pc # "idle"),
             Others'
      PROVE  HooksSafe'
  <2>1. /\ table' \in Entries /\ table'[k] = e
        /\ \A j \in Conn : j # k => table'[j] = table[j]
    BY <1>1, <1>4, SetConn
  <2>2. hook' \in [Cpu -> HookStates] /\ hook'[c] = h
        /\ \A d \in Cpu : d # c => hook'[d] = hook[d]
    BY <1>1, <1>4
  <2>3. e.present
    BY Fields
  <2>4. e.idle <= h.age
    <3>1. hook[c].age \in Nat
      BY <1>1, HookFields
    <3>2. CASE e.idle = 0
      BY <1>4, <3>1, <3>2
    <3>3. CASE e.idle = table[k].idle /\ hook[c].conn = k /\ hook[c].pc # "idle"
      BY <1>1, <1>4, <3>3 DEF HookHoldsEntry
    <3> QED
      BY <1>4, <3>2, <3>3
  <2>5. ASSUME NEW d \in Cpu PROVE HookHoldsEntry(d)'
    <3>1. CASE d = c
      BY <1>4, <2>1, <2>2, <2>3, <2>4, <3>1 DEF HookHoldsEntry
    <3>2. CASE d # c
      BY <1>3, <1>4, <2>1, <2>2, <2>3, <3>2
    <3> QED
      BY <3>1, <3>2
  <2> HIDE DEF Others
  <2> QED
    BY <1>2, <1>4, <2>1, <2>2, <2>5
<1>5. ASSUME NEW c \in Cpu, NEW k \in Conn, Enter(c, k)
      PROVE  HooksSafe'
  <2>1. PICK e \in Entry : table' = [table EXCEPT ![k] = e] /\ e.idle = 0
    BY <1>5, EnterWrites
  <2>2. PICK h \in HookStates : /\ hook' = [hook EXCEPT ![c] = h]
                                /\ h.pc = "judge" /\ h.conn = k /\ h.age = hook[c].age
    BY <1>5, EnterWrites
  <2>3. Others'
    BY <1>1, <1>5 DEF Enter, environment
  <2> HIDE DEF Others
  <2> QED
    BY <1>4, <2>1, <2>2, <2>3
<1>6. ASSUME NEW c \in Cpu, StoreApp(c)
      PROVE  HooksSafe'
  <2> DEFINE k == hook[c].conn
  <2>1. PICK e \in Entry : table' = [table EXCEPT ![k] = e] /\ e.idle = table[k].idle
    BY <1>6, StoreAppWrites
  <2>2. PICK h \in HookStates : /\ hook' = [hook EXCEPT ![c] = h]
                                /\ h.pc = "store_drop" /\ h.conn = k /\ h.age = hook[c].age
    BY <1>6, StoreAppWrites
  <2>3. Others'
    BY <1>1, <1>6 DEF StoreApp, environment
  <2>4. k \in Conn /\ hook[c].pc # "idle" /\ table[k].present
    BY <1>1, <1>6 DEF HookHoldsEntry, StoreApp
  <2> HIDE DEF Others
  <2> QED
    BY <1>4, <2>1, <2>2, <2>3, <2>4
<1>7. ASSUME NEW c \in Cpu, StoreDrop(c)
      PROVE  HooksSafe'
  <2> DEFINE k == hook[c].conn
  <2>1. PICK e \in Entry : table' = [table EXCEPT ![k] = e] /\ e.idle = table[k].idle
    BY <1>7, StoreDropWrites
  <2>2. PICK h \in HookStates : /\ hook' = [hook EXCEPT ![c] = h]
                                /\ h.pc = "done" /\ h.conn = k /\ h.age = hook[c].age
    BY <1>7, StoreDropWrites
  <2>3. Others'
    BY <1>1, <1>7 DEF StoreDrop, environment
  <2>4. k \in Conn /\ hook[c].pc # "idle" /\ table[k].present
    BY <1>1, <1>7 DEF HookHoldsEntry, StoreDrop
  <2> HIDE DEF Others
  <2> QED
    BY <1>4, <2>1, <2>2, <2>3, <2>4
\* The table stays as it is.
<1>8. ASSUME UNCHANGED table, hook' \in [Cpu -> HookStates], Others',
             \A c \in Cpu : \/ /\ hook'[c].conn = hook[c].conn
                               /\ hook'[c].age = hook[c].age
                               /\ hook'[c].pc = "idle" <=> hook[c].pc = "idle"
                            \/ hook'[c] = NoPacket
      PROVE  HooksSafe'
  <2>1. ASSUME NEW c \in Cpu PROVE HookHoldsEntry(c)'
    <3>1. CASE hook'[c] = NoPacket
      BY <3>1, NoPacketType DEF HookHoldsEntry
    <3>2. CASE hook'[c] # NoPacket
      BY <1>3, <1>8, <3>2
    <3> QED
      BY <3>1, <3>2
  <2> HIDE DEF Others
  <2> QED
    BY <1>1, <1>2, <1>8, <2>1
<1>9. ASSUME NEW c \in Cpu, NEW k \in Conn, EnterNoMemory(c, k)
      PROVE  HooksSafe'
  BY <1>1, <1>8, <1>9 DEF EnterNoMemory, environment
<1>10. ASSUME NEW c \in Cpu, Judge(c)
       PROVE  HooksSafe'
  <2>1. PICK h \in HookStates : /\ hook' = [hook EXCEPT ![c] = h]
                                /\ h.conn = hook[c].conn /\ h.age = hook[c].age
                                /\ h.pc \in {"done", "store_app"}
    BY <1>10, JudgeDecides
  <2>2. Others' /\ UNCHANGED table /\ hook[c].pc = "judge"
    BY <1>1, <1>10 DEF Judge, environment
  <2>3. hook' \in [Cpu -> HookStates] /\ hook'[c] = h
        /\ \A d \in Cpu : d # c => hook'[d] = hook[d]
    BY <1>1, <2>1
  <2> HIDE DEF Others
  <2> QED
    BY <1>8, <2>1, <2>2, <2>3
<1>11. ASSUME NEW c \in Cpu, Leave(c)
       PROVE  HooksSafe'
  <2>1. hook' = [hook EXCEPT ![c] = NoPacket] /\ UNCHANGED table
    BY <1>11 DEF Leave
  <2>2. Others'
    BY <1>1, <1>11 DEF Leave, environment
  <2>3. hook' \in [Cpu -> HookStates] /\ hook'[c] = NoPacket
        /\ \A d \in Cpu : d # c => hook'[d] = hook[d]
    BY <1>1, <2>1, NoPacketType
  <2> HIDE DEF Others
  <2> QED
    BY <1>8, <2>1, <2>2, <2>3
<1>12. ASSUME ConnCleanTimeout
       PROVE  HooksSafe'
  <2>1. /\ table' = [k \in Conn |-> IF k \in TimedOut THEN NoEntry ELSE table[k]]
        /\ UNCHANGED hook
    BY <1>12 DEF ConnCleanTimeout
  <2>2. Others'
    <3>1. dangling' = {}
      BY <1>1, <1>12, HeldNotTimedOut DEF ConnCleanTimeout
    <3>2. last_bucket' \in 0 .. Buckets - 1
      BY <1>1, <1>12, BucketType DEF ConnCleanTimeout
    <3> QED
      BY <1>1, <1>12, <3>1, <3>2 DEF ConnCleanTimeout, environment
  <2>3. table' \in Entries
    BY <1>1, <2>1
  <2>4. ASSUME NEW c \in Cpu PROVE HookHoldsEntry(c)'
    <3>1. hook[c].conn \notin TimedOut
      BY HeldNotTimedOut
    <3>2. \A k \in Conn : k \notin TimedOut => table'[k] = table[k]
      BY <2>1
    <3>3. ~NoEntry.present
      BY DEF NoEntry
    <3>4. \A k \in Conn : k \in TimedOut => ~table'[k].present
      BY <2>1, <3>3
    <3> QED
      BY <1>3, <2>1, <3>1, <3>2, <3>4
  <2> HIDE DEF Others
  <2> QED
    BY <1>1, <1>2, <2>1, <2>2, <2>3, <2>4
<1>13. ASSUME Second
       PROVE  HooksSafe'
  <2>1. \A k \in Conn : table'[k] = IF ~table[k].present THEN NoEntry ELSE AgedConn(table[k])
    BY <1>13 DEF Second, AgedConn
  <2>2. table' \in Entries /\ \A k \in Conn : table[k].present =>
                                 /\ table[k].idle \in Nat /\ table'[k].idle \in Nat
                                 /\ table'[k].idle <= table[k].idle + 1
                                 /\ table'[k].present
    <3>1. \A k \in Conn : table[k].present =>
                    /\ table[k] \in Entry /\ table'[k] \in Entry
                    /\ table'[k].idle <= table[k].idle + 1
      BY <1>1, <2>1, PresentEntry, AgedEntry
    <3>2. table' = [k \in Conn |-> table'[k]]
      BY <1>13 DEF Second
    <3>3. table' \in Entries
      BY <2>1, <3>1, <3>2
    <3> QED
      BY <3>1, <3>3, Counters, Fields
  <2>3. \A c \in Cpu : hook'[c] = IF hook[c].pc = "idle" THEN NoPacket
                                  ELSE [hook[c] EXCEPT !.age = @ + 1]
    BY <1>13 DEF Second
  <2>4. \A c \in Cpu : hook[c] \in HookStates
                       /\ (hook[c].pc # "idle" => hook[c].age < HookSeconds)
    BY <1>1, <1>13 DEF Second
  <2>5. \A c \in Cpu : hook[c].pc # "idle" =>
            /\ hook'[c] \in HookStates /\ hook'[c].pc = hook[c].pc
            /\ hook'[c].conn = hook[c].conn /\ hook'[c].age = hook[c].age + 1
    BY <2>3, <2>4, HookAges
  <2>6. hook' = [c \in Cpu |-> hook'[c]]
    BY <1>13 DEF Second
  <2>7. hook' \in [Cpu -> HookStates]
    BY <2>3, <2>5, <2>6, NoPacketType
  <2>8. Others'
    <3>1. recent' \in 0 .. Window
      BY <1>1, <1>13, BypassAssumption DEF Second
    <3> QED
      BY <1>1, <1>13, <3>1 DEF Second
  <2>9. ASSUME NEW c \in Cpu PROVE HookHoldsEntry(c)'
    <3>1. CASE hook[c].pc = "idle"
      BY <2>3, <3>1, NoPacketType DEF HookHoldsEntry
    <3>2. CASE hook[c].pc # "idle"
      <4> DEFINE k == hook[c].conn
      <4>1. k \in Conn /\ table[k].present /\ table[k].idle <= hook[c].age
        BY <1>1, <3>2 DEF HookHoldsEntry
      <4>2. hook[c].age \in Nat
        BY <2>4, HookFields
      <4>3. table'[k].present /\ table'[k].idle <= hook[c].age + 1
        BY <2>2, <4>1, <4>2
      <4> QED
        BY <2>5, <3>2, <4>1, <4>3 DEF HookHoldsEntry
    <3> QED
      BY <3>1, <3>2
  <2> HIDE DEF Others
  <2> QED
    BY <1>2, <2>2, <2>7, <2>8, <2>9
<1>14. ASSUME NEW r \in RuleSets, SetRules(r)
       PROVE  HooksSafe'
  <2>1. Others'
    BY <1>1, <1>14, BypassAssumption DEF SetRules
  <2>2. UNCHANGED <<table, hook>>
    BY <1>14 DEF SetRules
  <2> HIDE DEF Others
  <2> QED
    BY <1>1, <1>8, <2>1, <2>2
<1>15. ASSUME NEW f \in Switches, WriteSwitch(f)
       PROVE  HooksSafe'
  <2>1. Others'
    <3>1. switch' \in [SwitchNames -> BOOLEAN]
      BY <1>1, <1>15 DEF WriteSwitch
    <3> QED
      BY <1>1, <1>15, <3>1 DEF WriteSwitch
  <2>2. UNCHANGED <<table, hook>>
    BY <1>15 DEF WriteSwitch
  <2> HIDE DEF Others
  <2> QED
    BY <1>1, <1>8, <2>1, <2>2
<1>16. UNCHANGED bypassVars => HooksSafe'
  <2> HAVE UNCHANGED bypassVars
  <2>1. Others' /\ UNCHANGED <<table, hook>>
    BY <1>1 DEF bypassVars
  <2> HIDE DEF Others
  <2> QED
    BY <1>1, <1>8, <2>1
<1> QED
  BY <1>5, <1>6, <1>7, <1>9, <1>10, <1>11, <1>12, <1>13, <1>14, <1>15, <1>16
     DEF Next, HookStep

\* It holds at the beginning.
LEMMA HooksSafeInit == Init => HooksSafe
<1> SUFFICES ASSUME Init PROVE HooksSafe
  OBVIOUS
<1>1. hook \in [Cpu -> HookStates] /\ \A c \in Cpu : hook[c] = NoPacket
  BY NoPacketType DEF Init
<1>2. table \in [Conn -> Entry \cup {NoEntry}]
  BY DEF Init
<1>3. last_bucket \in 0 .. Buckets - 1 /\ recent \in 0 .. Window
  BY BypassAssumption DEF Init
<1>4. \A c \in Cpu : HookHoldsEntry(c)
  BY <1>1, NoPacketType DEF HookHoldsEntry
<1> QED
  BY <1>1, <1>2, <1>3, <1>4 DEF Init, HooksSafe, BypassTypeOK, HookStates

\* The invariant of the handler and the timer.
LEMMA AlwaysSafe == Spec => []HooksSafe
BY HooksSafeInit, HooksSafeStep, PTL DEF Spec

\* Every variable always has the type of the C object it stands for: above
\* all, the two stores of the handler go to an entry of the table, and the
\* walk over the hash buckets never leaves the table.
THEOREM TypeCorrect == Spec => []BypassTypeOK
<1>1. HooksSafe => BypassTypeOK
  BY DEF HooksSafe
<1> QED
  BY <1>1, AlwaysSafe, PTL

\* While app_filter_hook_bypass_handle uses a connection without the lock,
\* af_conn_clean_timeout does not free it, whatever the connections, the
\* hash function and the number of processors: a packet is handled in less
\* than the 30 seconds that a connection must be idle.
THEOREM NoUseAfterFree == Spec => []NoConnUseAfterFree
<1>1. HooksSafe => NoConnUseAfterFree
  BY DEF HooksSafe, NoConnUseAfterFree
<1> QED
  BY <1>1, AlwaysSafe, PTL

-----------------------------------------------------------------------------
(* Decisions.                                                              *)

\* Rules and switches stay as they are: so does what is wanted.
LEMMA SameWish ==
  ASSUME UNCHANGED <<rules, switch>>
  PROVE  /\ \A a : Wanted(a)' = Wanted(a)
         /\ \A k : IsQuic(k)' = IsQuic(k)
         /\ switch'["app_filter_mode"] = switch["app_filter_mode"]
BY DEF Wanted, MatchRule, IsQuic

\* In all-apps mode the same is wanted for every application.
LEMMA AllAppsAlike ==
  ASSUME switch["app_filter_mode"], NEW a, NEW b
  PROVE  Wanted(a) = Wanted(b)
BY DEF Wanted, MatchRule

\* The invariant is inductive.
LEMMA DecisionsStep ==
  HooksSafe /\ DecisionsWanted /\ [Next]_bypassVars => DecisionsWanted'
<1> SUFFICES ASSUME HooksSafe, DecisionsWanted, [Next]_bypassVars
             PROVE  DecisionsWanted'
  OBVIOUS
<1>1. /\ BypassTypeOK /\ table \in [Conn -> Entry \cup {NoEntry}]
      /\ hook \in [Cpu -> HookStates] /\ constant \subseteq Conn
      /\ \A c \in Cpu : HookHoldsEntry(c)
  BY DEF HooksSafe, BypassTypeOK, HookStates
<1>2. \A k \in constant : /\ \A c \in Cpu : Storing(c, k) => StoresWanted(c, k)
                          /\ table[k].present => HoldsWanted(k)
  BY DEF DecisionsWanted
\* Processor d is where it was, or at least not on its way to the table.
<1>3. ASSUME NEW k \in constant, NEW d \in Cpu, UNCHANGED <<rules, switch>>,
             \/ ~Storing(d, k)'
             \/ /\ Storing(d, k) /\ hook'[d].app = hook[d].app
                /\ hook'[d].drop = hook[d].drop
      PROVE  Storing(d, k)' => StoresWanted(d, k)'
  BY <1>2, <1>3, SameWish DEF StoresWanted
\* The entry keeps its decision, and the stores that are to come.
<1>4. ASSUME NEW k \in constant, UNCHANGED <<rules, switch>>, table[k].present,
             table'[k].app = table[k].app, table'[k].drop = table[k].drop,
             \A d \in Cpu : /\ hook[d].conn = k /\ hook[d].pc = "store_drop"
                            => hook'[d].conn = k /\ hook'[d].pc = "store_drop"
      PROVE  HoldsWanted(k)'
  BY <1>2, <1>4, SameWish DEF HoldsWanted
<1>5. ASSUME NEW c \in Cpu, NEW k \in Conn, Enter(c, k)
      PROVE  DecisionsWanted'
  <2>1. PICK e \in Entry : /\ table' = [table EXCEPT ![k] = e]
                           /\ table[k].present => e.app = table[k].app /\ e.drop = table[k].drop
                           /\ ~table[k].present => e.app = NoApp
    BY <1>5, EnterWrites
  <2>2. PICK h \in HookStates : hook' = [hook EXCEPT ![c] = h] /\ h.pc = "judge"
    BY <1>5, EnterWrites
  <2>3. table'[k] = e /\ \A j \in Conn : j # k => table'[j] = table[j]
    BY <1>1, <2>1, SetConn
  <2>4. hook'[c].pc = "judge" /\ \A d \in Cpu : d # c => hook'[d] = hook[d]
    BY <1>1, <2>2
  <2>5. /\ UNCHANGED <<rules, switch>> /\ hook[c].pc = "idle"
        /\ constant' = IF table[k].present THEN constant ELSE constant \cup {k}
    BY <1>5 DEF Enter, environment
  <2> SUFFICES ASSUME NEW j \in constant'
               PROVE  /\ \A d \in Cpu : Storing(d, j)' => StoresWanted(d, j)'
                      /\ table'[j].present => HoldsWanted(j)'
    BY DEF DecisionsWanted
  \* Nobody holds an entry that is not there.
  <2>6. CASE j = k /\ ~table[k].present
    <3>1. \A d \in Cpu : ~Storing(d, k)'
      BY <1>1, <2>4, <2>6 DEF Storing, HookHoldsEntry
    <3>2. table'[k].app = NoApp
      BY <2>1, <2>3, <2>6
    <3>3. HoldsWanted(k)'
      BY <3>2, BypassAssumption DEF HoldsWanted
    <3> QED
      BY <2>6, <3>1, <3>3
  <2>7. CASE j \in constant /\ ~(j = k /\ ~table[k].present)
    <3>1. ASSUME NEW d \in Cpu PROVE Storing(d, j)' => StoresWanted(d, j)'
      BY <1>3, <2>4, <2>5, <2>7 DEF Storing
    <3>2. table'[j].present => HoldsWanted(j)'
      <4> HAVE table'[j].present
      <4>1. /\ table[j].present
            /\ table'[j].app = table[j].app /\ table'[j].drop = table[j].drop
        BY <1>1, <2>1, <2>3, <2>7
      <4> QED
        BY <1>4, <2>4, <2>5, <2>7, <4>1
    <3> QED
      BY <3>1, <3>2
  <2> QED
    BY <2>5, <2>6, <2>7
<1>6. ASSUME NEW c \in Cpu, Judge(c)
      PROVE  DecisionsWanted'
  <2> DEFINE k == hook[c].conn
  <2>1. PICK h \in HookStates :
               /\ hook' = [hook EXCEPT ![c] = h]
               /\ h.conn = k /\ h.pc \in {"done", "store_app"}
               /\ h.pc = "store_app" =>
                    IF IsQuic(k) THEN h.app = Quic
                    ELSE /\ h.app \in {Carries[k], NoApp}
                         /\ h.app = NoApp => switch["app_filter_mode"]
                         /\ h.drop = Wanted(h.app)
    BY <1>6, JudgeDecides
  <2>2. hook'[c] = h /\ \A d \in Cpu : d # c => hook'[d] = hook[d]
    BY <1>1, <2>1
  <2>3. UNCHANGED <<rules, switch, table, constant>> /\ hook[c].pc = "judge"
    BY <1>6 DEF Judge, environment
  <2> SUFFICES ASSUME NEW j \in constant
               PROVE  /\ \A d \in Cpu : Storing(d, j)' => StoresWanted(d, j)'
                      /\ table'[j].present => HoldsWanted(j)'
    BY <2>3 DEF DecisionsWanted
  <2>4. ASSUME NEW d \in Cpu PROVE Storing(d, j)' => StoresWanted(d, j)'
    <3>1. CASE d = c
      <4> HAVE Storing(d, j)'
      <4>1. j = k /\ h.pc = "store_app"
        BY <2>1, <2>2, <3>1 DEF Storing
      <4> QED
        BY <2>1, <2>2, <2>3, <3>1, <4>1, SameWish DEF StoresWanted
    <3>2. CASE d # c
      BY <1>3, <2>2, <2>3, <3>2 DEF Storing
    <3> QED
      BY <3>1, <3>2
  <2>5. table'[j].present => HoldsWanted(j)'
    BY <1>4, <2>2, <2>3
  <2> QED
    BY <2>4, <2>5
<1>7. ASSUME NEW c \in Cpu, StoreApp(c)
      PROVE  DecisionsWanted'
  <2> DEFINE k == hook[c].conn
  <2>1. PICK e \in Entry : table' = [table EXCEPT ![k] = e] /\ e.app = hook[c].app
    BY <1>7, StoreAppWrites
  <2>2. PICK h \in HookStates : /\ hook' = [hook EXCEPT ![c] = h]
                                /\ h.pc = "store_drop" /\ h.conn = k
                                /\ h.app = hook[c].app /\ h.drop = hook[c].drop
    BY <1>7, StoreAppWrites
  <2>3. k \in Conn /\ hook[c].pc = "store_app"
    BY <1>1, <1>7 DEF HookHoldsEntry, StoreApp
  <2>4. table'[k] = e /\ \A j \in Conn : j # k => table'[j] = table[j]
    BY <1>1, <2>1, <2>3, SetConn
  <2>5. hook'[c] = h /\ \A d \in Cpu : d # c => hook'[d] = hook[d]
    BY <1>1, <2>2
  <2>6. UNCHANGED <<rules, switch, constant>>
    BY <1>7 DEF StoreApp, environment
  <2> SUFFICES ASSUME NEW j \in constant
               PROVE  /\ \A d \in Cpu : Storing(d, j)' => StoresWanted(d, j)'
                      /\ table'[j].present => HoldsWanted(j)'
    BY <2>6 DEF DecisionsWanted
  <2>7. ASSUME NEW d \in Cpu PROVE Storing(d, j)' => StoresWanted(d, j)'
    <3>1. CASE d = c
      BY <1>3, <2>2, <2>3, <2>5, <2>6, <3>1, ZenonT(60) DEF Storing
    <3>2. CASE d # c
      BY <1>3, <2>5, <2>6, <3>2 DEF Storing
    <3> QED
      BY <3>1, <3>2
  <2>8. table'[j].present => HoldsWanted(j)'
    <3>1. CASE j = k
      <4>1. StoresWanted(c, k)
        BY <1>2, <2>3, <3>1 DEF Storing
      <4>2. hook'[c].conn = k /\ hook'[c].pc = "store_drop"
        BY <2>2, <2>5
      <4>3. table'[k].app = hook[c].app
        BY <2>1, <2>4
      <4> QED
        BY <2>6, <3>1, <4>1, <4>2, <4>3, SameWish DEF StoresWanted, HoldsWanted
    <3>2. CASE j # k
      BY <1>1, <1>4, <2>3, <2>4, <2>5, <2>6, <3>2
    <3> QED
      BY <3>1, <3>2
  <2> QED
    BY <2>7, <2>8
<1>8. ASSUME NEW c \in Cpu, StoreDrop(c)
      PROVE  DecisionsWanted'
  <2> DEFINE k == hook[c].conn
  <2>1. PICK e \in Entry : /\ table' = [table EXCEPT ![k] = e]
                           /\ e.app = table[k].app /\ e.drop = hook[c].drop
    BY <1>8, StoreDropWrites
  <2>2. PICK h \in HookStates : /\ hook' = [hook EXCEPT ![c] = h]
                                /\ h.pc = "done" /\ h.conn = k
    BY <1>8, StoreDropWrites
  <2>3. k \in Conn /\ hook[c].pc = "store_drop" /\ table[k].present
    BY <1>1, <1>8 DEF HookHoldsEntry, StoreDrop
  <2>4. table'[k] = e /\ \A j \in Conn : j # k => table'[j] = table[j]
    BY <1>1, <2>1, <2>3, SetConn
  <2>5. hook'[c] = h /\ \A d \in Cpu : d # c => hook'[d] = hook[d]
    BY <1>1, <2>2
  <2>6. UNCHANGED <<rules, switch, constant>>
    BY <1>8 DEF StoreDrop, environment
  <2> SUFFICES ASSUME NEW j \in constant
               PROVE  /\ \A d \in Cpu : Storing(d, j)' => StoresWanted(d, j)'
                      /\ table'[j].present => HoldsWanted(j)'
    BY <2>6 DEF DecisionsWanted
  <2>7. ASSUME NEW d \in Cpu PROVE Storing(d, j)' => StoresWanted(d, j)'
    <3>1. CASE d = c
      BY <2>2, <2>5, <3>1 DEF Storing
    <3>2. CASE d # c
      BY <1>3, <2>5, <2>6, <3>2 DEF Storing
    <3> QED
      BY <3>1, <3>2
  <2>8. table'[j].present => HoldsWanted(j)'
    \* The decision stored is the wanted one for the application in the
    \* entry, although another processor may have stored that.
    <3>1. CASE j = k
      <4>1. StoresWanted(c, k) /\ HoldsWanted(k)
        BY <1>2, <2>3, <3>1 DEF Storing
      <4>2. table'[k].app = table[k].app /\ table'[k].drop = hook[c].drop
        BY <2>1, <2>4
      <4>3. CASE IsQuic(k)
        BY <2>6, <3>1, <4>1, <4>2, <4>3, SameWish DEF HoldsWanted
      <4>4. CASE ~IsQuic(k)
        <5>1. /\ hook[c].app \in {Carries[k], NoApp}
              /\ hook[c].app = NoApp => switch["app_filter_mode"]
              /\ hook[c].drop = Wanted(hook[c].app)
              /\ table[k].app \in {Carries[k], NoApp}
          BY <4>1, <4>4 DEF StoresWanted, HoldsWanted
        <5>2. table[k].app \in App => hook[c].drop = Wanted(table[k].app)
          <6> HAVE table[k].app \in App
          <6>1. table[k].app = Carries[k]
            BY <5>1, BypassAssumption
          <6>2. CASE hook[c].app = Carries[k]
            BY <5>1, <6>1, <6>2
          <6>3. CASE hook[c].app = NoApp
            BY <5>1, <6>3, AllAppsAlike
          <6> QED
            BY <5>1, <6>2, <6>3
        <5> QED
          BY <2>6, <3>1, <4>2, <4>4, <5>1, <5>2, SameWish DEF HoldsWanted
      <4> QED
        BY <4>3, <4>4
    <3>2. CASE j # k
      <4>1. table'[j] = table[j]
        BY <1>1, <2>4, <3>2
      <4>2. \A d \in Cpu : /\ hook[d].conn = j /\ hook[d].pc = "store_drop"
                           => hook'[d].conn = j /\ hook'[d].pc = "store_drop"
        BY <2>5, <3>2
      <4> QED
        BY <1>4, <2>6, <4>1, <4>2
    <3> QED
      BY <3>1, <3>2
  <2> QED
    BY <2>7, <2>8
\* Nobody goes on: entries may age or go, packets may leave.
<1>9. ASSUME UNCHANGED <<rules, switch, constant>>,
             \A d \in Cpu : \/ /\ hook'[d].conn = hook[d].conn /\ hook'[d].pc = hook[d].pc
                               /\ hook'[d].app = hook[d].app /\ hook'[d].drop = hook[d].drop
                            \/ hook[d].pc \in {"idle", "done"} /\ hook'[d] = NoPacket,
             \A k \in Conn : table'[k].present =>
                /\ table[k].present /\ table'[k].app = table[k].app
                /\ table'[k].drop = table[k].drop
      PROVE  DecisionsWanted'
  <2> SUFFICES ASSUME NEW j \in constant
               PROVE  /\ \A d \in Cpu : Storing(d, j)' => StoresWanted(d, j)'
                      /\ table'[j].present => HoldsWanted(j)'
    BY <1>9 DEF DecisionsWanted
  <2>1. ASSUME NEW d \in Cpu PROVE Storing(d, j)' => StoresWanted(d, j)'
    BY <1>3, <1>9, NoPacketType DEF Storing
  <2>2. table'[j].present => HoldsWanted(j)'
    BY <1>1, <1>4, <1>9
  <2> QED
    BY <2>1, <2>2
<1>10. ASSUME NEW c \in Cpu, Leave(c)
       PROVE  DecisionsWanted'
  BY <1>1, <1>9, <1>10 DEF Leave, environment
<1>11. ASSUME NEW c \in Cpu, NEW k \in Conn, EnterNoMemory(c, k)
       PROVE  DecisionsWanted'
  BY <1>1, <1>9, <1>11 DEF EnterNoMemory, environment
<1>12. ASSUME ConnCleanTimeout
       PROVE  DecisionsWanted'
  <2>1. ~NoEntry.present
    BY DEF NoEntry
  <2>2. \A k \in Conn : table'[k] = NoEntry \/ table'[k] = table[k]
    BY <1>12 DEF ConnCleanTimeout
  <2> QED
    BY <1>9, <1>12, <2>1, <2>2 DEF ConnCleanTimeout, environment
<1>13. ASSUME Second
       PROVE  DecisionsWanted'
  <2>1. ~NoEntry.present
    BY DEF NoEntry
  <2>2. \A k \in Conn : table'[k] = IF ~table[k].present THEN NoEntry ELSE AgedConn(table[k])
    BY <1>13 DEF Second, AgedConn
  <2>3. \A k \in Conn : table'[k].present =>
                /\ table[k].present /\ table'[k].app = table[k].app
                /\ table'[k].drop = table[k].drop
    BY <1>1, <2>1, <2>2, PresentEntry, AgedEntry
  <2>4. ASSUME NEW d \in Cpu
        PROVE  \/ /\ hook'[d].conn = hook[d].conn /\ hook'[d].pc = hook[d].pc
                  /\ hook'[d].app = hook[d].app /\ hook'[d].drop = hook[d].drop
               \/ hook[d].pc \in {"idle", "done"} /\ hook'[d] = NoPacket
    <3>1. hook[d] \in HookStates
      BY <1>1
    <3>2. CASE hook[d].pc = "idle"
      BY <1>13, <3>2 DEF Second
    <3>3. CASE hook[d].pc # "idle"
      <4>1. hook'[d] = [hook[d] EXCEPT !.age = @ + 1] /\ hook[d].age < HookSeconds
        BY <1>13, <3>3 DEF Second
      <4> QED
        BY <3>1, <4>1, HookAges
    <3> QED
      BY <3>2, <3>3
  <2>5. UNCHANGED <<rules, switch, constant>>
    BY <1>13 DEF Second
  <2> QED
    BY <1>9, <2>3, <2>4, <2>5
<1>14. constant' = {} => DecisionsWanted'
  BY DEF DecisionsWanted
<1>15. ASSUME NEW r \in RuleSets, SetRules(r)
       PROVE  DecisionsWanted'
  BY <1>14, <1>15 DEF SetRules
<1>16. ASSUME NEW f \in Switches, WriteSwitch(f)
       PROVE  DecisionsWanted'
  BY <1>14, <1>16 DEF WriteSwitch
<1>17. UNCHANGED bypassVars => DecisionsWanted'
  BY <1>9 DEF bypassVars
<1> QED
  BY <1>5, <1>6, <1>7, <1>8, <1>10, <1>11, <1>12, <1>13, <1>15, <1>16, <1>17
     DEF Next, HookStep

\* conn->app_id and conn->drop are written apart and without the lock by any
\* number of processors; when none is at a connection, the decision in its
\* entry is the one that match_app_filter_rule takes for the application in
\* the entry, as long as rules and switches stay as they were when the entry
\* was made.
THEOREM DecisionsFollow == Spec => []DecisionFollowsRules
<1>1. Init => DecisionsWanted
  BY DEF Init, DecisionsWanted
<1>2. DecisionsWanted => DecisionFollowsRules
  <2> SUFFICES ASSUME DecisionsWanted, NEW k \in constant,
                      table[k].present, table[k].app \in App,
                      \A c \in Cpu : hook[c].conn # k
               PROVE  table[k].drop = (switch["enable"] /\ MatchRule(table[k].app))
    BY DEF DecisionFollowsRules
  <2>1. HoldsWanted(k)
    BY DEF DecisionsWanted
  <2>2. table[k].drop = Wanted(table[k].app)
    BY <2>1, BypassAssumption DEF HoldsWanted
  <2> QED
    BY <2>2 DEF Wanted
<1> QED
  BY <1>1, <1>2, AlwaysSafe, DecisionsStep, PTL DEF Spec

=============================================================================
