-------------------------- MODULE OafClientsProofs ---------------------------
(***************************************************************************)
(* Theorems about OafClients, for every set of devices, addresses and      *)
(* processors and all times that are related as those of the code are.     *)
(***************************************************************************)
EXTENDS OafClients, TLAPS

-----------------------------------------------------------------------------
(* Entries.                                                                *)

\* The entries of the table are records with all fields (af_client_info_t).
LEMMA TableEntry ==
  ASSUME ClientsTypeOK, NEW m \in Mac
  PROVE  /\ m \in Table => entry[m] \in Entry
         /\ m \notin Table => entry[m] = NoEntry
<1>1. entry[m] \in Entry \cup {NoEntry}
  BY DEF ClientsTypeOK
<1>2. ASSUME NEW e \in Entry PROVE e.present = TRUE
  BY DEF Entry
<1>3. NoEntry.present = FALSE
  BY DEF NoEntry
<1> QED
  BY <1>1, <1>2, <1>3 DEF Table

\* The counters of an entry and their limits.
LEMMA Counters ==
  ASSUME NEW e \in Entry
  PROVE  /\ e.idle \in Nat /\ e.idle <= IdleLimit + 1
         /\ e.wait \in Nat /\ e.wait <= TimerPeriod
         /\ e.count \in Nat /\ e.count <= ReportTicks
         /\ e.inactive \in Nat /\ e.inactive <= InactiveTicks
<1>1. /\ IdleLimit \in Nat /\ TimerPeriod \in Nat /\ ReportTicks \in Nat
      /\ InactiveTicks \in Nat
  BY ClientsAssumption, TimesAssumption
<1>2. /\ e.idle \in 0 .. IdleLimit + 1 /\ e.wait \in 0 .. TimerPeriod
      /\ e.count \in 0 .. ReportTicks /\ e.inactive \in 0 .. InactiveTicks
  BY DEF Entry
<1> QED
  BY <1>1, <1>2

\* The flags of an entry.
LEMMA Flags ==
  ASSUME NEW e \in Entry
  PROVE  /\ e.present \in BOOLEAN /\ e.present /\ e.busy \in BOOLEAN
         /\ e.active \in BOOLEAN /\ e.period_blocked \in BOOLEAN /\ e.lost \in BOOLEAN
<1>1. e.present \in {TRUE}
  BY DEF Entry
<1> QED
  BY <1>1, Zenon DEF Entry

\* A new entry is well formed (nf_client_add).
LEMMA NewEntryType ==
  ASSUME NEW ip \in Ip
  PROVE  NewEntry(ip) \in Entry
<1>1. /\ IdleLimit \in Nat /\ TimerPeriod \in Nat \ {0} /\ ReportTicks \in Nat
      /\ InactiveTicks \in Nat
  BY ClientsAssumption, TimesAssumption
<1> QED
  BY <1>1 DEF NewEntry, Entry

\* Fields may be set one by one: by a packet from or to the device, ...
LEMMA SetByPacket ==
  ASSUME NEW e \in Entry, NEW x \in Ip, NEW b \in BOOLEAN
  PROVE  [e EXCEPT !.ip = x, !.busy = b] \in Entry
BY DEF Entry

\* ... by traffic above the rates or a command to blocked_macs, ...
LEMMA SetFlag ==
  ASSUME NEW e \in Entry, NEW b \in BOOLEAN
  PROVE  /\ [e EXCEPT !.busy = b] \in Entry
         /\ [e EXCEPT !.period_blocked = b] \in Entry
BY DEF Entry

\* ... by the look-up, ...
LEMMA SetByLookup ==
  ASSUME NEW e \in Entry, NEW i \in 0 .. IdleLimit + 1
  PROVE  [e EXCEPT !.idle = i, !.lost = FALSE] \in Entry
BY DEF Entry

\* ... by the clock, ...
LEMMA SetByClock ==
  ASSUME NEW e \in Entry, NEW i \in 0 .. IdleLimit + 1,
         NEW w \in 0 .. TimerPeriod, NEW l \in BOOLEAN
  PROVE  [e EXCEPT !.idle = i, !.wait = w, !.lost = l] \in Entry
BY DEF Entry

\* ... by client_timer, ...
LEMMA SetTimer ==
  ASSUME NEW e \in Entry, NEW n \in 0 .. ReportTicks, NEW w \in 0 .. TimerPeriod
  PROVE  [e EXCEPT !.count = n, !.wait = w] \in Entry
BY DEF Entry

\* ... and by af_update_client_status.
LEMMA SetStatus ==
  ASSUME NEW e \in Entry, NEW q \in 0 .. InactiveTicks, NEW a \in BOOLEAN
  PROVE  /\ [e EXCEPT !.busy = FALSE, !.inactive = q, !.active = a] \in Entry
         /\ [e EXCEPT !.inactive = q, !.active = a] \in Entry
BY DEF Entry

\* af_update_client_status leaves an entry well formed, and touches only the
\* fields it is about.
LEMMA StatusType ==
  ASSUME NEW e \in Entry
  PROVE  /\ UpdateClientStatus(e) \in Entry
         /\ UpdateClientStatus(e).count = e.count
         /\ UpdateClientStatus(e).idle = e.idle
         /\ UpdateClientStatus(e).period_blocked = e.period_blocked
<1> DEFINE stays == e.active /\ e.inactive + 1 <= InactiveTicks
           q == IF stays THEN e.inactive + 1 ELSE 0
<1>1. InactiveTicks \in Nat
  BY TimesAssumption
<1>2. q \in 0 .. InactiveTicks /\ 0 \in 0 .. InactiveTicks
  BY <1>1, Counters
<1>3. stays \in BOOLEAN
  OBVIOUS
<1>4. CASE e.busy
  <2>1. UpdateClientStatus(e) = [e EXCEPT !.busy = FALSE, !.inactive = 0, !.active = TRUE]
    BY <1>4 DEF UpdateClientStatus
  <2>2. UpdateClientStatus(e) \in Entry
    BY <1>2, <2>1, SetStatus, Zenon
  <2>3. /\ UpdateClientStatus(e).count = e.count
        /\ UpdateClientStatus(e).idle = e.idle
    BY <2>1 DEF Entry
  <2>4. UpdateClientStatus(e).period_blocked = e.period_blocked
    BY <2>1 DEF Entry
  <2> QED
    BY <2>2, <2>3, <2>4
<1>5. CASE ~e.busy
  <2>1. UpdateClientStatus(e) = [e EXCEPT !.inactive = q, !.active = stays]
    BY <1>5, Zenon DEF UpdateClientStatus
  <2> HIDE DEF q, stays
  <2>0. [e EXCEPT !.inactive = q, !.active = stays] \in Entry
    BY <1>2, <1>3, SetStatus
  <2>2. UpdateClientStatus(e) \in Entry
    BY <2>1, <2>0, Zenon
  <2>3. /\ UpdateClientStatus(e).count = e.count
        /\ UpdateClientStatus(e).idle = e.idle
    BY <2>1 DEF Entry
  <2>4. UpdateClientStatus(e).period_blocked = e.period_blocked
    BY <2>1 DEF Entry
  <2> QED
    BY <2>2, <2>3, <2>4
<1> QED
  BY <1>4, <1>5

\* A second more leaves an entry well formed whose timer is not due.
LEMMA AgedType ==
  ASSUME NEW e \in Entry, e.wait > 0
  PROVE  /\ Aged(e) \in Entry
         /\ Aged(e).idle <= e.idle + 1 /\ Aged(e).wait = e.wait - 1
         /\ Aged(e).count = e.count /\ Aged(e).inactive = e.inactive
         /\ Aged(e).busy = e.busy /\ Aged(e).active = e.active
         /\ Aged(e).period_blocked = e.period_blocked
<1>1. /\ IdleLimit \in Nat /\ TimerPeriod \in Nat
  BY ClientsAssumption, TimesAssumption
<1> DEFINE n == IF e.idle > IdleLimit THEN e.idle ELSE e.idle + 1
           w == e.wait - 1
           l == e.lost \/ (toWrap = 1 /\ n > IdleLimit)
<1>2. n \in 0 .. IdleLimit + 1 /\ w \in 0 .. TimerPeriod /\ n <= e.idle + 1
  BY <1>1, Counters
<1>3. l \in BOOLEAN
  OBVIOUS
<1>4. Aged(e) = [e EXCEPT !.idle = n, !.wait = w, !.lost = l]
  BY DEF Aged
<1> HIDE DEF n, w, l
<1>0. [e EXCEPT !.idle = n, !.wait = w, !.lost = l] \in Entry
  BY <1>2, <1>3, SetByClock
<1>5. Aged(e) \in Entry
  BY <1>4, <1>0, Zenon
<1>6. Aged(e).idle = n /\ Aged(e).wait = w
  BY <1>4 DEF Entry
<1>7. /\ Aged(e).count = e.count /\ Aged(e).inactive = e.inactive
      /\ Aged(e).busy = e.busy /\ Aged(e).active = e.active
      /\ Aged(e).period_blocked = e.period_blocked
  BY <1>4 DEF Entry
<1> QED
  BY <1>2, <1>5, <1>6, <1>7 DEF w

\* ClientHook is called with a truth value.
LEMMA HeavyType == \A m \in Mac : \A heavy \in {FALSE, (m \in Heavy)} : heavy \in BOOLEAN
<1> TAKE m \in Mac
<1>1. (m \in Heavy) \in BOOLEAN
  OBVIOUS
<1> QED
  BY <1>1, Zenon

-----------------------------------------------------------------------------
(* The table.  Each action that writes an entry writes one, or ages all,   *)
(* or frees some; what it leaves of them is said once, in a lemma.         *)

\* One entry is written.
LEMMA SetEntry ==
  ASSUME ClientsTypeOK, NEW m \in Mac, NEW e \in Entry,
         entry' = [entry EXCEPT ![m] = e]
  PROVE  /\ entry' \in [Mac -> Entry \cup {NoEntry}]
         /\ entry'[m] = e
         /\ \A n \in Mac : n # m => entry'[n] = entry[n]
         /\ Table' = Table \cup {m}
<1>1. entry \in [Mac -> Entry \cup {NoEntry}]
  BY DEF ClientsTypeOK
<1>2. /\ entry' \in [Mac -> Entry \cup {NoEntry}]
      /\ entry'[m] = e
      /\ \A n \in Mac : n # m => entry'[n] = entry[n]
  BY <1>1
<1>3. e.present
  BY Flags
<1>4. Table' = {n \in Mac : entry'[n].present}
  BY DEF Table
<1>5. Table = {n \in Mac : entry[n].present}
  BY DEF Table
<1> QED
  BY <1>2, <1>3, <1>4, <1>5

\* f is e after some more packets of its device.
SameButBusy(e, f) ==
  /\ f.idle = e.idle /\ f.wait = e.wait /\ f.count = e.count
  /\ f.inactive = e.inactive /\ f.active = e.active
  /\ f.period_blocked = e.period_blocked
  /\ e.busy => f.busy

\* af_client_hook: the entry of the sender, the old one or a new one.
LEMMA ClientHookWrites ==
  ASSUME ClientsTypeOK, NEW c \in Cpu, NEW m \in Mac, NEW heavy \in BOOLEAN,
         ClientHook(c, m, heavy)
  PROVE  \E f \in Entry : /\ entry' = [entry EXCEPT ![m] = f]
                          /\ m \in Table => SameButBusy(entry[m], f)
                          /\ m \notin Table => ~f.period_blocked
<1> DEFINE e == IF m \in Table THEN entry[m] ELSE NewEntry(addr[m])
           b == e.busy \/ heavy
           f == [e EXCEPT !.ip = addr[m], !.busy = b]
<1>1. addr[m] \in Ip
  BY DEF ClientsTypeOK, ClientHook
<1>2. e \in Entry
  BY <1>1, TableEntry, NewEntryType
<1>3. b \in BOOLEAN
  OBVIOUS
<1>4. entry' = [entry EXCEPT ![m] = f]
  BY DEF ClientHook
<1>5. m \in Table => e = entry[m]
  OBVIOUS
<1>6. m \notin Table => e.period_blocked = FALSE
  BY DEF NewEntry
<1>7. e.busy => b
  OBVIOUS
<1> HIDE DEF e, b
<1>8. f \in Entry
  BY <1>1, <1>2, <1>3, SetByPacket
<1>9. /\ f.idle = e.idle /\ f.wait = e.wait /\ f.count = e.count
      /\ f.inactive = e.inactive
  BY <1>2 DEF Entry
<1>10. f.active = e.active /\ f.period_blocked = e.period_blocked /\ f.busy = b
  BY <1>2 DEF Entry
<1> HIDE DEF f
<1>11. SameButBusy(e, f)
  BY <1>7, <1>9, <1>10 DEF SameButBusy
<1> QED
  BY <1>4, <1>5, <1>6, <1>8, <1>10, <1>11, Zenon

\* af_client_hook2: the entry that has the address, if there is one.
LEMMA ClientHook2Writes ==
  ASSUME ClientsTypeOK, NEW ip \in Ip, ClientHook2(ip)
  PROVE  \E m \in Table : \E f \in Entry : /\ entry' = [entry EXCEPT ![m] = f]
                                           /\ SameButBusy(entry[m], f)
<1>1. PICK m \in FindByIp(ip) :
             entry' = [entry EXCEPT ![m].busy = entry[m].busy \/ m \in Heavy]
  BY DEF ClientHook2
<1>2. m \in Table /\ m \in Mac
  BY DEF FindByIp, Table
<1> DEFINE e == entry[m]
           b == entry[m].busy \/ m \in Heavy
           f == [e EXCEPT !.busy = b]
<1>3. e \in Entry
  BY <1>2, TableEntry
<1>4. b \in BOOLEAN
  OBVIOUS
<1>5. entry' = [entry EXCEPT ![m] = f]
  BY <1>1
<1>6. e.busy => b
  OBVIOUS
<1> HIDE DEF b
<1>7. f \in Entry
  BY <1>3, <1>4, SetFlag
<1>8. /\ f.idle = e.idle /\ f.wait = e.wait /\ f.count = e.count
      /\ f.inactive = e.inactive
  BY <1>3 DEF Entry
<1>9. f.active = e.active /\ f.period_blocked = e.period_blocked /\ f.busy = b
  BY <1>3 DEF Entry
<1> HIDE DEF f
<1>10. SameButBusy(e, f)
  BY <1>6, <1>8, <1>9 DEF SameButBusy
<1> QED
  BY <1>2, <1>5, <1>7, <1>10

\* The look-up of the gateway hook.
LEMMA LookupWrites ==
  ASSUME ClientsTypeOK, NEW c \in Cpu, NEW m \in Table, Lookup(c, m)
  PROVE  \E f \in Entry :
           /\ entry' = [entry EXCEPT ![m] = f]
           /\ f.idle = 0 /\ f.wait = entry[m].wait /\ f.count = entry[m].count
           /\ f.inactive = entry[m].inactive /\ f.active = entry[m].active
           /\ f.busy = entry[m].busy /\ f.period_blocked = entry[m].period_blocked
<1> DEFINE e == entry[m]
           f == [e EXCEPT !.idle = 0, !.lost = FALSE]
<1>1. m \in Mac
  BY DEF Table
<1>2. e \in Entry
  BY <1>1, TableEntry
<1>3. 0 \in 0 .. IdleLimit + 1
  BY TimesAssumption
<1>4. f \in Entry
  BY <1>2, <1>3, SetByLookup
<1>5. entry' = [entry EXCEPT ![m] = f]
  BY DEF Lookup
<1>6. /\ f.idle = 0 /\ f.wait = e.wait /\ f.count = e.count
      /\ f.inactive = e.inactive
  BY <1>2 DEF Entry
<1>7. f.active = e.active /\ f.period_blocked = e.period_blocked /\ f.busy = e.busy
  BY <1>2 DEF Entry
<1> HIDE DEF f
<1> QED
  BY <1>4, <1>5, <1>6, <1>7

\* A run of client_timer.
LEMMA ClientTimerWrites ==
  ASSUME ClientsTypeOK, NEW m \in Mac, ClientTimer(m)
  PROVE  \E f \in Entry :
           LET e == entry[m]
               u == UpdateClientStatus(e)
           IN  /\ entry' = [entry EXCEPT ![m] = f]
               /\ f.idle = e.idle /\ f.wait = TimerPeriod
               /\ f.count = IF e.count >= ReportTicks THEN 1 ELSE e.count + 1
               /\ f.inactive = u.inactive /\ f.active = u.active
               /\ f.period_blocked = e.period_blocked
<1> DEFINE e == entry[m]
           u == UpdateClientStatus(e)
           n == IF e.count >= ReportTicks THEN 1 ELSE e.count + 1
           f == [u EXCEPT !.count = n, !.wait = TimerPeriod]
<1>1. e \in Entry
  BY TableEntry DEF ClientTimer
<1>2. u \in Entry /\ u.count = e.count /\ u.idle = e.idle
      /\ u.period_blocked = e.period_blocked
  BY <1>1, StatusType
<1>3. ReportTicks \in Nat \ {0} /\ TimerPeriod \in 0 .. TimerPeriod
  BY ClientsAssumption
<1>4. n \in 0 .. ReportTicks
  BY <1>1, <1>3, Counters
<1>5. entry' = [entry EXCEPT ![m] = f]
  BY DEF ClientTimer
<1> HIDE DEF n, u
<1>6. f \in Entry
  BY <1>2, <1>3, <1>4, SetTimer
<1>7. f.idle = u.idle /\ f.wait = TimerPeriod /\ f.count = n /\ f.inactive = u.inactive
  BY <1>2 DEF Entry
<1>8. f.active = u.active /\ f.period_blocked = u.period_blocked
  BY <1>2 DEF Entry
<1> HIDE DEF f
<1> QED
  BY <1>2, <1>5, <1>6, <1>7, <1>8 DEF n, u

\* A command to blocked_macs.
LEMMA BlockedMacsWrites ==
  ASSUME ClientsTypeOK, NEW m \in Mac, NEW flag \in BOOLEAN, BlockedMacs(m, flag)
  PROVE  \E f \in Entry :
           LET e == entry[m]
           IN  /\ entry' = [entry EXCEPT ![m] = f]
               /\ f.idle = e.idle /\ f.wait = e.wait /\ f.count = e.count
               /\ f.inactive = e.inactive /\ f.active = e.active
               /\ f.busy = e.busy /\ f.period_blocked = flag
<1> DEFINE e == entry[m]
           f == [e EXCEPT !.period_blocked = flag]
<1>1. e \in Entry
  BY TableEntry DEF BlockedMacs
<1>2. f \in Entry
  BY <1>1, SetFlag
<1>3. entry' = [entry EXCEPT ![m] = f]
  BY DEF BlockedMacs
<1>4. /\ f.idle = e.idle /\ f.wait = e.wait /\ f.count = e.count
      /\ f.inactive = e.inactive
  BY <1>1 DEF Entry
<1>5. f.active = e.active /\ f.busy = e.busy /\ f.period_blocked = flag
  BY <1>1 DEF Entry
<1> HIDE DEF f
<1> QED
  BY <1>2, <1>3, <1>4, <1>5

\* check_client_expire frees one entry at most, because no two are at the
\* same place of the walk, and leaves the others as they are.
LEMMA ExpireFrees ==
  ASSUME ClientsTypeOK, CheckClientExpire
  PROVE  /\ entry' \in [Mac -> Entry \cup {NoEntry}]
         /\ Table' = Table \ ToFree
         /\ \A m \in Table' : entry'[m] = entry[m]
         /\ ToFree \subseteq Table
         /\ \A m, n \in ToFree : m = n
<1>1. entry' = [m \in Mac |-> IF m \in ToFree THEN NoEntry ELSE entry[m]]
  BY DEF CheckClientExpire
<1>2. entry' \in [Mac -> Entry \cup {NoEntry}]
  BY <1>1 DEF ClientsTypeOK
<1>3. ~NoEntry.present
  BY DEF NoEntry
<1>4. ToFree \subseteq Table
  BY DEF ToFree
<1>5. Table' = {m \in Mac : entry'[m].present} /\ Table = {m \in Mac : entry[m].present}
  BY DEF Table
<1>6. /\ \A m \in ToFree : m \in Mac /\ entry'[m] = NoEntry
      /\ \A m \in Mac \ ToFree : entry'[m] = entry[m]
  BY <1>1, <1>4, <1>5
<1>7. Table' = Table \ ToFree /\ \A m \in Table' : entry'[m] = entry[m]
  BY <1>3, <1>5, <1>6, Zenon
<1>8. ASSUME NEW m \in ToFree, NEW n \in ToFree
      PROVE  m = n
  <2>1. m \in Mac /\ n \in Mac /\ Rank[m] <= Rank[n] /\ Rank[n] <= Rank[m]
    BY DEF ToFree, Table
  <2>2. Rank[m] \in Nat /\ Rank[n] \in Nat /\ (Rank[m] = Rank[n] => m = n)
    BY <2>1, ClientsAssumption
  <2> QED
    BY <2>1, <2>2
<1> QED
  BY <1>2, <1>4, <1>7, <1>8

\* A second goes by.
LEMMA SecondAges ==
  ASSUME ClientsTypeOK, Second
  PROVE  /\ entry' \in [Mac -> Entry \cup {NoEntry}]
         /\ Table' = Table
         /\ \A m \in Table : /\ entry[m] \in Entry /\ entry[m].wait > 0
                             /\ entry'[m] = Aged(entry[m])
<1>1. entry' = [m \in Mac |-> IF m \in Table THEN Aged(entry[m]) ELSE NoEntry]
  BY DEF Second
<1>2. \A m \in Table : m \in Mac /\ entry[m] \in Entry /\ entry[m].wait > 0
  BY TableEntry DEF Second, Table
<1>3. \A m \in Table : Aged(entry[m]) \in Entry
  BY <1>2, AgedType
<1>4. entry' \in [Mac -> Entry \cup {NoEntry}]
  BY <1>1, <1>3
<1>5. /\ \A m \in Table : entry'[m] = Aged(entry[m])
      /\ \A m \in Mac \ Table : entry'[m] = NoEntry
  BY <1>1, <1>2
<1>6. Table' = {m \in Mac : entry'[m].present}
  BY DEF Table
<1>7. \A m \in Table : Aged(entry[m]).present
  BY <1>3, Flags
<1>8. ~NoEntry.present
  BY DEF NoEntry
<1>9. Table' = Table
  BY <1>2, <1>5, <1>6, <1>7, <1>8, Zenon
<1> QED
  BY <1>2, <1>4, <1>5, <1>9

-----------------------------------------------------------------------------
(* Types.                                                                  *)

HookStates ==
  [pc : {"idle", "filter", "using"}, mac : Mac \cup {NoMac},
   client : Mac \cup {NoMac}, age : 0 .. HookSeconds]

\* What the steps of the two hooks make of a packet's record.
LEMMA HookTypes ==
  ASSUME NEW h \in HookStates, NEW m \in Mac
  PROVE  /\ Idle \in HookStates
         /\ [pc |-> "filter", mac |-> m, client |-> NoMac, age |-> 0] \in HookStates
         /\ [h EXCEPT !.pc = "using", !.client = m] \in HookStates
         /\ h.age < HookSeconds => [h EXCEPT !.age = @ + 1] \in HookStates
<1>1. HookSeconds \in Nat
  BY TimesAssumption
<1>2. h.age \in 0 .. HookSeconds
  BY DEF HookStates
<1>3. h.age < HookSeconds => h.age + 1 \in 0 .. HookSeconds
  BY <1>1, <1>2
<1>4. /\ Idle \in HookStates
      /\ [pc |-> "filter", mac |-> m, client |-> NoMac, age |-> 0] \in HookStates
  BY <1>1 DEF HookStates, Idle
<1>5. [h EXCEPT !.pc = "using", !.client = m] \in HookStates
  BY DEF HookStates
<1>6. h.age < HookSeconds => [h EXCEPT !.age = @ + 1] \in HookStates
  BY <1>3 DEF HookStates
<1> QED
  BY <1>4, <1>5, <1>6

\* The initial state has the types of the C objects.
LEMMA TypeInit == Init => ClientsTypeOK
<1> SUFFICES ASSUME Init PROVE ClientsTypeOK
  OBVIOUS
<1>1. HookSeconds \in Nat /\ CheckPeriod \in Nat \ {0} /\ WrapIn \in Nat
  BY ClientsAssumption, TimesAssumption
<1>2. /\ second \in 0 .. CheckPeriod - 1 /\ toWrap \in 0 .. WrapIn
  BY <1>1 DEF Init
<1>3. entry \in [Mac -> Entry \cup {NoEntry}] /\ addr \in [Mac -> Ip \cup {NoIp}]
  BY DEF Init
<1>4. hook \in [Cpu -> HookStates]
  BY <1>1 DEF Init, Idle, HookStates
<1> QED
  BY <1>2, <1>3, <1>4 DEF Init, ClientsTypeOK, HookStates

\* Every step keeps them.
LEMMA TypeStep == ClientsTypeOK /\ [Next]_clientVars => ClientsTypeOK'
<1> SUFFICES ASSUME ClientsTypeOK, [Next]_clientVars
             PROVE  ClientsTypeOK'
  OBVIOUS
<1> DEFINE Entries == [Mac -> Entry \cup {NoEntry}]
<1>1. /\ entry \in Entries /\ addr \in [Mac -> Ip \cup {NoIp}]
      /\ hook \in [Cpu -> HookStates]
      /\ second \in 0 .. CheckPeriod - 1 /\ due \in BOOLEAN /\ toWrap \in 0 .. WrapIn
      /\ dangling \subseteq Cpu /\ owed \subseteq Mac
  BY DEF ClientsTypeOK, HookStates
<1> SUFFICES /\ entry' \in Entries /\ addr' \in [Mac -> Ip \cup {NoIp}]
             /\ hook' \in [Cpu -> HookStates]
             /\ second' \in 0 .. CheckPeriod - 1 /\ due' \in BOOLEAN
             /\ toWrap' \in 0 .. WrapIn
             /\ dangling' \subseteq Cpu /\ owed' \subseteq Mac
  BY DEF ClientsTypeOK, HookStates
<1>2. ASSUME NEW c \in Cpu, NEW m \in Mac, NEW heavy \in BOOLEAN, ClientHook(c, m, heavy)
      PROVE  entry' \in Entries /\ hook' \in [Cpu -> HookStates]
  BY <1>1, <1>2, ClientHookWrites, SetEntry, HookTypes DEF ClientHook
<1>3. ASSUME NEW c \in Cpu, NEW m \in Mac, ClientHookNoMemory(c, m)
      PROVE  hook' \in [Cpu -> HookStates]
  BY <1>1, <1>3, HookTypes DEF ClientHookNoMemory
<1>4. ASSUME NEW c \in Cpu, GatewayHook(c)
      PROVE  /\ entry' \in Entries /\ hook' \in [Cpu -> HookStates] /\ owed' \subseteq Mac
  <2>1. PICK f \in FindByIp(addr[hook[c].mac]) : Lookup(c, f)
    BY <1>4 DEF GatewayHook
  <2>2. f \in Table /\ f \in Mac
    BY DEF FindByIp, Table
  <2>3. entry' \in Entries
    BY <2>1, <2>2, LookupWrites, SetEntry
  <2>4. hook' = [hook EXCEPT ![c] = [hook[c] EXCEPT !.pc = "using", !.client = f]]
    BY <1>1, <2>1 DEF Lookup
  <2>5. hook' \in [Cpu -> HookStates]
    BY <1>1, <2>2, <2>4, HookTypes
  <2>6. owed' \subseteq Mac
    BY <1>1, <2>1, <2>2 DEF Lookup
  <2> QED
    BY <2>3, <2>5, <2>6
<1>5. ASSUME NEW c \in Cpu, GatewayAccept(c) \/ HookEnds(c)
      PROVE  hook' \in [Cpu -> HookStates] /\ dangling' \subseteq Cpu
  <2>1. Idle \in HookStates
    BY TimesAssumption DEF Idle, HookStates
  <2> QED
    BY <1>1, <1>5, <2>1 DEF GatewayAccept, HookEnds
<1>6. ASSUME NEW ip \in Ip, ClientHook2(ip)
      PROVE  entry' \in Entries
  BY <1>6, ClientHook2Writes, SetEntry DEF Table
<1>7. ASSUME NEW m \in Mac, ClientTimer(m)
      PROVE  entry' \in Entries /\ owed' \subseteq Mac
  <2>1. entry' \in Entries
    BY <1>7, ClientTimerWrites, SetEntry
  <2>2. owed' \subseteq owed
    BY <1>7 DEF ClientTimer
  <2> QED
    BY <1>1, <2>1, <2>2
<1>8. ASSUME OafTimer
      PROVE  /\ entry' \in Entries /\ second' \in 0 .. CheckPeriod - 1
             /\ dangling' \subseteq Cpu /\ due' = FALSE
  <2>1. second' \in 0 .. CheckPeriod - 1
    BY <1>1, <1>8, ClientsAssumption DEF OafTimer
  <2>2. entry' \in Entries /\ dangling' \subseteq Cpu
    BY <1>1, <1>8, ExpireFrees DEF OafTimer, CheckClientExpire
  <2> QED
    BY <1>8, <2>1, <2>2 DEF OafTimer
<1>9. ASSUME Second
      PROVE  /\ entry' \in Entries /\ hook' \in [Cpu -> HookStates]
             /\ toWrap' \in 0 .. WrapIn /\ due' = TRUE
  <2>1. entry' \in Entries /\ due' = TRUE
    BY <1>9, SecondAges DEF Second
  <2>2. toWrap' \in 0 .. WrapIn
    BY <1>1, <1>9, ClientsAssumption DEF Second
  <2>3. Idle \in HookStates
    BY TimesAssumption DEF Idle, HookStates
  <2>4. \A c \in Cpu : hook[c].pc # "idle"
                         => [hook[c] EXCEPT !.age = @ + 1] \in HookStates
    <3> TAKE c \in Cpu
    <3> HAVE hook[c].pc # "idle"
    <3>1. hook[c] \in HookStates /\ hook[c].age < HookSeconds
      BY <1>1, <1>9 DEF Second
    <3>2. HookSeconds \in Nat
      BY TimesAssumption
    <3> QED
      BY <3>1, <3>2 DEF HookStates
  <2>5. hook' \in [Cpu -> HookStates]
    BY <1>1, <1>9, <2>3, <2>4 DEF Second
  <2> QED
    BY <2>1, <2>2, <2>5
<1>10. ASSUME NEW m \in Limited, NEW flag \in BOOLEAN, BlockedMacs(m, flag)
       PROVE  entry' \in Entries
  BY <1>10, ClientsAssumption, BlockedMacsWrites, SetEntry
<1>11. ASSUME NEW m \in Mac, NEW ip \in Lease[m] \cup {NoIp}, Renumber(m, ip)
       PROVE  addr' \in [Mac -> Ip \cup {NoIp}]
  <2>1. ip \in Ip \cup {NoIp}
    BY ClientsAssumption
  <2> QED
    BY <1>1, <1>11, <2>1 DEF Renumber
<1>12. CASE UNCHANGED clientVars
  BY <1>1, <1>12 DEF clientVars
<1> HIDE DEF Entries
<1>13. CASE \E c \in Cpu : Packets(c)
  <2>1. PICK c \in Cpu : Packets(c)
    BY <1>13
  <2>2. CASE \E m \in Mac, heavy \in BOOLEAN : ClientHook(c, m, heavy)
    BY <1>1, <1>2, <2>2 DEF ClientHook
  <2>3. CASE \E m \in Mac : ClientHookNoMemory(c, m)
    BY <1>1, <1>3, <2>3 DEF ClientHookNoMemory
  <2>4. CASE GatewayHook(c)
    BY <1>1, <1>4, <2>4 DEF GatewayHook
  <2>5. CASE GatewayAccept(c) \/ HookEnds(c)
    BY <1>1, <1>5, <2>5 DEF GatewayAccept, HookEnds
  <2> QED
    BY <2>1, <2>2, <2>3, <2>4, <2>5, HeavyType DEF Packets
<1>14. CASE \E ip \in Ip : ClientHook2(ip)
  BY <1>1, <1>6, <1>14 DEF ClientHook2
<1>15. CASE Clock
  <2>1. CASE \E m \in Mac : ClientTimer(m)
    BY <1>1, <1>7, <2>1 DEF ClientTimer
  <2>2. CASE OafTimer
    BY <1>1, <1>8, <2>2 DEF OafTimer
  <2>3. CASE Second
    BY <1>1, <1>9, <2>3 DEF Second
  <2> QED
    BY <1>15, <2>1, <2>2, <2>3 DEF Clock
<1>16. CASE \E m \in Limited, flag \in BOOLEAN : BlockedMacs(m, flag)
  BY <1>1, <1>10, <1>16 DEF BlockedMacs
<1>17. CASE \E m \in Mac : \E ip \in Lease[m] \cup {NoIp} : Renumber(m, ip)
  BY <1>1, <1>11, <1>17 DEF Renumber
<1> QED
  BY <1>12, <1>13, <1>14, <1>15, <1>16, <1>17 DEF Next

\* Every variable always has the type of the C object it stands for: the
\* actions that write entries (af_client.c) and the two timers keep each
\* counter within the limit it has in the code.
THEOREM TypeCorrect == Spec => []ClientsTypeOK
BY TypeInit, TypeStep, PTL DEF Spec

-----------------------------------------------------------------------------
(* No use after free.  The lock says nothing about it: the hook keeps the  *)
(* pointer when it releases af_client_lock.  What keeps the entry is that  *)
(* it has been idle no longer than the packet has been under way.          *)

\* A processor points to an entry of the table exactly while it uses it, and
\* the entry is no older than the packet.
HookHoldsEntry(c) ==
  IF hook[c].pc = "using"
  THEN hook[c].client \in Table /\ entry[hook[c].client].idle <= hook[c].age
  ELSE hook[c].client = NoMac

\* With jiffies of 64 bits, nothing is freed but what is idle for too long.
HooksSafe ==
  /\ toWrap = 0
  /\ \A c \in Cpu : HookHoldsEntry(c)
  /\ dangling = {}

\* Nothing that a hook holds is expired.
LEMMA HeldNotExpired ==
  ASSUME ClientsTypeOK, HooksSafe, NEW c \in Cpu
  PROVE  hook[c].client \notin ToFree
<1>1. hook[c].age \in Nat /\ hook[c].age <= HookSeconds
  <2>1. hook[c].age \in 0 .. HookSeconds
    BY DEF ClientsTypeOK
  <2> QED
    BY <2>1, TimesAssumption
<1>2. CASE hook[c].pc = "using"
  <2> DEFINE m == hook[c].client
  <2>1. m \in Table /\ m \in Mac /\ entry[m].idle <= hook[c].age
    BY <1>2 DEF HooksSafe, HookHoldsEntry, Table
  <2>2. entry[m].idle \in Nat
    BY <2>1, TableEntry, Counters
  <2>3. ~Expired(entry[m])
    BY <1>1, <2>1, <2>2, TimesAssumption DEF Expired, HooksSafe
  <2> QED
    BY <2>3 DEF ToFree
<1>3. CASE hook[c].pc # "using"
  BY <1>3, ClientsAssumption DEF HooksSafe, HookHoldsEntry, ToFree, Table
<1> QED
  BY <1>2, <1>3

\* The invariant is inductive.
LEMMA HooksSafeStep == ClientsTypeOK /\ HooksSafe /\ [Next]_clientVars => HooksSafe'
<1> SUFFICES ASSUME ClientsTypeOK, HooksSafe, [Next]_clientVars
             PROVE  HooksSafe'
  OBVIOUS
<1>1. /\ toWrap = 0 /\ dangling = {} /\ hook \in [Cpu -> HookStates]
      /\ \A c \in Cpu : HookHoldsEntry(c)
  BY DEF HooksSafe, ClientsTypeOK, HookStates
\* What holds of every processor when its record is left alone: the table
\* keeps the entries that are held, and no entry in it gets older.
<1>2. ASSUME NEW c \in Cpu, hook'[c] = hook[c],
             \A m \in Table : /\ m = hook[c].client => m \in Table'
                              /\ m \in Table' => entry'[m].idle \in {0, entry[m].idle}
      PROVE  HookHoldsEntry(c)'
  <2>1. CASE hook[c].pc = "using"
    <3> DEFINE m == hook[c].client
    <3>1. m \in Table /\ entry[m].idle <= hook[c].age
      BY <1>1, <2>1 DEF HookHoldsEntry
    <3>2. m \in Table' /\ entry'[m].idle \in {0, entry[m].idle}
      BY <1>2, <3>1
    <3>3. entry[m].idle \in Nat /\ hook[c].age \in Nat
      <4>1. hook[c].age \in 0 .. HookSeconds
        BY <1>1 DEF HookStates
      <4> QED
        BY <3>1, <4>1, TableEntry, Counters, TimesAssumption DEF Table
    <3> QED
      BY <1>2, <2>1, <3>1, <3>2, <3>3 DEF HookHoldsEntry
  <2>2. CASE hook[c].pc # "using"
    BY <1>1, <1>2, <2>2 DEF HookHoldsEntry
  <2> QED
    BY <2>1, <2>2
\* The record of a processor is changed, others and the table are not.
<1>3. ASSUME NEW c \in Cpu, NEW h, hook' = [hook EXCEPT ![c] = h],
             h.pc # "using", h.client = NoMac, UNCHANGED entry
      PROVE  \A d \in Cpu : HookHoldsEntry(d)'
  <2> TAKE d \in Cpu
  <2>1. Table' = Table
    BY <1>3 DEF Table
  <2>2. CASE d = c
    BY <1>1, <1>3, <2>2 DEF HookHoldsEntry
  <2>3. CASE d # c
    BY <1>1, <1>2, <1>3, <2>1, <2>3
  <2> QED
    BY <2>2, <2>3
\* One entry is written and does not get older.
<1>4. ASSUME UNCHANGED hook, NEW m \in Mac, NEW f \in Entry,
             entry' = [entry EXCEPT ![m] = f],
             m \in Table => f.idle \in {0, entry[m].idle}
      PROVE  \A d \in Cpu : HookHoldsEntry(d)'
  <2>1. /\ Table' = Table \cup {m} /\ entry'[m] = f
        /\ \A n \in Mac : n # m => entry'[n] = entry[n]
    BY <1>4, SetEntry
  <2>2. Table \subseteq Mac
    BY DEF Table
  <2> QED
    BY <1>2, <1>4, <2>1, <2>2
<1>5. ASSUME NEW c \in Cpu, NEW m \in Mac, NEW heavy \in BOOLEAN, ClientHook(c, m, heavy)
      PROVE  HooksSafe'
  <2>1. PICK f \in Entry : /\ entry' = [entry EXCEPT ![m] = f]
                           /\ m \in Table => SameButBusy(entry[m], f)
    BY <1>5, ClientHookWrites
  <2>2. /\ Table' = Table \cup {m} /\ entry'[m] = f
        /\ \A n \in Mac : n # m => entry'[n] = entry[n]
    BY <2>1, SetEntry
  <2>3. Table \subseteq Mac
    BY DEF Table
  <2>4. ASSUME NEW d \in Cpu PROVE HookHoldsEntry(d)'
    <3>1. CASE d = c
      BY <1>1, <1>5, <3>1 DEF ClientHook, HookHoldsEntry
    <3>2. CASE d # c
      <4>1. hook'[d] = hook[d]
        BY <1>1, <1>5, <3>2 DEF ClientHook
      <4> QED
        BY <1>2, <2>1, <2>2, <2>3, <4>1 DEF SameButBusy
    <3> QED
      BY <3>1, <3>2
  <2> QED
    BY <1>1, <1>5, <2>4 DEF ClientHook, HooksSafe
<1>6. ASSUME NEW c \in Cpu, NEW m \in Mac, ClientHookNoMemory(c, m)
      PROVE  HooksSafe'
  <2> DEFINE h == [pc |-> "filter", mac |-> m, client |-> NoMac, age |-> 0]
  <2>1. hook' = [hook EXCEPT ![c] = h] /\ UNCHANGED entry
    BY <1>6 DEF ClientHookNoMemory
  <2>2. h.pc # "using" /\ h.client = NoMac
    OBVIOUS
  <2> HIDE DEF h
  <2>3. \A d \in Cpu : HookHoldsEntry(d)'
    BY <1>3, <2>1, <2>2
  <2> QED
    BY <1>1, <1>6, <2>3 DEF ClientHookNoMemory, HooksSafe
<1>7. ASSUME NEW c \in Cpu, GatewayHook(c)
      PROVE  HooksSafe'
  <2>1. PICK m \in FindByIp(addr[hook[c].mac]) : Lookup(c, m)
    BY <1>7 DEF GatewayHook
  <2>2. m \in Table /\ m \in Mac /\ Table \subseteq Mac
    BY DEF FindByIp, Table
  <2>3. PICK f \in Entry : entry' = [entry EXCEPT ![m] = f] /\ f.idle = 0
    BY <2>1, <2>2, LookupWrites
  <2>4. /\ Table' = Table \cup {m} /\ entry'[m] = f
        /\ \A n \in Mac : n # m => entry'[n] = entry[n]
    BY <2>2, <2>3, SetEntry
  <2>5. ASSUME NEW d \in Cpu PROVE HookHoldsEntry(d)'
    <3>1. CASE d = c
      <4>1. hook'[c] = [hook[c] EXCEPT !.pc = "using", !.client = m]
        BY <1>1, <2>1 DEF Lookup
      <4>2. /\ hook'[c].pc = "using" /\ hook'[c].client = m
            /\ hook'[c].age \in 0 .. HookSeconds
        BY <1>1, <4>1 DEF HookStates
      <4>3. 0 <= hook'[c].age
        BY <4>2, TimesAssumption
      <4> QED
        BY <2>2, <2>3, <2>4, <3>1, <4>2, <4>3 DEF HookHoldsEntry
    <3>2. CASE d # c
      <4>1. hook'[d] = hook[d]
        BY <1>1, <2>1, <3>2 DEF Lookup
      <4> QED
        BY <1>2, <2>2, <2>3, <2>4, <4>1
    <3> QED
      BY <3>1, <3>2
  <2> QED
    BY <1>1, <1>7, <2>5 DEF GatewayHook, HooksSafe
<1>8. ASSUME NEW c \in Cpu, GatewayAccept(c) \/ HookEnds(c)
      PROVE  HooksSafe'
  <2>1. hook' = [hook EXCEPT ![c] = Idle] /\ UNCHANGED entry
    BY <1>8 DEF GatewayAccept, HookEnds
  <2>2. Idle.pc # "using" /\ Idle.client = NoMac
    BY DEF Idle
  <2>3. \A d \in Cpu : HookHoldsEntry(d)'
    BY <1>3, <2>1, <2>2
  <2> QED
    BY <1>1, <1>8, <2>3 DEF GatewayAccept, HookEnds, HooksSafe
<1>9. ASSUME NEW ip \in Ip, ClientHook2(ip)
      PROVE  HooksSafe'
  <2>1. \A d \in Cpu : HookHoldsEntry(d)'
    <3>1. PICK m \in Table : \E f \in Entry : /\ entry' = [entry EXCEPT ![m] = f]
                                              /\ SameButBusy(entry[m], f)
      BY <1>9, ClientHook2Writes
    <3>2. m \in Mac /\ UNCHANGED hook
      BY <1>9 DEF Table, ClientHook2
    <3> QED
      BY <1>4, <3>1, <3>2 DEF SameButBusy
  <2> QED
    BY <1>1, <1>9, <2>1 DEF ClientHook2, HooksSafe
<1>10. ASSUME NEW m \in Mac, ClientTimer(m)
       PROVE  HooksSafe'
  <2>1. PICK f \in Entry : entry' = [entry EXCEPT ![m] = f] /\ f.idle = entry[m].idle
    BY <1>10, ClientTimerWrites
  <2>2. \A d \in Cpu : HookHoldsEntry(d)'
    BY <1>4, <1>10, <2>1 DEF ClientTimer
  <2> QED
    BY <1>1, <1>10, <2>2 DEF ClientTimer, HooksSafe
<1>11. ASSUME OafTimer
       PROVE  HooksSafe'
  <2>1. CASE UNCHANGED <<entry, dangling>>
    <3>1. UNCHANGED <<entry, hook, toWrap, dangling>> /\ Table' = Table
      BY <1>11, <2>1 DEF OafTimer, Table
    <3>2. ASSUME NEW d \in Cpu PROVE HookHoldsEntry(d)'
      BY <1>1, <1>2, <3>1
    <3> QED
      BY <1>1, <3>1, <3>2 DEF HooksSafe
  <2>2. CASE CheckClientExpire
    <3>1. Table' = Table \ ToFree /\ \A m \in Table' : entry'[m] = entry[m]
      BY <2>2, ExpireFrees
    <3>2. UNCHANGED <<hook, toWrap>>
      BY <1>11 DEF OafTimer
    <3>3. ASSUME NEW d \in Cpu PROVE HookHoldsEntry(d)'
      BY <1>1, <1>2, <3>1, <3>2, HeldNotExpired
    <3>4. dangling' = {}
      BY <1>1, <2>2, HeldNotExpired DEF CheckClientExpire
    <3> QED
      BY <1>1, <3>2, <3>3, <3>4 DEF HooksSafe
  <2> QED
    BY <1>11, <2>1, <2>2 DEF OafTimer
<1>12. ASSUME Second
       PROVE  HooksSafe'
  <2>1. /\ Table' = Table
        /\ \A m \in Table : entry[m] \in Entry /\ entry'[m].idle <= entry[m].idle + 1
                            /\ entry'[m] \in Entry
    BY <1>12, SecondAges, AgedType
  <2>2. ASSUME NEW d \in Cpu PROVE HookHoldsEntry(d)'
    <3>1. CASE hook[d].pc = "using"
      <4> DEFINE m == hook[d].client
      <4>1. m \in Table /\ entry[m].idle <= hook[d].age
        BY <1>1, <3>1 DEF HookHoldsEntry
      <4>2. hook'[d] = [hook[d] EXCEPT !.age = @ + 1]
        BY <1>1, <1>12, <3>1 DEF Second
      <4>3. hook'[d].pc = "using" /\ hook'[d].client = m /\ hook'[d].age = hook[d].age + 1
        BY <1>1, <3>1, <4>2 DEF HookStates
      <4>4. hook[d].age \in Nat
        <5>1. hook[d].age \in 0 .. HookSeconds
          BY <1>1 DEF HookStates
        <5> QED
          BY <5>1, TimesAssumption
      <4>5. entry'[m].idle <= hook'[d].age
        BY <2>1, <4>1, <4>3, <4>4, Counters
      <4> QED
        BY <2>1, <4>1, <4>3, <4>5 DEF HookHoldsEntry
    <3>2. CASE hook[d].pc # "using"
      <4>1. hook[d].client = NoMac
        BY <1>1, <3>2 DEF HookHoldsEntry
      <4>2. hook'[d] = Idle \/ hook'[d] = [hook[d] EXCEPT !.age = @ + 1]
        BY <1>12 DEF Second
      <4>3. hook'[d].pc # "using" /\ hook'[d].client = NoMac
        BY <1>1, <3>2, <4>1, <4>2 DEF HookStates, Idle
      <4> QED
        BY <4>3 DEF HookHoldsEntry
    <3> QED
      BY <3>1, <3>2
  <2>3. toWrap' = 0 /\ dangling' = {}
    BY <1>1, <1>12 DEF Second
  <2> QED
    BY <2>2, <2>3 DEF HooksSafe
<1>13. ASSUME NEW m \in Limited, NEW flag \in BOOLEAN, BlockedMacs(m, flag)
       PROVE  HooksSafe'
  <2>1. m \in Mac
    BY ClientsAssumption
  <2>2. PICK f \in Entry : entry' = [entry EXCEPT ![m] = f] /\ f.idle = entry[m].idle
    BY <1>13, <2>1, BlockedMacsWrites
  <2>3. \A d \in Cpu : HookHoldsEntry(d)'
    BY <1>4, <1>13, <2>1, <2>2 DEF BlockedMacs
  <2> QED
    BY <1>1, <1>13, <2>3 DEF BlockedMacs, HooksSafe
<1>14. CASE UNCHANGED <<entry, hook, toWrap, dangling>>
  BY <1>14 DEF HooksSafe, HookHoldsEntry, Table
<1>15. ASSUME NEW m \in Mac, NEW ip \in Lease[m] \cup {NoIp}, Renumber(m, ip)
       PROVE  HooksSafe'
  BY <1>14, <1>15 DEF Renumber
<1>16. UNCHANGED clientVars => HooksSafe'
  BY <1>14 DEF clientVars
<1> QED
  BY <1>5, <1>6, <1>7, <1>8, <1>9, <1>10, <1>11, <1>12, <1>13, <1>15, <1>16, HeavyType
     DEF Next, Packets, Clock

\* While a hook of app_filter.c uses a client entry without the lock, nobody
\* frees the entry, whatever the devices, processors and packets: a packet
\* is handled in less than the 90 seconds an entry must be idle.  The
\* theorem is about jiffies of 64 bits, which do not overflow.
THEOREM NoUseAfterFree ==
  ASSUME WrapIn = 0
  PROVE  Spec => []NoClientUseAfterFree
<1>1. Init => HooksSafe
  BY DEF Init, HooksSafe, HookHoldsEntry, Idle
<1>2. HooksSafe => NoClientUseAfterFree
  BY DEF HooksSafe, NoClientUseAfterFree
<1> QED
  BY <1>1, <1>2, TypeCorrect, HooksSafeStep, PTL DEF Spec

-----------------------------------------------------------------------------
(* Reports.  An entry whose activity oafd must still be told lives until   *)
(* the report, and is active in it.                                        *)

\* Runs of client_timer that the entry is ahead of the next report: none if
\* that report comes while active is not set yet, and is for nothing.
Credit(e) == IF ~e.active /\ e.count >= ReportTicks THEN 0 ELSE e.count

\* The quiet runs counted are fewer than the runs since the last report, and
\* the next run that reports comes before the entry is idle for too long.
WillReport(e) ==
  /\ ~e.busy => e.active /\ e.inactive < e.count
  /\ e.idle + e.wait + TimerPeriod * ReportTicks <= IdleLimit + TimerPeriod * Credit(e)

ReportsComing == \A m \in owed : m \in Table /\ WillReport(entry[m])

\* The arithmetic of the periods.
LEMMA Periods ==
  ASSUME NEW n \in Nat, n <= ReportTicks
  PROVE  /\ TimerPeriod \in Nat /\ TimerPeriod * ReportTicks \in Nat
         /\ TimerPeriod * n \in Nat
         /\ TimerPeriod * n <= TimerPeriod * ReportTicks
         /\ TimerPeriod * (n + 1) = TimerPeriod * n + TimerPeriod
         /\ TimerPeriod * 0 = 0 /\ TimerPeriod * 1 = TimerPeriod
         /\ TimerPeriod * ReportTicks + TimerPeriod <= IdleLimit
<1>1. /\ TimerPeriod \in Nat /\ ReportTicks \in Nat /\ IdleLimit \in Nat
      /\ TimerPeriod * (ReportTicks + 1) <= IdleLimit
  BY ClientsAssumption, TimesAssumption
<1>2. TimerPeriod * (ReportTicks + 1) = TimerPeriod * ReportTicks + TimerPeriod
  BY <1>1
<1>3. TimerPeriod * n <= TimerPeriod * ReportTicks
  <2>1. PICK k \in Nat : ReportTicks = n + k
    <3>1. ReportTicks - n \in Nat /\ ReportTicks = n + (ReportTicks - n)
      BY <1>1
    <3> QED
      BY <3>1
  <2>2. TimerPeriod * (n + k) = TimerPeriod * n + TimerPeriod * k
    BY <1>1, <2>1
  <2>3. TimerPeriod * k \in Nat /\ TimerPeriod * n \in Nat
    BY <1>1, <2>1
  <2> QED
    BY <2>1, <2>2, <2>3
<1> QED
  BY <1>1, <1>2, <1>3

\* An entry that will report is not idle for too long.
LEMMA ReportsInTime ==
  ASSUME NEW e \in Entry, WillReport(e)
  PROVE  e.idle <= IdleLimit
<1> DEFINE a == TimerPeriod * ReportTicks
           b == TimerPeriod * Credit(e)
<1>1. e.idle \in Nat /\ e.wait \in Nat /\ e.count \in Nat /\ e.count <= ReportTicks
  BY Counters
<1>2. Credit(e) \in Nat /\ Credit(e) <= ReportTicks
  BY <1>1, ClientsAssumption DEF Credit
<1>3. a \in Nat /\ b \in Nat /\ b <= a /\ IdleLimit \in Nat
  BY <1>2, Periods, TimesAssumption
<1>4. e.idle + e.wait + a <= IdleLimit + b
  BY DEF WillReport
<1> HIDE DEF a, b
<1> QED
  BY <1>1, <1>3, <1>4

\* More packets, the look-up and blocked_macs do not keep it from reporting.
LEMMA StillReports ==
  ASSUME NEW e \in Entry, WillReport(e), NEW f \in Entry,
         f.idle = 0 \/ f.idle = e.idle, f.wait = e.wait, f.count = e.count,
         f.inactive = e.inactive, f.active = e.active, e.busy => f.busy
  PROVE  WillReport(f)
<1> DEFINE a == TimerPeriod * ReportTicks
           b == TimerPeriod * Credit(e)
<1>1. e.idle \in Nat /\ e.wait \in Nat /\ e.count \in Nat /\ e.count <= ReportTicks
  BY Counters
<1>2. Credit(e) \in Nat /\ Credit(e) <= ReportTicks
  BY <1>1, ClientsAssumption DEF Credit
<1>3. a \in Nat /\ b \in Nat /\ IdleLimit \in Nat
  BY <1>2, Periods, TimesAssumption
<1>4. e.idle + e.wait + a <= IdleLimit + b
  BY DEF WillReport
<1>5. Credit(f) = Credit(e)
  BY DEF Credit
<1>6. f.idle + f.wait + a <= IdleLimit + b
  <2> HIDE DEF a, b
  <2> QED
    BY <1>1, <1>3, <1>4
<1>7. ~f.busy => f.active /\ f.inactive < f.count
  BY DEF WillReport
<1> QED
  BY <1>5, <1>6, <1>7 DEF WillReport

\* Traffic that the look-up of the gateway hook sees will be reported.
LEMMA SeenReports ==
  ASSUME NEW f \in Entry, f.idle = 0, f.busy
  PROVE  WillReport(f)
<1> DEFINE a == TimerPeriod * ReportTicks
           b == TimerPeriod * Credit(f)
<1>1. f.wait \in Nat /\ f.wait <= TimerPeriod /\ f.count \in Nat /\ f.count <= ReportTicks
  BY Counters
<1>2. Credit(f) \in Nat /\ Credit(f) <= ReportTicks
  BY <1>1, ClientsAssumption DEF Credit
<1>3. a \in Nat /\ b \in Nat /\ IdleLimit \in Nat /\ TimerPeriod \in Nat
      /\ a + TimerPeriod <= IdleLimit
  BY <1>2, Periods, TimesAssumption
<1>4. f.idle + f.wait + a <= IdleLimit + b
  <2> HIDE DEF a, b
  <2> QED
    BY <1>1, <1>3
<1> QED
  BY <1>4 DEF WillReport

\* A run of client_timer that does not report the activity leaves the report
\* to come: either no report is due, or active was not set yet.
LEMMA TimerReports ==
  ASSUME NEW e \in Entry, WillReport(e), e.wait = 0, NEW f \in Entry,
         ~(e.count >= ReportTicks /\ e.active),
         f.idle = e.idle, f.wait = TimerPeriod,
         f.count = IF e.count >= ReportTicks THEN 1 ELSE e.count + 1,
         f.inactive = UpdateClientStatus(e).inactive,
         f.active = UpdateClientStatus(e).active
  PROVE  WillReport(f)
<1> DEFINE a == TimerPeriod * ReportTicks
           b == TimerPeriod * Credit(e)
<1>1. /\ e.idle \in Nat /\ e.count \in Nat /\ e.count <= ReportTicks
      /\ e.inactive \in Nat
  BY Counters
<1>2. ReportTicks \in Nat \ {0} /\ InactiveTicks \in Nat /\ ReportTicks <= InactiveTicks
      /\ TimerPeriod \in Nat /\ IdleLimit \in Nat
  BY ClientsAssumption, TimesAssumption
<1>3. e.idle + a <= IdleLimit + b
  <2>1. e.idle + e.wait + a <= IdleLimit + b
    BY DEF WillReport
  <2>2. e.idle + e.wait = e.idle
    BY <1>1
  <2> QED
    BY <2>1, <2>2
\* The flag is set in the report that comes next.
<1>4. f.active /\ f.inactive < f.count
  <2>1. CASE e.busy
    <3>1. UpdateClientStatus(e) = [e EXCEPT !.busy = FALSE, !.inactive = 0, !.active = TRUE]
      BY <2>1 DEF UpdateClientStatus
    <3>2. UpdateClientStatus(e).inactive = 0 /\ UpdateClientStatus(e).active
      BY <3>1 DEF Entry
    <3>3. f.count > 0
      BY <1>1, <1>2
    <3> QED
      BY <1>1, <3>2, <3>3
  <2>2. CASE ~e.busy
    <3>1. e.active /\ e.inactive < e.count
      BY <2>2 DEF WillReport
    <3>2. e.count < ReportTicks /\ f.count = e.count + 1
      BY <1>1, <1>2, <3>1
    <3>3. e.inactive + 1 <= InactiveTicks
      BY <1>1, <1>2, <3>1, <3>2
    <3>4. UpdateClientStatus(e) = [e EXCEPT !.inactive = e.inactive + 1, !.active = TRUE]
      BY <2>2, <3>1, <3>3 DEF UpdateClientStatus
    <3>5. UpdateClientStatus(e).inactive = e.inactive + 1 /\ UpdateClientStatus(e).active
      BY <3>4 DEF Entry
    <3>6. f.inactive < f.count
      BY <1>1, <3>1, <3>2, <3>5
    <3> QED
      BY <3>5, <3>6
  <2> QED
    BY <2>1, <2>2
<1>5. TimerPeriod * Credit(f) = b + TimerPeriod /\ b \in Nat
  <2>1. Credit(f) = f.count
    BY <1>4 DEF Credit
  <2>2. CASE e.count >= ReportTicks
    <3>1. Credit(e) = 0 /\ f.count = 1
      BY <2>2 DEF Credit
    <3>2. b = 0
      BY <1>2, <3>1
    <3>3. TimerPeriod * 1 = TimerPeriod
      BY <1>2
    <3> QED
      BY <1>2, <2>1, <3>1, <3>2, <3>3
  <2>3. CASE ~(e.count >= ReportTicks)
    <3>1. Credit(e) = e.count /\ f.count = e.count + 1
      BY <2>3 DEF Credit
    <3> QED
      BY <1>1, <2>1, <3>1, Periods
  <2> QED
    BY <2>2, <2>3
<1>6. a \in Nat
  BY <1>2
<1>7. f.idle + f.wait + a <= IdleLimit + TimerPeriod * Credit(f)
  <2> HIDE DEF a, b
  <2> QED
    BY <1>1, <1>2, <1>3, <1>5, <1>6
<1> QED
  BY <1>4, <1>7 DEF WillReport

\* A second more brings both times nearer.
LEMMA AgedReports ==
  ASSUME NEW e \in Entry, WillReport(e), e.wait > 0
  PROVE  WillReport(Aged(e))
<1> DEFINE f == Aged(e)
           a == TimerPeriod * ReportTicks
           b == TimerPeriod * Credit(e)
<1>1. /\ f \in Entry /\ f.idle <= e.idle + 1 /\ f.wait = e.wait - 1
      /\ f.count = e.count /\ f.inactive = e.inactive
  BY AgedType
<1>2. f.busy = e.busy /\ f.active = e.active
  BY AgedType
<1> HIDE DEF f
<1>3. /\ e.idle \in Nat /\ e.wait \in Nat /\ f.idle \in Nat
      /\ e.count \in Nat /\ e.count <= ReportTicks
  BY <1>1, Counters
<1>4. Credit(e) \in Nat /\ Credit(e) <= ReportTicks /\ Credit(f) = Credit(e)
  BY <1>1, <1>2, <1>3, ClientsAssumption DEF Credit
<1>5. a \in Nat /\ b \in Nat /\ IdleLimit \in Nat
  BY <1>4, Periods, TimesAssumption
<1>6. e.idle + e.wait + a <= IdleLimit + b
  BY DEF WillReport
<1>7. f.idle + f.wait + a <= IdleLimit + b
  <2> HIDE DEF a, b
  <2> QED
    BY <1>1, <1>3, <1>5, <1>6
<1>8. ~f.busy => f.active /\ f.inactive < f.count
  BY <1>1, <1>2 DEF WillReport
<1>9. WillReport(f)
  BY <1>4, <1>7, <1>8 DEF WillReport
<1> QED
  BY <1>9 DEF f

\* The invariant is inductive, as long as jiffies does not overflow.
LEMMA ReportsStep ==
  ClientsTypeOK /\ toWrap = 0 /\ ReportsComing /\ [Next]_clientVars => ReportsComing'
<1> SUFFICES ASSUME ClientsTypeOK, toWrap = 0, ReportsComing, [Next]_clientVars
             PROVE  ReportsComing'
  OBVIOUS
<1>1. /\ owed \subseteq Mac /\ Table \subseteq Mac
      /\ \A m \in owed : m \in Table /\ entry[m] \in Entry /\ WillReport(entry[m])
  BY TableEntry DEF ClientsTypeOK, ReportsComing, Table
\* One entry is written, and the new one reports if the old one was to.
<1>2. ASSUME NEW m \in Mac, NEW f \in Entry, entry' = [entry EXCEPT ![m] = f],
             m \in owed' => WillReport(f), owed' \subseteq owed \cup {m}
      PROVE  ReportsComing'
  <2>1. /\ Table' = Table \cup {m} /\ entry'[m] = f
        /\ \A n \in Mac : n # m => entry'[n] = entry[n]
    BY <1>2, SetEntry
  <2> SUFFICES ASSUME NEW n \in owed' PROVE n \in Table' /\ WillReport(entry'[n])
    BY DEF ReportsComing, WillReport, Credit
  <2>2. CASE n = m
    BY <1>2, <2>1, <2>2
  <2>3. CASE n # m
    BY <1>1, <1>2, <2>1, <2>3
  <2> QED
    BY <2>2, <2>3
<1>3. ASSUME NEW c \in Cpu, NEW m \in Mac, NEW heavy \in BOOLEAN, ClientHook(c, m, heavy)
      PROVE  ReportsComing'
  <2>1. PICK f \in Entry : /\ entry' = [entry EXCEPT ![m] = f]
                           /\ m \in Table => SameButBusy(entry[m], f)
    BY <1>3, ClientHookWrites
  <2>2. owed' = owed
    BY <1>3 DEF ClientHook
  <2>3. m \in owed => WillReport(f)
    BY <1>1, <2>1, StillReports DEF SameButBusy
  <2> QED
    BY <1>2, <2>1, <2>2, <2>3
<1>4. ASSUME NEW c \in Cpu, GatewayHook(c)
      PROVE  ReportsComing'
  <2>1. PICK m \in FindByIp(addr[hook[c].mac]) : Lookup(c, m)
    BY <1>4 DEF GatewayHook
  <2>2. m \in Table /\ m \in Mac /\ entry[m] \in Entry
    BY TableEntry DEF FindByIp, Table
  <2>3. PICK f \in Entry :
           /\ entry' = [entry EXCEPT ![m] = f]
           /\ f.idle = 0 /\ f.wait = entry[m].wait /\ f.count = entry[m].count
           /\ f.inactive = entry[m].inactive /\ f.active = entry[m].active
           /\ f.busy = entry[m].busy
    BY <2>1, <2>2, LookupWrites
  <2>4. owed' = IF entry[m].busy THEN owed \cup {m} ELSE owed
    BY <2>1 DEF Lookup
  <2>5. CASE entry[m].busy
    <3>1. WillReport(f)
      BY <2>3, <2>5, SeenReports
    <3> QED
      BY <1>2, <2>2, <2>3, <2>4, <2>5, <3>1
  <2>6. CASE ~entry[m].busy
    <3>1. m \in owed => WillReport(f)
      BY <1>1, <2>3, StillReports
    <3> QED
      BY <1>2, <2>2, <2>3, <2>4, <2>6, <3>1
  <2> QED
    BY <2>5, <2>6
<1>5. ASSUME NEW ip \in Ip, ClientHook2(ip)
      PROVE  ReportsComing'
  <2>1. PICK m \in Table : \E f \in Entry : /\ entry' = [entry EXCEPT ![m] = f]
                                            /\ SameButBusy(entry[m], f)
    BY <1>5, ClientHook2Writes
  <2>2. PICK f \in Entry : entry' = [entry EXCEPT ![m] = f] /\ SameButBusy(entry[m], f)
    BY <2>1
  <2>3. m \in owed => WillReport(f)
    BY <1>1, <2>2, StillReports DEF SameButBusy
  <2>4. owed' = owed /\ m \in Mac
    BY <1>5 DEF ClientHook2, Table
  <2> QED
    BY <1>2, <2>2, <2>3, <2>4
<1>6. ASSUME NEW m \in Mac, ClientTimer(m)
      PROVE  ReportsComing'
  <2> DEFINE e == entry[m]
  <2>1. PICK f \in Entry :
           /\ entry' = [entry EXCEPT ![m] = f]
           /\ f.idle = e.idle /\ f.wait = TimerPeriod
           /\ f.count = IF e.count >= ReportTicks THEN 1 ELSE e.count + 1
           /\ f.inactive = UpdateClientStatus(e).inactive
           /\ f.active = UpdateClientStatus(e).active
    BY <1>6, ClientTimerWrites
  <2>2. e.wait = 0 /\ owed' = IF e.count >= ReportTicks /\ e.active THEN owed \ {m} ELSE owed
    BY <1>6 DEF ClientTimer
  <2>3. m \in owed' => WillReport(f)
    <3> HAVE m \in owed'
    <3>1. ~(e.count >= ReportTicks /\ e.active) /\ m \in owed
      BY <2>2
    <3>2. e \in Entry /\ WillReport(e)
      BY <1>1, <3>1
    <3> HIDE DEF e
    <3> QED
      BY <2>1, <2>2, <3>1, <3>2, TimerReports
  <2>4. owed' \subseteq owed
    BY <2>2
  <2> QED
    BY <1>2, <2>1, <2>3, <2>4
<1>7. ASSUME NEW m \in Limited, NEW flag \in BOOLEAN, BlockedMacs(m, flag)
      PROVE  ReportsComing'
  <2>1. m \in Mac /\ owed' = owed
    BY <1>7, ClientsAssumption DEF BlockedMacs
  <2>2. PICK f \in Entry :
           /\ entry' = [entry EXCEPT ![m] = f]
           /\ f.idle = entry[m].idle /\ f.wait = entry[m].wait
           /\ f.count = entry[m].count /\ f.inactive = entry[m].inactive
           /\ f.active = entry[m].active /\ f.busy = entry[m].busy
    BY <1>7, <2>1, BlockedMacsWrites
  <2>3. m \in owed => WillReport(f)
    BY <1>1, <2>2, StillReports
  <2> QED
    BY <1>2, <2>1, <2>2, <2>3
<1>8. ASSUME UNCHANGED <<entry, owed>>
      PROVE  ReportsComing'
  BY <1>8 DEF ReportsComing, WillReport, Credit, Table
<1>9. ASSUME OafTimer
      PROVE  ReportsComing'
  <2>1. CASE UNCHANGED entry
    BY <1>8, <1>9, <2>1 DEF OafTimer
  <2>2. CASE CheckClientExpire
    <3>1. Table' = Table \ ToFree /\ \A m \in Table' : entry'[m] = entry[m]
      BY <2>2, ExpireFrees
    <3>2. owed' = owed
      BY <1>9 DEF OafTimer
    <3>3. \A m \in owed : m \notin ToFree
      <4> TAKE m \in owed
      <4>1. entry[m].idle \in Nat /\ entry[m].idle <= IdleLimit
        BY <1>1, ReportsInTime, Counters
      <4> QED
        BY <4>1, TimesAssumption DEF ToFree, Expired
    <3>4. \A m \in owed' : m \in Table' /\ WillReport(entry'[m])
      BY <1>1, <3>1, <3>2, <3>3
    <3> QED
      BY <3>4 DEF ReportsComing, WillReport, Credit
  <2> QED
    BY <1>9, <2>1, <2>2 DEF OafTimer
<1>10. ASSUME Second
       PROVE  ReportsComing'
  <2>1. /\ Table' = Table /\ owed' = owed
        /\ \A m \in Table : entry[m].wait > 0 /\ entry'[m] = Aged(entry[m])
    BY <1>10, SecondAges DEF Second
  <2>2. \A m \in owed' : m \in Table' /\ WillReport(entry'[m])
    BY <1>1, <2>1, AgedReports
  <2> QED
    BY <2>2 DEF ReportsComing, WillReport, Credit
<1>11. ASSUME NEW c \in Cpu, NEW m \in Mac, ClientHookNoMemory(c, m)
       PROVE  ReportsComing'
  BY <1>8, <1>11 DEF ClientHookNoMemory
<1>12. ASSUME NEW c \in Cpu, GatewayAccept(c) \/ HookEnds(c)
       PROVE  ReportsComing'
  BY <1>8, <1>12 DEF GatewayAccept, HookEnds
<1>13. ASSUME NEW m \in Mac, NEW ip \in Lease[m] \cup {NoIp}, Renumber(m, ip)
       PROVE  ReportsComing'
  BY <1>8, <1>13 DEF Renumber
<1>14. UNCHANGED clientVars => ReportsComing'
  BY <1>8 DEF clientVars
<1> QED
  BY <1>3, <1>4, <1>5, <1>6, <1>7, <1>9, <1>10, <1>11, <1>12, <1>13, <1>14, HeavyType
     DEF Next, Packets, Clock

\* Traffic above the rates that the gateway hook has seen is reported as
\* active by client_timer_handler before af_update_client_status clears the
\* flag and before check_client_expire frees the entry, for all periods with
\* ReportTicks <= InactiveTicks and TimerPeriod * (ReportTicks + 1) <=
\* IdleLimit, and so for 30, 30, 2 and 90.
THEOREM BurstsReported ==
  ASSUME WrapIn = 0
  PROVE  Spec => []EveryBurstReported
<1>1. Init => HooksSafe /\ ReportsComing
  BY DEF Init, HooksSafe, HookHoldsEntry, Idle, ReportsComing
<1>2. HooksSafe => toWrap = 0
  BY DEF HooksSafe
<1>3. ReportsComing => EveryBurstReported
  BY DEF ReportsComing, WillReport, EveryBurstReported
<1> QED
  BY <1>1, <1>2, <1>3, TypeCorrect, HooksSafeStep, ReportsStep, PTL DEF Spec

-----------------------------------------------------------------------------
(* Refinement.                                                             *)

\* The table after one entry has been written, as OafKernel has it.
LEMMA FlagsAfterWrite ==
  ASSUME ClientsTypeOK, NEW m \in Mac, NEW f \in Entry,
         entry' = [entry EXCEPT ![m] = f]
  PROVE  LET B == {n \in Table : entry[n].period_blocked}
         IN  /\ Table' = Table \cup {m}
             /\ f.period_blocked => {n \in Table : entry[n].period_blocked}' = B \cup {m}
             /\ ~f.period_blocked => {n \in Table : entry[n].period_blocked}' = B \ {m}
<1>1. /\ Table' = Table \cup {m} /\ entry'[m] = f
      /\ \A n \in Mac : n # m => entry'[n] = entry[n]
  BY SetEntry
<1>2. Table \subseteq Mac
  BY DEF Table
<1> QED
  BY <1>1, <1>2

\* Every step of the client table with its clocks is a step of the table of
\* OafKernel, on which the model of the daemon is built, or leaves it alone.
LEMMA TableStep ==
  ClientsTypeOK /\ [Next]_clientVars => [Kernel!TableNext]_(Kernel!kernelVars)
<1> SUFFICES ASSUME ClientsTypeOK, [Next]_clientVars
             PROVE  [Kernel!TableNext]_(Kernel!kernelVars)
  OBVIOUS
<1> DEFINE B == {m \in Table : entry[m].period_blocked}
<1>1. Table \subseteq Mac /\ B \subseteq Table
  BY DEF Table
<1>2. ASSUME Table' = Table, B' = B
      PROVE  UNCHANGED Kernel!kernelVars
  BY <1>2 DEF Kernel!kernelVars
<1>3. ASSUME UNCHANGED entry
      PROVE  UNCHANGED Kernel!kernelVars
  BY <1>2, <1>3 DEF Table
<1>4. ASSUME NEW m \in Mac, m \notin Table, Table' = Table \cup {m}, B' = B
      PROVE  Kernel!TableNext
  BY <1>4 DEF Kernel!TableNext, Kernel!NfClientAdd
<1>5. ASSUME NEW m \in Mac, m \in Table, Table' = Table \ {m}, B' = B \ {m}
      PROVE  Kernel!TableNext
  BY <1>5 DEF Kernel!TableNext, Kernel!CheckClientExpire
<1>6. ASSUME NEW m \in Mac, m \in Table, Table' = Table, B' = B \cup {m} \/ B' = B \ {m}
      PROVE  Kernel!TableNext
  BY <1>6 DEF Kernel!TableNext, Kernel!BlockedMacsAdd, Kernel!BlockedMacsDel
\* One entry is written, and keeps its flag.
<1>7. ASSUME NEW m \in Table, NEW f \in Entry, entry' = [entry EXCEPT ![m] = f],
             f.period_blocked = entry[m].period_blocked
      PROVE  UNCHANGED Kernel!kernelVars
  <2>1. m \in Mac /\ entry[m] \in Entry
    BY TableEntry DEF Table
  <2>2. /\ Table' = Table \cup {m}
        /\ f.period_blocked => B' = B \cup {m}
        /\ ~f.period_blocked => B' = B \ {m}
    BY <1>7, <2>1, FlagsAfterWrite
  <2>3. entry[m].period_blocked <=> m \in B
    OBVIOUS
  <2>4. f.period_blocked <=> m \in B
    BY <1>7, <2>3
  <2> HIDE DEF B
  <2> QED
    BY <1>2, <2>2, <2>4
<1> HIDE DEF B
<1>8. ASSUME NEW c \in Cpu, NEW m \in Mac, NEW heavy \in BOOLEAN, ClientHook(c, m, heavy)
      PROVE  [Kernel!TableNext]_(Kernel!kernelVars)
  <2>1. PICK f \in Entry : /\ entry' = [entry EXCEPT ![m] = f]
                           /\ m \in Table => SameButBusy(entry[m], f)
                           /\ m \notin Table => ~f.period_blocked
    BY <1>8, ClientHookWrites
  <2>2. CASE m \in Table
    BY <1>7, <2>1, <2>2 DEF SameButBusy
  <2>3. CASE m \notin Table
    <3>1. Table' = Table \cup {m} /\ B' = B \ {m}
      BY <2>1, <2>3, FlagsAfterWrite DEF B
    <3>2. B' = B
      BY <1>1, <2>3, <3>1
    <3> QED
      BY <1>4, <2>3, <3>1, <3>2
  <2> QED
    BY <2>2, <2>3
<1>9. ASSUME NEW c \in Cpu, GatewayHook(c)
      PROVE  UNCHANGED Kernel!kernelVars
  <2>1. PICK m \in FindByIp(addr[hook[c].mac]) : Lookup(c, m)
    BY <1>9 DEF GatewayHook
  <2>2. m \in Table
    BY DEF FindByIp
  <2>3. PICK f \in Entry : /\ entry' = [entry EXCEPT ![m] = f]
                           /\ f.period_blocked = entry[m].period_blocked
    BY <2>1, <2>2, LookupWrites
  <2> QED
    BY <1>7, <2>2, <2>3
<1>10. ASSUME NEW ip \in Ip, ClientHook2(ip)
       PROVE  UNCHANGED Kernel!kernelVars
  BY <1>7, <1>10, ClientHook2Writes DEF SameButBusy
<1>11. ASSUME NEW m \in Mac, ClientTimer(m)
       PROVE  UNCHANGED Kernel!kernelVars
  <2>1. PICK f \in Entry : /\ entry' = [entry EXCEPT ![m] = f]
                           /\ f.period_blocked = entry[m].period_blocked
    BY <1>11, ClientTimerWrites
  <2> QED
    BY <1>7, <1>11, <2>1 DEF ClientTimer
<1>12. ASSUME OafTimer
       PROVE  [Kernel!TableNext]_(Kernel!kernelVars)
  <2>1. CASE UNCHANGED entry
    BY <1>3, <2>1
  <2>2. CASE CheckClientExpire
    <3>1. /\ Table' = Table \ ToFree /\ \A m \in Table' : entry'[m] = entry[m]
          /\ ToFree \subseteq Table /\ \A m, n \in ToFree : m = n
      BY <2>2, ExpireFrees
    <3>2. B' = B \ ToFree
      BY <3>1 DEF B
    <3>3. CASE ToFree = {}
      BY <1>2, <3>1, <3>2, <3>3
    <3>4. CASE ToFree # {}
      <4>1. PICK m \in ToFree : TRUE
        BY <3>4
      <4>2. ToFree = {m} /\ m \in Table /\ m \in Mac
        BY <1>1, <3>1, <4>1
      <4> QED
        BY <1>5, <3>1, <3>2, <4>2
    <3> QED
      BY <3>3, <3>4
  <2> QED
    BY <1>12, <2>1, <2>2 DEF OafTimer
<1>13. ASSUME Second
       PROVE  UNCHANGED Kernel!kernelVars
  <2>1. /\ Table' = Table
        /\ \A m \in Table : /\ entry[m] \in Entry /\ entry[m].wait > 0
                            /\ entry'[m] = Aged(entry[m])
    BY <1>13, SecondAges
  <2>2. \A m \in Table : entry'[m].period_blocked = entry[m].period_blocked
    BY <2>1, AgedType
  <2>3. B' = B
    BY <2>1, <2>2 DEF B
  <2> QED
    BY <1>2, <2>1, <2>3
<1>14. ASSUME NEW m \in Limited, NEW flag \in BOOLEAN, BlockedMacs(m, flag)
       PROVE  Kernel!TableNext
  <2>1. m \in Mac /\ m \in Table
    BY <1>14, ClientsAssumption DEF BlockedMacs
  <2>2. PICK f \in Entry : entry' = [entry EXCEPT ![m] = f]
    BY <1>14, <2>1, BlockedMacsWrites
  <2>3. Table' = Table \cup {m} /\ (B' = B \cup {m} \/ B' = B \ {m})
    BY <2>1, <2>2, FlagsAfterWrite DEF B
  <2> QED
    BY <1>6, <2>1, <2>3
<1>15. ASSUME NEW c \in Cpu, NEW m \in Mac, ClientHookNoMemory(c, m)
       PROVE  UNCHANGED Kernel!kernelVars
  BY <1>3, <1>15 DEF ClientHookNoMemory
<1>16. ASSUME NEW c \in Cpu, GatewayAccept(c) \/ HookEnds(c)
       PROVE  UNCHANGED Kernel!kernelVars
  BY <1>3, <1>16 DEF GatewayAccept, HookEnds
<1>17. ASSUME NEW m \in Mac, NEW ip \in Lease[m] \cup {NoIp}, Renumber(m, ip)
       PROVE  UNCHANGED Kernel!kernelVars
  BY <1>3, <1>17 DEF Renumber
<1>18. UNCHANGED clientVars => UNCHANGED Kernel!kernelVars
  BY <1>3 DEF clientVars
<1> QED
  BY <1>8, <1>9, <1>10, <1>11, <1>12, <1>13, <1>14, <1>15, <1>16, <1>17, <1>18, HeavyType
     DEF Next, Packets, Clock

\* OafClients implements the client table of OafKernel: an entry comes with
\* a cleared flag, loses it only by blocked_macs or with its entry, and
\* check_client_expire takes away one entry at a time.
THEOREM TableRefined == Spec => ImplementsTable
<1>1. Init => Kernel!KernelInit(TRUE)
  <2> SUFFICES ASSUME Init PROVE Kernel!KernelInit(TRUE)
    OBVIOUS
  <2>1. Table = {}
    BY DEF Init, Table, NoEntry
  <2> QED
    BY <2>1 DEF Kernel!KernelInit, Kernel!SysctlDefault, Kernel!SysctlNames
<1> QED
  BY <1>1, TypeCorrect, TableStep, PTL DEF Spec, ImplementsTable, Kernel!TableSpec

=============================================================================
