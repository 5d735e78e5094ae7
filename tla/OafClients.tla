----------------------------- MODULE OafClients -----------------------------
(***************************************************************************)
(* The life of a client entry (af_client.c) against the clock: packets     *)
(* make it, give it an address and keep it alive; its own timer reports    *)
(* the traffic it has seen to oafd; the timer of the module (oaf_timer_    *)
(* func, app_filter.c) frees it when it has been idle for too long.        *)
(*                                                                         *)
(* A packet from the LAN passes two hooks of the FORWARD chain one after   *)
(* the other: af_client_hook, which knows the sender by its MAC address,   *)
(* and the gateway hook, which looks for the entry by the IP address and   *)
(* goes on using it after it has released af_client_lock.  Each action is  *)
(* one critical section, or one run of a timer.                            *)
(*                                                                         *)
(* Time goes in seconds.  Whatever a timer has to do in a second it does   *)
(* before the next one, in any order with the packets of that second.      *)
(***************************************************************************)
EXTENDS Naturals, FiniteSets

CONSTANTS
  Mac,              \* the LAN devices
  Ip,               \* addresses of the LAN
  Lease,            \* those each device may get
  Rank,             \* order in which the hash buckets are walked
  Cpu,              \* processors that handle packets
  TimerPeriod,      \* seconds between two runs of client_timer (2)
  ReportTicks,      \* runs of client_timer between two reports (30)
  InactiveTicks,    \* quiet runs after which active is cleared (30)
  IdleLimit,        \* MAX_CLIENT_ACTIVE_TIME (90)
  CheckPeriod,      \* seconds between two calls of check_client_expire (60)
  HookSeconds,      \* a packet is handled within this time
  WrapIn,           \* seconds until jiffies overflows; 0: it is 64 bits wide
  Limited,          \* devices that oafd blocks and unblocks
  Heavy,            \* devices with traffic above the rates of active use
  AddressReuse      \* may a device get an address that an entry still has

NoEntry == [present |-> FALSE]
NoMac == "none"
NoIp == "none"      \* the device is not in the network

ASSUME ClientsAssumption ==
  /\ Rank \in [Mac -> Nat] /\ \A m, n \in Mac : Rank[m] = Rank[n] => m = n
  /\ Lease \in [Mac -> SUBSET Ip]
  /\ NoMac \notin Mac /\ NoIp \notin Ip /\ Limited \subseteq Mac /\ Heavy \subseteq Mac
  /\ TimerPeriod \in Nat \ {0} /\ ReportTicks \in Nat \ {0}
  /\ CheckPeriod \in Nat \ {0} /\ WrapIn \in Nat
  /\ AddressReuse \in BOOLEAN

\* 30 <= 30, 2 * 31 < 90, and a packet takes less than 90 seconds.
ASSUME TimesAssumption ==
  /\ InactiveTicks \in Nat /\ ReportTicks <= InactiveTicks
  /\ IdleLimit \in Nat /\ TimerPeriod * (ReportTicks + 1) <= IdleLimit
  /\ HookSeconds \in Nat /\ HookSeconds < IdleLimit

VARIABLES
  entry,            \* af_client_list_table
  addr,             \* the address each device uses
  hook,             \* packets on their way through the two hooks
  second,           \* count % 60 of oaf_timer_func
  due,              \* oaf_timer has not run yet in this second
  toWrap,           \* seconds until jiffies overflows; 0: not any more
  dangling,         \* processors that use an entry that has been freed
  owed              \* devices whose activity oafd has not been told yet

clientVars == <<entry, addr, hook, second, due, toWrap, dangling, owed>>

\* idle: seconds since update_jiffies, those above IdleLimit not told apart;
\* wait: seconds until client_timer; busy: packets above the two rates since
\* its last run; lost: update_jiffies + 90 * HZ lies behind the overflow.
Entry ==
  [present : {TRUE}, ip : Ip, idle : 0 .. IdleLimit + 1, wait : 0 .. TimerPeriod,
   count : 0 .. ReportTicks, busy : BOOLEAN, active : BOOLEAN,
   inactive : 0 .. InactiveTicks, period_blocked : BOOLEAN, lost : BOOLEAN]

Table == {m \in Mac : entry[m].present}

Idle == [pc |-> "idle", mac |-> NoMac, client |-> NoMac, age |-> 0]

Init ==
  /\ entry = [m \in Mac |-> NoEntry]
  /\ addr = [m \in Mac |-> NoIp]
  /\ hook = [c \in Cpu |-> Idle]
  /\ second = 0 /\ due = FALSE
  /\ toWrap = WrapIn
  /\ dangling = {} /\ owed = {}

-----------------------------------------------------------------------------
(* Packets.                                                                *)

\* Faulty: the memory of the entry is not cleared.
NewEntryUnset(ip) ==
  [present |-> TRUE, ip |-> ip, idle |-> 0, wait |-> 1, count |-> 0,
   busy |-> FALSE, active |-> FALSE, inactive |-> 0, period_blocked |-> TRUE,
   lost |-> FALSE]

\* nf_client_add and init_client_timer
NewEntry(ip) ==
  [present |-> TRUE, ip |-> ip, idle |-> 0, wait |-> 1, count |-> 0,
   busy |-> FALSE, active |-> FALSE, inactive |-> 0, period_blocked |-> FALSE,
   lost |-> FALSE]

\* A packet of device m, one that brings its rate above the threshold if
\* heavy.  update_jiffies is not touched here.
ClientHook(c, m, heavy) ==
  /\ hook[c].pc = "idle" /\ addr[m] # NoIp
  /\ hook' = [hook EXCEPT ![c] = [pc |-> "filter", mac |-> m,
                                  client |-> NoMac, age |-> 0]]
  /\ LET e == IF m \in Table THEN entry[m] ELSE NewEntry(addr[m])
     IN  entry' = [entry EXCEPT ![m] = [e EXCEPT !.ip = addr[m],
                                                 !.busy = @ \/ heavy]]
  /\ UNCHANGED <<addr, second, due, toWrap, dangling, owed>>

\* nf_client_add finds no memory; the packet goes on without an entry.
ClientHookNoMemory(c, m) ==
  /\ hook[c].pc = "idle" /\ addr[m] # NoIp /\ m \notin Table
  /\ hook' = [hook EXCEPT ![c] = [pc |-> "filter", mac |-> m,
                                  client |-> NoMac, age |-> 0]]
  /\ UNCHANGED <<entry, addr, second, due, toWrap, dangling, owed>>

\* find_af_client_by_ip: the first entry with that address in the order of
\* the buckets.
FindByIp(ip) == {m \in Table : /\ entry[m].ip = ip
                               /\ \A n \in Table : entry[n].ip = ip => Rank[m] <= Rank[n]}

\* Faulty: the look-up is not taken as a sign of life.
LookupNoRefresh(c, f) ==
  /\ entry' = entry
  /\ owed' = IF entry[f].busy THEN owed \cup {f} ELSE owed
  /\ hook' = [hook EXCEPT ![c].pc = "using", ![c].client = f]

\* client->update_jiffies = jiffies, under the lock for reading
Lookup(c, f) ==
  /\ entry' = [entry EXCEPT ![f].idle = 0, ![f].lost = FALSE]
  /\ owed' = IF entry[f].busy THEN owed \cup {f} ELSE owed
  /\ hook' = [hook EXCEPT ![c].pc = "using", ![c].client = f]

\* The first critical section of app_filter_hook_gateway_handle.
GatewayHook(c) ==
  /\ hook[c].pc = "filter"
  /\ \E f \in FindByIp(addr[hook[c].mac]) : Lookup(c, f)
  /\ UNCHANGED <<addr, second, due, toWrap, dangling>>

\* Neither TCP nor UDP, or no entry with that address: accepted.
GatewayAccept(c) ==
  /\ hook[c].pc = "filter"
  /\ hook' = [hook EXCEPT ![c] = Idle]
  /\ UNCHANGED <<entry, addr, second, due, toWrap, dangling, owed>>

\* The rest of the handler reads and writes through the pointer.
HookEnds(c) ==
  /\ hook[c].pc = "using"
  /\ hook' = [hook EXCEPT ![c] = Idle]
  /\ dangling' = dangling \ {c}
  /\ UNCHANGED <<entry, addr, second, due, toWrap, owed>>

\* af_client_hook2: a packet to the device is counted and no more.
ClientHook2(ip) ==
  /\ \E f \in FindByIp(ip) :
        entry' = [entry EXCEPT ![f].busy = @ \/ f \in Heavy]
  /\ UNCHANGED <<addr, hook, second, due, toWrap, dangling, owed>>

-----------------------------------------------------------------------------
(* Timers.                                                                 *)

\* Faulty: active says whether there was traffic since the last run.
UpdateClientStatusAtOnce(e) ==
  [e EXCEPT !.busy = FALSE, !.inactive = 0, !.active = e.busy]

\* af_update_client_status.  inactive_time matters only while active is set;
\* the flow counters are summed up in busy.
UpdateClientStatus(e) ==
  IF e.busy
  THEN [e EXCEPT !.busy = FALSE, !.inactive = 0, !.active = TRUE]
  ELSE LET stays == e.active /\ e.inactive + 1 <= InactiveTicks
       IN  [e EXCEPT !.inactive = IF stays THEN @ + 1 ELSE 0, !.active = stays]

\* Faulty: timer_count is not set back after a report.
ClientTimerNoReset(m) ==
  /\ m \in Table /\ entry[m].wait = 0
  /\ entry' = [entry EXCEPT ![m] = [UpdateClientStatus(@) EXCEPT
                                      !.count = @ + 1, !.wait = TimerPeriod]]
  /\ owed' = IF entry[m].active THEN owed \ {m} ELSE owed
  /\ UNCHANGED <<addr, hook, second, due, toWrap, dangling>>

\* client_timer_handler, with __af_visit_info_report
ClientTimer(m) ==
  /\ m \in Table /\ entry[m].wait = 0
  /\ LET report == entry[m].count >= ReportTicks
         n == IF report THEN 1 ELSE entry[m].count + 1
     IN  /\ entry' = [entry EXCEPT ![m] = [UpdateClientStatus(entry[m]) EXCEPT
                                             !.count = n, !.wait = TimerPeriod]]
         /\ owed' = IF report /\ entry[m].active THEN owed \ {m} ELSE owed
  /\ UNCHANGED <<addr, hook, second, due, toWrap, dangling>>

\* jiffies > update_jiffies + 90 * HZ, in unsigned arithmetic.  Before the
\* overflow of jiffies the sum may have gone round already, and is small;
\* after it the sum of an entry that was overdue is still large.
Expired(e) ==
  \/ e.idle > IdleLimit /\ ~e.lost
  \/ toWrap > 0 /\ e.idle + toWrap <= IdleLimit

\* check_client_expire: the first expired entry in the order of the buckets
ToFree ==
  {m \in Table : /\ Expired(entry[m])
                 /\ \A n \in Table : Expired(entry[n]) => Rank[m] <= Rank[n]}

CheckClientExpire ==
  /\ entry' = [m \in Mac |-> IF m \in ToFree THEN NoEntry ELSE entry[m]]
  /\ dangling' = dangling \cup {c \in Cpu : hook[c].client \in ToFree}

\* Faulty: count++ is in the branch that calls check_client_expire.
OafTimerCountsChecks ==
  /\ due
  /\ due' = FALSE
  /\ second' = IF second = 0 THEN 1 ELSE second
  /\ IF second = 0 THEN CheckClientExpire ELSE UNCHANGED <<entry, dangling>>
  /\ UNCHANGED <<addr, hook, toWrap, owed>>

\* oaf_timer_func
OafTimer ==
  /\ due
  /\ due' = FALSE
  /\ second' = (second + 1) % CheckPeriod
  /\ IF second = 0 THEN CheckClientExpire ELSE UNCHANGED <<entry, dangling>>
  /\ UNCHANGED <<addr, hook, toWrap, owed>>

Aged(e) ==
  LET n == IF e.idle > IdleLimit THEN e.idle ELSE e.idle + 1
  IN  [e EXCEPT !.idle = n, !.wait = @ - 1,
                !.lost = @ \/ (toWrap = 1 /\ n > IdleLimit)]

Second ==
  /\ ~due /\ \A m \in Table : entry[m].wait > 0
  /\ \A c \in Cpu : hook[c].pc # "idle" => hook[c].age < HookSeconds
  /\ due' = TRUE
  /\ toWrap' = IF toWrap > 0 THEN toWrap - 1 ELSE 0
  /\ entry' = [m \in Mac |-> IF m \in Table THEN Aged(entry[m]) ELSE NoEntry]
  /\ hook' = [c \in Cpu |-> IF hook[c].pc = "idle" THEN Idle
                            ELSE [hook[c] EXCEPT !.age = @ + 1]]
  /\ UNCHANGED <<addr, second, dangling, owed>>

-----------------------------------------------------------------------------
(* oafd, and the devices.                                                  *)

\* oaf_blocked_macs_handler: "+MAC", and "-MAC" or "clear" for the entry
BlockedMacs(m, flag) ==
  /\ m \in Table /\ entry[m].period_blocked # flag
  /\ entry' = [entry EXCEPT ![m].period_blocked = flag]
  /\ UNCHANGED <<addr, hook, second, due, toWrap, dangling, owed>>

\* No two devices use an address at the same time; but the entry of a device
\* that has left, or has another address now, may still have it.  (Between
\* two packets of the device.)
Renumber(m, ip) ==
  /\ \A c \in Cpu : hook[c].mac # m
  /\ addr[m] # ip
  /\ ip # NoIp => /\ \A n \in Mac : addr[n] # ip
                  /\ AddressReuse \/ \A n \in Table \ {m} : entry[n].ip # ip
  /\ addr' = [addr EXCEPT ![m] = ip]
  /\ UNCHANGED <<entry, hook, second, due, toWrap, dangling, owed>>

Packets(c) ==
  \/ \E m \in Mac : \/ \E heavy \in {FALSE, (m \in Heavy)} : ClientHook(c, m, heavy)
                    \/ ClientHookNoMemory(c, m)
  \/ GatewayHook(c) \/ GatewayAccept(c) \/ HookEnds(c)

Clock == (\E m \in Mac : ClientTimer(m)) \/ OafTimer \/ Second

Next ==
  \/ \E c \in Cpu : Packets(c)
  \/ \E ip \in Ip : ClientHook2(ip)
  \/ Clock
  \/ \E m \in Limited, flag \in BOOLEAN : BlockedMacs(m, flag)
  \/ \E m \in Mac : \E ip \in Lease[m] \cup {NoIp} : Renumber(m, ip)

\* Time goes on, and a packet is handled to its end.  No timer is forgotten:
\* each runs once in its second, and the next second waits for all of them.
Fairness ==
  /\ WF_clientVars(Clock)
  /\ \A c \in Cpu : WF_clientVars(GatewayHook(c) \/ GatewayAccept(c) \/ HookEnds(c))

Spec == Init /\ [][Next]_clientVars /\ Fairness

-----------------------------------------------------------------------------
(* Properties.                                                             *)

\* Every variable has the type of the C object it stands for.
ClientsTypeOK ==
  /\ entry \in [Mac -> Entry \cup {NoEntry}]
  /\ addr \in [Mac -> Ip \cup {NoIp}]
  /\ hook \in [Cpu -> [pc : {"idle", "filter", "using"}, mac : Mac \cup {NoMac},
                       client : Mac \cup {NoMac}, age : 0 .. HookSeconds]]
  /\ second \in 0 .. CheckPeriod - 1 /\ due \in BOOLEAN /\ toWrap \in 0 .. WrapIn
  /\ dangling \subseteq Cpu /\ owed \subseteq Mac

\* app_filter.c:1506 and on: the gateway hook uses the entry without the
\* lock.  Nobody frees it meanwhile, because the look-up counts as activity
\* and check_client_expire frees only what has been idle for 90 seconds.
NoClientUseAfterFree == dangling = {}

\* client_timer_handler and check_client_expire: traffic above the rates that
\* came by the gateway hook is reported as active before the flag is cleared
\* again (30 quiet runs against a report every 30) and before the entry is
\* freed (90 seconds against 62), so that oafd counts the minute.
EveryBurstReported ==
  \A m \in owed : m \in Table /\ (entry[m].busy \/ entry[m].active)

\* find_af_client_by_ip, as the README has it: a device over its limit is the
\* only one blocked.  The entry whose period_blocked flag decides about a
\* packet is the sender's own.
OnlyOwnLimit ==
  \A c \in Cpu : /\ hook[c].pc = "using" /\ hook[c].client \in Table
                 /\ entry[hook[c].client].period_blocked
                 => hook[c].client = hook[c].mac

\* check_client_expire frees one entry per call and starts at the first
\* bucket each time.  An entry that is not refreshed any more is freed in its
\* turn, however many are overdue with it, provided that the entries before
\* it settle: devices in earlier buckets whose entries keep expiring and
\* coming back may take every call.
Settles(m) == <>[](m \in Table) \/ <>[](m \notin Table)

IdleFreed ==
  \A m \in Mac : (\A n \in Mac : Rank[n] < Rank[m] => Settles(n))
                   => []<>(~entry[m].present \/ entry[m].idle = 0)

\* The client table that the daemon's model is built on: the flag of a device
\* exists as long as its entry and starts cleared (OafKernel).
Kernel == INSTANCE OafKernel WITH
  loaded <- TRUE,
  clients <- Table,
  blocked <- {m \in Table : entry[m].period_blocked},
  sysctl <- [f \in {"enable", "record_enable", "disable_quic",
                    "app_filter_mode", "split_time"} |-> FALSE]

\* Every step of the table is a step of the table of OafKernel or none.
ImplementsTable == Kernel!TableSpec

=============================================================================
