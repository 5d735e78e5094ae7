------------------------------ MODULE OafBypass ------------------------------
(***************************************************************************)
(* Bypass mode: the router sees packets without forwarding them, so there  *)
(* is no conntrack entry to mark and the module keeps a table of its own   *)
(* (af_conntrack.c).  app_filter_hook_bypass_handle (app_filter.c) finds   *)
(* or makes the entry under af_conn_lock and goes on using it without the  *)
(* lock; the timer of the module frees entries that have been idle, a few  *)
(* hash buckets every second.                                              *)
(*                                                                         *)
(* One action is one critical section or one unprotected write; packets of *)
(* the same connection may be on several processors.  Judge reads the      *)
(* fields of the entry in one step: as app_id is written before drop, what *)
(* a reader makes of a mixture is also what it makes of a state before,    *)
(* between or after the two writes.                                        *)
(***************************************************************************)
EXTENDS Naturals, FiniteSets

CONSTANTS
  Conn,             \* connections, each with its address tuple
  Bucket,           \* af_conn_hash of each
  Buckets,          \* AF_CONN_HASH_SIZE (256)
  CheckCount,       \* MAX_AF_CONN_CHECK_COUNT (5)
  Timeout,          \* AF_CONN_TIMEOUT (30 seconds)
  Window,           \* seconds in which a change of the rules is recent (30)
  AcclPackets,      \* packets after which g_by_pass_accl gives up (256)
  App, NoApp, Quic, \* applications, app_id 0 and APPID_QUIC
  Carries,          \* the application of each connection, or NoApp
  QuicConn,         \* connections whose packets af_match_quic accepts
  RuleSets,         \* rules the administrator chooses between
  Switches,         \* switches that are changed under way
  Cpu,              \* processors that handle packets
  HookSeconds       \* a packet is handled within this time

SwitchNames == {"enable", "app_filter_mode", "disable_quic", "by_pass_accl"}
NoConn == "none"

ASSUME BypassAssumption ==
  /\ Buckets \in Nat \ {0} /\ CheckCount \in Nat \ {0}
  /\ Bucket \in [Conn -> 0 .. Buckets - 1]
  /\ Carries \in [Conn -> App \cup {NoApp}] /\ QuicConn \subseteq Conn
  /\ NoApp \notin App /\ Quic \notin App /\ NoApp # Quic
  /\ RuleSets \subseteq [apps : SUBSET App, user : BOOLEAN]
  /\ Switches \subseteq SwitchNames /\ NoConn \notin Conn
  /\ Timeout \in Nat /\ Window \in Nat /\ AcclPackets \in Nat
  /\ HookSeconds \in Nat /\ HookSeconds < Timeout

VARIABLES
  table,            \* af_conn_table
  locked,           \* af_conn_lock is held and nobody will release it
  last_bucket,      \* where af_conn_clean_timeout goes on
  hook,             \* packets on their way through the handler
  rules,            \* applications to be filtered; does the device count
  switch,           \* g_oaf_filter_enable and the like
  recent,           \* seconds left in which a change of the rules is recent
  due,              \* oaf_timer has not run yet in this second
  dangling,         \* processors that use an entry that has been freed
  constant          \* connections that knew no change since their entry was made

bypassVars == <<table, locked, last_bucket, hook, rules, switch, recent, due,
                dangling, constant>>
environment == <<rules, switch, recent>>

NoEntry == [present |-> FALSE]
\* idle and pkts stop where larger numbers make no difference.
Entry == [present : {TRUE}, app : App \cup {NoApp, Quic}, drop : BOOLEAN,
          idle : 0 .. Timeout + 1, pkts : 0 .. AcclPackets + 1]

NoPacket == [pc |-> "idle", conn |-> NoConn, app |-> NoApp, drop |-> FALSE,
             ret |-> "accept", age |-> 0]

Init ==
  /\ table = [k \in Conn |-> NoEntry]
  /\ locked = FALSE /\ last_bucket = 0
  /\ hook = [c \in Cpu |-> NoPacket]
  /\ rules \in RuleSets
  /\ switch \in [SwitchNames -> BOOLEAN]
  /\ \A f \in SwitchNames \ Switches : switch[f] = (f # "app_filter_mode")
  /\ recent = 0 /\ due = FALSE
  /\ dangling = {} /\ constant = {}

-----------------------------------------------------------------------------
(* The handler.                                                            *)

\* match_app_filter_rule
MatchRule(app) == rules.user /\ (switch["app_filter_mode"] \/ app \in rules.apps)

\* check_app_action_changed
CheckAppActionChanged(e) == recent > 0 /\ MatchRule(e.app) # e.drop

\* af_conn_add
NewConn == [present |-> TRUE, app |-> NoApp, drop |-> FALSE, idle |-> 0, pkts |-> 0]

\* Faulty: last_jiffies is set when the entry is made, and never again.
TouchedOnce(e) == [e EXCEPT !.pkts = IF @ > AcclPackets THEN @ ELSE @ + 1]

\* conn->last_jiffies = jiffies, conn->total_pkts++
Touched(e) ==
  [e EXCEPT !.idle = 0, !.pkts = IF @ > AcclPackets THEN @ ELSE @ + 1]

\* af_conn_find_and_add and the update of the entry, under af_conn_lock
Enter(c, k) ==
  /\ hook[c].pc = "idle" /\ ~locked
  /\ hook' = [hook EXCEPT ![c].pc = "judge", ![c].conn = k]
  /\ table' = [table EXCEPT ![k] =
                 Touched(IF table[k].present THEN table[k] ELSE NewConn)]
  /\ constant' = IF table[k].present THEN constant ELSE constant \cup {k}
  /\ UNCHANGED <<locked, last_bucket, environment, due, dangling>>

\* No memory for the entry: the handler returns with the lock held.
EnterNoMemory(c, k) ==
  /\ hook[c].pc = "idle" /\ ~locked /\ ~table[k].present
  /\ locked' = TRUE
  /\ UNCHANGED <<table, last_bucket, hook, environment, due, dangling, constant>>

Returns(c, ret) == hook' = [hook EXCEPT ![c].pc = "done", ![c].ret = ret]

\* The entry settles it: all-apps mode, QUIC, or a known application, the
\* decision about which is turned round for this packet when the rules have
\* just changed.
JudgeByEntry(c, e) ==
  \/ /\ e.drop /\ switch["app_filter_mode"]
     /\ Returns(c, "drop")
  \/ /\ ~(e.drop /\ switch["app_filter_mode"]) /\ e.app # NoApp
     /\ IF switch["disable_quic"] /\ e.drop /\ e.app = Quic
        THEN Returns(c, "drop")
        ELSE Returns(c, IF /\ e.drop # CheckAppActionChanged(e)
                           /\ switch["enable"]
                        THEN "drop" ELSE "accept")

\* Faulty: the decision is made although filtering is off.
DecideAlways(c, id) ==
  hook' = [hook EXCEPT ![c].pc = "store_app", ![c].app = id,
                       ![c].drop = MatchRule(id)]

\* g_oaf_filter_enable and match_app_filter_rule
Decide(c, id) ==
  hook' = [hook EXCEPT ![c].pc = "store_app", ![c].app = id,
                       ![c].drop = switch["enable"] /\ MatchRule(id)]

GivenUp(e) == switch["by_pass_accl"] /\ e.pkts > AcclPackets
IsQuic(k) == k \in QuicConn /\ switch["disable_quic"] /\ rules.user

\* Nothing known yet: dpi_main and match_feature recognise the application
\* (id = Carries[k]) or do not (id = NoApp).
Recognise(c, k, e) ==
  /\ ~(e.drop /\ switch["app_filter_mode"]) /\ e.app = NoApp
  /\ \/ GivenUp(e) /\ Returns(c, "accept")
     \/ /\ ~GivenUp(e) /\ IsQuic(k)
        /\ hook' = [hook EXCEPT ![c].pc = "store_app", ![c].app = Quic,
                                ![c].drop = TRUE]
     \/ /\ ~GivenUp(e) /\ ~IsQuic(k)
        /\ \E id \in {Carries[k], NoApp} :
              IF id = NoApp /\ ~switch["app_filter_mode"]
              THEN Returns(c, "accept") ELSE Decide(c, id)

Judge(c) ==
  LET k == hook[c].conn
  IN  /\ hook[c].pc = "judge"
      /\ JudgeByEntry(c, table[k]) \/ Recognise(c, k, table[k])
      /\ UNCHANGED <<table, locked, last_bucket, environment, due, dangling,
                     constant>>

\* conn->app_id = flow.app_id
StoreApp(c) ==
  /\ hook[c].pc = "store_app"
  /\ table' = [table EXCEPT ![hook[c].conn].app = hook[c].app]
  /\ hook' = [hook EXCEPT ![c].pc = "store_drop"]
  /\ UNCHANGED <<locked, last_bucket, environment, due, dangling, constant>>

\* conn->drop = flow.drop, and the answer; QUIC is dropped in any case
StoreDrop(c) ==
  /\ hook[c].pc = "store_drop"
  /\ table' = [table EXCEPT ![hook[c].conn].drop = hook[c].drop]
  /\ Returns(c, IF hook[c].drop /\ (switch["enable"] \/ hook[c].app = Quic)
                THEN "drop" ELSE "accept")
  /\ UNCHANGED <<locked, last_bucket, environment, due, dangling, constant>>

Leave(c) ==
  /\ hook[c].pc = "done"
  /\ hook' = [hook EXCEPT ![c] = NoPacket]
  /\ dangling' = dangling \ {c}
  /\ UNCHANGED <<table, locked, last_bucket, environment, due, constant>>

-----------------------------------------------------------------------------
(* The timer.                                                              *)

\* The buckets looked at in one call
LastSeen == IF last_bucket + CheckCount < Buckets THEN last_bucket + CheckCount
            ELSE Buckets - 1

\* Faulty: the walk does not start again when it has reached the end.
NextBucketStays == LastSeen

\* Faulty: the walk goes on behind the last bucket.
NextBucketPast == last_bucket + CheckCount

NextBucket == IF LastSeen = Buckets - 1 THEN 0 ELSE LastSeen

TimedOut == {k \in Conn : /\ table[k].present /\ table[k].idle > Timeout
                          /\ Bucket[k] \in last_bucket .. LastSeen}

\* oaf_timer_func calls af_conn_clean_timeout
ConnCleanTimeout ==
  /\ due /\ ~locked
  /\ due' = FALSE
  /\ table' = [k \in Conn |-> IF k \in TimedOut THEN NoEntry ELSE table[k]]
  /\ last_bucket' = NextBucket
  /\ dangling' = dangling \cup {c \in Cpu : hook[c].conn \in TimedOut}
  /\ UNCHANGED <<locked, hook, environment, constant>>

Second ==
  /\ ~due
  /\ \A c \in Cpu : hook[c].pc # "idle" => hook[c].age < HookSeconds
  /\ due' = TRUE
  /\ recent' = IF recent > 0 THEN recent - 1 ELSE 0
  /\ table' = [k \in Conn |->
                 IF ~table[k].present THEN NoEntry
                 ELSE [table[k] EXCEPT !.idle = IF @ > Timeout THEN @ ELSE @ + 1]]
  /\ hook' = [c \in Cpu |-> IF hook[c].pc = "idle" THEN NoPacket
                            ELSE [hook[c] EXCEPT !.age = @ + 1]]
  /\ UNCHANGED <<locked, last_bucket, rules, switch, dangling, constant>>

-----------------------------------------------------------------------------
(* The administrator and oafd.  A change of the lists is one step here;    *)
(* OafRules has its parts.                                                 *)

SetRules(r) ==
  /\ rules # r
  /\ rules' = r /\ recent' = Window /\ constant' = {}
  /\ UNCHANGED <<table, locked, last_bucket, hook, switch, due, dangling>>

WriteSwitch(f) ==
  /\ switch' = [switch EXCEPT ![f] = ~@] /\ constant' = {}
  /\ UNCHANGED <<table, locked, last_bucket, hook, rules, recent, due, dangling>>

HookStep(c) == Judge(c) \/ StoreApp(c) \/ StoreDrop(c) \/ Leave(c)

Next ==
  \/ \E c \in Cpu : \/ HookStep(c)
                    \/ \E k \in Conn : Enter(c, k) \/ EnterNoMemory(c, k)
  \/ ConnCleanTimeout \/ Second
  \/ \E r \in RuleSets : SetRules(r)
  \/ \E f \in Switches : WriteSwitch(f)

\* Timers run, time goes on, and a packet is handled to its end.
Fairness ==
  /\ WF_bypassVars(Second) /\ WF_bypassVars(ConnCleanTimeout)
  /\ \A c \in Cpu : WF_bypassVars(HookStep(c))

Spec == Init /\ [][Next]_bypassVars /\ Fairness

-----------------------------------------------------------------------------
(* Properties.                                                             *)

\* Every variable has the type of the C object it stands for.
BypassTypeOK ==
  /\ table \in [Conn -> Entry \cup {NoEntry}]
  /\ locked \in BOOLEAN /\ last_bucket \in 0 .. Buckets - 1
  /\ hook \in [Cpu -> [pc : {"idle", "judge", "store_app", "store_drop", "done"},
                       conn : Conn \cup {NoConn}, app : App \cup {NoApp, Quic},
                       drop : BOOLEAN, ret : {"accept", "drop"},
                       age : 0 .. HookSeconds]]
  /\ rules \in RuleSets /\ switch \in [SwitchNames -> BOOLEAN]
  /\ recent \in 0 .. Window /\ due \in BOOLEAN
  /\ dangling \subseteq Cpu /\ constant \subseteq Conn

\* app_filter.c:1334 and on: the handler uses the entry after it has released
\* af_conn_lock; the timer does not free it meanwhile.
NoConnUseAfterFree == dangling = {}

\* conn->app_id and conn->drop are written one after the other and without
\* the lock.  Still, with several processors at it, and over any number of
\* entries that came and went, the decision that stays for a connection is
\* the one the rules ask for, as long as nobody changes them.
DecisionFollowsRules ==
  \A k \in constant :
    /\ table[k].present /\ table[k].app \in App
    /\ \A c \in Cpu : hook[c].conn # k
    => table[k].drop = (switch["enable"] /\ MatchRule(table[k].app))

\* af_conn_clean_timeout takes CheckCount + 1 buckets a second and goes round:
\* every connection that falls silent is forgotten, unless an allocation has
\* failed (app_filter.c:1331) and the lock is gone for good.
TimedOutFreed ==
  \A k \in Conn : []<>(locked \/ ~table[k].present \/ table[k].idle = 0)

=============================================================================
