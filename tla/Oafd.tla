-------------------------------- MODULE Oafd --------------------------------
(***************************************************************************)
(* The daemon oafd (open-app-filter/src) and the kernel state it drives.   *)
(*                                                                         *)
(* oafd is one thread: a one-second timer (oaf_timeout_handler), ubus      *)
(* requests and netlink reports are handled one at a time.  Its writes to  *)
(* /proc/sys/oaf are however separate system calls, between which packets  *)
(* are filtered and client entries come and go.  The timer handler is      *)
(* therefore a sequence of steps, one per call that reads or writes kernel *)
(* state; pc names the next call.  ubus and netlink handlers run only when *)
(* pc = "idle".                                                            *)
(***************************************************************************)
EXTENDS OafKernel, FiniteSetsExt

CONSTANTS
  Days,             \* number of calendar days, visited cyclically
  StatusTicks,      \* ticks between two limit checks       (10 in the code)
  MinuteTicks,      \* ticks between two minute jobs        (60)
  SaveTicks,        \* ticks between two saves to flash     (300)
  AutoLoad,         \* global.auto_load_engine
  DhcpLeases,       \* devices listed in /tmp/dhcp.leases
  ManagedMac,       \* devices that the administrator adds to or removes
                    \* from the user list and the whitelist
  GlobalRequests,   \* arguments of ubus set_app_filter_base
  TimeRequests,     \* arguments of ubus set_app_filter_time
  InitialUci,       \* possible contents of /etc/config/appfilter at boot
  InitialNow,       \* possible times of the first boot
  ClockMoves,       \* bound: FALSE keeps the clock at its initial value
  MaxActive,        \* bound on the active minutes counted for a device
  MaxKills          \* bound on the restarts of oafd

VARIABLES
  now,              \* wall clock: day, and part of the day
  uci,              \* /etc/config/appfilter
  conf,             \* g_af_config, the copy loaded by af_load_config
  config_change,    \* g_oaf_config_change
  dev,              \* dev_hash_table: device -> dev_node_t
  status,           \* g_af_status
  file,             \* /etc/user_list.dat: device -> minutes
  count,            \* tick counter of oaf_timeout_handler
  last_day,         \* static in check_date_change
  noon_done,        \* static last_reset_hour:last_reset_min = 12:00
  nl,               \* appfilter_nl_fd is open
  bg,               \* the background "oaf_rule reload &"
  pc, ctx,          \* next call of the timer handler, and for
                    \* update_oaf_status which of its three call sites
  todo,             \* devices still to be written as "+MAC"
  ret,              \* result of af_check_time_valid
  kills             \* restarts so far

daemonVars == <<conf, config_change, dev, status, count, last_day, noon_done,
                nl, pc, ctx, todo, ret>>
vars == <<kernelVars, daemonVars, now, uci, file, bg, kills>>

Day == 0 .. Days - 1
NoDay == Days                                   \* last_day = -1
Tod == {"am", "noon", "pm"}                     \* "noon" is 12:00 itself
Instant == [day : Day, tod : Tod]

ASSUME DaysAssumption == Days \in Nat \ {0}
ASSUME TicksAssumption ==
  /\ StatusTicks \in Nat \ {0} /\ MinuteTicks \in Nat \ {0}
  /\ SaveTicks \in Nat \ {0}
  /\ MinuteTicks % StatusTicks = 0 /\ SaveTicks % MinuteTicks = 0
ASSUME BoundsAssumption == MaxActive \in Nat /\ MaxKills \in Nat
ASSUME SetsAssumption ==
  /\ AutoLoad \in BOOLEAN /\ ClockMoves \in BOOLEAN
  /\ DhcpLeases \subseteq Mac /\ ManagedMac \subseteq Mac
  /\ InitialNow \subseteq Instant

-----------------------------------------------------------------------------
(* Configuration.                                                          *)

Global == [enable : BOOLEAN, record_enable : BOOLEAN, disable_quic : BOOLEAN,
           app_filter_mode : BOOLEAN, user_mode : {0, 1}]
DailyLimit == [enable : BOOLEAN, am : Nat, pm : Nat]
\* An entry of time_list is the set of instants that its weekdays and its
\* minutes cover; days and seg are the weekdays and the hours of mode 1.
\* split_time is -1 where the option (or the argument) is missing.
TimeConf == [time_mode : Nat, split_time : {-1, 0, 1},
             time_list : SUBSET SUBSET Instant,
             days : SUBSET Day, seg : SUBSET Tod,
             deny_time : Nat, allow_time : Nat,
             daily_limit : [Day -> DailyLimit]]
Uci == [global : Global, time : TimeConf,
        users : SUBSET Mac, whitelist : SUBSET Mac]

ASSUME ConfigAssumption ==
  /\ GlobalRequests \subseteq Global
  /\ TimeRequests \subseteq TimeConf
  /\ InitialUci \subseteq Uci

NoLimit == [enable |-> FALSE, am |-> 0, pm |-> 0]

\* af_load_time_config reads the daily limits only in mode 2, and returns
\* before it reads them when the list of mode 0 is empty.
af_load_time_config(t) ==
  IF t.time_mode = 2 /\ t.time_list # {}
  THEN t
  ELSE [t EXCEPT !.daily_limit = [d \in Day |-> NoLimit]]

af_load_config == [global |-> uci.global, time |-> af_load_time_config(uci.time)]

\* Daily time limit with one account per device, as the kernel is told; and
\* the test of af_check_time_period_limit, which a missing option also passes.
SplitMode(c) == c.time.time_mode = 2 /\ c.time.split_time = 1
SplitBranch(c) == c.time.time_mode = 2 /\ c.time.split_time # 0

-----------------------------------------------------------------------------
(* Device table.                                                           *)

Node == [am : Nat, pm : Nat, online : BOOLEAN, is_selected : BOOLEAN,
         is_whitelist : BOOLEAN, period_blocked : BOOLEAN]

IsTable(d) == DOMAIN d \subseteq Mac /\ d \in [DOMAIN d -> Node]

\* add_dev_node
NewNode == [am |-> 0, pm |-> 0, online |-> TRUE, is_selected |-> FALSE,
            is_whitelist |-> FALSE, period_blocked |-> FALSE]

EmptyTable == [m \in {} |-> NewNode]

\* find_dev_node, else add_dev_node, for every device of S
WithNodes(d, S, node) ==
  [m \in DOMAIN d \cup S |-> IF m \in DOMAIN d THEN d[m] ELSE node]

\* Faulty: the flags of the previous round are not cleaned first.
SelectedFlagSticky(d, user_mode) ==
  [m \in DOMAIN d |->
     [d[m] EXCEPT !.is_selected =
        @ \/ (IF user_mode = 0 THEN ~d[m].is_whitelist ELSE m \in uci.users)]]

update_dev_selected_flag(d, user_mode) ==
  [m \in DOMAIN d |->
     [d[m] EXCEPT !.is_selected = IF user_mode = 0 THEN ~d[m].is_whitelist
                                                   ELSE m \in uci.users]]

update_dev_whitelist_flag(d) ==
  [m \in DOMAIN d |-> [d[m] EXCEPT !.is_whitelist = m \in uci.whitelist]]

\* clean_dev_online_status, then update_dev_hostname (devices with a lease
\* are added offline), then update_dev_from_kernel.
update_dev_online(d) ==
  LET known == WithNodes(WithNodes(d, DhcpLeases, NewNode), clients, NewNode)
  IN  [m \in DOMAIN known |-> [known[m] EXCEPT !.online = m \in clients]]

\* reset_all_users_today_active_time
ResetAllTimes(d) == [m \in DOMAIN d |-> [d[m] EXCEPT !.am = 0, !.pm = 0]]

\* Faulty: at 12:00 the afternoon is reset instead of the morning.
NoonResetsPm(d) ==
  IF now.tod = "noon" /\ ~noon_done /\ DOMAIN d # {}
  THEN {[d EXCEPT ![m].pm = 0] : m \in DOMAIN d}
  ELSE {d}

\* check_all_users_period_time: the static of check_and_reset_today_active_time
\* is shared by all nodes, so at 12:00 only the node that comes first in the
\* hash table is reset.  The hash order is left open.
NoonResets(d) ==
  IF now.tod = "noon" /\ ~noon_done /\ DOMAIN d # {}
  THEN {[d EXCEPT ![m].am = 0] : m \in DOMAIN d}
  ELSE {d}

NoonMark == noon_done' = IF DOMAIN dev = {} THEN noon_done ELSE now.tod = "noon"

\* Minutes of the current half day: before 12:00, or from 12:00 on.
ActiveTime(node) == IF now.tod = "am" THEN node.am ELSE node.pm

\* max_allowed_time of the current half day; 0 is "no limit", also when the
\* day is not enabled.
MaxAllowed ==
  LET limit == conf.time.daily_limit[now.day]
  IN  IF ~limit.enable THEN 0 ELSE IF now.tod = "am" THEN limit.am ELSE limit.pm

-----------------------------------------------------------------------------
(* Limit checks.                                                           *)

Status == [filter : BOOLEAN, deny_time : Nat, allow_time : Nat,
           period_blocked : BOOLEAN]

\* af_init_time_status
StatusInit == [filter |-> FALSE, deny_time |-> 0, allow_time |-> 0,
               period_blocked |-> FALSE]

af_check_time_manual == \E entry \in conf.time.time_list : now \in entry

\* Faulty: the change of phase does not restart the counter.
DynamicNoReset(t, s) ==
  CASE t.time_mode # 1 -> s
    [] t.time_mode = 1 /\ ~(now.day \in t.days /\ now.tod \in t.seg) -> StatusInit
    [] OTHER -> IF s.filter
                THEN [s EXCEPT !.filter = s.deny_time + 1 < t.deny_time,
                               !.deny_time = @ + 1]
                ELSE [s EXCEPT !.filter = s.allow_time + 1 >= t.allow_time,
                               !.allow_time = @ + 1]

\* update_dynamic_used_time: the alternation of mode 1 between deny_time
\* minutes of filtering and allow_time minutes without.
update_dynamic_used_time(t, s) ==
  CASE t.time_mode # 1 -> s
    [] t.time_mode = 1 /\ ~(now.day \in t.days /\ now.tod \in t.seg) -> StatusInit
    [] OTHER ->
       IF s.filter
       THEN IF s.deny_time + 1 >= t.deny_time
            THEN [s EXCEPT !.filter = FALSE, !.deny_time = 0]
            ELSE [s EXCEPT !.deny_time = @ + 1]
       ELSE IF s.allow_time + 1 >= t.allow_time
            THEN [s EXCEPT !.filter = TRUE, !.allow_time = 0]
            ELSE [s EXCEPT !.allow_time = @ + 1]

\* Faulty: the last minute is refused; the last minute is never used up.
OverLimitEarly(node) == ActiveTime(node) + 1 >= MaxAllowed
OverLimitLate(node) == ActiveTime(node) > MaxAllowed

\* The decision of af_split_check_period_limit for one node.
OverLimit(node) == ActiveTime(node) >= MaxAllowed

\* af_split_check_period_limit: with a limit, selected nodes are judged one
\* by one and the others keep their flag; without, every flag is cleared.
SplitFlags(d) ==
  [m \in DOMAIN d |->
     IF MaxAllowed = 0 THEN [d[m] EXCEPT !.period_blocked = FALSE]
     ELSE IF d[m].is_selected
          THEN [d[m] EXCEPT !.period_blocked = OverLimit(d[m])]
          ELSE d[m]]

\* Devices that af_split_sync_blocked_macs writes as "+MAC".
SyncTargets(d) == {m \in DOMAIN d : d[m].is_selected /\ d[m].period_blocked}

\* Faulty: devices that went offline are forgotten.
TotalActiveOnline(d) ==
  MapThenSumSet(LAMBDA m : ActiveTime(d[m]),
                {m \in DOMAIN d : d[m].is_selected /\ d[m].online})

\* Total of the shared account: every selected device, online or not.
TotalActive(d) ==
  MapThenSumSet(LAMBDA m : ActiveTime(d[m]), {m \in DOMAIN d : d[m].is_selected})

-----------------------------------------------------------------------------
(* oaf_timeout_handler, call by call.                                      *)

\* Faulty: a change of the configuration is not noticed.
PcAfterSaveNoReload == "connect"

\* What follows the minute block, and what follows the save.
PcAfterSave == IF config_change THEN "load" ELSE "connect"
PcAfterMinute ==
  IF count > 0 /\ count % SaveTicks = 0 /\ conf.time.time_mode = 2
  THEN "save" ELSE PcAfterSave

Tick ==
  /\ pc = "idle"
  /\ pc' = IF count % StatusTicks = 0 THEN "update_dev_list" ELSE PcAfterSave
  /\ UNCHANGED <<kernelVars, conf, config_change, dev, status, count, last_day,
                 noon_done, nl, ctx, todo, ret, now, uci, file, bg, kills>>

UpdateDevList ==
  /\ pc = "update_dev_list"
  /\ dev' = update_dev_selected_flag(update_dev_online(dev), conf.global.user_mode)
  /\ pc' = "update_oaf_status"
  /\ ctx' = "status"
  /\ UNCHANGED <<kernelVars, conf, config_change, status, count, last_day,
                 noon_done, nl, todo, ret, now, uci, file, bg, kills>>

\* update_oaf_status: the five ways through af_check_time_valid.
CheckOff ==
  /\ ~conf.global.enable \/ conf.time.time_mode \notin {0, 1, 2}
  /\ ret' = FALSE
  /\ pc' = "enable"
  /\ UNCHANGED <<dev, status, noon_done, todo>>

CheckManual ==
  /\ conf.global.enable /\ conf.time.time_mode = 0
  /\ ret' = af_check_time_manual
  /\ pc' = "enable"
  /\ UNCHANGED <<dev, status, noon_done, todo>>

CheckDynamic ==
  /\ conf.global.enable /\ conf.time.time_mode = 1
  /\ ret' = status.filter
  /\ pc' = "enable"
  /\ UNCHANGED <<dev, status, noon_done, todo>>

\* af_check_time_period_limit with the shared account
CheckShared ==
  /\ conf.global.enable /\ conf.time.time_mode = 2 /\ ~SplitBranch(conf)
  /\ IF MaxAllowed = 0
     THEN ret' = FALSE /\ UNCHANGED <<dev, noon_done>>
     ELSE /\ dev' \in NoonResets(dev)
          /\ NoonMark
          /\ ret' = (TotalActive(dev') >= MaxAllowed)
  /\ status' = [status EXCEPT !.period_blocked = ret']
  /\ pc' = "enable"
  /\ UNCHANGED todo

\* af_split_check_period_limit up to its call of af_split_sync_blocked_macs
CheckSplit ==
  /\ conf.global.enable /\ SplitBranch(conf)
  /\ IF MaxAllowed = 0
     THEN dev' = SplitFlags(dev) /\ UNCHANGED noon_done
     ELSE dev' \in {SplitFlags(d) : d \in NoonResets(dev)} /\ NoonMark
  /\ todo' = SyncTargets(dev')
  /\ ret' = (todo' # {})
  /\ status' = [status EXCEPT !.period_blocked = ret']
  /\ pc' = "clear"

UpdateOafStatus ==
  /\ pc = "update_oaf_status"
  /\ \/ CheckOff
     \/ CheckManual
     \/ CheckDynamic
     \/ CheckShared
     \/ CheckSplit
  /\ UNCHANGED <<kernelVars, conf, config_change, count, last_day,
                 nl, ctx, now, uci, file, bg, kills>>

\* af_split_sync_blocked_macs: "clear", then one "+MAC" per write.  It gives
\* up when the file cannot be opened.
SyncClear ==
  /\ pc = "clear"
  /\ BlockedMacsClear
  /\ todo' = IF loaded THEN todo ELSE {}
  /\ pc' = IF todo' = {} THEN "enable" ELSE "add"
  /\ UNCHANGED <<loaded, clients, sysctl, conf, config_change, dev, status,
                 count, last_day, noon_done, nl, ctx, ret, now, uci, file, bg,
                 kills>>

SyncAdd(m) ==
  /\ pc = "add"
  /\ m \in todo
  /\ BlockedMacsAdd(m)
  /\ todo' = todo \ {m}
  /\ pc' = IF todo' = {} THEN "enable" ELSE "add"
  /\ UNCHANGED <<loaded, clients, sysctl, conf, config_change, dev, status,
                 count, last_day, noon_done, nl, ctx, ret, now, uci, file, bg,
                 kills>>

\* The last statement of update_oaf_status, and the return to its caller.
WriteEnable ==
  /\ pc = "enable"
  /\ WriteSysctl("enable", ret)
  /\ pc' = CASE ctx = "status" ->
                  IF count % MinuteTicks = 0 THEN "minute" ELSE PcAfterMinute
             [] ctx = "minute" -> "housekeeping"
             [] ctx = "config" -> "record"
  /\ UNCHANGED <<loaded, clients, blocked, conf, config_change, dev, status,
                 count, last_day, noon_done, nl, ctx, todo, ret, now, uci,
                 file, bg, kills>>

\* Every 60 ticks: update_dynamic_used_time, then update_oaf_status.
MinuteBegin ==
  /\ pc = "minute"
  /\ status' = update_dynamic_used_time(conf.time, status)
  /\ pc' = "update_oaf_status"
  /\ ctx' = "minute"
  /\ UNCHANGED <<kernelVars, conf, config_change, dev, count, last_day,
                 noon_done, nl, todo, ret, now, uci, file, bg, kills>>

\* ... then check_dev_expire and flush_dev_expire_node (devices offline for
\* seven days), check_date_change and check_all_users_period_time.  The first
\* call of check_date_change after a start only records the day.
NewDay == last_day # now.day /\ last_day # NoDay

Housekeeping ==
  /\ pc = "housekeeping"
  /\ \E expired \in SUBSET {m \in DOMAIN dev : ~dev[m].online} :
       LET kept == Restrict(dev, DOMAIN dev \ expired)
       IN  dev' \in NoonResets(IF NewDay THEN ResetAllTimes(kept) ELSE kept)
  /\ noon_done' = IF DOMAIN dev' = {} THEN noon_done ELSE now.tod = "noon"
  /\ status' = IF NewDay THEN [status EXCEPT !.period_blocked = FALSE] ELSE status
  /\ last_day' = now.day
  /\ pc' = PcAfterMinute
  /\ UNCHANGED <<kernelVars, conf, config_change, count, nl, ctx, todo, ret,
                 now, uci, file, bg, kills>>

\* save_user_time_to_file: fopen "w" empties the file, the rows follow.
SaveOpen ==
  /\ pc = "save"
  /\ file' = EmptyTable
  /\ pc' = "save_rows"
  /\ UNCHANGED <<kernelVars, conf, config_change, dev, status, count, last_day,
                 noon_done, nl, ctx, todo, ret, now, uci, bg, kills>>

SaveRows ==
  /\ pc = "save_rows"
  /\ file' = [m \in DOMAIN dev |-> [am |-> dev[m].am, pm |-> dev[m].pm]]
  /\ pc' = PcAfterSave
  /\ UNCHANGED <<kernelVars, conf, config_change, dev, status, count, last_day,
                 noon_done, nl, ctx, todo, ret, now, uci, bg, kills>>

\* g_oaf_config_change: reload, then update_oaf_status and the four other
\* switches, one write after the other.
LoadConfig ==
  /\ pc = "load"
  /\ conf' = af_load_config
  /\ dev' = update_dev_selected_flag(dev, conf'.global.user_mode)
  /\ status' = update_dynamic_used_time(conf'.time, status)
  /\ pc' = "update_oaf_status"
  /\ ctx' = "config"
  /\ UNCHANGED <<kernelVars, config_change, count, last_day, noon_done, nl,
                 todo, ret, now, uci, file, bg, kills>>

WriteSwitch(at, name, value, next) ==
  /\ pc = at
  /\ WriteSysctl(name, value)
  /\ pc' = next
  /\ UNCHANGED <<loaded, clients, blocked, conf, config_change, dev, status,
                 count, last_day, noon_done, nl, ctx, todo, ret, now, uci,
                 file, bg, kills>>

UpdateRecordStatus ==
  WriteSwitch("record", "record_enable", conf.global.record_enable, "quic")
UpdateDisableQuicStatus ==
  WriteSwitch("quic", "disable_quic", conf.global.disable_quic, "app_mode")
UpdateAppFilterModeStatus ==
  WriteSwitch("app_mode", "app_filter_mode", conf.global.app_filter_mode, "split")

\* Faulty: the mode is not looked at.
UpdateSplitTimeAnyMode ==
  WriteSwitch("split", "split_time", conf.time.split_time = 1, "config_done")

\* update_oaf_split_time_status: the switch, ...
UpdateSplitTimeStatus ==
  WriteSwitch("split", "split_time", SplitMode(conf), "config_done")

\* Faulty: only the switch is written.
NoClearWhenOff == blocked' = blocked

\* ... then "clear" unless it is on.
ClearWhenOff == IF SplitMode(conf) THEN blocked' = blocked ELSE BlockedMacsClear

ConfigDone ==
  /\ pc = "config_done"
  /\ ClearWhenOff
  /\ config_change' = FALSE
  /\ pc' = "connect"
  /\ UNCHANGED <<loaded, clients, sysctl, conf, dev, status, count, last_day,
                 noon_done, nl, ctx, todo, ret, now, uci, file, bg, kills>>

\* The end of the handler: appfilter_nl_init once the module is there, with
\* "oaf_rule reload &" in the background; then count++.  The counter is kept
\* in 0 .. SaveTicks, which preserves every test made on it.
Connect ==
  /\ pc = "connect"
  /\ nl' = (nl \/ loaded)
  /\ bg' = IF loaded /\ ~nl THEN "spawned" ELSE bg
  /\ count' = IF count = SaveTicks THEN 1 ELSE count + 1
  /\ pc' = "idle"
  /\ UNCHANGED <<kernelVars, conf, config_change, dev, status, last_day,
                 noon_done, ctx, todo, ret, now, uci, file, kills>>

Handler ==
  \/ Tick \/ UpdateDevList \/ UpdateOafStatus
  \/ SyncClear \/ (\E m \in Mac : SyncAdd(m)) \/ WriteEnable
  \/ MinuteBegin \/ Housekeeping \/ SaveOpen \/ SaveRows
  \/ LoadConfig \/ UpdateRecordStatus \/ UpdateDisableQuicStatus
  \/ UpdateAppFilterModeStatus \/ UpdateSplitTimeStatus \/ ConfigDone
  \/ Connect

-----------------------------------------------------------------------------
(* Netlink reports and ubus requests, handled between two ticks.           *)

\* appfilter_nl_handler for a device reported active in the last minute
NlActiveReport(m) ==
  /\ pc = "idle" /\ nl
  /\ m \in clients
  /\ LET d == WithNodes(dev, {m}, NewNode)
     IN  /\ ActiveTime(d[m]) < MaxActive
         /\ dev' = IF now.tod = "am" THEN [d EXCEPT ![m].am = @ + 1]
                                     ELSE [d EXCEPT ![m].pm = @ + 1]
  /\ UNCHANGED <<kernelVars, conf, config_change, status, count, last_day,
                 noon_done, nl, pc, ctx, todo, ret, now, uci, file, bg, kills>>

\* reload_oaf_rule as far as this module goes: reload_base_config writes
\* app_filter_mode from the committed configuration.
reload_oaf_rule == WriteSysctl("app_filter_mode", uci'.global.app_filter_mode)

UbusUnchanged == UNCHANGED <<loaded, clients, conf, count, last_day, noon_done,
                             nl, pc, ctx, todo, ret, now, file, bg, kills>>

\* The fields that set_app_filter_time stores depend on the mode.
StoredTime(old, t) ==
  CASE t.time_mode = 0 -> [old EXCEPT !.time_mode = 0, !.days = t.days,
                                      !.time_list = t.time_list]
    [] t.time_mode = 1 -> [old EXCEPT !.time_mode = 1, !.days = t.days,
                                      !.seg = t.seg, !.deny_time = t.deny_time,
                                      !.allow_time = t.allow_time]
    [] t.time_mode = 2 -> [old EXCEPT !.time_mode = 2,
                                      !.split_time =
                                        IF t.split_time = -1 THEN @ ELSE t.split_time,
                                      !.daily_limit = t.daily_limit]
    [] OTHER -> [old EXCEPT !.time_mode = t.time_mode]

HandleSetAppFilterTime(t) ==
  /\ pc = "idle"
  /\ uci' = [uci EXCEPT !.time = StoredTime(@, t)]
  /\ config_change' = TRUE
  /\ UbusUnchanged /\ UNCHANGED <<blocked, sysctl, dev, status>>

HandleSetAppFilterBase(g) ==
  /\ pc = "idle"
  /\ uci' = [uci EXCEPT !.global = [g EXCEPT !.user_mode = uci.global.user_mode]]
  /\ reload_oaf_rule
  /\ config_change' = TRUE
  /\ UbusUnchanged /\ UNCHANGED <<blocked, dev, status>>

\* set_app_filter (the list of applications) and set_app_filter_adv: their
\* own fields are outside this module.
HandleSetAppFilter ==
  /\ pc = "idle"
  /\ uci' = uci
  /\ reload_oaf_rule
  /\ config_change' = TRUE
  /\ UbusUnchanged /\ UNCHANGED <<blocked, dev, status>>

\* The handlers of the user list reload the kernel's rules but do not set
\* g_oaf_config_change.
UserListChange(newUci) ==
  /\ pc = "idle"
  /\ uci' = newUci
  /\ reload_oaf_rule
  /\ UbusUnchanged /\ UNCHANGED <<blocked, dev, status, config_change>>

HandleSetAppFilterUser(mode) ==
  UserListChange([uci EXCEPT !.global.user_mode = mode])
HandleAddAppFilterUser(m) ==
  UserListChange([uci EXCEPT !.users = @ \cup {m}])
HandleDelAppFilterUser(m) ==
  UserListChange([uci EXCEPT !.users = @ \ {m}])
HandleAddWhitelistUser(m) ==
  UserListChange([uci EXCEPT !.whitelist = @ \cup {m}])
HandleDelWhitelistUser(m) ==
  UserListChange([uci EXCEPT !.whitelist = @ \ {m}])

\* get_all_users refreshes is_whitelist before it answers; nothing else does.
HandleGetAllUsers ==
  /\ pc = "idle"
  /\ dev' = update_dev_whitelist_flag(dev)
  /\ UbusUnchanged /\ UNCHANGED <<uci, blocked, sysctl, status, config_change>>

\* cmd clear_active_time with a MAC: reset_one_user_today_active_time
HandleClearOne(m) ==
  /\ pc = "idle"
  /\ IF m \in DOMAIN dev
     THEN /\ dev' = [dev EXCEPT ![m].am = 0, ![m].pm = 0,
                                ![m].period_blocked = FALSE]
          /\ BlockedMacsDel(m)
     ELSE UNCHANGED <<dev, blocked>>
  /\ config_change' = TRUE
  /\ UbusUnchanged /\ UNCHANGED <<uci, sysctl, status>>

\* cmd clear_active_time for all: reset_all_users_today_active_time
HandleClearAll ==
  /\ pc = "idle"
  /\ dev' = ResetAllTimes(dev)
  /\ status' = [status EXCEPT !.period_blocked = FALSE]
  /\ config_change' = TRUE
  /\ UbusUnchanged /\ UNCHANGED <<uci, blocked, sysctl>>

\* cmd clear_offline_users: flush_offline_users
HandleClearOffline ==
  /\ pc = "idle"
  /\ dev' = Restrict(dev, {m \in DOMAIN dev : dev[m].online})
  /\ UbusUnchanged /\ UNCHANGED <<uci, blocked, sysctl, status, config_change>>

Ubus ==
  \/ \E t \in TimeRequests : HandleSetAppFilterTime(t)
  \/ \E g \in GlobalRequests : HandleSetAppFilterBase(g)
  \/ HandleSetAppFilter
  \/ ManagedMac # {} /\ \E mode \in {0, 1} : HandleSetAppFilterUser(mode)
  \/ \E m \in ManagedMac : \/ HandleAddAppFilterUser(m)
                           \/ HandleDelAppFilterUser(m)
                           \/ HandleAddWhitelistUser(m)
                           \/ HandleDelWhitelistUser(m)
  \/ HandleGetAllUsers
  \/ \E m \in Mac : HandleClearOne(m)
  \/ HandleClearAll
  \/ HandleClearOffline

-----------------------------------------------------------------------------
(* The rest of the world.                                                  *)

\* The background "oaf_rule reload &" reads the configuration, then writes.
BgRead ==
  /\ bg = "spawned"
  /\ bg' = IF uci.global.app_filter_mode THEN "all" ELSE "listed"
  /\ UNCHANGED <<kernelVars, daemonVars, now, uci, file, kills>>

BgWrite ==
  /\ bg \in {"all", "listed"}
  /\ WriteSysctl("app_filter_mode", bg = "all")
  /\ bg' = "none"
  /\ UNCHANGED <<loaded, clients, blocked, daemonVars, now, uci, file, kills>>

ClockAdvance ==
  /\ ClockMoves
  /\ now' = CASE now.tod = "am"   -> [now EXCEPT !.tod = "noon"]
              [] now.tod = "noon" -> [now EXCEPT !.tod = "pm"]
              [] OTHER -> [day |-> (now.day + 1) % Days, tod |-> "am"]
  /\ UNCHANGED <<kernelVars, daemonVars, uci, file, bg, kills>>

KernelStep ==
  /\ Insmod \/ \E m \in Mac : NfClientAdd(m) \/ CheckClientExpire(m)
  /\ UNCHANGED <<daemonVars, now, uci, file, bg, kills>>

\* State of oafd when its event loop starts: main.
DaemonStart ==
  /\ conf' = af_load_config
  /\ config_change' = TRUE
  /\ dev' = [m \in DOMAIN file |->
               [NewNode EXCEPT !.am = file[m].am, !.pm = file[m].pm]]
  /\ status' = StatusInit
  /\ count' = 0
  /\ last_day' = NoDay
  /\ noon_done' = FALSE
  /\ nl' = FALSE
  /\ pc' = "idle" /\ ctx' = "status" /\ todo' = {} /\ ret' = FALSE

\* "killall -9 oafd" or a crash, at any point, and the restart by procd.  The
\* kernel keeps its state.
Kill ==
  /\ kills < MaxKills
  /\ kills' = kills + 1
  /\ DaemonStart
  /\ loaded' = (loaded \/ AutoLoad)
  /\ UNCHANGED <<clients, blocked, sysctl, now, uci, file, bg>>

\* A reboot: the kernel state goes as well, /etc stays.
Reboot ==
  /\ kills < MaxKills
  /\ kills' = kills + 1
  /\ DaemonStart
  /\ loaded' = AutoLoad /\ clients' = {} /\ blocked' = {}
  /\ sysctl' = SysctlDefault
  /\ bg' = "none"
  /\ UNCHANGED <<now, uci, file>>

Init ==
  /\ KernelInit(AutoLoad)
  /\ now \in InitialNow
  /\ uci \in InitialUci
  /\ conf = af_load_config
  /\ config_change = TRUE
  /\ dev = EmptyTable /\ file = EmptyTable
  /\ status = StatusInit
  /\ count = 0 /\ last_day = NoDay /\ noon_done = FALSE
  /\ nl = FALSE /\ bg = "none"
  /\ pc = "idle" /\ ctx = "status" /\ todo = {} /\ ret = FALSE
  /\ kills = 0

Environment ==
  \/ \E m \in Mac : NlActiveReport(m)
  \/ Ubus
  \/ BgRead \/ BgWrite
  \/ ClockAdvance \/ KernelStep
  \/ Kill \/ Reboot

Next == Handler \/ Environment

Spec == Init /\ [][Next]_vars

\* The event loop keeps running and a spawned shell script finishes.  Devices,
\* the administrator, the clock and crashes owe nothing.
FairSpec == Spec /\ WF_vars(Handler) /\ WF_vars(BgRead \/ BgWrite)

-----------------------------------------------------------------------------
(* Properties.                                                             *)

PcLabels == {"idle", "update_dev_list", "update_oaf_status", "clear", "add",
             "enable", "minute", "housekeeping", "save", "save_rows", "load",
             "record", "quic", "app_mode", "split", "config_done", "connect"}

Minutes == [am : Nat, pm : Nat]

\* Every variable has the type of the C object it stands for.
TypeOK ==
  /\ KernelTypeOK
  /\ now \in Instant
  /\ uci \in Uci
  /\ conf \in [global : Global, time : TimeConf]
  /\ config_change \in BOOLEAN
  /\ IsTable(dev)
  /\ status \in Status
  /\ DOMAIN file \subseteq Mac /\ file \in [DOMAIN file -> Minutes]
  /\ count \in 0 .. SaveTicks
  /\ last_day \in Day \cup {NoDay}
  /\ noon_done \in BOOLEAN /\ nl \in BOOLEAN
  /\ bg \in {"none", "spawned", "all", "listed"}
  /\ pc \in PcLabels /\ ctx \in {"status", "minute", "config"}
  /\ todo \subseteq Mac /\ ret \in BOOLEAN
  /\ kills \in 0 .. MaxKills

-----------------------------------------------------------------------------
(* Safety.                                                                 *)

\* update_oaf_split_time_status (main.c:688): once a configuration other than
\* the per-device limit is in force, no device is left blocked by the one
\* before it, whatever the timer handler, the ubus requests and the coming
\* and going of client entries did in between.
ModeSwitchClears ==
  ~config_change /\ ~SplitBranch(conf) => blocked = {} /\ ~sysctl["split_time"]

\* When no change is pending (oaf_timeout_handler, main.c:818), the kernel
\* runs with the switches of g_af_config.  app_filter_mode is left out: the
\* background oaf_rule may write an older value of it.
KernelFollowsConfig ==
  AutoLoad /\ ~config_change =>
    /\ sysctl["split_time"] = SplitMode(conf)
    /\ sysctl["record_enable"] = conf.global.record_enable
    /\ sysctl["disable_quic"] = conf.global.disable_quic

\* Device m has used up the time that some half day grants it.
Exhausted(m) ==
  \E d \in Day :
    LET limit == conf.time.daily_limit[d]
    IN  /\ limit.enable
        /\ \/ limit.am > 0 /\ dev[m].am >= limit.am
           \/ limit.pm > 0 /\ dev[m].pm >= limit.pm

\* af_split_sync_blocked_macs (oaf_split.c:116): at the moment a device is
\* blocked it is a controlled device that has used up its own time; what the
\* other devices used never counts.
BlockOnlyExhausted ==
  [][\A m \in blocked' \ blocked :
       m \in DOMAIN dev /\ dev[m].is_selected /\ Exhausted(m)]_vars

\* What makes ModeSwitchClears and BlockOnlyExhausted inductive: the steps of a
\* reload, with the nested update_oaf_status, run with g_oaf_config_change set;
\* "+MAC" is only written in split mode, for devices whose time was used up
\* when the list was drawn up; and a kernel without the module has no state.
InReload ==
  \/ pc \in {"load", "record", "quic", "app_mode", "split", "config_done"}
  \/ ctx = "config" /\ pc \in {"update_oaf_status", "clear", "add", "enable"}

ReloadInv ==
  /\ InReload => config_change
  /\ pc \in {"clear", "add"} =>
       /\ SplitBranch(conf)
       /\ \A m \in todo : m \in DOMAIN dev /\ dev[m].is_selected /\ Exhausted(m)
  /\ pc = "config_done" /\ ~SplitMode(conf) => ~sysctl["split_time"]
  /\ ~loaded => clients = {} /\ ~sysctl["split_time"]
  /\ ModeSwitchClears

\* update_dynamic_used_time (main.c:508): only the running phase of mode 1 has
\* time on its counter, and never as much as the configuration in force
\* grants, also when the administrator has shortened it under way.
DynamicBounded ==
  /\ IF status.filter THEN status.allow_time = 0 ELSE status.deny_time = 0
  /\ ~config_change /\ conf.time.time_mode = 1 =>
       /\ status.deny_time # 0 => status.deny_time < conf.time.deny_time
       /\ status.allow_time # 0 => status.allow_time < conf.time.allow_time

\* check_date_change and check_and_reset_today_active_time: while a device is
\* in the table, minutes it used in the current half day disappear only at
\* a change of date, or with a command or restart (which leave
\* g_oaf_config_change set).  The reset at 12:00 must not touch them.
MinutesKept ==
  [][\A m \in DOMAIN dev \cap DOMAIN dev' :
       ActiveTime(dev'[m]) < ActiveTime(dev[m]) =>
         config_change' \/ last_day' # last_day]_vars

-----------------------------------------------------------------------------
(* Liveness, under FairSpec.                                               *)

\* The per-device limit is in force.
SplitOn == conf.global.enable /\ SplitMode(conf)

\* What the limit of the current half day says about m.
HasLimit == MaxAllowed > 0
UsedUp(m) == m \in DOMAIN dev /\ HasLimit /\ ActiveTime(dev[m]) >= MaxAllowed

\* A controlled device that stays over its limit is restricted again and
\* again: every timer round restores the block that a "clear" or a new client
\* entry took away.
Enforced ==
  \A m \in Mac :
    <>[](SplitOn /\ UsedUp(m) /\ dev[m].is_selected /\ m \in clients)
      => []<>Restricted(m)

\* A device that stays under its limit is, from some point on, not touched at
\* all: README.md:67, "Device A exceeding its limit only blocks device A".
Released ==
  \A m \in Mac : <>[](SplitOn /\ ~UsedUp(m)) => <>[]~Restricted(m)

\* Sum of the minutes of all controlled devices in this half day.
SharedUse == MapThenSumSet(LAMBDA m : ActiveTime(dev[m]),
                           {m \in DOMAIN dev : dev[m].is_selected})

\* README.md:66, "Exceeding the limit blocks all devices", with split_time at 0
\* (not with the option missing, which reads as -1 and is taken for on at
\* main.c:560 and for off at main.c:691): all devices are restricted once the
\* shared account is used up, those that used nothing too and while those that
\* did are gone; before that, none is.
SharedEnforced ==
  LET on == /\ conf.global.enable /\ conf.time.time_mode = 2 /\ HasLimit
            /\ conf.time.split_time = 0
  IN  \A m \in Mac :
        /\ <>[](on /\ SharedUse >= MaxAllowed /\ m \in clients) => <>[]Restricted(m)
        /\ <>[](on /\ SharedUse < MaxAllowed) => <>[]~Restricted(m)

\* With user_mode 1 loaded, a device that the administrator does not list is
\* left alone, however much it used (update_dev_selected_flag).
UnlistedReleased ==
  \A m \in Mac :
    <>[](SplitOn /\ conf.global.user_mode = 1 /\ m \notin uci.users)
      => <>[]~Restricted(m)

\* A configuration that the administrator leaves in place and that has neither
\* the per-device limit nor a daily limit without the option split_time (which
\* main.c:560 and main.c:691 read differently) reaches the kernel.
ConfigApplied ==
  <>[]~SplitBranch(uci) => <>[](~sysctl["split_time"] /\ blocked = {})

-----------------------------------------------------------------------------
(* A statement of the repository that the code does not keep.              *)

\* user.htm:732, "In manual mode, only the following added terminals are
\* controlled".
ManualModeHolds ==
  \A m \in Mac :
    <>[](uci.global.user_mode = 1 /\ m \notin uci.users) => <>[]~CutOff(m)

=============================================================================
