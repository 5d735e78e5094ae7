----------------------------- MODULE OafdProofs -----------------------------
(***************************************************************************)
(* Theorems about Oafd, for every set of devices, every number of days,    *)
(* every tick period and every set of requests.                            *)
(***************************************************************************)
EXTENDS Oafd, TLAPS

-----------------------------------------------------------------------------
(* Device tables.                                                          *)

\* A new entry is well formed (add_dev_node).
LEMMA NewNodeType == NewNode \in Node
BY DEF NewNode, Node

\* Storing a truth value in one of its flags leaves an entry well formed.
LEMMA FlagType ==
  ASSUME NEW n \in Node, NEW v \in BOOLEAN
  PROVE  /\ [n EXCEPT !.online = v] \in Node
         /\ [n EXCEPT !.is_selected = v] \in Node
         /\ [n EXCEPT !.is_whitelist = v] \in Node
         /\ [n EXCEPT !.period_blocked = v] \in Node
BY DEF Node

\* A table is still one after each of the operations on all its entries
\* (appfilter_user.c and oaf_split.c).
LEMMA SelectedType ==
  ASSUME NEW d, IsTable(d), NEW mode
  PROVE  IsTable(update_dev_selected_flag(d, mode))
<1> DEFINE v(m) == IF mode = 0 THEN ~d[m].is_whitelist ELSE m \in uci.users
<1>1. \A m \in DOMAIN d : v(m) \in BOOLEAN
  <2>1. CASE mode = 0
    <3>1. \A m \in DOMAIN d : (~d[m].is_whitelist) \in BOOLEAN
      OBVIOUS
    <3> QED BY <2>1, <3>1, Zenon
  <2>2. CASE mode # 0
    <3>1. \A m \in DOMAIN d : (m \in uci.users) \in BOOLEAN
      OBVIOUS
    <3> QED BY <2>2, <3>1, Zenon
  <2> QED BY <2>1, <2>2
<1>2. \A m \in DOMAIN d : d[m] \in Node
  BY DEF IsTable
<1>3. update_dev_selected_flag(d, mode) =
        [m \in DOMAIN d |-> [d[m] EXCEPT !.is_selected = v(m)]]
  BY Zenon DEF update_dev_selected_flag
<1> HIDE DEF v
<1>4. \A m \in DOMAIN d : [d[m] EXCEPT !.is_selected = v(m)] \in Node
  BY <1>1, <1>2, FlagType
<1> QED
  BY <1>3, <1>4 DEF IsTable

\* Refreshing is_whitelist keeps a table (update_dev_whitelist_flag).
LEMMA WhitelistType ==
  ASSUME NEW d, IsTable(d)
  PROVE  IsTable(update_dev_whitelist_flag(d))
<1> DEFINE v(m) == m \in uci.whitelist
<1>1. \A m \in DOMAIN d : v(m) \in BOOLEAN
  OBVIOUS
<1>2. \A m \in DOMAIN d : d[m] \in Node
  BY DEF IsTable
<1>3. update_dev_whitelist_flag(d) =
        [m \in DOMAIN d |-> [d[m] EXCEPT !.is_whitelist = v(m)]]
  BY Zenon DEF update_dev_whitelist_flag
<1> HIDE DEF v
<1>4. \A m \in DOMAIN d : [d[m] EXCEPT !.is_whitelist = v(m)] \in Node
  BY <1>1, <1>2, FlagType
<1> QED
  BY <1>3, <1>4 DEF IsTable

\* Adding missing entries keeps a table (find_dev_node, add_dev_node).
LEMMA WithNodesType ==
  ASSUME NEW d, IsTable(d), NEW S \in SUBSET Mac
  PROVE  IsTable(WithNodes(d, S, NewNode))
BY NewNodeType DEF IsTable, WithNodes

\* The refresh from leases and kernel keeps a table (update_dev_list).
LEMMA OnlineType ==
  ASSUME NEW d, IsTable(d), clients \subseteq Mac
  PROVE  IsTable(update_dev_online(d))
<1> DEFINE k == WithNodes(WithNodes(d, DhcpLeases, NewNode), clients, NewNode)
<1>1. IsTable(k)
  BY WithNodesType, SetsAssumption
<1>2. update_dev_online(d) = [m \in DOMAIN k |-> [k[m] EXCEPT !.online = m \in clients]]
  BY DEF update_dev_online
<1> HIDE DEF k
<1> DEFINE v(m) == m \in clients
<1>3. \A m \in DOMAIN k : v(m) \in BOOLEAN
  OBVIOUS
<1>4. \A m \in DOMAIN k : k[m] \in Node
  BY <1>1 DEF IsTable
<1>5. update_dev_online(d) = [m \in DOMAIN k |-> [k[m] EXCEPT !.online = v(m)]]
  BY <1>2, Zenon
<1> HIDE DEF v
<1>6. \A m \in DOMAIN k : [k[m] EXCEPT !.online = v(m)] \in Node
  BY <1>3, <1>4, FlagType
<1> QED
  BY <1>1, <1>5, <1>6 DEF IsTable

\* The reset at midnight keeps a table (reset_all_users_today_active_time).
LEMMA ResetType ==
  ASSUME NEW d, IsTable(d)
  PROVE  IsTable(ResetAllTimes(d))
BY DEF IsTable, Node, ResetAllTimes

\* The reset at 12:00 keeps a table, whichever node comes first.
LEMMA NoonType ==
  ASSUME NEW d, IsTable(d), NEW e \in NoonResets(d)
  PROVE  IsTable(e)
BY DEF IsTable, Node, NoonResets

\* Removing entries keeps a table (flush_dev_expire_node, flush_offline_users).
LEMMA RestrictType ==
  ASSUME NEW d, IsTable(d), NEW S \in SUBSET DOMAIN d
  PROVE  IsTable(Restrict(d, S))
BY DEF IsTable, Restrict

\* Judging the entries keeps a table (af_split_check_period_limit).
LEMMA SplitFlagsType ==
  ASSUME NEW d, IsTable(d)
  PROVE  IsTable(SplitFlags(d))
<1>1. \A m \in DOMAIN d : d[m] \in Node
  BY DEF IsTable
<1>2. \A m \in DOMAIN d : OverLimit(d[m]) \in BOOLEAN
  BY DEF OverLimit
<1>3. \A m \in DOMAIN d : SplitFlags(d)[m] \in Node
  BY <1>1, <1>2, FlagType, Zenon DEF SplitFlags
<1> QED
  BY <1>3 DEF IsTable, SplitFlags

-----------------------------------------------------------------------------
(* Configuration, counters and switches.                                   *)

Conf == [global : Global, time : TimeConf]

\* af_load_config yields a configuration.
LEMMA LoadType ==
  ASSUME uci \in Uci
  PROVE  af_load_config \in Conf
<1>1. uci.global \in Global /\ uci.time \in TimeConf
  BY DEF Uci
<1>2. [d \in Day |-> NoLimit] \in [Day -> DailyLimit]
  BY DEF NoLimit, DailyLimit
<1>3. af_load_time_config(uci.time) \in TimeConf
  <2> DEFINE none == [d \in Day |-> NoLimit]
  <2>1. none \in [Day -> DailyLimit]
    BY <1>2
  <2> HIDE DEF none
  <2>2. [uci.time EXCEPT !.daily_limit = none] \in TimeConf
    BY <1>1, <2>1 DEF TimeConf
  <2>3. \/ af_load_time_config(uci.time) = uci.time
        \/ af_load_time_config(uci.time) = [uci.time EXCEPT !.daily_limit = none]
    BY DEF af_load_time_config, none
  <2> QED BY <1>1, <2>2, <2>3
<1> QED BY <1>1, <1>3 DEF af_load_config, Conf

\* set_app_filter_time stores a configuration.
LEMMA StoredType ==
  ASSUME NEW old \in TimeConf, NEW t \in TimeConf
  PROVE  StoredTime(old, t) \in TimeConf
<1>1. CASE t.time_mode = 0
  BY <1>1 DEF StoredTime, TimeConf
<1>2. CASE t.time_mode = 1
  BY <1>2 DEF StoredTime, TimeConf
<1>3. CASE t.time_mode = 2
  BY <1>3 DEF StoredTime, TimeConf
<1>4. CASE t.time_mode \notin {0, 1, 2}
  BY <1>4 DEF StoredTime, TimeConf
<1> QED BY <1>1, <1>2, <1>3, <1>4

\* update_dynamic_used_time keeps the run time status well formed.
LEMMA DynamicType ==
  ASSUME NEW s \in Status, NEW t \in TimeConf
  PROVE  update_dynamic_used_time(t, s) \in Status
<1>1. StatusInit \in Status
  BY DEF StatusInit, Status
<1>2. t.deny_time \in Nat /\ t.allow_time \in Nat /\ t.time_mode \in Nat
  BY DEF TimeConf
<1> DEFINE inside == now.day \in t.days /\ now.tod \in t.seg
<1>3. CASE t.time_mode # 1
  BY <1>3 DEF update_dynamic_used_time
<1>4. CASE t.time_mode = 1 /\ ~inside
  BY <1>1, <1>4 DEF update_dynamic_used_time
<1>5. CASE t.time_mode = 1 /\ inside /\ s.filter
  <2>1. \/ update_dynamic_used_time(t, s) = [s EXCEPT !.filter = FALSE, !.deny_time = 0]
        \/ update_dynamic_used_time(t, s) = [s EXCEPT !.deny_time = @ + 1]
    BY <1>5 DEF update_dynamic_used_time
  <2>2. [s EXCEPT !.filter = FALSE, !.deny_time = 0] \in Status
    BY DEF Status
  <2>3. [s EXCEPT !.deny_time = @ + 1] \in Status
    BY DEF Status
  <2> QED BY <2>1, <2>2, <2>3
<1>6. CASE t.time_mode = 1 /\ inside /\ ~s.filter
  <2>1. \/ update_dynamic_used_time(t, s) = [s EXCEPT !.filter = TRUE, !.allow_time = 0]
        \/ update_dynamic_used_time(t, s) = [s EXCEPT !.allow_time = @ + 1]
    BY <1>6 DEF update_dynamic_used_time
  <2>2. [s EXCEPT !.filter = TRUE, !.allow_time = 0] \in Status
    BY DEF Status
  <2>3. [s EXCEPT !.allow_time = @ + 1] \in Status
    BY DEF Status
  <2> QED BY <2>1, <2>2, <2>3
<1> QED BY <1>3, <1>4, <1>5, <1>6

\* A write to a switch under /proc/sys/oaf stores a truth value.
LEMMA SwitchType ==
  ASSUME sysctl \in [SysctlNames -> BOOLEAN],
         NEW f \in SysctlNames, NEW v \in BOOLEAN, WriteSysctl(f, v)
  PROVE  sysctl' \in [SysctlNames -> BOOLEAN]
BY DEF WriteSysctl

-----------------------------------------------------------------------------
(* Type correctness.                                                       *)

\* The initial state is well typed.
LEMMA TypeInit == Init => TypeOK
<1> SUFFICES ASSUME Init PROVE TypeOK
  OBVIOUS
<1>1. uci \in Uci /\ now \in Instant
  BY ConfigAssumption, SetsAssumption DEF Init
<1>2. conf \in Conf
  BY <1>1, LoadType DEF Init
<1>3. KernelTypeOK
  BY SetsAssumption DEF Init, KernelInit, KernelTypeOK, SysctlDefault
<1>4. IsTable(dev) /\ DOMAIN file \subseteq Mac /\ file \in [DOMAIN file -> Minutes]
  BY DEF Init, EmptyTable, IsTable
<1>5. status \in Status
  BY DEF Init, StatusInit, Status
<1>6. count \in 0 .. SaveTicks /\ kills \in 0 .. MaxKills
  BY TicksAssumption, BoundsAssumption DEF Init
<1>7. pc \in PcLabels /\ todo \subseteq Mac
  BY DEF Init, PcLabels
<1> QED
  BY <1>1, <1>2, <1>3, <1>4, <1>5, <1>6, <1>7 DEF Init, TypeOK, Conf

\* The steps of the timer handler that only write a switch.
LEMMA TypeSwitch ==
  ASSUME TypeOK, NEW at, NEW f \in SysctlNames, NEW v \in BOOLEAN,
         NEW next \in PcLabels, WriteSwitch(at, f, v, next)
  PROVE  TypeOK'
<1>1. sysctl' \in [SysctlNames -> BOOLEAN]
  BY SwitchType DEF TypeOK, KernelTypeOK, WriteSwitch
<1> QED
  BY <1>1 DEF TypeOK, KernelTypeOK, WriteSwitch, IsTable

\* The limit checks of update_oaf_status.
LEMMA TypeChecks ==
  ASSUME TypeOK, UpdateOafStatus
  PROVE  TypeOK'
<1> DEFINE frame == /\ UNCHANGED <<kernelVars, conf, config_change, count, last_day,
                               nl, ctx, now, uci, file, bg, kills>>
                    /\ pc' \in PcLabels
<1>0. SUFFICES ASSUME frame, IsTable(dev'), noon_done' \in BOOLEAN,
                      ret' \in BOOLEAN, status' \in Status, todo' \subseteq Mac
               PROVE  TypeOK'
  <2>1. frame
    BY DEF UpdateOafStatus, CheckOff, CheckManual, CheckDynamic, CheckShared,
           CheckSplit, PcLabels
  <2>2. ASSUME CheckOff \/ CheckManual \/ CheckDynamic
        PROVE  /\ IsTable(dev') /\ noon_done' \in BOOLEAN
               /\ ret' \in BOOLEAN /\ status' \in Status /\ todo' \subseteq Mac
    <3>1. UNCHANGED <<dev, status, noon_done, todo>>
      BY <2>2 DEF CheckOff, CheckManual, CheckDynamic
    <3>2. ret' \in BOOLEAN
      BY <2>2 DEF CheckOff, CheckManual, CheckDynamic, af_check_time_manual,
                  TypeOK, Status
    <3> QED BY <3>1, <3>2 DEF TypeOK
  <2>3. ASSUME CheckShared
        PROVE  /\ IsTable(dev') /\ noon_done' \in BOOLEAN
               /\ ret' \in BOOLEAN /\ status' \in Status /\ todo' \subseteq Mac
    <3>1. CASE MaxAllowed = 0
      <4>1. UNCHANGED <<dev, noon_done, todo>> /\ ret' = FALSE
        BY <2>3, <3>1 DEF CheckShared
      <4>2. status' = [status EXCEPT !.period_blocked = FALSE]
        BY <2>3, <4>1 DEF CheckShared
      <4> QED BY <4>1, <4>2 DEF TypeOK, Status
    <3>2. CASE MaxAllowed # 0
      <4>1. dev' \in NoonResets(dev) /\ NoonMark /\ UNCHANGED todo
        BY <2>3, <3>2 DEF CheckShared
      <4>2. ret' \in BOOLEAN
        BY <2>3, <3>2 DEF CheckShared
      <4>3. status' = [status EXCEPT !.period_blocked = ret']
        BY <2>3 DEF CheckShared
      <4>4. noon_done' \in BOOLEAN
        BY <4>1 DEF NoonMark, TypeOK
      <4> QED BY <4>1, <4>2, <4>3, <4>4, NoonType DEF TypeOK, Status
    <3> QED BY <3>1, <3>2
  <2>4. ASSUME CheckSplit
        PROVE  /\ IsTable(dev') /\ noon_done' \in BOOLEAN
               /\ ret' \in BOOLEAN /\ status' \in Status /\ todo' \subseteq Mac
    <3>1. IsTable(dev')
      BY <2>4, NoonType, SplitFlagsType DEF CheckSplit, TypeOK
    <3>2. noon_done' \in BOOLEAN
      BY <2>4 DEF CheckSplit, NoonMark, TypeOK
    <3>3. todo' \subseteq Mac
      BY <2>4, <3>1 DEF CheckSplit, SyncTargets, IsTable
    <3>4. ret' \in BOOLEAN
      BY <2>4 DEF CheckSplit
    <3>5. status' = [status EXCEPT !.period_blocked = ret']
      BY <2>4 DEF CheckSplit
    <3> QED BY <3>1, <3>2, <3>3, <3>4, <3>5 DEF TypeOK, Status
  <2> QED BY <2>1, <2>2, <2>3, <2>4 DEF UpdateOafStatus
<1> QED
  BY <1>0 DEF TypeOK, KernelTypeOK, kernelVars, IsTable

\* The other steps of oaf_timeout_handler.
LEMMA TypeHandler ==
  ASSUME TypeOK, Handler
  PROVE  TypeOK'
<1>1. CASE Tick
  BY <1>1 DEF Tick, PcAfterSave, TypeOK, KernelTypeOK, kernelVars, IsTable, PcLabels
<1>2. CASE UpdateDevList
  <2>1. IsTable(dev')
    BY <1>2, OnlineType, SelectedType DEF UpdateDevList, TypeOK, KernelTypeOK
  <2> QED
    BY <1>2, <2>1 DEF UpdateDevList, TypeOK, KernelTypeOK, kernelVars, IsTable, PcLabels
<1>3. CASE UpdateOafStatus
  BY <1>3, TypeChecks
<1>4. CASE SyncClear
  BY <1>4 DEF SyncClear, BlockedMacsClear, TypeOK, KernelTypeOK, IsTable, PcLabels
<1>5. ASSUME NEW m \in Mac, SyncAdd(m) PROVE TypeOK'
  BY <1>5 DEF SyncAdd, BlockedMacsAdd, TypeOK, KernelTypeOK, IsTable, PcLabels
<1>6. CASE WriteEnable
  <2>1. sysctl' \in [SysctlNames -> BOOLEAN]
    BY <1>6, SwitchType DEF WriteEnable, TypeOK, KernelTypeOK, SysctlNames
  <2>2. pc' \in PcLabels
    BY <1>6 DEF WriteEnable, PcAfterMinute, PcAfterSave, TypeOK, PcLabels
  <2> QED
    BY <1>6, <2>1, <2>2 DEF WriteEnable, TypeOK, KernelTypeOK, IsTable
<1>7. CASE MinuteBegin
  <2>1. status' \in Status
    BY <1>7, DynamicType DEF MinuteBegin, TypeOK
  <2> QED
    BY <1>7, <2>1 DEF MinuteBegin, TypeOK, KernelTypeOK, kernelVars, IsTable, PcLabels
<1>8. CASE Housekeeping
  <2>1. IsTable(dev')
    <3>1. PICK expired \in SUBSET {m \in DOMAIN dev : ~dev[m].online} :
            dev' \in NoonResets(IF NewDay
                                THEN ResetAllTimes(Restrict(dev, DOMAIN dev \ expired))
                                ELSE Restrict(dev, DOMAIN dev \ expired))
      BY <1>8 DEF Housekeeping
    <3>2. IsTable(Restrict(dev, DOMAIN dev \ expired))
      BY RestrictType DEF TypeOK
    <3> QED BY <3>1, <3>2, ResetType, NoonType
  <2>2. status' \in Status
    BY <1>8 DEF Housekeeping, TypeOK, Status
  <2>3. noon_done' \in BOOLEAN
    BY <1>8 DEF Housekeeping, TypeOK
  <2>4. pc' \in PcLabels
    BY <1>8 DEF Housekeeping, PcAfterMinute, PcAfterSave, PcLabels
  <2>5. last_day' \in Day \cup {NoDay}
    BY <1>8 DEF Housekeeping, TypeOK, Instant
  <2>6. UNCHANGED <<kernelVars, conf, config_change, count, nl, ctx, todo, ret,
                    now, uci, file, bg, kills>>
    BY <1>8 DEF Housekeeping
  <2> QED
    BY <2>1, <2>2, <2>3, <2>4, <2>5, <2>6 DEF TypeOK, KernelTypeOK, kernelVars, IsTable
<1>9. CASE SaveOpen
  BY <1>9 DEF SaveOpen, EmptyTable, TypeOK, KernelTypeOK, kernelVars, IsTable, PcLabels
<1>10. CASE SaveRows
  <2>1. DOMAIN file' \subseteq Mac /\ file' \in [DOMAIN file' -> Minutes]
    BY <1>10 DEF SaveRows, TypeOK, IsTable, Node, Minutes
  <2> QED
    BY <1>10, <2>1 DEF SaveRows, PcAfterSave, TypeOK, KernelTypeOK, kernelVars, IsTable,
                       PcLabels
<1>11. CASE LoadConfig
  <2>1. conf' \in Conf
    BY <1>11, LoadType DEF LoadConfig, TypeOK
  <2>2. IsTable(dev')
    BY <1>11, SelectedType DEF LoadConfig, TypeOK
  <2>3. status' \in Status
    BY <1>11, <2>1, DynamicType DEF LoadConfig, TypeOK, Conf
  <2> QED
    BY <1>11, <2>1, <2>2, <2>3 DEF LoadConfig, TypeOK, KernelTypeOK, kernelVars, IsTable,
                                   PcLabels, Conf
<1>12. conf.global.record_enable \in BOOLEAN /\ conf.global.disable_quic \in BOOLEAN
         /\ conf.global.app_filter_mode \in BOOLEAN /\ SplitMode(conf) \in BOOLEAN
  BY DEF TypeOK, Global, SplitMode
<1>13. {"record_enable", "disable_quic", "app_filter_mode", "split_time"} \subseteq SysctlNames
         /\ {"quic", "app_mode", "split", "config_done"} \subseteq PcLabels
  BY DEF SysctlNames, PcLabels
<1>14. CASE UpdateRecordStatus
  BY <1>12, <1>13, <1>14, TypeSwitch DEF UpdateRecordStatus
<1>15. CASE UpdateDisableQuicStatus
  BY <1>12, <1>13, <1>15, TypeSwitch DEF UpdateDisableQuicStatus
<1>16. CASE UpdateAppFilterModeStatus
  BY <1>12, <1>13, <1>16, TypeSwitch DEF UpdateAppFilterModeStatus
<1>17. CASE UpdateSplitTimeStatus
  BY <1>12, <1>13, <1>17, TypeSwitch DEF UpdateSplitTimeStatus
<1>18. CASE ConfigDone
  BY <1>18 DEF ConfigDone, ClearWhenOff, BlockedMacsClear, TypeOK, KernelTypeOK, IsTable,
               PcLabels
<1>19. CASE Connect
  <2>1. count' \in 0 .. SaveTicks
    BY <1>19, TicksAssumption DEF Connect, TypeOK
  <2>2. nl' \in BOOLEAN /\ bg' \in {"none", "spawned", "all", "listed"}
    BY <1>19 DEF Connect, TypeOK, KernelTypeOK
  <2> QED
    BY <1>19, <2>1, <2>2 DEF Connect, TypeOK, KernelTypeOK, kernelVars, IsTable, PcLabels
<1> QED
  BY <1>1, <1>2, <1>3, <1>4, <1>5, <1>6, <1>7, <1>8, <1>9, <1>10, <1>11, <1>14, <1>15,
     <1>16, <1>17, <1>18, <1>19 DEF Handler

\* Netlink reports and ubus requests.
LEMMA TypeRequests ==
  ASSUME TypeOK, (\E m \in Mac : NlActiveReport(m)) \/ Ubus
  PROVE  TypeOK'
<1>1. ASSUME NEW m \in Mac, NlActiveReport(m) PROVE TypeOK'
  <2> DEFINE d == WithNodes(dev, {m}, NewNode)
  <2>1. IsTable(d) /\ m \in DOMAIN d
    BY WithNodesType DEF TypeOK, WithNodes
  <2>2. dev' = [d EXCEPT ![m].am = @ + 1] \/ dev' = [d EXCEPT ![m].pm = @ + 1]
    BY <1>1 DEF NlActiveReport
  <2> HIDE DEF d
  <2>3. d[m] \in Node /\ d \in [DOMAIN d -> Node] /\ DOMAIN d \subseteq Mac
    BY <2>1 DEF IsTable
  <2>4. [d[m] EXCEPT !.am = @ + 1] \in Node /\ [d[m] EXCEPT !.pm = @ + 1] \in Node
    BY <2>3 DEF Node
  <2>5. IsTable(dev')
    BY <2>1, <2>2, <2>3, <2>4 DEF IsTable
  <2> QED
    BY <1>1, <2>5 DEF NlActiveReport, TypeOK, KernelTypeOK, kernelVars, IsTable
<1>2. ASSUME uci' \in Uci, sysctl' \in [SysctlNames -> BOOLEAN], config_change' \in BOOLEAN,
             IsTable(dev'), status' \in Status, blocked' \subseteq blocked, UbusUnchanged
      PROVE  TypeOK'
  BY <1>2 DEF TypeOK, KernelTypeOK, UbusUnchanged, IsTable
<1>3. ASSUME uci' \in Uci, reload_oaf_rule PROVE sysctl' \in [SysctlNames -> BOOLEAN]
  <2>1. uci'.global.app_filter_mode \in BOOLEAN /\ "app_filter_mode" \in SysctlNames
    BY <1>3 DEF Uci, Global, SysctlNames
  <2> QED BY <1>3, <2>1, SwitchType DEF reload_oaf_rule, TypeOK, KernelTypeOK
<1>4. ASSUME NEW t \in TimeRequests, HandleSetAppFilterTime(t) PROVE TypeOK'
  <2>1. StoredTime(uci.time, t) \in TimeConf
    BY ConfigAssumption, StoredType DEF TypeOK, Uci
  <2>2. uci' = [uci EXCEPT !.time = StoredTime(uci.time, t)]
    BY <1>4 DEF HandleSetAppFilterTime
  <2>3. uci' \in Uci
    BY <2>1, <2>2 DEF TypeOK, Uci
  <2> QED BY <1>2, <1>4, <2>3 DEF HandleSetAppFilterTime, TypeOK, KernelTypeOK
<1>5. ASSUME NEW g \in GlobalRequests, HandleSetAppFilterBase(g) PROVE TypeOK'
  <2>1. uci' \in Uci
    <3>1. g \in Global /\ uci.global.user_mode \in {0, 1}
      BY ConfigAssumption DEF TypeOK, Uci, Global
    <3>2. [g EXCEPT !.user_mode = uci.global.user_mode] \in Global
      BY <3>1 DEF Global
    <3> QED BY <1>5, <3>2 DEF HandleSetAppFilterBase, TypeOK, Uci
  <2>2. sysctl' \in [SysctlNames -> BOOLEAN]
    BY <1>3, <1>5, <2>1 DEF HandleSetAppFilterBase
  <2> QED BY <1>2, <1>5, <2>1, <2>2 DEF HandleSetAppFilterBase, TypeOK
<1>6. CASE HandleSetAppFilter
  <2>1. uci' \in Uci
    BY <1>6 DEF HandleSetAppFilter, TypeOK
  <2>2. sysctl' \in [SysctlNames -> BOOLEAN]
    BY <1>3, <1>6, <2>1 DEF HandleSetAppFilter
  <2> QED BY <1>2, <1>6, <2>1, <2>2 DEF HandleSetAppFilter, TypeOK
<1>7. ASSUME NEW u \in Uci, UserListChange(u) PROVE TypeOK'
  <2>1. sysctl' \in [SysctlNames -> BOOLEAN]
    BY <1>3, <1>7 DEF UserListChange
  <2> QED BY <1>2, <1>7, <2>1 DEF UserListChange, TypeOK
<1>8. ASSUME NEW mode \in {0, 1}, HandleSetAppFilterUser(mode) PROVE TypeOK'
  <2>1. [uci EXCEPT !.global.user_mode = mode] \in Uci
    BY DEF TypeOK, Uci, Global
  <2> QED BY <1>7, <1>8, <2>1 DEF HandleSetAppFilterUser
<1>9. ASSUME NEW m \in ManagedMac,
             \/ HandleAddAppFilterUser(m) \/ HandleDelAppFilterUser(m)
             \/ HandleAddWhitelistUser(m) \/ HandleDelWhitelistUser(m)
      PROVE  TypeOK'
  <2>1. /\ [uci EXCEPT !.users = @ \cup {m}] \in Uci
        /\ [uci EXCEPT !.users = @ \ {m}] \in Uci
        /\ [uci EXCEPT !.whitelist = @ \cup {m}] \in Uci
        /\ [uci EXCEPT !.whitelist = @ \ {m}] \in Uci
    BY SetsAssumption DEF TypeOK, Uci
  <2> QED BY <1>7, <1>9, <2>1 DEF HandleAddAppFilterUser, HandleDelAppFilterUser,
                                  HandleAddWhitelistUser, HandleDelWhitelistUser
<1>10. CASE HandleGetAllUsers
  BY <1>2, <1>10, WhitelistType DEF HandleGetAllUsers, TypeOK, KernelTypeOK
<1>11. ASSUME NEW m \in Mac, HandleClearOne(m) PROVE TypeOK'
  <2>1. IsTable(dev')
    <3>1. CASE m \in DOMAIN dev
      <4>1. dev' = [dev EXCEPT ![m] = [dev[m] EXCEPT !.am = 0, !.pm = 0,
                                                    !.period_blocked = FALSE]]
        BY <1>11, <3>1 DEF HandleClearOne, TypeOK, IsTable, Node
      <4>2. [dev[m] EXCEPT !.am = 0, !.pm = 0, !.period_blocked = FALSE] \in Node
        BY <3>1 DEF TypeOK, IsTable, Node
      <4> QED BY <4>1, <4>2 DEF TypeOK, IsTable
    <3>2. CASE m \notin DOMAIN dev
      BY <1>11, <3>2 DEF HandleClearOne, TypeOK
    <3> QED BY <3>1, <3>2
  <2>2. blocked' \subseteq blocked
    BY <1>11 DEF HandleClearOne, BlockedMacsDel
  <2> QED BY <1>2, <1>11, <2>1, <2>2 DEF HandleClearOne, TypeOK, KernelTypeOK
<1>12. CASE HandleClearAll
  <2>1. status' \in Status
    BY <1>12 DEF HandleClearAll, TypeOK, Status
  <2> QED BY <1>2, <1>12, <2>1, ResetType DEF HandleClearAll, TypeOK, KernelTypeOK
<1>13. CASE HandleClearOffline
  <2>1. IsTable(dev')
    BY <1>13, RestrictType DEF HandleClearOffline, TypeOK
  <2> QED BY <1>2, <1>13, <2>1 DEF HandleClearOffline, TypeOK, KernelTypeOK
<1> QED
  BY <1>1, <1>4, <1>5, <1>6, <1>8, <1>9, <1>10, <1>11, <1>12, <1>13 DEF Ubus

\* Background script, clock, kernel, crash and reboot.
LEMMA TypeWorld ==
  ASSUME TypeOK,
         BgRead \/ BgWrite \/ ClockAdvance \/ KernelStep \/ Kill \/ Reboot
  PROVE  TypeOK'
<1>1. CASE BgRead
  BY <1>1 DEF BgRead, TypeOK, KernelTypeOK, kernelVars, daemonVars, IsTable
<1>2. CASE BgWrite
  <2>1. (bg = "all") \in BOOLEAN /\ "app_filter_mode" \in SysctlNames
    BY DEF SysctlNames
  <2>2. sysctl' \in [SysctlNames -> BOOLEAN]
    BY <1>2, <2>1, SwitchType DEF BgWrite, TypeOK, KernelTypeOK
  <2> QED BY <1>2, <2>2 DEF BgWrite, TypeOK, KernelTypeOK, daemonVars, IsTable
<1>3. CASE ClockAdvance
  <2>1. now' \in Instant
    <3>1. now.day \in 0 .. Days - 1 /\ now.tod \in Tod /\ now \in Instant
      BY DEF TypeOK, Instant, Day
    <3>2. (now.day + 1) % Days \in 0 .. Days - 1
      BY <3>1, DaysAssumption
    <3> QED BY <1>3, <3>1, <3>2 DEF ClockAdvance, Instant, Day, Tod
  <2> QED BY <1>3, <2>1 DEF ClockAdvance, TypeOK, KernelTypeOK, kernelVars, daemonVars, IsTable
<1>4. CASE KernelStep
  <2>1. KernelTypeOK'
    BY <1>4 DEF KernelStep, Insmod, NfClientAdd, CheckClientExpire, TypeOK, KernelTypeOK
  <2> QED BY <1>4, <2>1 DEF KernelStep, TypeOK, daemonVars, IsTable
<1>5. ASSUME DaemonStart, UNCHANGED <<uci, file, now>>
      PROVE  /\ conf' \in Conf /\ config_change' \in BOOLEAN /\ IsTable(dev')
             /\ status' \in Status /\ count' \in 0 .. SaveTicks
             /\ last_day' \in Day \cup {NoDay} /\ noon_done' \in BOOLEAN
             /\ nl' \in BOOLEAN /\ pc' \in PcLabels /\ ctx' \in {"status", "minute", "config"}
             /\ todo' \subseteq Mac /\ ret' \in BOOLEAN
  <2>1. conf' \in Conf
    BY <1>5, LoadType DEF DaemonStart, TypeOK
  <2>2. IsTable(dev')
    <3>1. ASSUME NEW m \in DOMAIN file
          PROVE  [NewNode EXCEPT !.am = file[m].am, !.pm = file[m].pm] \in Node
      <4>1. file[m].am \in Nat /\ file[m].pm \in Nat
        BY DEF TypeOK, Minutes
      <4> QED BY <4>1, NewNodeType DEF Node
    <3> QED BY <1>5, <3>1 DEF DaemonStart, TypeOK, IsTable
  <2>3. status' \in Status
    BY <1>5 DEF DaemonStart, StatusInit, Status
  <2>4. count' \in 0 .. SaveTicks
    <3>1. count' = 0
      BY <1>5 DEF DaemonStart
    <3> QED BY <3>1, TicksAssumption
  <2> QED
    BY <1>5, <2>1, <2>2, <2>3, <2>4 DEF DaemonStart, PcLabels
<1>6. ASSUME Kill \/ Reboot PROVE TypeOK'
  <2>1. DaemonStart /\ UNCHANGED <<uci, file, now>>
    BY <1>6 DEF Kill, Reboot
  <2>2. KernelTypeOK'
    <3>1. CASE Kill
      <4>1. loaded' \in BOOLEAN
        BY <3>1 DEF Kill
      <4> QED BY <3>1, <4>1 DEF Kill, TypeOK, KernelTypeOK
    <3>2. CASE Reboot
      BY <3>2, SetsAssumption DEF Reboot, KernelTypeOK, SysctlDefault
    <3> QED BY <1>6, <3>1, <3>2
  <2>3. kills' \in 0 .. MaxKills
    BY <1>6, BoundsAssumption DEF Kill, Reboot, TypeOK
  <2>4. bg' \in {"none", "spawned", "all", "listed"}
    BY <1>6 DEF Kill, Reboot, TypeOK
  <2> QED
    BY <1>5, <2>1, <2>2, <2>3, <2>4 DEF TypeOK, Conf
<1> QED
  BY <1>1, <1>2, <1>3, <1>4, <1>6

\* Every step keeps the types.
LEMMA TypeNext == TypeOK /\ [Next]_vars => TypeOK'
<1> SUFFICES ASSUME TypeOK, [Next]_vars PROVE TypeOK'
  OBVIOUS
<1>1. CASE Next
  BY <1>1, TypeHandler, TypeRequests, TypeWorld DEF Next, Environment
<1>2. CASE UNCHANGED vars
  BY <1>2 DEF vars, kernelVars, daemonVars, TypeOK, KernelTypeOK, IsTable
<1> QED BY <1>1, <1>2

\* Every variable of oafd and of the kernel part keeps the type of the C object
\* it stands for; in particular period_blocked is only ever set on entries of
\* the client table.
THEOREM TypeCorrect == Spec => []TypeOK
BY TypeInit, TypeNext, PTL DEF Spec

-----------------------------------------------------------------------------
(* Blocks follow the mode, and only hit devices whose own time is used up. *)

\* Exhausted depends on the configuration and on the minutes only.
LEMMA ExhaustedStable ==
  ASSUME NEW m, UNCHANGED <<conf, dev>>
  PROVE  Exhausted(m)' <=> Exhausted(m)
BY DEF Exhausted

\* The devices that af_split_sync_blocked_macs is about to write are selected
\* and over the limit of the current half day.
LEMMA TargetsExhausted ==
  ASSUME TypeOK, CheckSplit, UNCHANGED conf
  PROVE  \A m \in todo' : m \in DOMAIN dev' /\ dev'[m].is_selected /\ Exhausted(m)'
<1> SUFFICES ASSUME NEW m \in todo'
             PROVE  m \in DOMAIN dev' /\ dev'[m].is_selected /\ Exhausted(m)'
  OBVIOUS
<1>1. m \in DOMAIN dev' /\ dev'[m].is_selected /\ dev'[m].period_blocked
  BY DEF CheckSplit, SyncTargets
<1>2. PICK d : IsTable(d) /\ dev' = SplitFlags(d)
  BY NoonType DEF CheckSplit, TypeOK
<1>3. m \in DOMAIN d /\ d[m] \in Node
  BY <1>1, <1>2 DEF SplitFlags, IsTable
<1>4. MaxAllowed # 0
  <2> SUFFICES ASSUME MaxAllowed = 0 PROVE FALSE
    OBVIOUS
  <2>1. dev'[m] = [d[m] EXCEPT !.period_blocked = FALSE]
    BY <1>2, <1>3 DEF SplitFlags
  <2> QED BY <1>1, <1>3, <2>1 DEF Node
<1>5. d[m].is_selected
  BY <1>1, <1>2, <1>3, <1>4 DEF SplitFlags
<1>6. dev'[m] = [d[m] EXCEPT !.period_blocked = OverLimit(d[m])]
  BY <1>2, <1>3, <1>4, <1>5 DEF SplitFlags
<1>7. OverLimit(d[m])
  <2>1. dev'[m].period_blocked = OverLimit(d[m])
    BY <1>3, <1>6 DEF Node
  <2> QED BY <1>1, <2>1
<1>8. dev'[m].am = d[m].am /\ dev'[m].pm = d[m].pm
  BY <1>3, <1>6 DEF Node
<1> DEFINE limit == conf.time.daily_limit[now.day]
<1>9. now.day \in Day /\ limit \in DailyLimit
  BY DEF TypeOK, Instant, TimeConf
<1>10. limit.enable /\ \/ limit.am > 0 /\ d[m].am >= limit.am
                       \/ limit.pm > 0 /\ d[m].pm >= limit.pm
  BY <1>3, <1>4, <1>7, <1>9 DEF MaxAllowed, OverLimit, ActiveTime, DailyLimit, Node
<1> QED
  BY <1>1, <1>8, <1>9, <1>10 DEF Exhausted

\* The steps of the timer handler preserve the invariant.
LEMMA ReloadHandler ==
  ASSUME TypeOK, ReloadInv, Handler
  PROVE  ReloadInv'
<1> USE DEF ReloadInv, InReload, ModeSwitchClears, SplitMode, SplitBranch
<1>1. CASE Tick
  BY <1>1 DEF Tick, PcAfterSave, kernelVars
<1>2. CASE UpdateDevList
  BY <1>2 DEF UpdateDevList, kernelVars
<1>3. CASE UpdateOafStatus
  <2>1. UNCHANGED <<kernelVars, conf, config_change, ctx>> /\ pc = "update_oaf_status"
    BY <1>3 DEF UpdateOafStatus
  <2>2. CASE pc' = "enable"
    BY <2>1, <2>2 DEF kernelVars
  <2>3. CASE CheckSplit
    <3>1. \A m \in todo' : m \in DOMAIN dev' /\ dev'[m].is_selected /\ Exhausted(m)'
      BY <2>1, <2>3, TargetsExhausted
    <3>2. pc' = "clear" /\ SplitBranch(conf)
      BY <2>3 DEF CheckSplit
    <3> QED BY <2>1, <3>1, <3>2 DEF kernelVars
  <2> QED
    BY <1>3, <2>2, <2>3 DEF UpdateOafStatus, CheckOff, CheckManual, CheckDynamic, CheckShared
<1>4. CASE SyncClear
  <2>1. pc = "clear" /\ pc' \in {"enable", "add"} /\ todo' \subseteq todo /\ blocked' = {}
    BY <1>4 DEF SyncClear, BlockedMacsClear
  <2>2. UNCHANGED <<loaded, clients, sysctl, conf, dev, config_change, ctx>>
    BY <1>4 DEF SyncClear
  <2>3. \A m \in todo' : m \in DOMAIN dev' /\ dev'[m].is_selected /\ Exhausted(m)'
    BY <2>1, <2>2, ExhaustedStable
  <2> QED BY <2>1, <2>2, <2>3
<1>5. ASSUME NEW m \in Mac, SyncAdd(m) PROVE ReloadInv'
  <2>1. pc = "add" /\ pc' \in {"enable", "add"} /\ todo' \subseteq todo
    BY <1>5 DEF SyncAdd
  <2>2. UNCHANGED <<loaded, clients, sysctl, conf, dev, config_change, ctx>>
    BY <1>5 DEF SyncAdd
  <2>3. \A n \in todo' : n \in DOMAIN dev' /\ dev'[n].is_selected /\ Exhausted(n)'
    BY <2>1, <2>2, ExhaustedStable
  <2> QED BY <2>1, <2>2, <2>3
<1>6. CASE WriteEnable
  <2>1. pc = "enable" /\ sysctl'["split_time"] = sysctl["split_time"]
    BY <1>6 DEF WriteEnable, WriteSysctl, TypeOK, KernelTypeOK, SysctlNames
  <2>2. UNCHANGED <<loaded, clients, blocked, conf, config_change, ctx>>
    BY <1>6 DEF WriteEnable
  <2>3. \/ pc' \in {"minute", "housekeeping", "save", "connect"}
        \/ pc' = "load" /\ config_change
        \/ pc' = "record" /\ ctx = "config"
    BY <1>6 DEF WriteEnable, PcAfterMinute, PcAfterSave, TypeOK
  <2> QED BY <2>1, <2>2, <2>3
<1>7. CASE MinuteBegin
  BY <1>7 DEF MinuteBegin, kernelVars
<1>8. CASE Housekeeping
  BY <1>8 DEF Housekeeping, PcAfterMinute, PcAfterSave, kernelVars
<1>9. CASE SaveOpen
  BY <1>9 DEF SaveOpen, kernelVars
<1>10. CASE SaveRows
  BY <1>10 DEF SaveRows, PcAfterSave, kernelVars
<1>11. CASE LoadConfig
  BY <1>11 DEF LoadConfig, kernelVars
<1>12. CASE UpdateRecordStatus \/ UpdateDisableQuicStatus \/ UpdateAppFilterModeStatus
  <2>1. sysctl'["split_time"] = sysctl["split_time"]
    BY <1>12 DEF UpdateRecordStatus, UpdateDisableQuicStatus, UpdateAppFilterModeStatus,
                 WriteSwitch, WriteSysctl, TypeOK, KernelTypeOK, SysctlNames
  <2> QED
    BY <1>12, <2>1 DEF UpdateRecordStatus, UpdateDisableQuicStatus,
                       UpdateAppFilterModeStatus, WriteSwitch
<1>13. CASE UpdateSplitTimeStatus
  <2>1. sysctl'["split_time"] = IF loaded THEN SplitMode(conf) ELSE sysctl["split_time"]
    BY <1>13 DEF UpdateSplitTimeStatus, WriteSwitch, WriteSysctl, TypeOK, KernelTypeOK,
                 SysctlNames
  <2> QED BY <1>13, <2>1 DEF UpdateSplitTimeStatus, WriteSwitch
<1>14. CASE ConfigDone
  BY <1>14 DEF ConfigDone, ClearWhenOff, BlockedMacsClear
<1>15. CASE Connect
  BY <1>15 DEF Connect, kernelVars
<1> QED
  BY <1>1, <1>2, <1>3, <1>4, <1>5, <1>6, <1>7, <1>8, <1>9, <1>10, <1>11, <1>12, <1>13,
     <1>14, <1>15 DEF Handler

\* Everything else happens with the timer handler at rest, or leaves its
\* variables alone.
LEMMA ReloadEnvironment ==
  ASSUME TypeOK, ReloadInv, Environment
  PROVE  ReloadInv'
<1> USE DEF ReloadInv, InReload, ModeSwitchClears, SplitMode, SplitBranch
<1>1. ASSUME pc = "idle", UNCHANGED <<pc, ctx, conf, loaded, clients>>,
             blocked' \subseteq blocked, config_change => config_change',
             sysctl'["split_time"] = sysctl["split_time"]
      PROVE  ReloadInv'
  BY <1>1
<1>2. ASSUME reload_oaf_rule PROVE sysctl'["split_time"] = sysctl["split_time"]
  BY <1>2 DEF reload_oaf_rule, WriteSysctl, TypeOK, KernelTypeOK, SysctlNames
<1>3. CASE \E m \in Mac : NlActiveReport(m)
  BY <1>1, <1>3 DEF NlActiveReport, kernelVars
<1>4. CASE Ubus
  <2>1. ASSUME NEW u, UserListChange(u) PROVE ReloadInv'
    BY <1>1, <1>2, <2>1 DEF UserListChange, UbusUnchanged
  <2>2. ASSUME NEW t, HandleSetAppFilterTime(t) PROVE ReloadInv'
    BY <1>1, <2>2 DEF HandleSetAppFilterTime, UbusUnchanged
  <2>3. ASSUME NEW g, HandleSetAppFilterBase(g) PROVE ReloadInv'
    BY <1>1, <1>2, <2>3 DEF HandleSetAppFilterBase, UbusUnchanged
  <2>4. CASE HandleSetAppFilter
    BY <1>1, <1>2, <2>4 DEF HandleSetAppFilter, UbusUnchanged
  <2>5. CASE HandleGetAllUsers \/ HandleClearAll \/ HandleClearOffline
    BY <1>1, <2>5 DEF HandleGetAllUsers, HandleClearAll, HandleClearOffline, UbusUnchanged
  <2>6. ASSUME NEW m, HandleClearOne(m) PROVE ReloadInv'
    <3>1. blocked' \subseteq blocked
      BY <2>6 DEF HandleClearOne, BlockedMacsDel
    <3> QED BY <1>1, <2>6, <3>1 DEF HandleClearOne, UbusUnchanged
  <2> QED
    BY <1>4, <2>1, <2>2, <2>3, <2>4, <2>5, <2>6
       DEF Ubus, HandleSetAppFilterUser, HandleAddAppFilterUser, HandleDelAppFilterUser,
           HandleAddWhitelistUser, HandleDelWhitelistUser
<1>5. ASSUME UNCHANGED daemonVars, ~loaded' => clients' = {} /\ ~sysctl'["split_time"],
             blocked' \subseteq blocked, sysctl'["split_time"] = sysctl["split_time"]
      PROVE  ReloadInv'
  <2>1. UNCHANGED <<pc, ctx, conf, dev, todo, config_change>>
    BY <1>5 DEF daemonVars
  <2>2. \A m : Exhausted(m)' <=> Exhausted(m)
    BY <2>1, ExhaustedStable
  <2> QED BY <1>5, <2>1, <2>2
<1>6. CASE BgRead \/ ClockAdvance
  BY <1>5, <1>6 DEF BgRead, ClockAdvance, kernelVars
<1>7. CASE BgWrite
  <2>1. sysctl'["split_time"] = sysctl["split_time"]
    BY <1>7 DEF BgWrite, WriteSysctl, TypeOK, KernelTypeOK, SysctlNames
  <2> QED BY <1>5, <1>7, <2>1 DEF BgWrite
<1>8. CASE KernelStep
  BY <1>5, <1>8 DEF KernelStep, Insmod, NfClientAdd, CheckClientExpire
<1>9. CASE Kill \/ Reboot
  BY <1>9 DEF Kill, Reboot, DaemonStart, SysctlDefault, SysctlNames
<1> QED
  BY <1>3, <1>4, <1>6, <1>7, <1>8, <1>9 DEF Environment

\* Every step keeps the invariant of the reload.
LEMMA ReloadNext == TypeOK /\ ReloadInv /\ [Next]_vars => ReloadInv'
<1> SUFFICES ASSUME TypeOK, ReloadInv, [Next]_vars PROVE ReloadInv'
  OBVIOUS
<1>1. CASE Next
  BY <1>1, ReloadHandler, ReloadEnvironment DEF Next
<1>2. CASE UNCHANGED vars
  BY <1>2, ExhaustedStable DEF vars, kernelVars, daemonVars, ReloadInv, InReload,
                               ModeSwitchClears, SplitMode, SplitBranch
<1> QED BY <1>1, <1>2

\* The inductive invariant holds in every reachable state.
THEOREM ReloadCorrect == Spec => []ReloadInv
<1>1. Init => ReloadInv
  BY DEF Init, KernelInit, SysctlDefault, SysctlNames, ReloadInv, InReload, ModeSwitchClears
<1> QED
  BY <1>1, TypeCorrect, ReloadNext, PTL DEF Spec

\* After a change to any other mode has been applied, no device is left
\* blocked (update_oaf_split_time_status).
THEOREM ModeSwitchCorrect == Spec => []ModeSwitchClears
<1>1. ReloadInv => ModeSwitchClears
  BY DEF ReloadInv
<1> QED
  BY <1>1, ReloadCorrect, PTL

\* Only a controlled device that has used up its own time is ever blocked
\* (af_split_sync_blocked_macs), for any number of devices.
THEOREM BlockCorrect == Spec => BlockOnlyExhausted
<1> DEFINE A == \A m \in blocked' \ blocked :
                  m \in DOMAIN dev /\ dev[m].is_selected /\ Exhausted(m)
<1>1. TypeOK /\ ReloadInv /\ [Next]_vars => [A]_vars
  <2> SUFFICES ASSUME TypeOK, ReloadInv, Next, NEW m \in blocked' \ blocked
               PROVE  m \in DOMAIN dev /\ dev[m].is_selected /\ Exhausted(m)
    OBVIOUS
  <2>1. PICK n \in Mac : SyncAdd(n)
    <3>1. ASSUME Handler, ~\E n \in Mac : SyncAdd(n) PROVE blocked' \subseteq blocked
      BY <3>1 DEF Handler, Tick, UpdateDevList, UpdateOafStatus, SyncClear,
         BlockedMacsClear, WriteEnable, MinuteBegin, Housekeeping, SaveOpen, SaveRows,
         LoadConfig, UpdateRecordStatus, UpdateDisableQuicStatus,
         UpdateAppFilterModeStatus, UpdateSplitTimeStatus, WriteSwitch, ConfigDone,
         ClearWhenOff, Connect, kernelVars
    <3>2. ASSUME Ubus PROVE blocked' \subseteq blocked
      BY <3>2 DEF Ubus, UserListChange, HandleSetAppFilterTime, HandleSetAppFilterBase,
         HandleSetAppFilter, HandleSetAppFilterUser, HandleAddAppFilterUser,
         HandleDelAppFilterUser, HandleAddWhitelistUser, HandleDelWhitelistUser,
         HandleGetAllUsers, HandleClearOne, BlockedMacsDel, HandleClearAll,
         HandleClearOffline
    <3>3. ASSUME Environment, ~Ubus PROVE blocked' \subseteq blocked
      BY <3>3 DEF Environment, NlActiveReport, BgRead, BgWrite, ClockAdvance, KernelStep,
         Insmod, NfClientAdd, CheckClientExpire, Kill, Reboot, kernelVars
    <3> QED BY <3>1, <3>2, <3>3 DEF Next
  <2>2. m = n /\ n \in todo /\ pc = "add"
    BY <2>1 DEF SyncAdd, BlockedMacsAdd
  <2> QED BY <2>2 DEF ReloadInv
<1> QED
  BY <1>1, TypeCorrect, ReloadCorrect, PTL DEF Spec, BlockOnlyExhausted

-----------------------------------------------------------------------------
(* The counters of mode 1.                                                 *)

\* Only the running phase has time on its counter.
OnePhase(s) == IF s.filter THEN s.allow_time = 0 ELSE s.deny_time = 0

\* The counters are below what t grants.
Below(s, t) ==
  t.time_mode = 1 => /\ s.deny_time # 0 => s.deny_time < t.deny_time
                     /\ s.allow_time # 0 => s.allow_time < t.allow_time

\* From the call of update_dynamic_used_time in a reload until its end, and
\* whenever no change is pending, the counters fit the configuration loaded.
DynamicInv ==
  /\ OnePhase(status)
  /\ ~config_change \/ (InReload /\ pc # "load") => Below(status, conf.time)

\* update_dynamic_used_time establishes both, whatever it starts from.
LEMMA DynamicStep ==
  ASSUME NEW s \in Status, NEW t \in TimeConf, OnePhase(s)
  PROVE  /\ OnePhase(update_dynamic_used_time(t, s))
         /\ Below(update_dynamic_used_time(t, s), t)
<1> DEFINE inside == now.day \in t.days /\ now.tod \in t.seg
<1>1. s.deny_time \in Nat /\ s.allow_time \in Nat /\ s.filter \in BOOLEAN
  BY DEF Status
<1>2. t.deny_time \in Nat /\ t.allow_time \in Nat /\ t.time_mode \in Nat
  BY DEF TimeConf
<1>3. CASE t.time_mode # 1
  BY <1>3 DEF update_dynamic_used_time, Below
<1>4. CASE t.time_mode = 1 /\ ~inside
  BY <1>4 DEF update_dynamic_used_time, StatusInit, OnePhase, Below
<1>5. CASE t.time_mode = 1 /\ inside /\ s.filter
  <2>1. CASE s.deny_time + 1 >= t.deny_time
    <3>1. update_dynamic_used_time(t, s) = [s EXCEPT !.filter = FALSE, !.deny_time = 0]
      BY <1>5, <2>1 DEF update_dynamic_used_time
    <3>2. s.allow_time = 0
      BY <1>5 DEF OnePhase
    <3> QED BY <3>1, <3>2 DEF OnePhase, Below, Status
  <2>2. CASE ~(s.deny_time + 1 >= t.deny_time)
    <3>1. update_dynamic_used_time(t, s) = [s EXCEPT !.deny_time = s.deny_time + 1]
      BY <1>5, <2>2 DEF update_dynamic_used_time
    <3>2. s.allow_time = 0
      BY <1>5 DEF OnePhase
    <3> QED BY <1>1, <1>2, <1>5, <2>2, <3>1, <3>2 DEF OnePhase, Below, Status
  <2> QED BY <2>1, <2>2
<1>6. CASE t.time_mode = 1 /\ inside /\ ~s.filter
  <2>1. CASE s.allow_time + 1 >= t.allow_time
    <3>1. update_dynamic_used_time(t, s) = [s EXCEPT !.filter = TRUE, !.allow_time = 0]
      BY <1>6, <2>1 DEF update_dynamic_used_time
    <3>2. s.deny_time = 0
      BY <1>6 DEF OnePhase
    <3> QED BY <3>1, <3>2 DEF OnePhase, Below, Status
  <2>2. CASE ~(s.allow_time + 1 >= t.allow_time)
    <3>1. update_dynamic_used_time(t, s) = [s EXCEPT !.allow_time = s.allow_time + 1]
      BY <1>6, <2>2 DEF update_dynamic_used_time
    <3>2. s.deny_time = 0
      BY <1>6 DEF OnePhase
    <3> QED BY <1>1, <1>2, <1>6, <2>2, <3>1, <3>2 DEF OnePhase, Below, Status
  <2> QED BY <2>1, <2>2
<1> QED BY <1>3, <1>4, <1>5, <1>6

\* Recording in the status whether someone is blocked does not matter.
LEMMA BlockedFieldOnly ==
  ASSUME NEW s \in Status, NEW v, NEW t
  PROVE  /\ OnePhase([s EXCEPT !.period_blocked = v]) <=> OnePhase(s)
         /\ Below([s EXCEPT !.period_blocked = v], t) <=> Below(s, t)
BY DEF Status, OnePhase, Below

\* Every step keeps the invariant of the alternation of mode 1.
LEMMA DynamicNext ==
  TypeOK /\ ReloadInv /\ DynamicInv /\ [Next]_vars => DynamicInv'
<1> SUFFICES ASSUME TypeOK, ReloadInv, DynamicInv, [Next]_vars PROVE DynamicInv'
  OBVIOUS
<1>0. status \in Status /\ conf.time \in TimeConf
  BY DEF TypeOK
<1>1. ASSUME UNCHANGED <<status, conf>>,
             (~config_change' \/ (InReload' /\ pc' # "load"))
               => (~config_change \/ (InReload /\ pc # "load"))
      PROVE  DynamicInv'
  BY <1>1 DEF DynamicInv
<1>2. ASSUME NEW v, status' = [status EXCEPT !.period_blocked = v], UNCHANGED conf,
             (~config_change' \/ (InReload' /\ pc' # "load"))
               => (~config_change \/ (InReload /\ pc # "load"))
      PROVE  DynamicInv'
  BY <1>0, <1>2, BlockedFieldOnly DEF DynamicInv
<1>3. CASE Tick
  BY <1>1, <1>3 DEF Tick, PcAfterSave, InReload
<1>4. CASE UpdateDevList
  BY <1>1, <1>4 DEF UpdateDevList, InReload
<1>5. CASE UpdateOafStatus
  <2>1. /\ UNCHANGED <<conf, config_change, ctx>> /\ pc = "update_oaf_status"
        /\ pc' \in {"enable", "clear"}
        /\ UNCHANGED status \/ status' = [status EXCEPT !.period_blocked = ret']
    BY <1>5 DEF UpdateOafStatus, CheckOff, CheckManual, CheckDynamic, CheckShared, CheckSplit
  <2> QED BY <1>1, <1>2, <2>1 DEF InReload
<1>6. ASSUME SyncClear \/ \E m \in Mac : SyncAdd(m) PROVE DynamicInv'
  BY <1>1, <1>6 DEF SyncClear, SyncAdd, InReload
<1>7. CASE WriteEnable
  <2>1. pc = "enable" /\ UNCHANGED <<conf, config_change, ctx, status>>
    BY <1>7 DEF WriteEnable
  <2>2. \/ pc' \in {"minute", "housekeeping", "save", "connect", "load"}
        \/ pc' = "record" /\ ctx = "config"
    BY <1>7 DEF WriteEnable, PcAfterMinute, PcAfterSave, TypeOK
  <2> QED BY <1>1, <2>1, <2>2 DEF InReload
<1>8. CASE MinuteBegin
  BY <1>0, <1>8, DynamicStep DEF MinuteBegin, DynamicInv
<1>9. CASE Housekeeping
  <2>1. /\ UNCHANGED <<conf, config_change, ctx>> /\ pc = "housekeeping"
        /\ pc' \in {"save", "load", "connect"}
        /\ UNCHANGED status \/ status' = [status EXCEPT !.period_blocked = FALSE]
    BY <1>9 DEF Housekeeping, PcAfterMinute, PcAfterSave
  <2> QED BY <1>1, <1>2, <2>1 DEF InReload
<1>10. CASE SaveOpen \/ SaveRows
  BY <1>1, <1>10 DEF SaveOpen, SaveRows, PcAfterSave, InReload
<1>11. CASE LoadConfig
  <2>1. conf'.time \in TimeConf
    BY <1>11, LoadType DEF LoadConfig, TypeOK, Conf
  <2> QED BY <1>0, <1>11, <2>1, DynamicStep DEF LoadConfig, DynamicInv
<1>12. CASE UpdateRecordStatus \/ UpdateDisableQuicStatus \/ UpdateAppFilterModeStatus
              \/ UpdateSplitTimeStatus
  BY <1>1, <1>12 DEF UpdateRecordStatus, UpdateDisableQuicStatus,
       UpdateAppFilterModeStatus, UpdateSplitTimeStatus, WriteSwitch, InReload
<1>13. CASE ConfigDone
  BY <1>1, <1>13 DEF ConfigDone, InReload
<1>14. CASE Connect
  BY <1>1, <1>14 DEF Connect, InReload
<1>15. CASE \E m \in Mac : NlActiveReport(m)
  BY <1>1, <1>15 DEF NlActiveReport, InReload
<1>16. CASE Ubus
  <2>1. ASSUME pc = "idle", UNCHANGED <<pc, conf>>, config_change => config_change',
               \/ UNCHANGED status
               \/ status' = [status EXCEPT !.period_blocked = FALSE]
        PROVE  DynamicInv'
    BY <1>1, <1>2, <2>1 DEF InReload
  <2>2. ASSUME NEW u, UserListChange(u) PROVE DynamicInv'
    BY <2>1, <2>2 DEF UserListChange, UbusUnchanged
  <2>3. ASSUME NEW t, HandleSetAppFilterTime(t) PROVE DynamicInv'
    BY <2>1, <2>3 DEF HandleSetAppFilterTime, UbusUnchanged
  <2>4. ASSUME NEW g, HandleSetAppFilterBase(g) PROVE DynamicInv'
    BY <2>1, <2>4 DEF HandleSetAppFilterBase, UbusUnchanged
  <2>5. CASE HandleSetAppFilter \/ HandleGetAllUsers \/ HandleClearAll \/ HandleClearOffline
    BY <2>1, <2>5 DEF HandleSetAppFilter, HandleGetAllUsers, HandleClearAll,
                      HandleClearOffline, UbusUnchanged
  <2>6. ASSUME NEW m, HandleClearOne(m) PROVE DynamicInv'
    BY <2>1, <2>6 DEF HandleClearOne, UbusUnchanged
  <2> QED
    BY <1>16, <2>2, <2>3, <2>4, <2>5, <2>6
       DEF Ubus, HandleSetAppFilterUser, HandleAddAppFilterUser, HandleDelAppFilterUser,
           HandleAddWhitelistUser, HandleDelWhitelistUser
<1>17. CASE BgRead \/ BgWrite \/ ClockAdvance \/ KernelStep
  BY <1>1, <1>17 DEF BgRead, BgWrite, ClockAdvance, KernelStep, daemonVars, InReload
<1>18. CASE Kill \/ Reboot
  <2>1. config_change' = TRUE /\ pc' = "idle" /\ status' = StatusInit
    BY <1>18 DEF Kill, Reboot, DaemonStart
  <2>2. OnePhase(status')
    BY <2>1 DEF StatusInit, OnePhase
  <2>3. config_change' /\ ~InReload'
    BY <2>1 DEF InReload
  <2> QED BY <2>2, <2>3 DEF DynamicInv
<1>19. CASE UNCHANGED vars
  BY <1>1, <1>19 DEF vars, daemonVars, InReload
<1> QED
  BY <1>3, <1>4, <1>5, <1>6, <1>7, <1>8, <1>9, <1>10, <1>11, <1>12, <1>13, <1>14, <1>15,
     <1>16, <1>17, <1>18, <1>19 DEF Next, Handler, Environment

\* The alternation of mode 1 never overruns the configuration in force, also
\* after the administrator shortened it (update_dynamic_used_time).
THEOREM DynamicCorrect == Spec => []DynamicBounded
<1>1. Init => DynamicInv
  BY DEF Init, StatusInit, DynamicInv, OnePhase, InReload
<1>2. DynamicInv => DynamicBounded
  BY DEF DynamicInv, DynamicBounded, OnePhase, Below
<1> QED
  BY <1>1, <1>2, TypeCorrect, ReloadCorrect, DynamicNext, PTL DEF Spec

-----------------------------------------------------------------------------
(* The switches of the kernel.                                             *)

\* With the module loaded at boot, each switch is right from its own write of
\* a reload on, and all are when no change is pending.
SwitchInv ==
  AutoLoad =>
    /\ loaded
    /\ ~config_change \/ pc \in {"quic", "app_mode", "split", "config_done"}
         => sysctl["record_enable"] = conf.global.record_enable
    /\ ~config_change \/ pc \in {"app_mode", "split", "config_done"}
         => sysctl["disable_quic"] = conf.global.disable_quic
    /\ ~config_change \/ pc = "config_done" => sysctl["split_time"] = SplitMode(conf)

\* A write to one switch leaves the others alone.
LEMMA OneSwitch ==
  ASSUME sysctl \in [SysctlNames -> BOOLEAN], NEW f \in SysctlNames, NEW v,
         WriteSysctl(f, v)
  PROVE  /\ loaded => sysctl'[f] = v
         /\ \A g \in SysctlNames : g # f => sysctl'[g] = sysctl[g]
BY DEF WriteSysctl

\* Every step keeps them.
LEMMA SwitchNext ==
  TypeOK /\ ReloadInv /\ SwitchInv /\ [Next]_vars => SwitchInv'
<1> SUFFICES ASSUME TypeOK, ReloadInv, SwitchInv, [Next]_vars, AutoLoad PROVE SwitchInv'
  BY DEF SwitchInv
<1>1. /\ loaded
      /\ ~config_change \/ pc \in {"quic", "app_mode", "split", "config_done"}
           => sysctl["record_enable"] = conf.global.record_enable
      /\ ~config_change \/ pc \in {"app_mode", "split", "config_done"}
           => sysctl["disable_quic"] = conf.global.disable_quic
      /\ ~config_change \/ pc = "config_done" => sysctl["split_time"] = SplitMode(conf)
  BY DEF SwitchInv
<1>2. sysctl \in [SysctlNames -> BOOLEAN]
  BY DEF TypeOK, KernelTypeOK
<1>3. {"enable", "app_filter_mode", "record_enable", "disable_quic", "split_time"}
        \subseteq SysctlNames
  BY DEF SysctlNames
<1>4. ASSUME loaded', UNCHANGED conf,
             \A f \in {"record_enable", "disable_quic", "split_time"} : sysctl'[f] = sysctl[f],
             config_change => config_change',
             pc' \in {"quic", "app_mode", "split", "config_done"} => pc' = pc
      PROVE  SwitchInv'
  BY <1>1, <1>4 DEF SwitchInv, SplitMode
<1>5. CASE Tick \/ UpdateDevList \/ MinuteBegin \/ Housekeeping \/ SaveOpen \/ SaveRows
              \/ Connect
  <2>1. /\ UNCHANGED <<loaded, sysctl, conf, config_change>>
        /\ pc' \notin {"quic", "app_mode", "split", "config_done"}
    BY <1>5 DEF Tick, UpdateDevList, MinuteBegin, Housekeeping, SaveOpen, SaveRows, Connect,
                PcAfterMinute, PcAfterSave, kernelVars
  <2> QED
    BY <1>1, <1>4, <2>1
<1>6. CASE UpdateOafStatus \/ SyncClear \/ \E m \in Mac : SyncAdd(m)
  <2>1. /\ UNCHANGED <<loaded, sysctl, conf, config_change>>
        /\ pc' \notin {"quic", "app_mode", "split", "config_done"}
    BY <1>6 DEF UpdateOafStatus, CheckOff, CheckManual, CheckDynamic, CheckShared, CheckSplit,
                SyncClear, SyncAdd, kernelVars
  <2> QED
    BY <1>1, <1>4, <2>1
<1>7. CASE WriteEnable
  <2>1. \A f \in SysctlNames : f # "enable" => sysctl'[f] = sysctl[f]
    BY <1>2, <1>3, <1>7, OneSwitch DEF WriteEnable
  <2>2. pc' \notin {"quic", "app_mode", "split", "config_done"}
    BY <1>7 DEF WriteEnable, PcAfterMinute, PcAfterSave, TypeOK
  <2> QED
    BY <1>1, <1>3, <1>4, <1>7, <2>1, <2>2 DEF WriteEnable
<1>8. CASE LoadConfig
  <2>1. config_change' /\ pc' = "update_oaf_status" /\ loaded'
    BY <1>1, <1>8 DEF LoadConfig, ReloadInv, InReload, kernelVars
  <2> QED
    BY <2>1 DEF SwitchInv
<1>9. ASSUME NEW at, NEW f \in SysctlNames, NEW v, NEW next, WriteSwitch(at, f, v, next),
             at \in {"record", "quic", "app_mode", "split"}
      PROVE  /\ loaded' /\ config_change' /\ conf' = conf /\ pc = at /\ pc' = next
             /\ sysctl'[f] = v
             /\ \A g \in SysctlNames : g # f => sysctl'[g] = sysctl[g]
  <2>1. sysctl'[f] = v /\ \A g \in SysctlNames : g # f => sysctl'[g] = sysctl[g]
    BY <1>1, <1>2, <1>9, OneSwitch DEF WriteSwitch
  <2> QED
    BY <1>1, <1>9, <2>1 DEF WriteSwitch, ReloadInv, InReload
<1>10. CASE UpdateRecordStatus
  <2>1. /\ loaded' /\ config_change' /\ conf' = conf /\ pc' = "quic"
        /\ sysctl'["record_enable"] = conf.global.record_enable
    BY <1>3, <1>9, <1>10 DEF UpdateRecordStatus
  <2> QED
    BY <2>1 DEF SwitchInv
<1>11. CASE UpdateDisableQuicStatus
  <2>1. /\ loaded' /\ config_change' /\ conf' = conf /\ pc' = "app_mode" /\ pc = "quic"
        /\ sysctl'["disable_quic"] = conf.global.disable_quic
        /\ sysctl'["record_enable"] = sysctl["record_enable"]
    BY <1>3, <1>9, <1>11 DEF UpdateDisableQuicStatus
  <2> QED
    BY <1>1, <2>1 DEF SwitchInv
<1>12. CASE UpdateAppFilterModeStatus
  <2>1. /\ loaded' /\ config_change' /\ conf' = conf /\ pc' = "split" /\ pc = "app_mode"
        /\ sysctl'["disable_quic"] = sysctl["disable_quic"]
        /\ sysctl'["record_enable"] = sysctl["record_enable"]
    BY <1>3, <1>9, <1>12 DEF UpdateAppFilterModeStatus
  <2> QED
    BY <1>1, <2>1 DEF SwitchInv
<1>13. CASE UpdateSplitTimeStatus
  <2>1. /\ loaded' /\ config_change' /\ conf' = conf /\ pc' = "config_done" /\ pc = "split"
        /\ sysctl'["disable_quic"] = sysctl["disable_quic"]
        /\ sysctl'["record_enable"] = sysctl["record_enable"]
    BY <1>3, <1>9, <1>13 DEF UpdateSplitTimeStatus
  <2>2. sysctl'["split_time"] = SplitMode(conf)
    BY <1>3, <1>9, <1>13 DEF UpdateSplitTimeStatus
  <2> QED
    BY <1>1, <2>1, <2>2 DEF SwitchInv, SplitMode
<1>14. CASE ConfigDone
  BY <1>1, <1>14 DEF ConfigDone, SwitchInv, SplitMode
<1>15. CASE \E m \in Mac : NlActiveReport(m)
  BY <1>1, <1>4, <1>15 DEF NlActiveReport, kernelVars
<1>16. CASE Ubus
  <2>1. ASSUME reload_oaf_rule
        PROVE  \A f \in {"record_enable", "disable_quic", "split_time"} :
                  sysctl'[f] = sysctl[f]
    BY <1>2, <1>3, <2>1, OneSwitch DEF reload_oaf_rule
  <2>2. ASSUME NEW u, UserListChange(u) PROVE SwitchInv'
    BY <1>1, <1>4, <2>1, <2>2 DEF UserListChange, UbusUnchanged
  <2>3. ASSUME NEW t, HandleSetAppFilterTime(t) PROVE SwitchInv'
    BY <1>1, <1>4, <2>3 DEF HandleSetAppFilterTime, UbusUnchanged
  <2>4. ASSUME NEW g, HandleSetAppFilterBase(g) PROVE SwitchInv'
    BY <1>1, <1>4, <2>1, <2>4 DEF HandleSetAppFilterBase, UbusUnchanged
  <2>5. CASE HandleSetAppFilter
    BY <1>1, <1>4, <2>1, <2>5 DEF HandleSetAppFilter, UbusUnchanged
  <2>6. CASE HandleGetAllUsers \/ HandleClearAll \/ HandleClearOffline
    BY <1>1, <1>4, <2>6 DEF HandleGetAllUsers, HandleClearAll, HandleClearOffline,
                            UbusUnchanged
  <2>7. ASSUME NEW m, HandleClearOne(m) PROVE SwitchInv'
    BY <1>1, <1>4, <2>7 DEF HandleClearOne, UbusUnchanged
  <2> QED
    BY <1>16, <2>2, <2>3, <2>4, <2>5, <2>6, <2>7
       DEF Ubus, HandleSetAppFilterUser, HandleAddAppFilterUser, HandleDelAppFilterUser,
           HandleAddWhitelistUser, HandleDelWhitelistUser
<1>17. CASE BgRead \/ ClockAdvance \/ KernelStep
  BY <1>1, <1>4, <1>17 DEF BgRead, ClockAdvance, KernelStep, Insmod, NfClientAdd,
                           CheckClientExpire, kernelVars, daemonVars
<1>18. CASE BgWrite
  <2>1. \A f \in SysctlNames : f # "app_filter_mode" => sysctl'[f] = sysctl[f]
    BY <1>2, <1>3, <1>18, OneSwitch DEF BgWrite
  <2> QED
    BY <1>1, <1>3, <1>4, <1>18, <2>1 DEF BgWrite, daemonVars
<1>19. CASE Kill \/ Reboot
  <2>1. loaded' /\ config_change' /\ pc' = "idle"
    BY <1>1, <1>19 DEF Kill, Reboot, DaemonStart
  <2> QED
    BY <2>1 DEF SwitchInv
<1>20. CASE UNCHANGED vars
  BY <1>1, <1>4, <1>20 DEF vars, kernelVars, daemonVars
<1> QED
  BY <1>5, <1>6, <1>7, <1>8, <1>10, <1>11, <1>12, <1>13, <1>14, <1>15, <1>16, <1>17, <1>18,
     <1>19, <1>20 DEF Next, Handler, Environment

\* When no change is pending, the kernel runs with the switches of the
\* configuration that oafd has loaded (update_oaf_record_status,
\* update_oaf_disable_quic_status and update_oaf_split_time_status).
THEOREM SwitchesCorrect == Spec => []KernelFollowsConfig
<1>1. Init => SwitchInv
  BY DEF Init, KernelInit, SwitchInv
<1>2. SwitchInv => KernelFollowsConfig
  BY DEF SwitchInv, KernelFollowsConfig
<1> QED
  BY <1>1, <1>2, TypeCorrect, ReloadCorrect, SwitchNext, PTL DEF Spec


-----------------------------------------------------------------------------
(* The minutes of the current half day.                                    *)

\* Entry m of table e has the minutes of entry m of table d.
SameMinutes(d, e, m) == e[m].am = d[m].am /\ e[m].pm = d[m].pm

\* Refreshing the flags and adding missing entries leaves the minutes alone
\* (update_dev_list, update_dev_whitelist_flag, flush_offline_users).
LEMMA FlagsKeep ==
  ASSUME NEW d, IsTable(d), NEW m \in DOMAIN d, NEW mode
  PROVE  /\ SameMinutes(d, update_dev_selected_flag(d, mode), m)
         /\ SameMinutes(d, update_dev_whitelist_flag(d), m)
         /\ SameMinutes(d, update_dev_online(d), m)
         /\ m \in DOMAIN update_dev_online(d)
         /\ SameMinutes(d, SplitFlags(d), m)
<1>1. d[m] \in Node
  BY DEF IsTable
<1>2. \A v : /\ [d[m] EXCEPT !.is_selected = v].am = d[m].am
             /\ [d[m] EXCEPT !.is_selected = v].pm = d[m].pm
             /\ [d[m] EXCEPT !.is_whitelist = v].am = d[m].am
             /\ [d[m] EXCEPT !.is_whitelist = v].pm = d[m].pm
             /\ [d[m] EXCEPT !.online = v].am = d[m].am
             /\ [d[m] EXCEPT !.online = v].pm = d[m].pm
             /\ [d[m] EXCEPT !.period_blocked = v].am = d[m].am
             /\ [d[m] EXCEPT !.period_blocked = v].pm = d[m].pm
  BY <1>1 DEF Node
<1>3. PICK s : update_dev_selected_flag(d, mode)[m] = [d[m] EXCEPT !.is_selected = s]
  BY Zenon DEF update_dev_selected_flag
<1>4. PICK w : update_dev_whitelist_flag(d)[m] = [d[m] EXCEPT !.is_whitelist = w]
  BY Zenon DEF update_dev_whitelist_flag
<1>5. /\ m \in DOMAIN update_dev_online(d)
      /\ \E v : update_dev_online(d)[m] = [d[m] EXCEPT !.online = v]
  <2> DEFINE k == WithNodes(WithNodes(d, DhcpLeases, NewNode), clients, NewNode)
  <2>1. m \in DOMAIN k /\ k[m] = d[m]
    BY DEF WithNodes
  <2>2. update_dev_online(d) = [n \in DOMAIN k |-> [k[n] EXCEPT !.online = n \in clients]]
    BY DEF update_dev_online
  <2> HIDE DEF k
  <2>3. update_dev_online(d)[m] = [d[m] EXCEPT !.online = m \in clients]
    BY <2>1, <2>2, Zenon
  <2> QED
    BY <2>1, <2>2, <2>3
<1>6. PICK b : SplitFlags(d)[m] = d[m] \/ SplitFlags(d)[m] = [d[m] EXCEPT !.period_blocked = b]
  BY Zenon DEF SplitFlags
<1>7. SameMinutes(d, update_dev_selected_flag(d, mode), m)
  BY <1>2, <1>3 DEF SameMinutes
<1>8. SameMinutes(d, update_dev_whitelist_flag(d), m)
  BY <1>2, <1>4 DEF SameMinutes
<1>9. SameMinutes(d, update_dev_online(d), m)
  BY <1>2, <1>5 DEF SameMinutes
<1>10. SameMinutes(d, SplitFlags(d), m)
  BY <1>2, <1>6 DEF SameMinutes
<1> QED
  BY <1>5, <1>7, <1>8, <1>9, <1>10

\* The reset at 12:00 (check_and_reset_today_active_time) takes minutes of the
\* morning, which are not those of the current half day.
LEMMA NoonKeeps ==
  ASSUME NEW d, IsTable(d), NEW e \in NoonResets(d), NEW m \in DOMAIN d
  PROVE  ActiveTime(e[m]) = ActiveTime(d[m])
<1>1. CASE e = d
  BY <1>1
<1>2. CASE e # d
  <2>1. now.tod = "noon" /\ \E n \in DOMAIN d : e = [d EXCEPT ![n].am = 0]
    BY <1>2 DEF NoonResets
  <2>2. e[m].pm = d[m].pm
    BY <2>1 DEF IsTable, Node
  <2> QED
    BY <2>1, <2>2 DEF ActiveTime
<1> QED
  BY <1>1, <1>2

\* The minutes of the current half day are a function of the two counters.
LEMMA SameActive ==
  ASSUME NEW d, NEW e, NEW m, SameMinutes(d, e, m)
  PROVE  ActiveTime(e[m]) = ActiveTime(d[m])
BY DEF SameMinutes, ActiveTime

\* While a device is in the table, the minutes it used in the current half day
\* are taken from it only at a change of date, or by a command or a restart:
\* whatever the order of timer rounds, reports, requests, expiry, saves and
\* the reset at 12:00.
THEOREM MinutesCorrect == Spec => MinutesKept
<1> DEFINE A == \A m \in DOMAIN dev \cap DOMAIN dev' :
                  ActiveTime(dev'[m]) < ActiveTime(dev[m]) =>
                    config_change' \/ last_day' # last_day
<1>1. TypeOK /\ [Next]_vars => [A]_vars
  <2> SUFFICES ASSUME TypeOK, Next, NEW m \in DOMAIN dev, m \in DOMAIN dev',
                      ~config_change', last_day' = last_day
               PROVE  ~(ActiveTime(dev'[m]) < ActiveTime(dev[m]))
    OBVIOUS
  <2>1. IsTable(dev) /\ dev[m] \in Node
    BY DEF TypeOK, IsTable
  <2>2. ActiveTime(dev[m]) \in Nat
    BY <2>1 DEF ActiveTime, Node
  <2>3. ASSUME ActiveTime(dev'[m]) = ActiveTime(dev[m])
        PROVE  ~(ActiveTime(dev'[m]) < ActiveTime(dev[m]))
    BY <2>2, <2>3
  <2>4. CASE dev' = dev
    BY <2>3, <2>4
  <2>5. CASE UpdateDevList
    <3> DEFINE d == update_dev_online(dev)
               e == update_dev_selected_flag(d, conf.global.user_mode)
    <3>1. IsTable(d) /\ m \in DOMAIN d /\ SameMinutes(dev, d, m)
      BY <2>1, FlagsKeep, OnlineType DEF TypeOK, KernelTypeOK
    <3>2. dev' = e
      BY <2>5 DEF UpdateDevList
    <3> HIDE DEF d
    <3>3. SameMinutes(d, e, m)
      BY <3>1, FlagsKeep
    <3> QED
      BY <2>3, <3>1, <3>2, <3>3 DEF SameMinutes, ActiveTime
  <2>6. CASE UpdateOafStatus
    <3>1. CASE dev' \in NoonResets(dev)
      BY <2>1, <2>3, <3>1, NoonKeeps
    <3>2. CASE dev' = SplitFlags(dev)
      BY <2>1, <2>3, <3>2, FlagsKeep, SameActive
    <3>3. ASSUME NEW d \in NoonResets(dev), dev' = SplitFlags(d)
          PROVE  ActiveTime(dev'[m]) = ActiveTime(dev[m])
      <4>1. IsTable(d)
        BY <2>1, NoonType
      <4>2. m \in DOMAIN d
        BY <3>3 DEF SplitFlags
      <4>3. ActiveTime(d[m]) = ActiveTime(dev[m])
        BY <2>1, NoonKeeps
      <4>4. ActiveTime(dev'[m]) = ActiveTime(d[m])
        BY <3>3, <4>1, <4>2, FlagsKeep, SameActive
      <4> QED
        BY <4>3, <4>4
    <3> QED
      BY <2>3, <2>4, <2>6, <3>1, <3>2, <3>3
      DEF UpdateOafStatus, CheckOff, CheckManual, CheckDynamic, CheckShared, CheckSplit
  <2>7. CASE Housekeeping
    <3>1. ~NewDay
      BY <2>7 DEF Housekeeping, NewDay
    <3>2. PICK expired \in SUBSET {n \in DOMAIN dev : ~dev[n].online} :
            dev' \in NoonResets(Restrict(dev, DOMAIN dev \ expired))
      BY <2>7, <3>1 DEF Housekeeping
    <3> DEFINE d == Restrict(dev, DOMAIN dev \ expired)
    <3>3. IsTable(d)
      BY <2>1, RestrictType
    <3>4. m \in DOMAIN d
      BY <3>2 DEF NoonResets
    <3>5. d[m] = dev[m]
      BY <3>4 DEF Restrict
    <3> HIDE DEF d
    <3>6. ActiveTime(dev'[m]) = ActiveTime(d[m])
      BY <3>2, <3>3, <3>4, NoonKeeps DEF d
    <3> QED
      BY <2>3, <3>5, <3>6
  <2>8. CASE LoadConfig
    <3>1. dev' = update_dev_selected_flag(dev, conf'.global.user_mode)
      BY <2>8 DEF LoadConfig
    <3> QED
      BY <2>1, <2>3, <3>1, FlagsKeep, SameActive
  <2>9. ASSUME NEW n \in Mac, NlActiveReport(n)
        PROVE  ~(ActiveTime(dev'[m]) < ActiveTime(dev[m]))
    <3> DEFINE d == WithNodes(dev, {n}, NewNode)
    <3>1. d[m] = dev[m] /\ m \in DOMAIN d /\ n \in DOMAIN d
      BY DEF WithNodes
    <3>2. \/ now.tod = "am" /\ dev' = [d EXCEPT ![n].am = @ + 1]
          \/ now.tod # "am" /\ dev' = [d EXCEPT ![n].pm = @ + 1]
      BY <2>9 DEF NlActiveReport
    <3> HIDE DEF d
    <3>3. CASE m # n
      BY <2>3, <3>1, <3>2, <3>3
    <3>4. CASE m = n
      <4>1. dev[m].am \in Nat /\ dev[m].pm \in Nat
        BY <2>1 DEF Node
      <4>2. CASE now.tod = "am"
        <5>1. dev'[m] = [dev[m] EXCEPT !.am = dev[m].am + 1]
          BY <3>1, <3>2, <3>4, <4>2
        <5>2. dev'[m].am = dev[m].am + 1
          BY <2>1, <5>1 DEF Node
        <5> QED
          BY <4>1, <4>2, <5>2 DEF ActiveTime
      <4>3. CASE now.tod # "am"
        <5>1. dev'[m] = [dev[m] EXCEPT !.pm = dev[m].pm + 1]
          BY <3>1, <3>2, <3>4, <4>3
        <5>2. dev'[m].pm = dev[m].pm + 1
          BY <2>1, <5>1 DEF Node
        <5> QED
          BY <4>1, <4>3, <5>2 DEF ActiveTime
      <4> QED
        BY <4>2, <4>3
    <3> QED
      BY <3>3, <3>4
  <2>10. CASE HandleGetAllUsers
    <3>1. dev' = update_dev_whitelist_flag(dev)
      BY <2>10 DEF HandleGetAllUsers
    <3> QED
      BY <2>1, <2>3, <3>1, FlagsKeep, SameActive
  <2>11. CASE HandleClearOffline
    <3>1. dev'[m] = dev[m]
      BY <2>11 DEF HandleClearOffline, Restrict
    <3> QED
      BY <2>3, <3>1
  <2>12. ~\/ HandleClearAll \/ Kill \/ Reboot \/ \E n \in Mac : HandleClearOne(n)
    BY DEF HandleClearAll, HandleClearOne, Kill, Reboot, DaemonStart
  <2>13. ASSUME Handler, ~UpdateDevList, ~UpdateOafStatus, ~Housekeeping, ~LoadConfig
         PROVE  dev' = dev
    BY <2>13 DEF Handler, Tick, SyncClear, SyncAdd, WriteEnable, MinuteBegin, SaveOpen,
       SaveRows, UpdateRecordStatus, UpdateDisableQuicStatus, UpdateAppFilterModeStatus,
       UpdateSplitTimeStatus, WriteSwitch, ConfigDone, Connect
  <2>14. ASSUME Ubus, ~HandleGetAllUsers, ~HandleClearOffline PROVE dev' = dev
    BY <2>12, <2>14 DEF Ubus, UserListChange, HandleSetAppFilterTime, HandleSetAppFilterBase,
       HandleSetAppFilter, HandleSetAppFilterUser, HandleAddAppFilterUser,
       HandleDelAppFilterUser, HandleAddWhitelistUser, HandleDelWhitelistUser
  <2>15. CASE BgRead \/ BgWrite \/ ClockAdvance \/ KernelStep
    BY <2>4, <2>15 DEF BgRead, BgWrite, ClockAdvance, KernelStep, daemonVars
  <2> QED
    BY <2>4, <2>5, <2>6, <2>7, <2>8, <2>9, <2>10, <2>11, <2>12, <2>13, <2>14, <2>15
    DEF Next, Environment
<1> QED
  BY <1>1, TypeCorrect, PTL DEF Spec, MinutesKept


=============================================================================
