------------------------------ MODULE OafRules ------------------------------
(***************************************************************************)
(* How the rules get from /etc/config/appfilter into the kernel: the       *)
(* script "oaf_rule reload" (open-app-filter/files/oaf_rule), as a series  *)
(* of writes to /proc/sys/oaf and /dev/appfilter, and the lists they fill  *)
(* (af_rule_config.c, af_user_config.c, af_whitelist_config.c).            *)
(*                                                                         *)
(* The script runs in two places: in the foreground of a ubus request,     *)
(* which waits for it, and in the background when oafd finds the module    *)
(* ("oaf_rule reload &").  A command for /dev/appfilter is carried out     *)
(* under af_cdev_mutex, so that two commands never mix; packets do look at *)
(* the lists in the middle of one.                                         *)
(***************************************************************************)
EXTENDS OafKernel

CONSTANTS
  App,              \* applications the features can tell apart
  AppRequests,      \* arguments of set_app_filter
  ModeRequests,     \* app_filter_mode in requests of set_app_filter_base
  UserModeRequests, \* arguments of set_app_filter_user
  ListedMac         \* devices added to and removed from the two lists

VARIABLES
  uci,              \* the committed rules
  apps,             \* g_app_id_array: applications to be filtered
  users,            \* af_mac_htable, used in user mode 1
  whitelist,        \* af_whitelist_mac_htable, used in user mode 0
  user_mode,        \* g_user_mode
  recent,           \* jiffies - g_update_jiffies is below 30 seconds
  script,           \* the runs of oaf_rule: next step, and what config_load read
  raced             \* history: the last request met the background run

ruleVars == <<apps, users, whitelist, user_mode, recent>>

Rules == [apps : SUBSET App, users : SUBSET Mac, whitelist : SUBSET Mac,
          user_mode : {0, 1}, app_filter_mode : BOOLEAN]

ASSUME RequestsAssumption ==
  /\ AppRequests \subseteq SUBSET App
  /\ ModeRequests \subseteq BOOLEAN
  /\ UserModeRequests \subseteq {0, 1}
  /\ ListedMac \subseteq Mac

Script == {"request", "boot"}
Steps == {"idle", "base", "user_mode", "app_mode", "rules", "clean", "load",
          "macs", "macs_flush", "macs_fill", "white", "white_flush", "white_fill"}

\* No variables of the script: it is not running.
NotRead == [apps |-> {}, users |-> {}, whitelist |-> {}, user_mode |-> 0,
            app_filter_mode |-> FALSE]

ScriptIdle == \A s \in Script : script[s].pc = "idle"

RulesInit(rules) ==
  /\ uci \in rules
  /\ apps = {} /\ users = {} /\ whitelist = {} /\ user_mode = 0
  /\ recent = FALSE
  /\ script = [s \in Script |->
                 [pc |-> IF s = "boot" THEN "base" ELSE "idle", read |-> NotRead]]
  /\ raced = FALSE

-----------------------------------------------------------------------------
(* The script.                                                             *)

Goto(s, at, next) ==
  /\ script[s].pc = at
  /\ script' = [script EXCEPT ![s].pc = next]
  /\ UNCHANGED <<uci, raced>>

\* config_load
Load(s, at, next) ==
  /\ script[s].pc = at
  /\ script' = [script EXCEPT ![s].pc = next, ![s].read = uci]
  /\ UNCHANGED <<uci, raced, ruleVars, kernelVars>>

\* af_cdev_mutex: nobody else is in the middle of a command.
CdevFree(s) ==
  \A t \in Script \ {s} : script[t].pc \notin {"macs_fill", "white_fill"}

\* The end of af_config_handle: g_update_jiffies = jiffies.
Stamped == recent' = TRUE

BaseRead(s) == Load(s, "base", "user_mode")

\* reload_base_config
WriteUserMode(s) ==
  /\ Goto(s, "user_mode", "app_mode")
  /\ user_mode' = script[s].read.user_mode
  /\ UNCHANGED <<apps, users, whitelist, recent, kernelVars>>

WriteAppMode(s) ==
  /\ Goto(s, "app_mode", "rules")
  /\ WriteSysctl("app_filter_mode", script[s].read.app_filter_mode)
  /\ UNCHANGED <<ruleVars, loaded, clients, blocked>>

RulesRead(s) == Load(s, "rules", "clean")

\* Faulty: the command is not understood, and the old list stays.
CleanAppidIgnored(s) ==
  /\ Goto(s, "clean", "load") /\ CdevFree(s)
  /\ Stamped
  /\ UNCHANGED <<apps, users, whitelist, user_mode, kernelVars>>

\* clean_rule
CleanAppid(s) ==
  /\ Goto(s, "clean", "load") /\ CdevFree(s)
  /\ apps' = {}
  /\ Stamped
  /\ UNCHANGED <<users, whitelist, user_mode, kernelVars>>

\* Faulty: the word behind the list is taken for an application.
AddAppidExtra(s) ==
  /\ Goto(s, "load", "macs") /\ CdevFree(s)
  /\ apps' = apps \cup script[s].read.apps \cup {":"}
  /\ Stamped
  /\ UNCHANGED <<users, whitelist, user_mode, kernelVars>>

\* load_rule
AddAppid(s) ==
  /\ Goto(s, "load", "macs") /\ CdevFree(s)
  /\ apps' = apps \cup script[s].read.apps
  /\ Stamped
  /\ UNCHANGED <<users, whitelist, user_mode, kernelVars>>

\* load_mac_list: the list is sent empty unless the user mode is 1; then
\* af_config_set_mac_list flushes and fills.
MacsRead(s) == Load(s, "macs", "macs_flush")

MacListFlush(s) ==
  /\ Goto(s, "macs_flush", "macs_fill") /\ CdevFree(s)
  /\ users' = {}
  /\ UNCHANGED <<apps, whitelist, user_mode, recent, kernelVars>>

MacListFill(s) ==
  /\ Goto(s, "macs_fill", "white")
  /\ users' = users \cup IF script[s].read.user_mode = 1
                         THEN script[s].read.users ELSE {}
  /\ Stamped
  /\ UNCHANGED <<apps, whitelist, user_mode, kernelVars>>

\* load_whitelist_mac, af_config_set_whitelist_mac_list
WhiteRead(s) == Load(s, "white", "white_flush")

WhitelistFlush(s) ==
  /\ Goto(s, "white_flush", "white_fill") /\ CdevFree(s)
  /\ whitelist' = {}
  /\ UNCHANGED <<apps, users, user_mode, recent, kernelVars>>

WhitelistFill(s) ==
  /\ script[s].pc = "white_fill"
  /\ script' = [script EXCEPT ![s] = [pc |-> "idle", read |-> NotRead]]
  /\ whitelist' = whitelist \cup script[s].read.whitelist
  /\ Stamped
  /\ UNCHANGED <<apps, users, user_mode, uci, raced, kernelVars>>

\* A step that only reads, and a step that changes what packets see.
ReadStep(s) == BaseRead(s) \/ RulesRead(s) \/ MacsRead(s) \/ WhiteRead(s)
WriteStep(s) ==
  \/ WriteUserMode(s) \/ WriteAppMode(s) \/ CleanAppid(s) \/ AddAppid(s)
  \/ MacListFlush(s) \/ MacListFill(s) \/ WhitelistFlush(s) \/ WhitelistFill(s)

-----------------------------------------------------------------------------
(* ubus requests that change the rules; reload_oaf_rule waits for the       *)
(* script, and oafd handles no other request meanwhile.                     *)

Reload(newUci) ==
  /\ script["request"].pc = "idle"
  /\ uci' = newUci
  /\ script' = [script EXCEPT !["request"].pc = "base"]
  /\ raced' = (script["boot"].pc # "idle")
  /\ UNCHANGED <<ruleVars, kernelVars>>

SetAppFilter(S) == Reload([uci EXCEPT !.apps = S])
SetAppFilterBase(mode) == Reload([uci EXCEPT !.app_filter_mode = mode])
SetAppFilterUser(mode) == Reload([uci EXCEPT !.user_mode = mode])
AddAppFilterUser(m) == Reload([uci EXCEPT !.users = @ \cup {m}])
DelAppFilterUser(m) == Reload([uci EXCEPT !.users = @ \ {m}])
AddWhitelistUser(m) == Reload([uci EXCEPT !.whitelist = @ \cup {m}])
DelWhitelistUser(m) == Reload([uci EXCEPT !.whitelist = @ \ {m}])

Request ==
  \/ \E S \in AppRequests : SetAppFilter(S)
  \/ \E mode \in ModeRequests : SetAppFilterBase(mode)
  \/ \E mode \in UserModeRequests : SetAppFilterUser(mode)
  \/ \E m \in ListedMac : \/ AddAppFilterUser(m) \/ DelAppFilterUser(m)
                          \/ AddWhitelistUser(m) \/ DelWhitelistUser(m)

-----------------------------------------------------------------------------
(* Who and what is filtered.                                               *)

\* match_app_filter_user
MatchUser(m) == IF user_mode = 0 THEN m \notin whitelist ELSE m \in users

\* match_app_filter_rule; x need not be an application of the list
MatchRule(x, m) == MatchUser(m) /\ (sysctl["app_filter_mode"] \/ x \in apps)

RulesTypeOK ==
  /\ uci \in Rules
  /\ apps \subseteq App /\ users \subseteq Mac /\ whitelist \subseteq Mac
  /\ user_mode \in {0, 1} /\ recent \in BOOLEAN
  /\ script \in [Script -> [pc : Steps, read : Rules]]
  /\ raced \in BOOLEAN

\* When no reload is under way the kernel filters what is configured, unless
\* the last request came while the background run of oaf_rule (main.c:837)
\* was still going on: then either of the two may have written last.
ReloadExact ==
  ScriptIdle /\ ~raced =>
    /\ apps = uci.apps
    /\ users = IF uci.user_mode = 1 THEN uci.users ELSE {}
    /\ whitelist = uci.whitelist
    /\ user_mode = uci.user_mode
    /\ sysctl["app_filter_mode"] = uci.app_filter_mode

=============================================================================
