----------------------------- MODULE OafGateway -----------------------------
(***************************************************************************)
(* The gateway hook (app_filter_hook_gateway_handle, app_filter.c) and the *)
(* mark it keeps in every connection: the application, and whether to drop.*)
(* The mark is a cached decision.  It is made once, from the first packets *)
(* of a connection, and corrected only while the rules are "recent", that  *)
(* is in the 30 seconds after a command to /dev/appfilter.                 *)
(***************************************************************************)
EXTENDS OafRules

CONSTANTS
  Conn,             \* connections
  Owner,            \* the device behind each
  Carries,          \* the application each carries; NoApp if no feature fits
  NoApp,            \* app_id 0
  Quic,             \* APPID_QUIC
  QuicConn,         \* connections whose packets af_match_quic accepts
  DpiPackets,       \* MAX_DPI_PKT_NUM
  InitialRules,     \* possible /etc/config/appfilter at boot
  Switches          \* the switches that oafd changes under way

VARIABLES
  conn,             \* mark and packet count of each connection
  fresh,            \* history: a script touched the rules within 30 seconds
  seen              \* history: connections that the rules as they are answer for

gwVars == <<kernelVars, ruleVars, uci, script, raced, conn, fresh, seen>>

AppId == App \cup {NoApp, Quic}

ASSUME ConnAssumption ==
  /\ Owner \in [Conn -> Mac]
  /\ Carries \in [Conn -> App \cup {NoApp}]
  /\ NoApp \notin App /\ Quic \notin App /\ NoApp # Quic
  /\ DpiPackets \in Nat
  /\ InitialRules \subseteq Rules
  /\ QuicConn \subseteq Conn
  /\ Switches \subseteq {"enable", "split_time", "disable_quic"}

\* pkts counts up to DpiPackets + 1, which stands for every larger number.
Flow == [open : BOOLEAN, pkts : 0 .. DpiPackets + 1, app : AppId, drop : BOOLEAN]

Unmarked == [open |-> TRUE, pkts |-> 0, app |-> NoApp, drop |-> FALSE]
Closed == [Unmarked EXCEPT !.open = FALSE]

AllApps == sysctl["app_filter_mode"]

-----------------------------------------------------------------------------
(* One packet of connection c.  The disjuncts of Packet are the exits of   *)
(* the handler, in its order.                                              *)

\* Split mode decides without looking at the mark: free device, or cut off.
SplitExit(c) == SplitActive /\ (Owner[c] \notin blocked \/ AllApps)

\* The mark says drop, and is not looked at again in all-apps mode and for
\* QUIC.
MarkExit(c) ==
  /\ sysctl["enable"] /\ conn[c].drop
  /\ AllApps \/ (sysctl["disable_quic"] /\ conn[c].app = Quic)

Known(c) == conn[c].app \in App

\* Faulty: a decision to drop is never taken back.
CheckAppDropOnly(c) ==
  recent /\ MatchRule(conn[c].app, Owner[c]) /\ ~conn[c].drop

\* check_app_action_changed
CheckAppActionChanged(c) ==
  recent /\ MatchRule(conn[c].app, Owner[c]) # conn[c].drop

SetMark(c, app, drop) ==
  LET n == conn[c].pkts
  IN  conn' = [conn EXCEPT ![c].app = app, ![c].drop = drop,
                           ![c].pkts = IF n > DpiPackets THEN n ELSE n + 1]

KeepMark(c) == SetMark(c, conn[c].app, conn[c].drop)

Judge(c) ==
  /\ Known(c)
  /\ SetMark(c, conn[c].app, IF CheckAppActionChanged(c)
                             THEN ~conn[c].drop ELSE conn[c].drop)

\* Too many packets have passed to recognise anything.
PastDpi(c) == ~Known(c) /\ conn[c].pkts > DpiPackets

IsQuic(c) ==
  /\ c \in QuicConn
  /\ sysctl["enable"] /\ sysctl["disable_quic"] /\ MatchUser(Owner[c])

RejectQuic(c) ==
  /\ ~Known(c) /\ ~PastDpi(c) /\ IsQuic(c)
  /\ SetMark(c, Quic, TRUE)

\* dpi_main and match_feature recognise the application (id = Carries[c]) or
\* do not (id = NoApp).  The upper half of the mark, with the drop bit, stays
\* when the lower half is written.
Classify(c, id) ==
  /\ ~Known(c) /\ ~PastDpi(c) /\ ~IsQuic(c)
  /\ id \in {Carries[c], NoApp}
  /\ IF id = NoApp /\ ~AllApps
     THEN KeepMark(c)
     ELSE SetMark(c, id, \/ conn[c].drop
                         \/ sysctl["enable"] /\ MatchRule(id, Owner[c]))

\* The handler went past its two early exits.
Inspected(c) ==
  /\ ~SplitExit(c) /\ ~MarkExit(c)
  /\ \/ Judge(c)
     \/ PastDpi(c) /\ KeepMark(c)
     \/ RejectQuic(c)
     \/ \E id \in AppId : Classify(c, id)

\* The drop bit was set before the connection was recognised: for QUIC, or in
\* all-apps mode.
Unruled(c) == conn[c].drop /\ ~Known(c)

\* The rules answer for the mark of a connection that began after they were
\* last touched, or sent a packet in the 30 seconds after that: unless split
\* mode let the packet pass without a look, or the drop bit is older than the
\* recognition.
Packet(c) ==
  /\ conn[c].open
  /\ \/ (SplitExit(c) \/ MarkExit(c)) /\ KeepMark(c)
     \/ Inspected(c)
  /\ seen' = IF Unruled(c)' THEN seen \ {c}
             ELSE IF fresh /\ ~SplitExit(c) /\ ~Unruled(c) THEN seen \cup {c}
             ELSE seen
  /\ UNCHANGED <<kernelVars, ruleVars, uci, script, raced, fresh>>

Open(c) ==
  /\ ~conn[c].open
  /\ conn' = [conn EXCEPT ![c] = Unmarked]
  /\ seen' = seen \cup {c}
  /\ UNCHANGED <<kernelVars, ruleVars, uci, script, raced, fresh>>

Close(c) ==
  /\ conn[c].open
  /\ conn' = [conn EXCEPT ![c] = Closed]
  /\ seen' = seen \ {c}
  /\ UNCHANGED <<kernelVars, ruleVars, uci, script, raced, fresh>>

-----------------------------------------------------------------------------
(* Everything else.                                                        *)

ScriptStep ==
  /\ \E s \in Script : \/ ReadStep(s) /\ UNCHANGED <<fresh, seen>>
                       \/ WriteStep(s) /\ fresh' = TRUE /\ seen' = {}
  /\ UNCHANGED conn

RequestStep == Request /\ UNCHANGED <<conn, fresh, seen>>

\* 30 seconds after the last command.  The steps of a script follow each
\* other faster than that.
WindowCloses ==
  /\ recent /\ ScriptIdle
  /\ recent' = FALSE /\ fresh' = FALSE
  /\ UNCHANGED <<kernelVars, apps, users, whitelist, user_mode, uci, script,
                 raced, conn, seen>>

\* oafd's writes, as Oafd describes them; here they come in any order.
OafdSwitch(f) ==
  /\ WriteSysctl(f, ~sysctl[f])
  /\ UNCHANGED <<loaded, clients, blocked, ruleVars, uci, script, raced, conn,
                 fresh, seen>>

OafdBlock ==
  /\ "split_time" \in Switches
  /\ BlockedMacsClear \/ \E m \in Mac : BlockedMacsAdd(m)
  /\ UNCHANGED <<loaded, clients, sysctl, ruleVars, uci, script, raced, conn,
                 fresh, seen>>

\* af_client_hook runs before this hook and has made the client entries.
GwInit ==
  /\ loaded = TRUE /\ clients = Mac /\ blocked = {}
  /\ sysctl \in {[SysctlDefault EXCEPT !["enable"] = e] : e \in BOOLEAN}
  /\ RulesInit(InitialRules)
  /\ conn = [c \in Conn |-> Closed]
  /\ fresh = FALSE /\ seen = {}

GwNext ==
  \/ \E c \in Conn : Packet(c) \/ Open(c) \/ Close(c)
  \/ ScriptStep \/ RequestStep \/ WindowCloses
  \/ (\E f \in Switches : OafdSwitch(f)) \/ OafdBlock

GwSpec == GwInit /\ [][GwNext]_gwVars

-----------------------------------------------------------------------------
(* Properties.                                                             *)

\* Every variable has the type of the C object it stands for.
GwTypeOK ==
  /\ KernelTypeOK /\ RulesTypeOK
  /\ conn \in [Conn -> Flow]
  /\ fresh \in BOOLEAN /\ seen \subseteq Conn

\* check_app_action_changed (app_filter.c:1255): in specified-apps mode a
\* connection is marked to be dropped only if the rules in force want that,
\* although its mark was made under earlier rules, or in the middle of a
\* reload with lists emptied and not yet filled again.  This is for the
\* connections that began after the last reload or sent a packet in the 30
\* seconds after it.  Two kinds are not among them (seen): those whose packets
\* in this time split mode let pass without a look (app_filter.c:1519), and
\* those dropped before they were recognised, as QUIC or in all-apps mode,
\* until they are judged (app_filter.c:1640 keeps their bit).
NoOverblock ==
  ScriptIdle /\ ~AllApps =>
    \A c \in seen : Known(c) /\ conn[c].drop => MatchRule(conn[c].app, Owner[c])

-----------------------------------------------------------------------------
(* A statement of the repository that the code does not keep.              *)

\* README.md:82, "blocking only specified apps": with QUIC allowed, what is
\* dropped in specified-apps mode is of a specified application.  (For rules
\* that do not change.)
OnlySpecifiedApps ==
  ScriptIdle /\ ~recent /\ sysctl["enable"] /\ ~AllApps /\ ~sysctl["disable_quic"] =>
    \A c \in Conn : Known(c) /\ conn[c].drop => conn[c].app \in apps

=============================================================================
