-------------------------- MODULE OafGatewayProofs ---------------------------
(***************************************************************************)
(* Theorems about OafGateway, and about OafRules as it is composed there,  *)
(* for every set of devices, applications, connections and requests.       *)
(***************************************************************************)
EXTENDS OafGateway, TLAPS

-----------------------------------------------------------------------------
(* The inductive invariants.                                               *)

\* How far run s of "oaf_rule reload" has brought the kernel to the rules
\* that are configured.
Progress(s) ==
  LET pc == script[s].pc
  IN  /\ pc \notin {"base", "idle"} => script[s].read = uci
      /\ pc \notin {"base", "user_mode"} => user_mode = uci.user_mode
      /\ pc \notin {"base", "user_mode", "app_mode"}
           => sysctl["app_filter_mode"] = uci.app_filter_mode
      /\ pc = "load" => apps = {}
      /\ pc \notin {"base", "user_mode", "app_mode", "rules", "clean", "load"}
           => apps = uci.apps
      /\ pc = "macs_fill" => users = {}
      /\ pc \in {"white", "white_flush", "white_fill", "idle"}
           => users = IF uci.user_mode = 1 THEN uci.users ELSE {}
      /\ pc = "white_fill" => whitelist = {}
      /\ pc = "idle" => whitelist = uci.whitelist

\* Unless the last request met the background run, there is one run at most,
\* and it is about the rules of now.
OneRun ==
  ~raced => \E s \in Script : /\ \A t \in Script \ {s} : script[t].pc = "idle"
                              /\ Progress(s)

\* The module stays loaded.
Loaded == loaded = TRUE

\* The drop bit that the rules answer for is theirs.  In specified-apps mode a
\* connection that was not recognised has none, and one that was recognised
\* has it by the rules.
MarkSound(c) ==
  /\ ~Unruled(c)
  /\ ScriptIdle /\ ~AllApps /\ Known(c) /\ conn[c].drop
       => MatchRule(conn[c].app, Owner[c])

\* The window in which marks are corrected is open for 30 seconds after a
\* script has touched the rules.
WindowOpen == ScriptIdle /\ fresh => recent

-----------------------------------------------------------------------------
(* Types.                                                                  *)

\* The switches that oafd changes are switches of OafKernel.
LEMMA SwitchNames == Switches \subseteq SysctlNames /\ "app_filter_mode" \notin Switches
BY ConnAssumption DEF SysctlNames

\* The mark and the count of a connection, one packet later.
Marked(f, app, drop) ==
  [f EXCEPT !.app = app, !.drop = drop,
            !.pkts = IF f.pkts > DpiPackets THEN f.pkts ELSE f.pkts + 1]

\* It is well formed again.
LEMMA MarkedType ==
  ASSUME NEW f \in Flow, NEW app \in AppId, NEW drop \in BOOLEAN
  PROVE  /\ Marked(f, app, drop) \in Flow
         /\ Marked(f, app, drop).app = app /\ Marked(f, app, drop).drop = drop
         /\ Marked(f, app, drop).open = f.open
<1> DEFINE n == IF f.pkts > DpiPackets THEN f.pkts ELSE f.pkts + 1
           g == [f EXCEPT !.app = app, !.drop = drop, !.pkts = n]
<1>1. n \in 0 .. DpiPackets + 1
  <2>1. f.pkts \in 0 .. DpiPackets + 1
    BY DEF Flow
  <2> QED
    BY <2>1, ConnAssumption
<1>2. Marked(f, app, drop) = g
  BY DEF Marked
<1> HIDE DEF n
<1>3. g \in Flow
  BY <1>1 DEF Flow
<1>4. g.app = app
  BY DEF Flow
<1>5. g.drop = drop
  BY DEF Flow
<1>6. g.open = f.open
  BY DEF Flow
<1> HIDE DEF g
<1> QED
  BY <1>2, <1>3, <1>4, <1>5, <1>6

\* The types of the fields of a mark.
LEMMA FlowFields ==
  ASSUME NEW f \in Flow
  PROVE  f.app \in AppId /\ f.drop \in BOOLEAN /\ f.open \in BOOLEAN
BY Zenon DEF Flow

\* SetMark writes the mark of its connection.
LEMMA SetMarkWrites ==
  ASSUME conn \in [Conn -> Flow], NEW c \in Conn,
         NEW app \in AppId, NEW drop \in BOOLEAN, SetMark(c, app, drop)
  PROVE  /\ conn' \in [Conn -> Flow]
         /\ conn'[c].app = app /\ conn'[c].drop = drop /\ conn'[c].open = conn[c].open
         /\ \A d \in Conn : d # c => conn'[d] = conn[d]
<1> DEFINE f == Marked(conn[c], app, drop)
<1>1. conn' = [conn EXCEPT ![c] = f]
  BY DEF SetMark, Marked
<1>2. conn[c] \in Flow
  OBVIOUS
<1>3. f \in Flow
  BY <1>2, MarkedType
<1>4. f.app = app
  BY <1>2, MarkedType
<1>5. f.drop = drop
  BY <1>2, MarkedType
<1>6. f.open = conn[c].open
  BY <1>2, MarkedType
<1> HIDE DEF f
<1> QED
  BY <1>1, <1>3, <1>4, <1>5, <1>6

\* A packet leaves the mark of its connection, corrects the decision about a
\* known application, or marks a connection whose application was unknown.
LEMMA PacketMarks ==
  ASSUME conn \in [Conn -> Flow], NEW c \in Conn, Packet(c)
  PROVE  \/ /\ SplitExit(c) \/ MarkExit(c) \/ ~Known(c)
            /\ SetMark(c, conn[c].app, conn[c].drop)
         \/ /\ Known(c)
            /\ \E drop \in BOOLEAN : /\ SetMark(c, conn[c].app, drop)
                                     /\ drop = (conn[c].drop # CheckAppActionChanged(c))
         \/ /\ ~Known(c) /\ c \in QuicConn
            /\ SetMark(c, Quic, TRUE)
         \/ \E id \in {Carries[c], NoApp} : \E drop \in BOOLEAN :
               /\ ~Known(c) /\ (id = NoApp => AllApps)
               /\ drop => conn[c].drop \/ MatchRule(id, Owner[c])
               /\ SetMark(c, id, drop)
<1>1. conn[c].drop \in BOOLEAN
  BY FlowFields
<1>2. CASE (SplitExit(c) \/ MarkExit(c)) /\ KeepMark(c)
  BY <1>2 DEF KeepMark
<1>3. CASE Judge(c)
  <2>1. CheckAppActionChanged(c) \in BOOLEAN
    BY DEF CheckAppActionChanged
  <2>2. PICK drop \in BOOLEAN : drop = IF CheckAppActionChanged(c)
                                       THEN ~conn[c].drop ELSE conn[c].drop
    BY <1>1
  <2>3. drop = (conn[c].drop # CheckAppActionChanged(c))
    BY <1>1, <2>1, <2>2
  <2>4. SetMark(c, conn[c].app, drop) /\ Known(c)
    BY <1>3, <2>2, Zenon DEF Judge
  <2> QED
    BY <2>3, <2>4
<1>4. CASE PastDpi(c) /\ KeepMark(c)
  BY <1>4 DEF PastDpi, KeepMark
<1>5. CASE RejectQuic(c)
  BY <1>5 DEF RejectQuic, IsQuic
<1>6. CASE \E id \in AppId : Classify(c, id)
  <2>1. PICK id \in AppId : Classify(c, id)
    BY <1>6
  <2>2. ~Known(c) /\ id \in {Carries[c], NoApp}
    BY <2>1 DEF Classify
  <2>3. CASE id = NoApp /\ ~AllApps
    BY <2>1, <2>2, <2>3 DEF Classify, KeepMark
  <2>4. CASE ~(id = NoApp /\ ~AllApps)
    <3> DEFINE drop == conn[c].drop \/ (sysctl["enable"] /\ MatchRule(id, Owner[c]))
    <3>1. SetMark(c, id, drop)
      BY <2>1, <2>4 DEF Classify
    <3>2. drop \in BOOLEAN
      OBVIOUS
    <3>3. drop => conn[c].drop \/ MatchRule(id, Owner[c])
      OBVIOUS
    <3> HIDE DEF drop
    <3>4. id = NoApp => AllApps
      BY <2>4
    <3> QED
      BY <2>2, <3>1, <3>2, <3>3, <3>4
  <2> QED
    BY <2>3, <2>4
<1> QED
  BY <1>2, <1>3, <1>4, <1>5, <1>6 DEF Packet, Inspected

\* In each case the mark is well formed.
LEMMA PacketWrites ==
  ASSUME conn \in [Conn -> Flow], NEW c \in Conn, Packet(c)
  PROVE  \E app \in AppId, drop \in BOOLEAN : SetMark(c, app, drop)
<1>1. conn[c].app \in AppId /\ conn[c].drop \in BOOLEAN
  BY FlowFields
<1>2. Quic \in AppId /\ Carries[c] \in AppId /\ NoApp \in AppId
  BY ConnAssumption DEF AppId
<1>3. TRUE \in BOOLEAN
  OBVIOUS
<1> QED
  BY <1>1, <1>2, <1>3, PacketMarks, Zenon

\* The rules of the script and of the kernel.
ScriptStates == [pc : Steps, read : Rules]

\* What a script has read consists of sets of applications and devices.
LEMMA RulesFields ==
  ASSUME NEW r \in Rules
  PROVE  /\ r.apps \subseteq App /\ r.users \subseteq Mac /\ r.whitelist \subseteq Mac
         /\ r.user_mode \in {0, 1} /\ r.app_filter_mode \in BOOLEAN
<1>1. r.apps \subseteq App /\ r.users \subseteq Mac /\ r.whitelist \subseteq Mac
      /\ r.user_mode \in {0, 1}
  BY DEF Rules
<1>2. r.app_filter_mode \in BOOLEAN
  BY Zenon DEF Rules
<1> QED
  BY <1>1, <1>2

\* Nothing read yet.
LEMMA NotReadType == NotRead \in Rules
BY DEF NotRead, Rules

\* A command or a write of the script goes to its next step.
LEMMA GotoType ==
  ASSUME script \in [Script -> ScriptStates], NEW s \in Script, NEW at, NEW next \in Steps,
         Goto(s, at, next)
  PROVE  /\ script' \in [Script -> ScriptStates] /\ script[s].pc = at
         /\ script'[s].pc = next /\ script'[s].read = script[s].read
         /\ \A t \in Script : t # s => script'[t] = script[t]
         /\ uci' = uci /\ raced' = raced
BY DEF Goto, ScriptStates

\* config_load
LEMMA LoadType ==
  ASSUME script \in [Script -> ScriptStates], uci \in Rules, NEW s \in Script, NEW at,
         NEW next \in Steps, Load(s, at, next)
  PROVE  /\ script' \in [Script -> ScriptStates] /\ script[s].pc = at
         /\ script'[s].pc = next /\ script'[s].read = uci
         /\ \A t \in Script : t # s => script'[t] = script[t]
         /\ UNCHANGED <<uci, raced, ruleVars, kernelVars>>
BY DEF Load, ScriptStates

\* A run of the script keeps the types of the lists of the kernel.
LEMMA ScriptType ==
  ASSUME RulesTypeOK, KernelTypeOK, NEW s \in Script, ReadStep(s) \/ WriteStep(s)
  PROVE  RulesTypeOK' /\ KernelTypeOK'
<1>1. /\ uci \in Rules /\ script \in [Script -> ScriptStates] /\ raced \in BOOLEAN
      /\ apps \subseteq App /\ users \subseteq Mac /\ whitelist \subseteq Mac
      /\ user_mode \in {0, 1} /\ recent \in BOOLEAN
  BY DEF RulesTypeOK, ScriptStates
<1>2. /\ loaded \in BOOLEAN /\ clients \subseteq Mac /\ blocked \subseteq clients
      /\ sysctl \in [SysctlNames -> BOOLEAN]
  BY DEF KernelTypeOK
<1>3. script[s].read \in Rules
  BY <1>1 DEF ScriptStates
<1>4. /\ script[s].read.apps \subseteq App /\ script[s].read.users \subseteq Mac
      /\ script[s].read.whitelist \subseteq Mac /\ script[s].read.user_mode \in {0, 1}
  BY <1>3, RulesFields
<1>5. script[s].read.app_filter_mode \in BOOLEAN
  BY <1>3, RulesFields
<1>6. ASSUME UNCHANGED kernelVars PROVE KernelTypeOK'
  BY <1>2, <1>6 DEF KernelTypeOK, kernelVars
<1>7. ASSUME script' \in [Script -> ScriptStates], uci' = uci, raced' = raced,
             apps' \subseteq App, users' \subseteq Mac, whitelist' \subseteq Mac,
             user_mode' \in {0, 1}, recent' \in BOOLEAN
      PROVE  RulesTypeOK'
  BY <1>1, <1>7 DEF RulesTypeOK, ScriptStates
<1>8. CASE ReadStep(s)
  <2>1. PICK at \in Steps, next \in Steps : Load(s, at, next)
    BY <1>8 DEF ReadStep, BaseRead, RulesRead, MacsRead, WhiteRead, Steps
  <2>2. /\ script' \in [Script -> ScriptStates] /\ uci' = uci /\ raced' = raced
        /\ UNCHANGED <<ruleVars, kernelVars>>
    BY <1>1, <2>1, LoadType
  <2> QED
    BY <1>1, <1>6, <1>7, <2>2 DEF ruleVars
<1>9. CASE WriteUserMode(s)
  <2>1. Goto(s, "user_mode", "app_mode") /\ "app_mode" \in Steps
    BY <1>9 DEF WriteUserMode, Steps
  <2> QED
    BY <1>1, <1>4, <1>6, <1>7, <1>9, <2>1, GotoType DEF WriteUserMode
<1>10. CASE WriteAppMode(s)
  <2>1. Goto(s, "app_mode", "rules") /\ "rules" \in Steps
    BY <1>10 DEF WriteAppMode, Steps
  <2>2. RulesTypeOK'
    BY <1>1, <1>7, <1>10, <2>1, GotoType DEF WriteAppMode, ruleVars
  <2>3. sysctl' \in [SysctlNames -> BOOLEAN]
    BY <1>2, <1>5, <1>10 DEF WriteAppMode, WriteSysctl
  <2> QED
    BY <1>2, <1>10, <2>2, <2>3 DEF WriteAppMode, KernelTypeOK
<1>11. CASE CleanAppid(s)
  <2>1. Goto(s, "clean", "load") /\ "load" \in Steps
    BY <1>11 DEF CleanAppid, Steps
  <2> QED
    BY <1>1, <1>6, <1>7, <1>11, <2>1, GotoType DEF CleanAppid, Stamped
<1>12. CASE AddAppid(s)
  <2>1. Goto(s, "load", "macs") /\ "macs" \in Steps
    BY <1>12 DEF AddAppid, Steps
  <2> QED
    BY <1>1, <1>4, <1>6, <1>7, <1>12, <2>1, GotoType DEF AddAppid, Stamped
<1>13. CASE MacListFlush(s)
  <2>1. Goto(s, "macs_flush", "macs_fill") /\ "macs_fill" \in Steps
    BY <1>13 DEF MacListFlush, Steps
  <2> QED
    BY <1>1, <1>6, <1>7, <1>13, <2>1, GotoType DEF MacListFlush
<1>14. CASE MacListFill(s)
  <2>1. Goto(s, "macs_fill", "white") /\ "white" \in Steps
    BY <1>14 DEF MacListFill, Steps
  <2>2. users' \subseteq Mac
    BY <1>1, <1>4, <1>14 DEF MacListFill
  <2> QED
    BY <1>1, <1>6, <1>7, <1>14, <2>1, <2>2, GotoType DEF MacListFill, Stamped
<1>15. CASE WhitelistFlush(s)
  <2>1. Goto(s, "white_flush", "white_fill") /\ "white_fill" \in Steps
    BY <1>15 DEF WhitelistFlush, Steps
  <2> QED
    BY <1>1, <1>6, <1>7, <1>15, <2>1, GotoType DEF WhitelistFlush
<1>16. CASE WhitelistFill(s)
  <2>1. script' = [script EXCEPT ![s] = [pc |-> "idle", read |-> NotRead]]
    BY <1>16 DEF WhitelistFill
  <2>2. script' \in [Script -> ScriptStates]
    BY <1>1, <2>1, NotReadType DEF ScriptStates, Steps
  <2> QED
    BY <1>1, <1>4, <1>6, <1>7, <1>16, <2>2 DEF WhitelistFill, Stamped
<1> QED
  BY <1>8, <1>9, <1>10, <1>11, <1>12, <1>13, <1>14, <1>15, <1>16 DEF WriteStep

\* A request stores rules and starts the script.
LEMMA RequestReloads ==
  ASSUME RulesTypeOK, Request PROVE \E r \in Rules : Reload(r)
<1>1. uci \in Rules
  BY DEF RulesTypeOK
<1>2. uci.users \subseteq Mac /\ uci.whitelist \subseteq Mac
  BY <1>1, RulesFields
<1>3. ASSUME NEW S \in AppRequests, SetAppFilter(S) PROVE \E r \in Rules : Reload(r)
  <2>1. [uci EXCEPT !.apps = S] \in Rules
    BY <1>1, RequestsAssumption DEF Rules
  <2> QED
    BY <1>3, <2>1 DEF SetAppFilter
<1>4. ASSUME NEW mode \in ModeRequests, SetAppFilterBase(mode)
      PROVE  \E r \in Rules : Reload(r)
  <2>1. [uci EXCEPT !.app_filter_mode = mode] \in Rules
    BY <1>1, RequestsAssumption DEF Rules
  <2> QED
    BY <1>4, <2>1 DEF SetAppFilterBase
<1>5. ASSUME NEW mode \in UserModeRequests, SetAppFilterUser(mode)
      PROVE  \E r \in Rules : Reload(r)
  <2>1. [uci EXCEPT !.user_mode = mode] \in Rules
    BY <1>1, RequestsAssumption DEF Rules
  <2> QED
    BY <1>5, <2>1 DEF SetAppFilterUser
<1>6. ASSUME NEW S \in SUBSET Mac,
             Reload([uci EXCEPT !.users = S]) \/ Reload([uci EXCEPT !.whitelist = S])
      PROVE  \E r \in Rules : Reload(r)
  <2>1. [uci EXCEPT !.users = S] \in Rules /\ [uci EXCEPT !.whitelist = S] \in Rules
    BY <1>1 DEF Rules
  <2> QED
    BY <1>6, <2>1
<1>7. ASSUME NEW m \in ListedMac,
             \/ AddAppFilterUser(m) \/ DelAppFilterUser(m)
             \/ AddWhitelistUser(m) \/ DelWhitelistUser(m)
      PROVE  \E r \in Rules : Reload(r)
  <2>1. /\ uci.users \cup {m} \in SUBSET Mac /\ uci.users \ {m} \in SUBSET Mac
        /\ uci.whitelist \cup {m} \in SUBSET Mac /\ uci.whitelist \ {m} \in SUBSET Mac
    BY <1>2, RequestsAssumption
  <2>2. CASE AddAppFilterUser(m)
    BY <1>6, <2>1, <2>2 DEF AddAppFilterUser
  <2>3. CASE DelAppFilterUser(m)
    BY <1>6, <2>1, <2>3 DEF DelAppFilterUser
  <2>4. CASE AddWhitelistUser(m)
    BY <1>6, <2>1, <2>4 DEF AddWhitelistUser
  <2>5. CASE DelWhitelistUser(m)
    BY <1>6, <2>1, <2>5 DEF DelWhitelistUser
  <2> QED
    BY <1>7, <2>2, <2>3, <2>4, <2>5
<1> QED
  BY <1>3, <1>4, <1>5, <1>7 DEF Request

\* A connection without a mark, and none.
LEMMA FreshFlows ==
  /\ Unmarked \in Flow /\ Unmarked.app = NoApp /\ Unmarked.drop = FALSE
  /\ Unmarked.open = TRUE
  /\ Closed \in Flow /\ Closed.open = FALSE
<1>1. 0 \in 0 .. DpiPackets + 1 /\ NoApp \in AppId
  BY ConnAssumption DEF AppId
<1>2. Unmarked \in Flow
  BY <1>1 DEF Unmarked, Flow
<1>3. Closed \in Flow
  BY <1>1 DEF Closed, Unmarked, Flow
<1>4. Closed.open = FALSE
  BY DEF Closed, Unmarked
<1> QED
  BY <1>2, <1>3, <1>4 DEF Unmarked

\* The module has just been loaded and the background run begins.
LEMMA TypeInit == GwInit => GwTypeOK
<1> SUFFICES ASSUME GwInit PROVE GwTypeOK
  OBVIOUS
<1>1. PICK e \in BOOLEAN : sysctl = [SysctlDefault EXCEPT !["enable"] = e]
  BY DEF GwInit
<1>2. sysctl \in [SysctlNames -> BOOLEAN]
  BY <1>1 DEF SysctlDefault, SysctlNames
<1>3. KernelTypeOK
  BY <1>2 DEF GwInit, KernelTypeOK
<1>4. script \in [Script -> [pc : Steps, read : Rules]]
  <2>1. \A s \in Script : (IF s = "boot" THEN "base" ELSE "idle") \in Steps
    BY DEF Steps
  <2> QED
    BY <2>1, NotReadType DEF GwInit, RulesInit
<1>5. uci \in Rules
  BY ConnAssumption DEF GwInit, RulesInit
<1>6. RulesTypeOK
  BY <1>4, <1>5 DEF GwInit, RulesInit, RulesTypeOK
<1>7. conn \in [Conn -> Flow] /\ fresh \in BOOLEAN /\ seen \subseteq Conn
  BY FreshFlows DEF GwInit
<1> QED
  BY <1>3, <1>6, <1>7 DEF GwTypeOK

\* Every step keeps the types.
LEMMA TypeStep == GwTypeOK /\ [GwNext]_gwVars => GwTypeOK'
<1> SUFFICES ASSUME GwTypeOK, [GwNext]_gwVars PROVE GwTypeOK'
  OBVIOUS
<1>1. /\ KernelTypeOK /\ RulesTypeOK /\ conn \in [Conn -> Flow]
      /\ fresh \in BOOLEAN /\ seen \subseteq Conn
  BY DEF GwTypeOK
<1>2. ASSUME UNCHANGED kernelVars PROVE KernelTypeOK'
  BY <1>1, <1>2 DEF KernelTypeOK, kernelVars
<1>3. ASSUME UNCHANGED <<ruleVars, uci, script, raced>> PROVE RulesTypeOK'
  BY <1>1, <1>3 DEF RulesTypeOK, ruleVars
<1>4. ASSUME NEW c \in Conn, Packet(c) PROVE GwTypeOK'
  <2>1. PICK app \in AppId, drop \in BOOLEAN : SetMark(c, app, drop)
    BY <1>1, <1>4, PacketWrites
  <2>2. conn' \in [Conn -> Flow]
    BY <1>1, <2>1, SetMarkWrites
  <2>3. seen' \subseteq Conn
    BY <1>1, <1>4 DEF Packet
  <2> QED
    BY <1>1, <1>2, <1>3, <1>4, <2>2, <2>3 DEF Packet, GwTypeOK
<1>5. ASSUME NEW c \in Conn, Open(c) \/ Close(c) PROVE GwTypeOK'
  <2>1. conn' \in [Conn -> Flow] /\ seen' \subseteq Conn
    BY <1>1, <1>5, FreshFlows DEF Open, Close
  <2>2. UNCHANGED kernelVars /\ UNCHANGED <<ruleVars, uci, script, raced>>
        /\ UNCHANGED fresh
    BY <1>5 DEF Open, Close
  <2> QED
    BY <1>1, <1>2, <1>3, <2>1, <2>2 DEF GwTypeOK
<1>6. CASE ScriptStep
  <2>1. PICK s \in Script : \/ ReadStep(s) /\ UNCHANGED <<fresh, seen>>
                            \/ WriteStep(s) /\ fresh' = TRUE /\ seen' = {}
    BY <1>6 DEF ScriptStep
  <2>2. RulesTypeOK' /\ KernelTypeOK'
    BY <1>1, <2>1, ScriptType
  <2> QED
    BY <1>1, <1>6, <2>1, <2>2 DEF ScriptStep, GwTypeOK
<1>7. CASE RequestStep
  <2>1. PICK r \in Rules : Reload(r)
    BY <1>1, <1>7, RequestReloads DEF RequestStep
  <2>2. script \in [Script -> ScriptStates]
    BY <1>1 DEF RulesTypeOK, ScriptStates
  <2>3. script' \in [Script -> ScriptStates]
    BY <2>1, <2>2 DEF Reload, ScriptStates, Steps
  <2>4. raced' \in BOOLEAN
    BY <2>1 DEF Reload
  <2>5. RulesTypeOK'
    BY <1>1, <2>1, <2>3, <2>4 DEF Reload, RulesTypeOK, ScriptStates, ruleVars
  <2> QED
    BY <1>1, <1>2, <1>7, <2>1, <2>5 DEF Reload, RequestStep, GwTypeOK
<1>8. CASE WindowCloses
  <2>1. RulesTypeOK'
    BY <1>1, <1>8 DEF WindowCloses, RulesTypeOK
  <2> QED
    BY <1>1, <1>2, <1>8, <2>1 DEF WindowCloses, GwTypeOK
<1>9. ASSUME NEW f \in Switches, OafdSwitch(f) PROVE GwTypeOK'
  <2>1. sysctl \in [SysctlNames -> BOOLEAN]
    BY <1>1 DEF KernelTypeOK
  <2>2. (~sysctl[f]) \in BOOLEAN
    OBVIOUS
  <2>3. sysctl' \in [SysctlNames -> BOOLEAN]
    BY <1>9, <2>1, <2>2 DEF OafdSwitch, WriteSysctl
  <2>4. KernelTypeOK'
    BY <1>1, <1>9, <2>3 DEF OafdSwitch, KernelTypeOK
  <2> QED
    BY <1>1, <1>3, <1>9, <2>4 DEF OafdSwitch, GwTypeOK
<1>10. CASE OafdBlock
  <2>1. blocked' \subseteq clients'
    BY <1>1, <1>10 DEF OafdBlock, BlockedMacsClear, BlockedMacsAdd, KernelTypeOK
  <2>2. KernelTypeOK'
    BY <1>1, <1>10, <2>1 DEF OafdBlock, KernelTypeOK
  <2> QED
    BY <1>1, <1>3, <1>10, <2>2 DEF OafdBlock, GwTypeOK
<1>11. CASE UNCHANGED gwVars
  BY <1>1, <1>2, <1>3, <1>11 DEF gwVars, GwTypeOK
<1> QED
  BY <1>4, <1>5, <1>6, <1>7, <1>8, <1>9, <1>10, <1>11 DEF GwNext

\* The variables of OafGateway, OafRules and OafKernel always have the types
\* of the C objects and of the shell variables they stand for.
THEOREM TypeCorrect == GwSpec => []GwTypeOK
BY TypeInit, TypeStep, PTL DEF GwSpec


-----------------------------------------------------------------------------
(* Reloads.                                                                *)

\* A step of a run that is about the rules of now brings the kernel one step
\* closer to them.
LEMMA ProgressStep ==
  ASSUME RulesTypeOK, KernelTypeOK, Loaded, NEW s \in Script, Progress(s),
         ReadStep(s) \/ WriteStep(s)
  PROVE  /\ Progress(s)' /\ script[s].pc # "idle"
         /\ \A t \in Script : t # s => script'[t] = script[t]
         /\ raced' = raced /\ Loaded'
<1>1. uci \in Rules /\ script \in [Script -> ScriptStates]
  BY DEF RulesTypeOK, ScriptStates
<1>2. sysctl \in [SysctlNames -> BOOLEAN]
  BY DEF KernelTypeOK
<1> USE DEF Progress
<1>3. CASE BaseRead(s)
  <2>1. Load(s, "base", "user_mode") /\ "user_mode" \in Steps
    BY <1>3 DEF BaseRead, Steps
  <2>2. /\ script[s].pc = "base" /\ script'[s].pc = "user_mode" /\ script'[s].read = uci
        /\ \A t \in Script : t # s => script'[t] = script[t]
        /\ UNCHANGED <<uci, raced, ruleVars, kernelVars>>
    BY <1>1, <2>1, LoadType
  <2>3. /\ UNCHANGED <<uci, raced, apps, users, whitelist, user_mode, loaded, sysctl>>
    BY <2>2 DEF ruleVars, kernelVars
  <2> QED
    BY <2>2, <2>3 DEF Loaded
<1>4. CASE RulesRead(s)
  <2>1. Load(s, "rules", "clean") /\ "clean" \in Steps
    BY <1>4 DEF RulesRead, Steps
  <2>2. /\ script[s].pc = "rules" /\ script'[s].pc = "clean" /\ script'[s].read = uci
        /\ \A t \in Script : t # s => script'[t] = script[t]
        /\ UNCHANGED <<uci, raced, ruleVars, kernelVars>>
    BY <1>1, <2>1, LoadType
  <2>3. /\ UNCHANGED <<uci, raced, apps, users, whitelist, user_mode, loaded, sysctl>>
    BY <2>2 DEF ruleVars, kernelVars
  <2> QED
    BY <2>2, <2>3 DEF Loaded
<1>5. CASE MacsRead(s)
  <2>1. Load(s, "macs", "macs_flush") /\ "macs_flush" \in Steps
    BY <1>5 DEF MacsRead, Steps
  <2>2. /\ script[s].pc = "macs" /\ script'[s].pc = "macs_flush" /\ script'[s].read = uci
        /\ \A t \in Script : t # s => script'[t] = script[t]
        /\ UNCHANGED <<uci, raced, ruleVars, kernelVars>>
    BY <1>1, <2>1, LoadType
  <2>3. /\ UNCHANGED <<uci, raced, apps, users, whitelist, user_mode, loaded, sysctl>>
    BY <2>2 DEF ruleVars, kernelVars
  <2> QED
    BY <2>2, <2>3 DEF Loaded
<1>6. CASE WhiteRead(s)
  <2>1. Load(s, "white", "white_flush") /\ "white_flush" \in Steps
    BY <1>6 DEF WhiteRead, Steps
  <2>2. /\ script[s].pc = "white" /\ script'[s].pc = "white_flush" /\ script'[s].read = uci
        /\ \A t \in Script : t # s => script'[t] = script[t]
        /\ UNCHANGED <<uci, raced, ruleVars, kernelVars>>
    BY <1>1, <2>1, LoadType
  <2>3. /\ UNCHANGED <<uci, raced, apps, users, whitelist, user_mode, loaded, sysctl>>
    BY <2>2 DEF ruleVars, kernelVars
  <2> QED
    BY <2>2, <2>3 DEF Loaded
<1>7. CASE WriteUserMode(s)
  <2>1. Goto(s, "user_mode", "app_mode") /\ "app_mode" \in Steps
    BY <1>7 DEF WriteUserMode, Steps
  <2> QED
    BY <1>1, <1>7, <2>1, GotoType DEF WriteUserMode, kernelVars, Loaded
<1>8. CASE WriteAppMode(s)
  <2>1. Goto(s, "app_mode", "rules") /\ "rules" \in Steps
    BY <1>8 DEF WriteAppMode, Steps
  <2>2. sysctl' = [sysctl EXCEPT !["app_filter_mode"] = script[s].read.app_filter_mode]
    BY <1>8 DEF WriteAppMode, WriteSysctl, Loaded
  <2>3. sysctl'["app_filter_mode"] = script[s].read.app_filter_mode
    BY <1>2, <2>2 DEF SysctlNames
  <2> QED
    BY <1>1, <1>8, <2>1, <2>3, GotoType DEF WriteAppMode, ruleVars, Loaded
<1>9. CASE CleanAppid(s)
  <2>1. Goto(s, "clean", "load") /\ "load" \in Steps
    BY <1>9 DEF CleanAppid, Steps
  <2> QED
    BY <1>1, <1>9, <2>1, GotoType DEF CleanAppid, kernelVars, Loaded
<1>10. CASE AddAppid(s)
  <2>1. Goto(s, "load", "macs") /\ "macs" \in Steps
    BY <1>10 DEF AddAppid, Steps
  <2> QED
    BY <1>1, <1>10, <2>1, GotoType DEF AddAppid, kernelVars, Loaded
<1>11. CASE MacListFlush(s)
  <2>1. Goto(s, "macs_flush", "macs_fill") /\ "macs_fill" \in Steps
    BY <1>11 DEF MacListFlush, Steps
  <2> QED
    BY <1>1, <1>11, <2>1, GotoType DEF MacListFlush, kernelVars, Loaded
<1>12. CASE MacListFill(s)
  <2>1. Goto(s, "macs_fill", "white") /\ "white" \in Steps
    BY <1>12 DEF MacListFill, Steps
  <2> QED
    BY <1>1, <1>12, <2>1, GotoType DEF MacListFill, kernelVars, Loaded
<1>13. CASE WhitelistFlush(s)
  <2>1. Goto(s, "white_flush", "white_fill") /\ "white_fill" \in Steps
    BY <1>13 DEF WhitelistFlush, Steps
  <2> QED
    BY <1>1, <1>13, <2>1, GotoType DEF WhitelistFlush, kernelVars, Loaded
<1>14. CASE WhitelistFill(s)
  <2>1. /\ script[s].pc = "white_fill" /\ script'[s].pc = "idle"
        /\ \A t \in Script : t # s => script'[t] = script[t]
    BY <1>1, <1>14 DEF WhitelistFill
  <2> QED
    BY <1>1, <1>14, <2>1 DEF WhitelistFill, kernelVars, Loaded
<1> QED
  BY <1>3, <1>4, <1>5, <1>6, <1>7, <1>8, <1>9, <1>10, <1>11, <1>12, <1>13, <1>14
  DEF ReadStep, WriteStep

\* A step of a script, whether it raced or not.
LEMMA ScriptMoves ==
  ASSUME RulesTypeOK, NEW s \in Script, ReadStep(s) \/ WriteStep(s)
  PROVE  script[s].pc # "idle" /\ raced' = raced /\ loaded' = loaded /\ uci' = uci
<1> QED
  BY DEF ReadStep, BaseRead, RulesRead, MacsRead, WhiteRead, Load, WriteStep,
         WriteUserMode, WriteAppMode, CleanAppid, AddAppid, MacListFlush, MacListFill,
         WhitelistFlush, WhitelistFill, Goto, kernelVars

\* A reload that runs alone ends with the rules that are configured.
RunsExact == GwTypeOK /\ Loaded /\ OneRun

\* The background run is the only one at the start.
LEMMA RunsInit == GwInit => RunsExact
<1> SUFFICES ASSUME GwInit PROVE Loaded /\ OneRun
  BY TypeInit DEF RunsExact
<1>1. script["boot"].pc = "base" /\ script["request"].pc = "idle"
  BY DEF GwInit, RulesInit, Script
<1>2. Progress("boot")
  BY <1>1 DEF Progress
<1> QED
  BY <1>1, <1>2 DEF GwInit, Loaded, OneRun, Script

\* A request meets the background run, or starts the only one.
LEMMA RunsStep == RunsExact /\ [GwNext]_gwVars => RunsExact'
<1> SUFFICES ASSUME RunsExact, [GwNext]_gwVars PROVE Loaded' /\ OneRun'
  BY TypeStep DEF RunsExact
<1>1. GwTypeOK /\ Loaded /\ OneRun /\ RulesTypeOK /\ KernelTypeOK
  BY DEF RunsExact, GwTypeOK
<1>2. script \in [Script -> ScriptStates] /\ sysctl \in [SysctlNames -> BOOLEAN]
  BY <1>1 DEF RulesTypeOK, KernelTypeOK, ScriptStates
<1>3. ASSUME UNCHANGED <<uci, script, raced, apps, users, whitelist, user_mode, loaded>>,
             sysctl'["app_filter_mode"] = sysctl["app_filter_mode"]
      PROVE  Loaded' /\ OneRun'
  <2>1. Loaded'
    BY <1>1, <1>3 DEF Loaded
  <2>2. \A s \in Script : Progress(s) => Progress(s)'
    BY <1>3 DEF Progress
  <2> QED
    BY <1>1, <1>3, <2>1, <2>2 DEF OneRun
<1>4. CASE \E c \in Conn : Packet(c) \/ Open(c) \/ Close(c)
  BY <1>3, <1>4 DEF Packet, Open, Close, ruleVars, kernelVars
<1>5. CASE ScriptStep
  <2>1. PICK t \in Script : ReadStep(t) \/ WriteStep(t)
    BY <1>5 DEF ScriptStep
  <2>2. script[t].pc # "idle" /\ raced' = raced /\ loaded' = loaded
    BY <1>1, <2>1, ScriptMoves
  <2>3. CASE raced
    BY <1>1, <2>2, <2>3 DEF Loaded, OneRun
  <2>4. CASE ~raced
    <3>1. PICK s \in Script : /\ \A u \in Script \ {s} : script[u].pc = "idle"
                              /\ Progress(s)
      BY <1>1, <2>4 DEF OneRun
    <3>2. s = t
      BY <2>2, <3>1
    <3>3. Progress(s)' /\ \A u \in Script : u # s => script'[u] = script[u]
      BY <1>1, <2>1, <3>1, <3>2, ProgressStep
    <3>4. \A u \in Script \ {s} : script'[u].pc = "idle"
      BY <3>1, <3>3
    <3> QED
      BY <1>1, <2>2, <3>3, <3>4 DEF Loaded, OneRun
  <2> QED
    BY <2>3, <2>4
<1>6. CASE RequestStep
  <2>1. PICK r \in Rules : Reload(r)
    BY <1>1, <1>6, RequestReloads DEF RequestStep
  <2>2. Loaded'
    BY <1>1, <2>1 DEF Reload, kernelVars, Loaded
  <2>3. CASE script["boot"].pc # "idle"
    BY <2>1, <2>2, <2>3 DEF Reload, OneRun
  <2>4. CASE script["boot"].pc = "idle"
    <3>1. script'["boot"].pc = "idle" /\ script'["request"].pc = "base"
      BY <1>2, <2>1, <2>4 DEF Reload, Script, ScriptStates
    <3>2. Progress("request")'
      BY <3>1 DEF Progress
    <3> QED
      BY <2>2, <3>1, <3>2 DEF OneRun, Script
  <2> QED
    BY <2>3, <2>4
<1>7. CASE WindowCloses
  BY <1>3, <1>7 DEF WindowCloses, kernelVars
<1>8. ASSUME NEW f \in Switches, OafdSwitch(f) PROVE Loaded' /\ OneRun'
  <2>1. sysctl'["app_filter_mode"] = sysctl["app_filter_mode"]
    BY <1>2, <1>8, SwitchNames DEF OafdSwitch, WriteSysctl, SysctlNames
  <2> QED
    BY <1>3, <1>8, <2>1 DEF OafdSwitch, ruleVars
<1>9. CASE OafdBlock
  BY <1>3, <1>9 DEF OafdBlock, ruleVars
<1>10. CASE UNCHANGED gwVars
  BY <1>3, <1>10 DEF gwVars, ruleVars, kernelVars
<1> QED
  BY <1>4, <1>5, <1>6, <1>7, <1>8, <1>9, <1>10 DEF GwNext

\* For every configuration and every sequence of requests: when no run of
\* "oaf_rule reload" is under way, and the last request did not meet the
\* background run, the lists and modes of the kernel are those of
\* /etc/config/appfilter.
THEOREM ReloadsExact == GwSpec => []ReloadExact
<1>1. RunsExact => ReloadExact
  <2> SUFFICES ASSUME OneRun, ScriptIdle, ~raced
               PROVE  /\ apps = uci.apps
                      /\ users = IF uci.user_mode = 1 THEN uci.users ELSE {}
                      /\ whitelist = uci.whitelist
                      /\ user_mode = uci.user_mode
                      /\ sysctl["app_filter_mode"] = uci.app_filter_mode
    BY DEF RunsExact, ReloadExact
  <2>1. PICK s \in Script : Progress(s)
    BY DEF OneRun
  <2>2. script[s].pc = "idle"
    BY DEF ScriptIdle
  <2> QED
    BY <2>1, <2>2 DEF Progress
<1> QED
  BY <1>1, RunsInit, RunsStep, PTL DEF GwSpec


-----------------------------------------------------------------------------
(* Marks.                                                                  *)

MarksInv == GwTypeOK /\ WindowOpen /\ \A c \in seen : MarkSound(c)

\* Each write to the lists is followed by another step of the script, or has
\* opened the window of 30 seconds.
LEMMA WriteOpens ==
  ASSUME RulesTypeOK, NEW s \in Script, WriteStep(s)
  PROVE  recent' \/ ~ScriptIdle'
<1>1. script \in [Script -> ScriptStates]
  BY DEF RulesTypeOK, ScriptStates
<1>2. CASE WhitelistFill(s)
  BY <1>2 DEF WhitelistFill, Stamped
<1>3. CASE ~WhitelistFill(s)
  <2>1. PICK at \in Steps, next \in Steps \ {"idle"} : Goto(s, at, next)
    BY <1>3 DEF WriteStep, WriteUserMode, WriteAppMode, CleanAppid, AddAppid,
                MacListFlush, MacListFill, WhitelistFlush, Steps
  <2>2. script'[s].pc # "idle"
    BY <1>1, <2>1, GotoType
  <2> QED
    BY <2>2 DEF ScriptIdle
<1> QED
  BY <1>2, <1>3

\* Reading the configuration is no end of the script.
LEMMA ReadGoesOn ==
  ASSUME RulesTypeOK, NEW s \in Script, ReadStep(s)
  PROVE  ~ScriptIdle'
<1>1. uci \in Rules /\ script \in [Script -> ScriptStates]
  BY DEF RulesTypeOK, ScriptStates
<1>2. PICK at \in Steps \ {"idle"}, next \in Steps \ {"idle"} : Load(s, at, next)
  BY DEF ReadStep, BaseRead, RulesRead, MacsRead, WhiteRead, Steps
<1>3. script'[s].pc # "idle"
  BY <1>1, <1>2, LoadType
<1> QED
  BY <1>3 DEF ScriptIdle

\* A step that leaves a mark alone leaves it sound, if it also leaves the rules
\* alone or is not the last of a script.
LEMMA SoundKept ==
  ASSUME NEW c \in Conn, MarkSound(c), conn'[c] = conn[c],
         \/ ~ScriptIdle'
         \/ /\ UNCHANGED <<apps, users, whitelist, user_mode, script>>
            /\ sysctl'["app_filter_mode"] = sysctl["app_filter_mode"]
  PROVE  MarkSound(c)'
<1>1. (Known(c)' <=> Known(c)) /\ (Unruled(c)' <=> Unruled(c))
  BY DEF Known, Unruled
<1>2. CASE ~ScriptIdle'
  BY <1>1, <1>2 DEF MarkSound
<1>3. CASE /\ UNCHANGED <<apps, users, whitelist, user_mode, script>>
           /\ sysctl'["app_filter_mode"] = sysctl["app_filter_mode"]
  <2>1. MatchRule(conn[c].app, Owner[c])' = MatchRule(conn[c].app, Owner[c])
    BY <1>3 DEF MatchRule, MatchUser
  <2>2. (ScriptIdle' <=> ScriptIdle) /\ (AllApps' <=> AllApps)
    BY <1>3 DEF ScriptIdle, AllApps
  <2> QED
    BY <1>1, <2>1, <2>2 DEF MarkSound
<1> QED
  BY <1>2, <1>3

\* A packet leaves a sound mark in a connection that the rules answer for.
LEMMA PacketSound ==
  ASSUME MarksInv, NEW c \in Conn, Packet(c), c \in seen'
  PROVE  MarkSound(c)'
<1>1. conn \in [Conn -> Flow] /\ conn[c].app \in AppId /\ conn[c].drop \in BOOLEAN
  BY FlowFields DEF MarksInv, GwTypeOK
<1>2. ~Unruled(c)'
  BY DEF Packet
<1>3. ~Unruled(c)
  BY <1>2 DEF Packet, MarksInv, MarkSound
<1>4. UNCHANGED <<apps, users, whitelist, user_mode, script, sysctl>>
  BY DEF Packet, kernelVars, ruleVars
<1> SUFFICES ASSUME ScriptIdle, ~AllApps, Known(c)', conn'[c].drop
             PROVE  MatchRule(conn[c].app, Owner[c])'
  <2>1. (ScriptIdle' <=> ScriptIdle) /\ (AllApps' <=> AllApps)
    BY <1>4 DEF ScriptIdle, AllApps
  <2> QED
    BY <1>2, <2>1 DEF MarkSound
<1>5. ASSUME NEW app, conn'[c].app = app
      PROVE  MatchRule(conn[c].app, Owner[c])' = MatchRule(app, Owner[c])
  BY <1>4, <1>5 DEF MatchRule, MatchUser
<1>6. c \in seen \/ (recent /\ ~SplitExit(c))
  BY <1>2 DEF Packet, MarksInv, WindowOpen
<1>7. c \in seen /\ Known(c) /\ conn[c].drop => MatchRule(conn[c].app, Owner[c])
  BY DEF MarksInv, MarkSound
<1>8. CASE /\ SplitExit(c) \/ MarkExit(c) \/ ~Known(c)
           /\ SetMark(c, conn[c].app, conn[c].drop)
  <2>1. conn'[c].app = conn[c].app /\ conn'[c].drop = conn[c].drop
    BY <1>1, <1>8, SetMarkWrites
  <2>2. Known(c) /\ conn[c].drop
    BY <2>1 DEF Known
  <2>3. ~MarkExit(c)
    BY <2>2, ConnAssumption DEF MarkExit, Known
  <2>4. c \in seen
    BY <1>6, <1>8, <2>2, <2>3
  <2> QED
    BY <1>5, <1>7, <2>1, <2>2, <2>4
<1>9. CASE /\ Known(c)
           /\ \E drop \in BOOLEAN : /\ SetMark(c, conn[c].app, drop)
                                    /\ drop = (conn[c].drop # CheckAppActionChanged(c))
  <2>1. PICK drop \in BOOLEAN : /\ SetMark(c, conn[c].app, drop)
                                /\ drop = (conn[c].drop # CheckAppActionChanged(c))
    BY <1>9
  <2>2. conn'[c].app = conn[c].app /\ conn'[c].drop = drop
    BY <1>1, <2>1, SetMarkWrites
  <2>3. MatchRule(conn[c].app, Owner[c]) \in BOOLEAN
    BY DEF MatchRule
  <2>4. CASE recent
    <3>1. drop = (conn[c].drop # (MatchRule(conn[c].app, Owner[c]) # conn[c].drop))
      BY <2>1, <2>4 DEF CheckAppActionChanged
    <3>2. drop = MatchRule(conn[c].app, Owner[c])
      BY <1>1, <2>3, <3>1, Zenon
    <3> QED
      BY <1>5, <2>2, <3>2
  <2>5. CASE ~recent
    <3>1. CheckAppActionChanged(c) = FALSE
      BY <2>5 DEF CheckAppActionChanged
    <3>2. drop = conn[c].drop
      BY <1>1, <2>1, <3>1
    <3> QED
      BY <1>5, <1>6, <1>7, <1>9, <2>2, <2>5, <3>2
  <2> QED
    BY <2>4, <2>5
<1>10. CASE ~Known(c) /\ c \in QuicConn /\ SetMark(c, Quic, TRUE)
  <2>1. Quic \in AppId /\ TRUE \in BOOLEAN
    BY DEF AppId
  <2>2. conn'[c].app = Quic
    BY <1>1, <1>10, <2>1, SetMarkWrites
  <2> QED
    BY <2>2, ConnAssumption DEF Known
<1>11. CASE \E id \in {Carries[c], NoApp} : \E drop \in BOOLEAN :
              /\ ~Known(c) /\ (id = NoApp => AllApps)
              /\ drop => conn[c].drop \/ MatchRule(id, Owner[c])
              /\ SetMark(c, id, drop)
  <2>1. PICK id \in {Carries[c], NoApp}, drop \in BOOLEAN :
              /\ ~Known(c) /\ (id = NoApp => AllApps)
              /\ drop => conn[c].drop \/ MatchRule(id, Owner[c])
              /\ SetMark(c, id, drop)
    BY <1>11
  <2>2. id \in AppId
    BY ConnAssumption DEF AppId
  <2>3. conn'[c].app = id /\ conn'[c].drop = drop
    BY <1>1, <2>1, <2>2, SetMarkWrites
  <2>4. ~conn[c].drop
    BY <1>3, <2>1 DEF Unruled
  <2> QED
    BY <1>5, <2>1, <2>3, <2>4
<1> QED
  BY <1>1, <1>8, <1>9, <1>10, <1>11, PacketMarks

\* At the start the rules answer for no connection.
LEMMA MarksInit == GwInit => MarksInv
BY TypeInit DEF GwInit, MarksInv, WindowOpen

\* A write to the rules takes all connections out of their responsibility; they
\* come back with the packet that has their mark corrected.
LEMMA MarksStep == MarksInv /\ [GwNext]_gwVars => MarksInv'
<1> SUFFICES ASSUME MarksInv, [GwNext]_gwVars
             PROVE  WindowOpen' /\ \A c \in seen' : MarkSound(c)'
  BY TypeStep DEF MarksInv
<1>1. /\ RulesTypeOK /\ KernelTypeOK /\ conn \in [Conn -> Flow]
      /\ seen \subseteq Conn /\ GwTypeOK'
  BY TypeStep DEF MarksInv, GwTypeOK
<1>2. WindowOpen /\ \A c \in seen : MarkSound(c)
  BY DEF MarksInv
<1>3. sysctl \in [SysctlNames -> BOOLEAN] /\ script \in [Script -> ScriptStates]
  BY <1>1 DEF KernelTypeOK, RulesTypeOK, ScriptStates
<1>4. ASSUME UNCHANGED <<script, fresh, recent>> PROVE WindowOpen'
  BY <1>2, <1>4 DEF WindowOpen, ScriptIdle
<1>5. ASSUME NEW c \in Conn, Packet(c)
      PROVE  WindowOpen' /\ \A d \in seen' : MarkSound(d)'
  <2>1. UNCHANGED <<script, sysctl, apps, users, whitelist, user_mode, recent, fresh>>
    BY <1>5 DEF Packet, kernelVars, ruleVars
  <2>2. PICK app \in AppId, drop \in BOOLEAN : SetMark(c, app, drop)
    BY <1>1, <1>5, PacketWrites
  <2>3. \A d \in Conn : d # c => conn'[d] = conn[d]
    BY <1>1, <2>2, SetMarkWrites
  <2>4. ASSUME NEW d \in seen' PROVE MarkSound(d)'
    <3>1. CASE d = c
      BY <1>5, <2>4, <3>1, PacketSound
    <3>2. CASE d # c
      <4>1. d \in seen /\ d \in Conn
        BY <1>1, <1>5, <2>4, <3>2 DEF Packet
      <4> QED
        BY <1>2, <2>1, <2>3, <3>2, <4>1, SoundKept
    <3> QED
      BY <3>1, <3>2
  <2> QED
    BY <1>4, <2>1, <2>4
<1>6. ASSUME NEW c \in Conn, Open(c) \/ Close(c)
      PROVE  WindowOpen' /\ \A d \in seen' : MarkSound(d)'
  <2>1. UNCHANGED <<script, sysctl, apps, users, whitelist, user_mode, recent, fresh>>
    BY <1>6 DEF Open, Close, kernelVars, ruleVars
  <2>2. \A d \in Conn : d # c => conn'[d] = conn[d]
    BY <1>1, <1>6 DEF Open, Close
  <2>3. ASSUME NEW d \in seen' PROVE MarkSound(d)'
    <3>1. CASE d = c
      <4>1. conn'[c] = Unmarked
        BY <1>1, <1>6, <2>3, <3>1 DEF Open, Close
      <4>2. conn'[c].drop = FALSE
        BY <4>1, FreshFlows
      <4> QED
        BY <3>1, <4>2 DEF MarkSound, Unruled
    <3>2. CASE d # c
      <4>1. d \in seen /\ d \in Conn
        BY <1>1, <1>6, <2>3, <3>2 DEF Open, Close
      <4> QED
        BY <1>2, <2>1, <2>2, <3>2, <4>1, SoundKept
    <3> QED
      BY <3>1, <3>2
  <2> QED
    BY <1>4, <2>1, <2>3
<1>7. CASE ScriptStep
  <2>1. PICK s \in Script : \/ ReadStep(s) /\ UNCHANGED <<fresh, seen>>
                            \/ WriteStep(s) /\ fresh' = TRUE /\ seen' = {}
    BY <1>7 DEF ScriptStep
  <2>2. CASE ReadStep(s) /\ UNCHANGED <<fresh, seen>>
    <3>1. ~ScriptIdle'
      BY <1>1, <2>2, ReadGoesOn
    <3>2. conn' = conn /\ seen' = seen
      BY <1>7, <2>2 DEF ScriptStep
    <3> QED
      BY <1>1, <1>2, <3>1, <3>2, SoundKept DEF WindowOpen
  <2>3. CASE WriteStep(s) /\ fresh' = TRUE /\ seen' = {}
    BY <1>1, <2>3, WriteOpens DEF WindowOpen
  <2> QED
    BY <2>1, <2>2, <2>3
<1>8. CASE RequestStep
  <2>1. PICK r \in Rules : Reload(r)
    BY <1>1, <1>8, RequestReloads DEF RequestStep
  <2>2. script'["request"].pc = "base"
    BY <1>3, <2>1 DEF Reload, Script, ScriptStates
  <2>3. ~ScriptIdle'
    BY <2>2 DEF ScriptIdle, Script
  <2>4. conn' = conn /\ seen' = seen
    BY <1>8 DEF RequestStep
  <2> QED
    BY <1>1, <1>2, <2>3, <2>4, SoundKept DEF WindowOpen
<1>9. CASE WindowCloses
  <2>1. UNCHANGED <<script, sysctl, apps, users, whitelist, user_mode, conn, seen>>
    BY <1>9 DEF WindowCloses, kernelVars
  <2>2. WindowOpen'
    BY <1>9 DEF WindowCloses, WindowOpen
  <2> QED
    BY <1>1, <1>2, <2>1, <2>2, SoundKept
<1>10. ASSUME NEW f \in Switches, OafdSwitch(f)
       PROVE  WindowOpen' /\ \A c \in seen' : MarkSound(c)'
  <2>1. sysctl'["app_filter_mode"] = sysctl["app_filter_mode"]
    BY <1>3, <1>10, SwitchNames DEF OafdSwitch, WriteSysctl, SysctlNames
  <2>2. UNCHANGED <<script, apps, users, whitelist, user_mode, recent, fresh, conn, seen>>
    BY <1>10 DEF OafdSwitch, ruleVars
  <2> QED
    BY <1>1, <1>2, <1>4, <2>1, <2>2, SoundKept
<1>11. CASE OafdBlock \/ UNCHANGED gwVars
  <2>1. UNCHANGED <<script, sysctl, apps, users, whitelist, user_mode, recent, fresh,
                    conn, seen>>
    BY <1>11 DEF OafdBlock, gwVars, ruleVars, kernelVars
  <2> QED
    BY <1>1, <1>2, <1>4, <2>1, SoundKept
<1> QED
  BY <1>5, <1>6, <1>7, <1>8, <1>9, <1>10, <1>11 DEF GwNext

\* For every set of devices, applications and connections, in all modes, with
\* packets, requests, oafd's switches and the steps of two runs of the script in
\* any order: at rest, in specified-apps mode, a recognised connection that
\* began after the last reload, or was looked at by the handler in the 30
\* seconds after it, is marked to be dropped only if the rules want that.  Left
\* out are the connections that split mode let pass meanwhile and those whose
\* drop bit is older than their recognition.
THEOREM NoOverblocking == GwSpec => []NoOverblock
<1>1. MarksInv => NoOverblock
  BY DEF MarksInv, MarkSound, NoOverblock
<1> QED
  BY <1>1, MarksInit, MarksStep, PTL DEF GwSpec


=============================================================================
