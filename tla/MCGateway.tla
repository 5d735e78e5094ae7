------------------------------ MODULE MCGateway ------------------------------
(* Values of the constants of OafGateway for TLC.                          *)
EXTENDS OafGateway

CONSTANTS a1, x1, y1, c1

OneOwner == [k \in Conn |-> a1]
AllX1 == [k \in Conn |-> x1]
AllY1 == [k \in Conn |-> y1]

\* /etc/config/appfilter at boot
BootRules == {[apps |-> {x1}, users |-> {}, whitelist |-> {}, user_mode |-> 0,
               app_filter_mode |-> FALSE]}
BootLists == BootRules \cup {[r EXCEPT !.whitelist = {a1}] : r \in BootRules}

\* Requests of the administrator
Nothing == {}
AppLists == {{}, {x1}}
Modes == {TRUE, FALSE}
UserModes == {0, 1}
==============================================================================
