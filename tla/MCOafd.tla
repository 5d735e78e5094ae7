------------------------------- MODULE MCOafd -------------------------------
(* Values of the constants of Oafd for TLC.                                *)
EXTENDS Oafd, TLC

CONSTANTS a, b

Devices == Permutations(Mac)

G(on, all, mode) ==
  [enable |-> on, record_enable |-> on, disable_quic |-> ~on,
   app_filter_mode |-> all, user_mode |-> mode]

Limits(am, pm) == [d \in Day |-> [enable |-> TRUE, am |-> am, pm |-> pm]]
Unlimited == [d \in Day |-> NoLimit]

\* "00:00-23:59" on every day
AllDay == {Instant}

Time(mode, split, list, limits) ==
  [time_mode |-> mode, split_time |-> split, time_list |-> list,
   days |-> Day, seg |-> Tod, deny_time |-> 1, allow_time |-> 1,
   daily_limit |-> limits]

Manual == Time(0, 0, AllDay, Unlimited)
Split == Time(2, 1, AllDay, Limits(1, 1))
Shared2 == Time(2, 0, AllDay, Limits(2, 2))
SplitMorning == Time(2, 1, AllDay, Limits(1, 0))
\* Mode 1, in the morning and at noon of the first day only.
Dynamic(deny, allow) ==
  [Time(1, 0, AllDay, Unlimited) EXCEPT
     !.days = {0}, !.seg = {"am", "noon"}, !.deny_time = deny,
     !.allow_time = allow]

Config(g, t) == [global |-> g, time |-> t, users |-> {}, whitelist |-> {}]

FirstMorning == {[day |-> 0, tod |-> "am"]}
\* Contents of /etc/config/appfilter at boot
BootManual == {Config(G(TRUE, TRUE, 0), Manual)}
BootSplit == {Config(G(TRUE, TRUE, 0), Split)}
BootMorning == {Config(G(TRUE, TRUE, 0), SplitMorning)}
BootDynamic == BootMorning \cup {Config(G(TRUE, TRUE, 0), Dynamic(2, 3))}
BootBothModes == {Config(G(TRUE, TRUE, mode), Split) : mode \in {0, 1}}

\* Requests of the administrator
Nothing == {}
OnOff == {G(TRUE, TRUE, 0), G(FALSE, FALSE, 0)}
SplitTimes == {Manual, Split}
SharedOnly == {Shared2}
==============================================================================
