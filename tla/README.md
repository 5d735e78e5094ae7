# OpenAppFilter: a TLA+ model

OpenAppFilter restricts which applications the devices behind an OpenWrt router
may use, and for how long. It consists of a kernel module (`oaf/src`), a daemon
`oafd` (`open-app-filter/src`), shell and ucode scripts (`open-app-filter/files`)
and LuCI pages (`luci-app-oaf`). This directory holds TLA+ modules translated
from that code, the configurations with which TLC checks them, and proofs that
TLAPS checks. Paths below are relative to the repository.

## 1. The system

### Components

| component | state | operations | talks to |
|---|---|---|---|
| timer loop and limit checks (`main.c`, `oaf_split.c`) | `g_af_config`, `g_af_status`, `g_oaf_config_change`, the tick counter, the statics `last_day` and `last_reset_*` | `oaf_timeout_handler` every second: device list and limit check every 10 ticks, minute jobs every 60, save every 300, reload when the configuration changed | writes `/proc/sys/oaf/*`, one file at a time |
| device table (`appfilter_user.c`) | `dev_hash_table`: active minutes before and after 12:00, `online`, `is_selected`, `is_whitelist`, `period_blocked`; `/etc/user_list.dat` | refresh from leases and kernel, selection, resets, expiry, save, load | reads uci and `/proc` |
| ubus requests (`appfilter_ubus.c`) | none of its own | store in uci, raise `g_oaf_config_change`, reload the kernel's rules, clear minutes, drop offline devices | uci, `oaf_rule`, device table |
| netlink receiver (`appfilter_netlink.c`) | the socket | one report per active device and minute | device table |
| kernel switches and `blocked_macs` (`af_log.c`) | integers `enable`, `split_time`, `app_filter_mode`, `user_mode`, ... | `clear`, `+MAC`, `-MAC` | client table |
| client table (`af_client.c`) | `af_client_info_t` per device, with `period_blocked`, address, counters, a timer | create on the first packet, expire after 90 s of silence, report once a minute | netlink |
| gateway hook (`app_filter.c`) | connection marks | accept or drop a packet | switches, client table, rules |
| bypass hook and connection table (`app_filter.c`, `af_conntrack.c`) | own table of connections | as the gateway hook, without conntrack | client table, rules |
| rules, user list, whitelist (`af_config.c`, `af_*_config.c`) | list of applications, list of users, whitelist | empty and refill on `oaf_rule reload` | written through `/dev/appfilter` |
| feature matching (`app_filter.c`, `regexp.c`) | feature list | clean, add a line, match a packet | messages from `oafd` |
| reload and upload of features (`main.c`, `feature.lua`) | `/tmp/feature.cfg`, `g_feature_update`, table of names | upload page copies the file and sends SIGUSR1, timer reloads | feature list, line by line |
| traffic collector (`traffic.uc`) | counters, lock file, daily files | collect, merge | nft counters |
| scripts (`oaf_rule`, `appfilter.init`) | - | reload, restart | uci, `/proc/sys/oaf` |
| LuCI | - | forwards requests | ubus |

`oafd` is a single thread: timer, ubus requests and netlink reports never
overlap. What does overlap is the kernel. A round of the timer handler is a
series of separate system calls, and between any two of them packets are
filtered, client entries expire and are created anew, the module may be loaded,
the daemon may be killed, and the background `oaf_rule reload &` runs on its own.

### What is hard here

* **Partial updates.** The block list is rewritten as `clear` followed by one
  `+MAC` per device; a change of mode is five separate writes.
* **Lost writes.** A `+MAC` for a device without client entry is dropped; any
  write while the module is absent is dropped; an entry that expires takes its
  block with it. Only repetition repairs this, so the question is what is
  repeated and what is not.
* **Stale copies.** `g_af_config`, `is_whitelist`, `is_selected` and the kernel's
  switches are copies of uci refreshed at different moments.
* **Time.** Limits change at 12:00 and at midnight, resets are tied to minute
  ticks, and a restart forgets what day it was.
* **Pointers that outlive their lock.** Both packet hooks look an entry up under a
  lock, release it and go on using the entry, while a timer frees entries; what
  keeps this safe is arithmetic on time stamps.
* **Races with the administrator.** An upload overwrites the file a reload is
  reading, and its signal may come while the flag it sets is about to be cleared.
* **Persistence.** The minutes are saved every five minutes by truncating the
  file and writing it again.

`PROJECT.json` lists each such hazard at its line, with the properties that
would catch it going wrong, or the reason why none does yet.

### What makes it correct

A device that has used up its time is restricted and stays so; a device that has
not is left alone, whatever the others do; the shared account counts everybody;
a configuration that the administrator leaves in place reaches the kernel and
leaves nothing of the previous one behind; minutes once counted are kept until
the date changes; a phase of the alternating mode ends when it should. An entry
in use is not freed, an entry out of use is; activity seen is activity reported;
a packet is given the application its feature describes, and the features are
those of the file uploaded last.

## 2. Modules

`OafKernel` - the kernel as the limit sees it: `loaded`, the client table
`clients`, the flags `blocked`, the switches `sysctl`. `NfClientAdd`,
`CheckClientExpire` and `Insmod` are its own steps; `WriteSysctl` and
`BlockedMacsClear/Add/Del` are what user space may do to it. `Restricted(m)` says
that packets of `m` go on to the filter instead of being accepted
(`app_filter_hook_gateway_handle`), `CutOff(m)` that they are dropped at once.

`Oafd` EXTENDS `OafKernel` - the daemon, uci, the clock, the file and the
background script. `pc` is the next call of `oaf_timeout_handler`:

    idle -> update_dev_list -> update_oaf_status -> [clear -> add*] -> enable
         -> [minute -> update_oaf_status ... enable -> housekeeping]
         -> [save -> save_rows]
         -> [load -> update_oaf_status ... enable -> record -> quic
                  -> app_mode -> split -> config_done]
         -> connect -> idle

Each label is one action, which ends where the code makes its next access to
kernel state; `ctx` tells which of its three call sites `update_oaf_status`
returns to. ubus requests (`Handle...`) and `NlActiveReport` need `pc = "idle"`,
and each is a single action: what they do to the kernel is a single write, and
what they do to uci takes effect at the commit. `Kill` and `Reboot` happen at any
point.

`MCOafd` gives the constants their values.

`OafRules` EXTENDS `OafKernel` - `oaf_rule reload` and the lists it fills. `script`
holds two runs of the script: `request`, which a ubus request waits for, and
`boot`, the background run `oafd` starts when it finds the module. Each
`config_load`, each write to `/proc/sys/oaf` and each command to `/dev/appfilter`
is a step; the two commands that replace a list are two steps, since the code
flushes and then fills without holding the list's lock in between, and
`CdevFree` is `af_cdev_mutex`, which keeps two commands apart. `recent` says that
`g_update_jiffies` is less than 30 seconds old.

`OafGateway` EXTENDS `OafRules` - `app_filter_hook_gateway_handle`. A connection
has the application and the drop bit of its `ct->mark` and a packet count;
`Packet(c)` is one call of the hook, with one disjunct per way through it: the
two early exits (`SplitExit`, `MarkExit`), `Judge` for a recognised connection,
`PastDpi`, `RejectQuic` and `Classify`. Around it run the script, requests, the
end of the 30 seconds, and the switches and blocks that `Oafd` describes, here
in any order. Two history variables say which marks the rules as they are answer
for: `fresh`, that a script touched the rules less than 30 seconds ago, and `seen`,
the connections that began since, or that the handler looked at while `fresh`. `MCGateway` gives the constants their values.

`OafClients` - the client table against the clock, one action per critical
section or timer run. `entry` is `af_client_list_table` with, for each entry, the
seconds since `update_jiffies`, the seconds until its `client_timer`,
`timer_count`, `active`, `inactive_time`, `period_blocked` and the address. A
packet on processor `c` goes through `ClientHook` (by MAC; makes the entry),
`GatewayHook` (by address, `FindByIp`; refreshes it and releases the lock) and
`HookEnds`; `ClientTimer`, `OafTimer` with `CheckClientExpire`, and `Second` are
time. `dangling` records who uses an entry that has been freed, `owed` whose
activity `oafd` has not heard of. Whatever a timer has to do in a second it does
before the next.

`OafClients` implements the table of `OafKernel`: `ImplementsTable` is
`OafKernel!TableSpec` with `clients` and `blocked` computed from `entry`. This is
what entitles `Oafd` to treat the table as a set with flags.

`OafBypass` - `app_filter_hook_bypass_handle` and `af_conntrack.c`. `Enter` is the
critical section under `af_conn_lock`; `Judge`, `StoreApp` and `StoreDrop` are the
accesses after it; `ConnCleanTimeout` walks `CheckCount + 1` buckets a second.
`EnterNoMemory` returns with the lock held, as the code does.

`OafRegexp` - `regexp.c`. `Compile` is a recursive function over the characters of
the pattern, `MatchHere` one over the nodes; of each matching function the model
keeps the set of positions of the text at which it answers 1 (`MatchStar`,
`MatchPlus`, `MatchQues`, `MatchSingle`, `RegexpMatch`). Beside them stands what an
expression means, without nodes or backtracking: `Fits` asks for positions in the
text such that each item covers what lies between two of them.

`OafFeatureReload` - the list of features and how it gets into the kernel:
`StartReload`, `ReadNames`, `OpenFails`, `CleanFeatures`, one `AddLine` per line,
`EndReload`; the upload page is `CopyFile` followed by `Signal`. Of a feature it
knows the application and the protocol.

`OafFeatures` EXTENDS `OafFeatureReload` and `OafRegexp` - the matchers for ports,
positions and URLs on that list, and what a feature means (`Describes`).

`MCClients`, `MCBypass` and `MCFeatures` give the constants their values.
`OafdProofs`, `OafGatewayProofs`, `OafClientsProofs`, `OafBypassProofs`,
`OafFeatureProofs` (about `OafFeatureReload`), `OafRegexpProofs` and
`OafRecognitionProofs` (about `OafFeatures`) hold the theorems; `SequenceLemmas`
holds what they need to know of sequences and of recursive functions.

### Abstractions

* The clock is a day and one of `am`, `noon` (12:00 itself, where the reset
  happens) and `pm`; days are visited cyclically, as weekdays are. An entry of
  the list of manual windows is the set of instants it covers; the conversion of
  old entries at start-up (`apply_time_config_to_uci`) keeps that set, and does
  not appear.
* Tick periods are constants with the divisibility of 10, 60 and 300. `count` is
  kept in `0..SaveTicks`, which preserves every test made on it.
* `update_oaf_proc_value` reads a switch and writes it when it differs. `oafd` is
  the only writer of the switches it writes, apart from `app_filter_mode`, so
  this is one write.
* The order of the hash table is left open: any device may come first in the
  reset at 12:00, and `+MAC` writes come in any order.
* `check_dev_expire` removes devices offline for seven days: any set of offline
  devices may have expired.
* In `OafKernel`, `Oafd` and `OafGateway` packets find their client by MAC. The
  look-up by address is in `OafClients`.
* A report is handled only while the device has a client entry: the report comes
  from that entry's timer, and the entry outlives its last packet by 90 seconds.
* The table saved is small enough for one write of the stdio buffer.
* In `OafRules` a list is filled in one step. A packet looks up one device and one
  application, so it cannot tell in which order the entries came.
* In `OafGateway` packet counts stop at `DpiPackets + 1`, since the code only asks
  whether the limit is exceeded. Which packet a feature recognises is left open
  (`Classify` with the application of the connection, or with none), and so is
  when a connection opens and closes. The client entry of a device is always
  there, as `af_client_hook` has run before on the same packet.
* `OafClients` counts in seconds, with 90, 60, 30 and 2 as constants; what the proof
  of a property needs of them is `TimesAssumption`. The flow counters and the two
  rate thresholds are one bit, `busy`; ages stop one above the limit they are
  compared with. A packet is through the hooks within `HookSeconds`, less than
  the idle limit: hooks run in softirq context and do not sleep. Addresses change
  between two packets of a device. `WrapIn` is the number of seconds until
  `jiffies` overflows, 0 for a kernel with 64 bits.
* `OafBypass` has one device, so its rules say only which applications are listed
  and whether the device counts. A change of the lists is one step; its parts
  are in `OafRules`.
* A pattern or a text is a sequence of characters. The characters and the digits
  among them are constants (`Char`, `Digits`); the run has a small alphabet with
  two digits. Memory from `kmalloc` holds anything (`Junk`): `ch` of a node that is no
  character, and the byte of the list of `\d` that nobody writes. The branch of
  `compile` for `[` is left out, because `af_init_feature` takes what follows the
  last `[` of a line for the features, so no pattern contains one.
* A line of the feature file is a sequence of records; fields that `sscanf` cannot
  read are kept as such (`Unreadable`), since the code treats them differently
  in ports and in dictionaries. `UintRange` is the range of `unsigned int`,
  scaled in the run. A dictionary has fewer than `MAX_POS_INFO_PER_FEATURE` entries
  (`DictAssumption`): from 16 on `__add_app_feature` leaves its loop with
  `p - begin` at -1 and hands that to `strncpy`.
* One netlink message with a line is one step in the kernel, and so is a match.
* Left out: display-only fields (`match_time`, `used_time`, `remain_time`),
  visit statistics, rates, names, `update_lan_ip`, forwarding to the agent, requests that only read.

## 3. Runs

| run | instance | checks |
|---|---|---|
| `split_two_devices` | 2 devices, 1 minute each, modes and global switch changed at will | `TypeOK`, `KernelFollowsConfig`, `ModeSwitchClears`, `ReloadInv`, `BlockOnlyExhausted` |
| `restart` | 1 device with a lease, on the daily limit or on mode 1 with phases 2/3, 2 days, moving clock, module loaded late, one kill or reboot | `DynamicBounded`, `MinutesKept` |
| `live_limits` | 2 devices, fair; 1 minute each, then a shared account of 2 | `Enforced`, `Released`, `SharedEnforced` |
| `live_admin` | 1 device, fair; user mode, lists and time mode changed at will | `UnlistedReleased`, `ConfigApplied` |
| `rules_reload` | 1 device, 1 application, every request, both runs of the script at once | `ReloadExact` |
| `gateway` | 1 connection that QUIC's test accepts and that carries an application; list and mode changed at will, with and without whitelist; filter, split mode, blocks and QUIC switch toggled | `GwTypeOK`, `NoOverblock` |
| `clients` | 2 devices, 2 addresses, 1 processor, reports every 2 runs, expiry after 3 s, one check every 4 s | `ClientsTypeOK`, `NoClientUseAfterFree`, `EveryBurstReported`, `IdleFreed`, `ImplementsTable` |
| `bypass` | 1 connection, 2 processors, 4 buckets in walks of 2, timeout 2 s, rules and three switches changed at will | `BypassTypeOK`, `NoConnUseAfterFree`, `DecisionFollowsRules`, `TimedOutFreed` |
| `features` | every pattern of up to 2 items and some of 3 against every text of up to 3 letters; files with ports, positions and requests against small payloads; 2 uploads | `FeaturesTypeOK`, `RecognisesAsDescribed`, `FeaturesCurrent`, `UploadApplied` |

* `KernelFollowsConfig` - with no change pending, the kernel's `split_time`,
  `record_enable` and `disable_quic` are those of `g_af_config`.
* `ModeSwitchClears` - with no change pending and another mode than the
  per-device limit, nobody is blocked, however the `clear`/`+MAC` writes, the
  requests and the client entries interleaved.
* `BlockOnlyExhausted` - a step adds a block only for a selected device that has
  used up its own minutes.
* `DynamicBounded` - only the running phase has time on its counter, and less
  than the configuration in force grants. (The theorem covers a phase that is
  shortened under way; the run keeps one configuration.)
* `MinutesKept` - the minutes of the current half day decrease only with a change
  of date or with `g_oaf_config_change` raised (a command or a restart); in
  particular the reset at 12:00 touches only the morning.
* `Enforced` - a selected device that stays over its limit, with a client entry,
  is restricted infinitely often. "Always from some point on" is not true: every
  ten seconds the `clear` opens a short gap.
* `Released` - a device that stays under its limit is from some point on never
  restricted.
* `SharedEnforced` - the same two statements for the shared account (`split_time` 0),
  where both hold for good, and where devices that are gone still count.
* `UnlistedReleased` - with user mode 1 loaded, a device that is not listed is in
  the end left alone.
* `ConfigApplied` - a configuration without per-device limit that stays in uci
  reaches the kernel. (A daily limit without the option `split_time` is not meant;
  see below.)

* `ReloadExact` - with no script running, lists and modes in the kernel are those
  of uci, unless the last request came during the background run: of two runs
  that overlap the one that writes last may have read before the request. The
  next request puts that right.
* `NoOverblock` - at rest and in specified-apps mode, a recognised connection is
  marked for dropping only if the rules want it, even if it was marked under
  other rules, in all-apps mode, or while a list was empty in the middle of a
  reload. It is about connections that began after the last reload or sent a
  packet in the 30 seconds after it (`seen`), and excepts two kinds of these.
  Split mode lets the packets of a free device pass without a look at the mark
  (`app_filter.c:1519`), so these do not count as looked at. And a drop bit that is
  older than the recognition (QUIC, all-apps mode) stays (`app_filter.c:1640`, run
  `v_kept_mark`) until a later reload has the connection judged.

* `NoClientUseAfterFree`, `NoConnUseAfterFree` - between the release of the lock and
  the end of the hook nobody frees the entry the hook uses. In both tables this
  rests on the time stamp written at the look-up alone.
* `EveryBurstReported` - traffic above the rates that came by the gateway hook is
  reported as active: not too late for the flag (30 quiet runs against a report
  every 30) and not too late for the entry (90 seconds against 62).
* `IdleFreed` - one client entry is freed per minute, and the search starts at the
  first bucket each time. An entry that is not refreshed any more has its turn if
  the entries before it settle (`Settles`). Without that it need not: with checks
  every 60 seconds and expiry after 90, two devices in earlier buckets that fall
  silent and come back in turn are overdue at every second check each, and take
  every one.
* `TimedOutFreed` - a silent connection is freed although only a few buckets are
  looked at per second. It excepts the lock lost by `EnterNoMemory`.
* `ImplementsTable` - the refinement described above.
* `DecisionFollowsRules` - although `app_id` and `drop` are written one after the
  other, without a lock and by two processors at once, the decision that stays
  for a recognised connection is the one of the rules, if these and the switches
  have not changed since the entry was made. (After a change it need not be: the
  decision is turned round for 30 seconds and not stored.)
* `RecognisesAsDescribed` - for every list of features that arises, every packet and
  every content of fresh memory, the packet is given the application of the
  latest feature that describes it. With `\d` in a pattern this is claimed for
  clean memory only; with junk such a pattern matches too much.
* `FeaturesCurrent`, `UploadApplied` - features and names are those of the file, and
  an upload in the end takes effect, with the file missing at first, with the
  module late, and with an upload in the middle of a reload. The one exception is
  a signal that comes during a reload, whose flag the reload clears (`missed`).

**Bounds.** `MaxActive` caps the minutes of a device at its limit: reaching the
limit is the interesting step, the code only compares. Two devices suffice for
one to be blocked on behalf of the other. `MaxKills = 1` puts a restart at every
point of the handler. `ClockMoves` freezes the clock in the runs with two devices
or fairness, and the runs with a clock have one device; limits are the same each
day there, except that `restart` leaves the afternoon without. `DhcpLeases` and
`ManagedMac` switch on devices known from leases and edits of the lists.
`DpiPackets = 1` lets a connection pass the limit in two packets. `rules_reload`
has no connections and no switches of `oafd`, since nothing in a reload depends on
them. `gateway` has one connection, since the marks of two do not depend on each
other, and that one may be rejected as QUIC, be recognised, or neither; the theorem
is for any number. In `clients` the times of hooks, reports and expiry keep the relations of 2, 30
and 90 seconds; two devices are needed for an address to change hands, one of
them has traffic above the rates and the other may change its address (`Lease`).
The checks are 4 seconds apart with expiry after 3, so that one device can take
every check from the other, which with 60 and 90 seconds takes two: TLC refutes
`IdleFreed` without its premise here, and also for three devices with 2 and 3.
`bypass` has its connection in bucket 0, which the walk reaches only by going
round. `MaxUrl = 4` cuts URLs that are as long as the texts tried; `features` ends
after `MaxUploads` uploads, which is why deadlock is not checked there.

**Fairness.** `FairSpec` assumes weak fairness of `Handler` - the uloop timer is
set again at the end of each round, and none of the calls blocks - and of
`BgRead \/ BgWrite`, a shell script that runs to its end. `OafClients` and
`OafBypass` assume that time goes on, no second without its timers, and that a
hook that has begun ends; `OafFeatureReload` that the timer of `oafd` runs and that the upload page
sends the signal after the copy. Nothing is assumed of the devices, the
administrator, the clock or crashes.

### Where the code departs from its documents

Three runs state a sentence of the repository and show a behaviour of the code
that breaks it.

* `v_manual_mode` - `user.htm:732`, "In manual mode, only the following added
  terminals are controlled". `handle_set_app_filter_user` does not raise
  `g_oaf_config_change`; the limit check keeps the old user mode, and a device
  that is not listed stays cut off. (`UnlistedReleased` is what does hold: once
  anything makes `oafd` reload, the list is obeyed.)
* `v_address_reuse` - `README.md:67`, "Device A exceeding its limit only blocks
  device A". The gateway hook finds its client by address; a device that was
  given the address of one that left is judged by that one's entry. The run
  `clients` has `AddressReuse = FALSE` since the two properties that follow a
  packet to its own entry are about something else.
* `v_kept_mark` - `README.md:82`, "blocking only specified apps". A connection that
  was dropped as QUIC (`app_filter.c:1601`) and is recognised after `disable_quic`
  went off keeps the drop bit beside the application (`app_filter.c:1640`). Nothing
  keeps the features of UDP in the shipped `feature.cfg` from fitting such packets.
  The same happens to a connection dropped in all-apps mode once the mode is
  switched. `NoOverblock` excepts these connections.

Further disagreements that the models show, without a run of their own:

* `README.md:66`, "Off (default): All selected devices share a total time budget". A
  missing `split_time` option reads as -1, which `main.c:560` takes for on and
  `main.c:691` for off: the daemon counts for each device and the kernel restricts
  all of them or none. With -1 in the place of 0 TLC refutes `SharedEnforced`.
* `README.md:67` once more: with the module loaded after `oafd`, `split_time` is not
  written again while `enable` is (`main.c:411`), and device A over its limit
  restricts device B. With `AutoLoad = FALSE` TLC refutes `Released`.
* `README.md:82` once more: a request during the background `oaf_rule reload &`
  (`main.c:837`) may find an application that it takes off the list put back by the
  background run, until the next request. This is the exception of `ReloadExact`.
* `README.md:93`, "When time is not expired, the device is unrestricted". In bypass
  mode the drop mark of a connection is honoured in all-apps mode
  (`app_filter.c:1339`), and for QUIC, without asking whether the filter is on.
* `docs/split-time-dev-guide.md:75`, D3: with the per-device limit and specified
  applications, a device within its time that uses a listed application is
  blocked; the comment at `app_filter.c:1648` says so too. The code leaves the
  handler before (`app_filter.c:1519`), as `README.md:81` and the comment at
  `app_filter.c:1495` say, and as `Released` has it. D5 of the same guide (line 77)
  has a device over its time blocked altogether, where `README.md:78` and the code
  let applications pass that are not listed.
* `user.htm:770`, "Users in whitelist are not controlled": `is_whitelist` is set
  only by `get_all_users`; after a start of the daemon, and until somebody opens
  that page, devices of the whitelist are controlled.
* On a kernel with 32 bits `check_client_expire` compares `jiffies` without
  `time_after` (`af_client.c:210`). With `WrapIn > 0` TLC refutes
  `NoClientUseAfterFree`: shortly before the overflow, fresh entries are freed.

## 4. Proofs

Every safety invariant, action property and refinement that a passing run checks
is also proved, for every value of the constants that the named assumptions
allow. Each of these theorems has the form `Spec => []Inv`, from an invariant that
is preserved by every action and that TLC checked on a small instance first.

**`OafdProofs`** - any set of devices, number of days, tick period and set of
requests.

* `TypeCorrect` (`TypeOK`) is inductive as it stands; `blocked \subseteq clients`
  is part of it.
* `ReloadCorrect` (`ReloadInv`), and from it `ModeSwitchCorrect`
  (`ModeSwitchClears`). `ModeSwitchClears` alone is not inductive: a `+MAC` still
  to be written could follow the `clear`. `ReloadInv` adds that a reload, with the
  check nested in it, runs with `g_oaf_config_change` raised; that `clear` and
  `add` are reached only in split mode; that the switch is off between its write
  and the end of the reload; and that a kernel without module has no state.
* `BlockCorrect` (`BlockOnlyExhausted`). `ReloadInv` also says that every device on
  the list of pending `+MAC` writes is selected and over a limit of the loaded
  configuration; no request can slip in between, since requests wait for the
  handler to end.
* `DynamicCorrect` (`DynamicBounded`). The strengthening `DynamicInv` covers the
  steps of a reload after the counters have been adjusted to the new
  configuration but before the change is marked as done.
* `SwitchesCorrect` (`KernelFollowsConfig`, which is about a module loaded at boot,
  `AutoLoad`). The three switches are written one
  after the other, so `SwitchInv` says from which step of the reload on each of
  them is right, and that only a reload, which runs with the change pending,
  replaces `g_af_config`.
* `MinutesCorrect` (`MinutesKept`), an action property: the lemmas `FlagsKeep`,
  `NoonKeeps` and `SameActive` say what each operation on the device table does to
  the minutes of an entry; the rest is one step per action.

**`OafGatewayProofs`** - any devices, applications, connections, requests and
initial rules, with two runs of the script.

* `TypeCorrect` (`GwTypeOK`).
* `ReloadsExact` (`ReloadExact`). `Progress(s)` says what part of the kernel's
  state run `s` of the script has already brought in line with uci, at each of its
  steps, including the lists that are empty in between; `OneRun` that, unless a
  request met the background run, all runs but one are at rest. Like `ReloadExact`
  the theorem says nothing of the time between such a meeting and the next request.
* `NoOverblocking` (`NoOverblock`), without hypotheses: all modes, all switches,
  and features on QUIC connections too. `NoOverblock` is not inductive: the handler
  corrects a mark only while `recent`, and what it stores at the recognition
  includes an older drop bit. `MarksInv` adds `WindowOpen` (at rest, `fresh` implies
  `recent`: the last write of a script opens the window) and, for the connections
  in `seen`, that no drop bit is older than the recognition. A write to the rules
  empties `seen`, and a script at work makes the rest vacuous, so that the one
  interesting step is a packet (`PacketSound`).

**`OafClientsProofs`** - any devices, addresses and processors, and any times with
`TimesAssumption`, which 90, 60, 30 and 2 seconds satisfy.

* `TypeCorrect` (`ClientsTypeOK`).
* `NoUseAfterFree` (`NoClientUseAfterFree`), for a `jiffies` that does not overflow
  (`WrapIn = 0`; with 32 bits it is false). `HookHoldsEntry`: the entry a hook
  points to is there, and has been idle no longer than the hook has been running.
* `BurstsReported` (`EveryBurstReported`), same hypothesis. `WillReport` relates
  three counters of an entry that owes a report: the runs of `client_timer` it is
  ahead of the next report (`Credit`), the quiet runs since the traffic, and the
  idle seconds, which the timer period converts into each other. It comes down to
  the inequalities `ReportTicks <= InactiveTicks` and
  `TimerPeriod * (ReportTicks + 1) <= IdleLimit`.
* `TableRefined` (`ImplementsTable`): initial states map to initial states of
  `OafKernel!TableSpec`, every step to a step of it or to a stutter.

**`OafBypassProofs`** - any processors, connections, buckets, timeouts and rules.

* `TypeCorrect` (`BypassTypeOK`).
* `NoUseAfterFree` (`NoConnUseAfterFree`). As above: the entry a processor points to
  is there and not older than the packet.
* `DecisionsFollow` (`DecisionFollowsRules`), about what is stored for a recognised
  connection while no hook is in flight and rules and switches are those of its
  creation; a packet may be judged otherwise
  (`app_filter.c:1339`, section 3).
  `DecisionsWanted`: all processors
  between the two stores are about to store the decision of the present rules,
  and where the table holds another one, one of them has its second store before
  it.

**`OafFeatureProofs`** - files of any length with any features, any number of
uploads.

* `TypeCorrect` (`FeaturesTypeOK`), with the list as a sequence of accepted
  features, and a file while lines are being sent.
* `ReloadsCurrent` (`FeaturesCurrent`). `ReloadInv`: while no upload waits for its
  signal and none was signalled during the reload, the list is what the lines
  sent so far make of it. The lemma `LoadedNext` is the step: the list of `k + 1`
  lines is that of `k` lines with the next line put in front. It rests on what
  `FlattenSeq` and `Reverse` do with one element more (`FlattenAppend`,
  `ReverseConcat` of `SequenceLemmas`).

**`OafRegexpProofs`** - any characters, expressions and texts.

* `MatchExact`: for every expression, every text and every junk in memory (clean
  memory if the expression has `\d` or `\D`), `RegexpMatch` of the expression as it is
  written holds exactly if the text fits the expression. It is about the operators
  alone. The argument goes from the last item of the expression to the first.
  `CompileExact`: the nodes that `Compile` makes from the character where an item
  begins are the one or two nodes of the item and those of the rest, so that no
  character is taken for part of a neighbouring item. `NodeMeans`: a node takes
  exactly the characters its atom means. `HereItems`: the positions in `MatchHere`
  at an item are those from which the remaining items can cover the text
  (`Reach`); this is where the shortest-first loops of `matchstar`, `matchplus`
  and `matchques` are shown to lose no possibility. `ReachFits` puts the steps
  together into the one path of `Fits`.

**`OafRecognitionProofs`** - any library of features that the assumptions allow,
any packets and any content of fresh memory.

* `Recognises` (`RecognisesAsDescribed`), from `TypeCorrect` of `OafFeatureProofs`:
  what is in the list was in a file. The lemmas follow the code: `WrapExact` and
  `PosExact` (a negative position that reaches before the payload wraps to a value
  no payload is long enough for, given that a payload is shorter than the largest
  `int`), `ReadableInfo` and `DictExact` (`pos_info` is the dictionary),
  `PatternExact` and `UrlExact` (from `MatchExact`, with a host or a path cut to
  the buffer), `FeatureExact` (`af_match_one`) and `ListExact` (the walk finds the
  feature added last).

Two techniques in `SequenceLemmas` carry the proofs about recursion. The induction
theorems of the library take a predicate as a parameter, which the provers cannot
instantiate, so an induction is by the least or the greatest counterexample
(`NatMin`, `NatMax`, from `WFMin` of the library). And a recursive definition says
nothing until a function is known to satisfy it: `RecursionDown` gives one for
every recursion towards the end of a sequence, by extending partial functions.
`Compile` and `MatchHere` are instances.

The assumptions on constants are types, ranges and the relations between times
(`DaysAssumption`, `TicksAssumption`, `BoundsAssumption`, `SetsAssumption`,
`ConfigAssumption`, `ClientsAssumption`, `TimesAssumption`, `BypassAssumption`,
`RequestsAssumption`, `ConnAssumption`, `UploadsAssumption`, `FilesAssumption`,
`CharAssumption`, `FeaturesAssumption`, `PatternsAssumption`, `DictAssumption`,
`FlowsAssumption`), each stated in the module that declares the constants. TLC
evaluates them in the runs. `PatternsAssumption` says that the patterns of a file
are well formed: no special character stands where `compile` would take it for
something else than its author meant.

Only model-checked are the liveness properties (`Enforced`, `Released`,
`SharedEnforced`, `UnlistedReleased`, `ConfigApplied`, `IdleFreed`, `TimedOutFreed`,
`UploadApplied`), since the prover handles neither fairness nor ENABLED.

## 5. Plan

Done: the daily limits (`Oafd`), the rules and the gateway hook (`OafRules`,
`OafGateway`), the life of client entries and its refinement to `OafKernel`
(`OafClients`), the bypass hook (`OafBypass`), recognition and its reload
(`OafRegexp`, `OafFeatures`, `OafFeatureReload`), and the proofs above, which cover
every safety property of the runs.

Left are the hazards in `PROJECT.json` that no property covers, each with the
reason: most of them are behaviours of the code for which no document says what
is right (a kill while the file is written, minutes of yesterday after a restart,
decisions that are not stored in bypass mode).

## 6. Not modelled

* The traffic collector (`traffic.uc`): it reads nft counters and writes its own
  files, and shares no state with the filter.
* Visit records, rates and names, in kernel and daemon: shown to the user, read by
  no decision.
* The parsing of packets and of strings into records, the widths of buffers,
  icons and class names: data handling without state.
* `/proc` files that only show a table; removing the module while `oafd` runs.
* cJSON (third-party code) and LuCI's rendering.
