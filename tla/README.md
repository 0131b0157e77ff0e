# Xray VPS Manager: models, checks and proofs

Xray VPS Manager is a set of root commands (`xray-client`, `xray-traffic-sync`,
`xray-backup`, `xray-telegram`, ...) around one Xray server. There is no daemon of
its own except the Telegram poller: everything else is a process that a terminal, the
text menu or a systemd timer starts, that reads some files, changes them, restarts
Xray and ends. What is hard in it is therefore not an algorithm but what happens when
several such processes meet, or when one is cut half-way. This directory models that
part in TLA+, checks it with TLC and proves the central invariants with TLAPS.

Source paths below are relative to `src/xray_vps_manager/`.

## 1. Inventory of the system

### State shared by all processes

| state | where | who writes it |
|---|---|---|
| `config.json` | `/usr/local/etc/xray` | client and connection commands, route modes, blocklist, menus, probes, restore |
| `manager.db` (SQLite, WAL) | rows of clients, credentials, traffic, activity, Telegram | everybody, in transactions |
| `server.env`, `cascade.env` | key=value files | settings commands |
| the running Xray | its configuration as loaded, its traffic counters | systemd, `xray api` |
| systemd units and timers | `system/units.py` | update, restore, bypass |
| Caddy site files, sshd drop-ins | `/etc/caddy/conf.d`, `/etc/ssh` | connection commands, menus, random-TLS timer, panel, restore |
| `manager.lock`, `traffic.lock`, `activity.lock`, poller lock, locks of the updates and of random TLS | flock (`core/locks.py`) | one holder each |

### Components

| component | state | operations | interacts with | what makes it correct |
|---|---|---|---|---|
| **Client commands** `commands/client.py`, `clients/crud.py` | config.json, client rows | add, remove, enable, disable, set-days, extend-days, set-limit, move, route, sync-routes, expire-due, enforce-limits | restart of Xray, the timers, traffic | both stores agree, no lost update, no half change except by a kill, every command ends |
| **Traffic accounting** `commands/traffic_sync.py`, `traffic/` | totals, hourly history, last counter value, per client and credential | sync by timer, by hand, by ExecStop | counters of Xray, client rows (cascade delete), every restart | no byte counted twice, none inherited, history = totals, no deadlock with the restart |
| **Restart of a unit** `core/systemd.py` | unit state | stop (ExecStop), start, watch, rollback | traffic sync, client commands | every stop ends |
| **Terms and limits** `clients/access.py`, `limits.py`, `status.py` | expiry, limit, reason and period of a disabling | term and limit commands, two minute-timer checks, set-timezone | client commands, history | nobody undoes the decision of another party; a limit ends with its period |
| **History, retention, repair** `traffic/history.py`, `consistency.py` | six months of buckets | prune, gap repair | limits, reports | pruning never makes totals and history disagree |
| **Telegram poller** `telegram/poller.py`, `settings.py`, `subscriptions.py`, `payments.py` | update offset, claims, sessions of several steps | getUpdates, claim, process, confirm | settings, client commands | an update is executed once although it is delivered again; only one poller |
| **Notifications** `telegram/notifications.py` | marks of what was sent, cursors | seven steps each minute | clients, activity, traffic | at least once, not every minute; a failed chat does not swallow another's message |
| **Activity collection** `activity/sync.py`, `raw_logs.py`, `repository.py` | log offset, events, alerts, windows | sync, rotation, cleanup | Xray's access log, commands | a line is counted once over rotations; none is lost |
| **Backup and restore** `commands/backup.py`, `core/fs.py` | all files, unit states | create, restore, rollback | every other writer | after a failure: the files of before and the units that were active |
| **Manager and Xray update** `commands/manager_update.py`, `update.py` | install directory, binary, geodata, units | install, verify, roll back | backup, units | some complete installation is always in place |
| **Route modes** `commands/set_cascade.py`, `warp.py`, `set_bypass.py`, `xray/apply.py` | outbounds and rules in config.json, env files | apply, rollback | client routes, restart | all files of a mode change together |
| **Connections, Caddy** `clients/connections.py`, `xray/caddy.py` | inbounds, Caddyfile | add, change, remove | Xray and Caddy restarts | two services changed with one rollback |
| **SQLite layer** `db/` | schema version, connections | transaction, migration, export | all | a transaction is all or nothing, conflicts are seen |
| **Owner's panel** `telegram/admin.py` | lists, drafts and active message in adminState | buttons, texts | clients, connections, sites, backup | a button does what its message shows, once |
| **SSH login** `commands/menu_security_actions.py` | three files, the running sshd | passwords off, on | | sshd does what its files say; a failed change leaves the old |
| Other menus, diagnostics, links, settings files, installer | none of their own | | | conversions and dialogue, within reach of unit tests |

`PROJECT.json` lists the same parts with all their sources.

### Behaviours that are hard

* *Interleaving.* The minute timer runs `expire-due`, `enforce-limits` and the sync; the
  operator types commands; the poller acts on messages. Several locks are taken by
  different subsets of them, and some writers of `config.json` take none.
* *Two stores and a live process without a common commit.* `config.json` is renamed
  first, Xray restarted, `manager.db` committed last (`commands/client.py:209-231`).
* *A restart that calls back.* systemd runs a traffic sync as ExecStop while the command
  that asked for the stop holds `manager.lock`.
* *Counters that restart from zero*, told from a continuation only by their size.
* *Several parties switching the same client*, with a stored reason as their only message
  to one another.
* *Kills* between any two steps; rollbacks that may fail themselves.
* *Redelivery* (Telegram), *re-reading* (activity log), *sent but not recorded*.

Each is listed with its line under `hazards` in `PROJECT.json`, with the properties that
would catch it going wrong or with the reason why none does yet.

## 2. Plan

Order: what keeps clients served correctly comes first, then what loses data, then what
annoys. All of these modules exist; what is left of the plan stands below the table.

| # | module | extends / uses | abstract specification | main result |
|---|---|---|---|---|
| 1 | ClientOps, ClientApply, with ClientOpsProofs, ClientApplyProofs | | ClientRegistry | the stores and Xray agree, the transaction is atomic (proved) |
| 2 | TrafficSync, with TrafficSyncProofs, FiniteSums | ClientOps | | no byte counted twice; histories and totals add up (both proved) |
| 3 | ClientAccess, ClientAccessProofs | | | no party undoes another (proved) |
| 4 | TelegramPoller, TelegramPollerProofs: claim, act, confirm, pollers and owner, restarted numbering | | | one batch at a time, for its owner; an update is acted on once and none is lost (proved) |
| 5 | ActivityLog; GeoipNotices: the alerts of the log to the owner and the chats; ActivityProofs | GeoipNotices extends ActivityLog | | a line is counted once and none is lost, an alert is not passed over (proved) |
| 6 | Server: how any command changes config.json and Xray; Routing; Connections; Upkeep; TelegramAdmin; Sshd | each extends the one before (Sshd extends Routing) | | what must agree agrees, however a command ends |
| 7 | Vps: all of them beside each other, with VpsProofs | TelegramAdmin, Sshd | | `config.json` stays sound, services follow their files (both proved) |

The composition goes along shared state: Routing, Connections and Upkeep write the same
`config.json`, rows and `server.env` through the steps of Server, and a restore of Upkeep
places all of them; the panel offers the connections and sites of Connections and runs its
TLS step and Upkeep's backup. Clients and traffic are not composed with it: towards them
the server's commands are the same transaction under `manager.lock`, which ClientApply
takes apart.

Left: the retention and repair of the history; `MovesCountOnce` as a theorem, and of the
server what its other invariants say.

## 3. Modules and how they correspond to the code

### ClientOps

What each client command computes, as operators on *views*: of one client, the stored
credentials (`known`), the enabled ones (`on`), those that `config.json` serves and its
cascade route. `Commands` is the set of requests, `Candidates(r, config, db)` the pairs of
stores a command may leave (none: it refuses). UUIDs, e-mails, links, texts of rules and
the default choice that `sync-routes` stores for a client without one (`Defaults` in
Routing) are left out; the refusals, adoption of clients found only in `config.json`, and the
rule for what needs a restart (`NeedsRestart`) are kept.

### ClientApply

One action per step of `save_config_restart_xray_and_db` and its callers:

| code | action |
|---|---|
| the process is started; `client_db_lock` waits | `Submit`, `Acquire`, `LockTimeout` |
| `add` asks for the term before it takes the lock | `AskTerm`, and its re-check in `Refuse` / `Load` |
| load of both stores and the command's computation | `Load` |
| `save_config` (write, test, rename) | `WriteConfig`, `WriteConfigFails` |
| test and restart of Xray | `Restart`, `RestartFails` |
| `xray api bo` of `route` | `Switch`, `SwitchFails` |
| the transaction of `manager.db` with its conflict check | `SaveDb`, `SaveDbFails` |
| `restore_config_file` (copy2, not atomic) and the second restart | `CopyBackup`, `CopyBackupFails`, `RestartAgain` |
| SIGKILL, power | `Crash` |
| the Xray process ends; `Restart=on-failure` | `XrayExits`, `XrayStarts` |

`suspect` and `unloaded` are history: the clients that a killed command meant to change,
once its change may be in one place only. The properties except exactly them.

**ClientRegistry** is what this promises to a user: commands take effect one at a time, on
both stores at once. `CommandsAreAtomic` is the refinement, with `Settled` for
`config.json` (a candidate counts from the commit on).

### TrafficSync

One sync is `StartSync`, `AcquireTraffic`, `ReadConfig`, `ReadRows`, `QueryStats`,
`LoadTraffic`, `SaveTraffic` (`sync_locked`, `traffic/repository.py`), each a separate
step since only `traffic.lock` is held. The command beside it holds `manager.lock`:
`BeginCommand`, `StopXray` (ExecStop becomes a sync), `XrayStopped`, `StartXray`,
`CommitCommand`, with `StopTimeout`, `StartFails`, `CommitFails`, `RollBack`,
`CommandDies`. Rows are `[total, hist, last]` per client and per credential;
`CommitCommand` deletes the rows of a removed client (`ON DELETE CASCADE`). A rollback
copies `config.json` in place, so a sync may read half of it (`HalfCopied`). `carried` counts
what users sent. `reborn` (created while a sync held totals of their name) and `moved`
(given another credential by `move-connection`) name the clients `NeverOvercounts` excepts,
`undone` (a failed command had changed their credentials) those `MovesCountOnce` excepts.

Simplified: one direction stands for uplink and downlink; `lastOnline` and the access log
are left out; retention is left out (a client lives shorter than six months here);
systemd's killing of an ExecStop that exceeds its timeout counts as a mishap.

### ClientAccess

One client, since no operation looks at two; every command is one step, which
ClientApply justifies. The clock counts hours; a timezone is a shift of the local
calendar, and terms, limits and traffic are kept by local dates as in the code
(`expires_at_from_days`, `extended_expires_at`, `traffic_limit_period_key`,
`access_deadline_at_midnight`). `Reconciled`, `EnforceLimits` and `ExpireDue` are
`reconcile_client_access_status` and the two minute checks of `clients/status.py`, with
their order of conditions. `SetTimezone` has the outcome in which `server.env` is saved
and the terms are not. The check that `set-limit` starts afterwards takes the lock
again, so it is an ordinary `EnforceLimits`.

Histories: `byHand`, `exhausted`, `late`, `promised`, `torn` remember what was decided,
independently of the reason the code stores. A change of the timezone or of the limit
ends what was seen under the old one.

Simplified: days and months have equal length (`HoursPerDay`, `DaysPerMonth`), so no
daylight saving time; zones are ahead of UTC.

### TelegramPoller

Three kinds of process consume the bot's updates. *Pollers* (the service and a manual
`poll-users`) run `poll_user_subscriptions`; the *owner* runs `configure_owner`;
`notify_expiry` consumes nothing but saves the same row.

| code | action |
|---|---|
| first look at the entry file, flock, second look and `load_db` | `Checks`, `TakesLock`, `Loads` |
| `choose_private_chat`, its request without the lock | `OwnerSearches` |
| the owner's byte lock, its wait of up to a minute | `OwnerRegisters`, `OwnerTakesLock`, `OwnerTimesOut` |
| `user_updates_payload`, `fetch_user_updates`, the second request of an old database | `OffsetOf`, `Fetches`, `FetchesFromHead`, `FetchFails` |
| `_claim_user_updates` in its transaction | `Claimed`, `FirstNew`, `Recursored`, in `Claims` and `OwnerBinds`; `ClaimFails` |
| `accept_client_callback`, the handlers, `register_client_message` | `AcceptsTap`, `RefusesTap`, `TakesMessage`, `Replies`, `SendsNothing` |
| `merge_client_subscription_state` | `Merged`, whenever somebody saves the row |
| `notify_expiry` | `NotifierLoads`, `NotifierSends`, `NotifierSaves` |
| SIGKILL | `Killed`, `NotifierKilled` |

The Bot API is external. It is modelled as the code's comments and the documentation
describe it: a request forgets what lies below its offset; one that repeats the last
offset may be answered with a single update; an offset above the present numbering is
ignored; updates are kept for a day (`Ages`); after a week without updates the next id
may be lower (`Renumbers`; a higher one would be an ordinary gap). A batch of more than
100 updates is not modelled.

An update is a message or a tap on a button of a menu; what a handler does to clients
is the business of ClientApply. One chat stands for all, and a subscription write that
fails is the reloading alternative of `Replies`. `Init` has three pasts: a new bot, one
that runs, and the first start after a version without confirmation. `fate` records what
became of each update: claimed, set aside by a binding, acted on how often, forgotten or
expired at Telegram. Claiming comes before acting, so a killed poller may leave the rest
of its batch undone, as the documentation says; `NothingLost` and `EveryUpdateHandled`
allow exactly that. The branch for a sequence that changed during the request is kept,
although the lock should make it unreachable.

### ActivityLog

A line of `access.log` is its number in the order of writing, which is also the clock, and
the client it names. Files are inodes, so that a rotated log, a new one of a reused number
and the file Xray still has open are different things.

| code | action |
|---|---|
| `sync_activity`: lock, snapshot, offset | `Sync`, `Open` |
| `record_pipeline_event`: one transaction per line | `Record`, `RecordFails` |
| pruning, then offset and windows in one transaction; maintenance | `Save`, `Maintain` |
| `rotate_raw_logs`: sync, rename, create, gzip, unlink, restart of Xray | `Rotate`, `Rename`, `Create`, `Pack`, `Unlink`, `Reopen` |
| `run_backfill --apply` | `Backfill` |
| `enable_activity` (mode, then offset), disable and detail modes | `Enable`, `Enabling`, `Capture` |
| SIGKILL, an `OSError` in a rotation | `Kill` |
| Xray writes; is restarted by others; time passes; a client is removed | `Write`, `XrayRestarts`, `Age`, `RemoveClient` |

`reread`, `early`, `passed`, `late`, `behind`, `cut` are histories of the exceptions the
code accepts, line by line: a line counted again after a failed run (a note in the code
accepts it), lines `enable` jumps over, lines written to a renamed file.

Simplified: alert detection stays on; one GeoIP target and hour per client, so a client has
one alert row; one threshold `old` for all retentions; a line is read whole (the last,
partial line of a file that is just being rotated is lost in the code as well); a freed
inode number is given again at once. `Inodes` is a bound: a rotation that finds no free
number waits for one.

### GeoipNotices

`notify_geoip` and `notify_daily_summary` on top of it: `Read` (cursor, rows, exceptions),
`Send`, `SendFails`, `Mark` (`notified_admin_at`), `SendChats` with any set of failed chats,
`Keep` (the section of the state, over what another run saved), `NoticeKilled`; `Morning`,
`Summarise`, `Summed`. The process of the timer runs sync, notices and summary one after
another, as its service does; another one may run the same command by hand. All alerts
chats of a client are one. The limits of 1000 and 500 events per batch are not reached, and
the fallback for detailed events of an older version is left out.

### Server

What all commands below are made of. A process has a *plan*, the list of steps left, and a
plan for the case of failure; `Begin` is everything before the lock, `MayEnter` the lock,
and each step is an action: `Save` (the rename of `config.json`), `Try` (test and verified
restart), `Undo`, `Redo` (the way back), `Refused` (60 seconds without the lock), `Kill`,
`CutBack`. Which commands take no lock at all is as in the code. `torn` and `crossed` are histories:
a kill or a failed way back; a command that loaded (or, having nothing to load, wrote)
while another, one of them without the lock, was under way. A behaviour keeps to one *kit*: the operations it may begin, by which
processes, how many commands, how many mishaps.

`config.json` is written in two ways. `Save` renames a finished file. What goes back goes
straight over the file (the atomic `apply_config` of `xray/apply.py` is not called by any
command yet): the rollbacks with `copy2` (`client.py:197`, `warp.py:126`,
`blocklist.py:302`) or `write_text` (`set_cascade.py:228`), a probe's text with `write_text`
(`warp.py:818`, `876`, `set_cascade.py:660`), a restore with `copy2` (`backup.py:517`). Each
of these may be cut by a kill or a full disk and then leaves `Half`, an empty or half file:
`CutBack` for `Undo`, `Unprobe` and `Place`, and `PlaceFails` where a restore survives the
failure and goes back. Nothing starts on such a file (`StartFails`) and every command that
loads it ends there (`Readable`); a backup archives it, and a command that had loaded before
may still write over it. Simplified: that a reader meets the file in the short moment in
which it is being put back whole, which ends its command as after a cut; and the other files
of a restore, each put in place in one step.

### Routing

The outbounds and the ordered rules of `config.json`. An outbound is its tag and whose
settings it carries, a rule its kind, whom it is of, and the tag it leads to.

| code | definition |
|---|---|
| `activate_cascade`, catch-all, `upsert_outbound`, `move_cascade_to_front` | `Activate`, `Upsert`, `ToFront` |
| `assign_default_client_routes`, `ensure_all_client_route_config` | `Defaults`, `ClientRules` |
| `sync_geoip_warning_outbounds`, `ensure_geoip_warning_rule`, `warning_source_outbound` | `SyncWarnings`, `Warn`, `WarningSource` |
| `ensure_geoip_domain_strategy`, `restore_geoip_domain_strategy_if_unused` | `KeepStrategy`, `Restored` |
| `sync_blocklist_rules`, `insert_torrent_rule` | `SyncBlocks`, `Torrents` |
| the commands of set-cascade, warp and set-bypass | `CascadeAdd` ... `BypassRemove`, with `Allowed` and `Agreed` for what is checked again under the lock |
| `test_cascade`, `test_warp`, `probe_warp_endpoint`, `test_bypass` | `Probe`, `Unprobe` (put back as text) |
| rows of `manager.db`, `server.env` written whole | `Rows`, `Env` |
| `add_block`, `delete_block`, `reconcile_xray_config` by command and timer | `Note`, `Read`, `Load`, `Reconcile` |

Left out: the api rule, the private-address rule and the Telegram bot's rule, which are
there once and never move; the repair of a `direct` outbound that is not first; country
metadata; the pin in `/etc/hosts`; another link given to an existing tag. Temporary
inbounds of a probe are one rule of kind `probe`; one that a kill leaves behind may point
to an outbound that is removed later.

### Connections

Inbounds, rows, `server.env`, site files and Caddy. The steps after the lock are those of
`save_config_restart_xray_and_db` (`LoadConnection`, `Save`, `Try`, `Commit`), of the
Reality menu (`NoteRecord`, `Describe`: nothing undoes these) and of a site (`Absent`,
`Put`, `Serve`, and on refusal `TakeBack`, `Reload`, `Uncommit`). `Permitted` is what each
command checks under the lock, `Refusal` what follows when Caddy refuses: a new connection
stays, an update is undone with its row and config, the menu puts its file back. The Caddy
menu takes no lock; the random-TLS timer has one of its own (`Seek`) and writes what it read.

The data is a port and a *look* (SNI, transport or path). Left out: the refusal of a port
that another program listens on or that is another connection's public port (a command then
ends as with any refusal); rename, fingerprint,
xhttp-extra, TLS-XHTTP paths of their own, certificates, public ports, enabling of timers,
the trees of sites and their backups. Which credentials a connection has is ClientApply's.

### Upkeep

`commands/backup.py`, `update.py`, `manager_update.py`, `core/fs.py`. A restore is `Halt`
(units, a reconcile among them, then Xray), `CopyServer`, `Place` once per file or table,
`Restart`, `Resume`; a failure leads through the same steps with the copy (`Fallback`,
`Source`), a failure among those only to the units. An update of Xray is `Ready`, `Fetch`,
`Keep`, `PlacePart`, `Restart`; one of the manager is `Obtain`, `CopyManager`,
`PlaceManager`, `RenameOld` and `RenameNew` (`replace_directory`, with what a run before
left behind), `Sync`, `Validate`. The copy of the old binary and geo files (`Keep`) is one
step: cut, it is found only by a later rollback, which `FilesWhole` leaves out (`torn`). `meant` is the version the last success was to leave.

### TelegramAdmin

The owner's panel. `Buttons(m)` is what the keyboard of a message offers, `Pressed` and
`Typed` what `handle_callback` and `handle_pending_text` make of it, `Accept` the guard
(`accept_admin_callback`), `Act` the handler up to its command, `RunCommand` the command,
`Clear` and `List` what is saved after it, `Reply` the answer, which becomes the active
message when its sending succeeds. Updates are handled one at a time and at most once,
which TelegramPoller establishes. Clients come and go by other hands (`Elsewhere`), sites
by the steps of Connections.

The menus are merged into one message with all their items, and the way back to the main
menu is offered where some keyboards have another way; every client is offered every
connection; the limit of 40 remembered messages is not reached; tests, summaries and
reports change nothing here and are left out. After a failed send no message is active and
the code accepts any message not used yet: `PanelSound` exempts what follows a lost answer,
since texts of a link or a key do not even name the client they are of.

### Sshd

Two items of the security menu: the Include line, the drop-in and the legacy drop-in are
written one after another, `sshd -T` is asked (`Passwords`: the first setting counts), the
service reloaded; on an exception the old texts go back and are reloaded if sshd takes them.
The rest of sshd's configuration is constant (`others`), any of the possible ones.

### Vps

All of these as one next-state relation, and the properties that belong to no part: the
types, `ServicesFollow` (Xray, Caddy, sshd and the writer units, each by its own files) and
`FilesWhole` (what several files hold together). `TimerRuns`: while a restore has stopped
the units the timer starts nothing.

### What is not modelled

The parts with status `not_modelled` in `PROJECT.json`: retention and repair of the
history (calendar arithmetic by one process), conversions and settings files (no state of
their own), and the installer (runs once, alone). SQLite's migrations run once, under an
exclusive transaction. Within modelled parts: wording, warnings, UUIDs, links, what is
named above, and in `commands/client.py`, `menu.py`, `activity.py` and the menus the
dialogue around the commands, which is a large part of their lines.

## 4. Runs

| run | instance | shows |
|---|---|---|
| `client_connections` | one client, two connections, two processes | `StoresAgree`, `SnapshotFresh` (no lost update, no asked term applied to a changed client), `CommitFollowsConfig`, refinement `CommandsAreAtomic` |
| `client_routes` | one client, two cascades, two processes, fairness | `XrayFollowsConfig` (half a file only after a cut rollback), `EveryCommandEnds` |
| `traffic_restarts` | two free syncs and ExecStop, three starts of Xray, one death | `NeverOvercounts`: no byte twice, none inherited by a new client of an old name |
| `traffic_connections` | one client, two connections, one byte each, two starts, no death, fairness | `TotalsAddUp`: history and total, credentials and client; `MovesCountOnce`: no byte twice when one credential takes over from another; `EveryWaitEnds`: every sync and every stop of Xray |
| `traffic_restart_loss` | two bytes, two starts | violated: `RestartCountsFromZero` (section 6) |
| `access` | three days, two timezones, two connections, four commands, fairness | `DisabledByHandStays`, `ExpiredStays`, `TermKept`, `LimitLastsItsPeriod`: not served in a period used up, served again after it |
| `poller_batches` | two pollers, one owner, two updates, one death, one day of silence | `HandledOnce`, `NothingLost`, `WorksForOwner`, `OvertakenOnce` |
| `poller_notices` | one poller, two runs of notify-expiry, two updates, one death | `NoticesOnce`: reminders, and buttons unless notify-expiry brought an old guard back |
| `poller_service` | one poller, one owner, two updates, one death, fairness | `EveryUpdateHandled`, `OwnerGetsIn` |
| `poller_used_button` | one poller, one run of notify-expiry | violated: `ButtonOnceAlways` (section 6) |
| `activity` | two clients, two lines, the timer and a hand, two commands, one mishap, two mornings, fairness | `CountedOnce`, `NoneLost`, `NothingPassedOver`, `SummaryOnce`, `EventsGetThrough` |
| `server` | two processes (one is the timer), 34 kits of operations, fairness of the blocklist | `ConfigSound`, `ChoiceApplies`, `StrategyReturns`, `StoresMatch`, `ServicesFollow`, `FilesWhole`, `PanelSound`, `BlocksGetIn` |

Every run also checks the module's `TypeOK` where it has a run without one before it.
Every property of a passing run has a mutant: a small change of one mapped definition (an
operator defined just before it, marked "Mutant of") under which TLC finds the property
violated.

**Bounds and why they are enough.** *Processes*: two, plus the timers' ExecStop; the locks
are exclusive, so a third waiter sees nothing new. *Clients*: one in the runs of ClientApply
and the server, since commands name one client and stores are compared client by client; the
theorems of ClientApply hold for any number. *Starts of Xray* (`MaxRuns`): three are
needed to remove a client and create it again with a counter before and after.
*Bytes* (`MaxBytes`): one tells counted from not counted; the violation needs two.
The invariants of `traffic_connections` were also checked with two bytes (0.6 million
states) and `MovesCountOnce` with one byte and three starts (3.2 million), `EveryWaitEnds`
with one connection and one death;
simulations with three connections, two bytes, six starts and up to three mishaps, 59
million states for each of the two properties, found no violation. *Mishaps*: one death per
behaviour; the properties say what one death may do. *Access*: two hours a day and two
days a month give midnights, a month boundary and zones on either side of it within six
hours; limits of one and two bytes over days of one byte are reached within a day, only
within a month, or never. Four commands are enough to disable, reset, extend and enable;
five were checked once without the liveness property. *TelegramPoller*: two updates are a
repeated answer with something new behind it, two taps on one menu, or a message before
and one after a binding; ids reach from a restarted numbering past the old offset. Three
updates with one poller were searched for five minutes without a violation, not to the
end. The pollers are interchangeable except for fairness, so `poller_batches` uses
symmetry. *Activity*: two lines are one before and one after a failure or a rotation, of
one client or of two; three inodes are the current, the renamed and the open one; the kits
(`MCActivity!SmallKits`) say which operations may share a behaviour beside the timer's
minutes.

*Server*: all operations together are beyond reach, and most pairs touch nothing in
common. `MCServer` lists the kits: one process doing three or four commands of one family
(states a sequence reaches), and two processes doing two (what may interleave), with the
pairs that share a file: routes with probes, bypasses with the watched region, the
blocklist with WARP's probe and with a restore, Reality menus with additions, a Trojan
update with the TLS timer, a restore with everything it places, the panel with clients and
sites of other hands. One mishap is a failure or a kill at any step; two, where a way back
may fail itself. Two cascades, bypasses, regions and domains are the one that is changed and
the one that must not be; three ports leave a free one.

**Fairness.** *ClientApply*: weak fairness of each process's next step. Lock, systemctl and
database calls have timeouts and `xray run -test` reads one file. Crash, Submit and the
Xray process get none. *TrafficSync*: weak fairness of the steps of the sync that
holds the lock and of the command for the same reason, strong fairness of taking `traffic.lock`, which is free most
of every minute; none for failures. *ClientAccess*: time passes, and the minute timer
repeats a check that found the lock busy. *TelegramPoller*: the service loops for ever and
a process that has begun goes on (weak fairness); requests and claims, which may fail any
number of times, succeed some time (strong fairness). Nobody has to start `poll-users` or
`owner`, and time-outs and deaths have no fairness. The runs of `owner` are bounded, since
an operator who starts it again and again does keep the service waiting. *Activity*: the
service of the minute timer is started again and again and goes on, as does a command that
has begun; failures and kills are bounded and have none. *Server*: in the kits with the
blocklist, the timer starts its run again and again unless its units are stopped, and every
process goes on; nothing is fair in the other kits, where nothing temporal is claimed.

## 5. Proofs

`ClientApplyProofs` proves, for any sets of clients, connections, routes and processes:

* `TypeCorrect`: `Spec => []TypeOK`, which includes the shape of the rows;
* `NoLostUpdate`: `Spec => []SnapshotFresh`;
* `StoresAlwaysAgree`: `Spec => []StoresAgree`;
* `CommitNeverConflicts`: the conflict check of `save_db` never fires among client
  commands;
* `CommitsFollow`: `Spec => CommitFollowsConfig`, an action property;
* `XrayKeepsUp`: `Spec => []XrayFollowsConfig`;
* `TransactionIsAtomic`: `Spec => CommandsAreAtomic`, the refinement of ClientRegistry.

Three inductive invariants follow one another. `IInv` is needed because `StoresAgree`
speaks only of moments without a lock holder. It says in addition: a process past the lock
is its holder (`LockOwner`); the job of the holder fits its step and its command
(`JobFits`); the stores are the job's old or new ones, as the step says (`Fresh`); and both
the old pair and the candidate agree on unsuspected clients (`BothAgree`). TLC checked
`IInv` on all three instances first. `XInv` says which of the job's two files a running
Xray has loaded, step by step (`Loaded`): the old or the new one while a restart is under
way, the old one while a rollback copies after a failed switch, and that what a command
writes changes some client, so that a cut rollback leaves one to name. `RInv` carries the
refinement: the candidate the holder works on is one that ClientRegistry allows for its
request from the settled stores. Each step is then a step of ClientRegistry (the commit,
or the end of a torn command) or a stutter. `ClientOpsProofs` has what these need of
the commands themselves: every candidate keeps the shape of the rows and agrees wherever
the stores it was computed from agree, and what `NeedsRestart` leaves unrestarted is
unchanged in `config.json`.

`TrafficSyncProofs` proves, for any clients, finite sets of connections, syncs, bytes,
starts of Xray and mishaps:

* `TypeCorrect`;
* `HistoryAddsUp`: `Spec => []TotalsAddUp`;
* `NoByteTwice`: `Spec => []NeverOvercounts`.

That rows add up is not inductive: a sync writes what it computed from rows it read
before, without `manager.lock`. `IInv` adds that only the holder of `traffic.lock` is past
"waiting" (`Exclusive`), and that each row it read is still the one it read or was deleted
since (`GrownFrom`), and that only clients and credentials that `manager.db` knows have
traffic rows (`RowsBelong`). Credentials are summed with `SumFunctionOnSet`; `FiniteSums`
proves that this fold is well defined and additive. The library's induction over finite sets is out
of reach of the installed provers, so the lemmas take a smallest counterexample instead:
strict inclusion is well-founded on the subsets of a finite set.

That a total stays below what was carried says nothing of the next sync. `CountInv` says for
each client how much of Xray's present counters the total already has: there is a split of
it over the credentials (`Counted`) that is the last value where a row was read in this run
of Xray, nothing where it was read in an older one, and anything up to the counter where
there is no row, since a first row counts nothing. It is carried through a sync in three
forms: of the rows (`RowInv`), of Xray's answer while it is the answer of the running Xray,
or of the sum it will add when that Xray is gone (`LoadInv`), and of what is going to be
written (`SaveInv`). `BaseInv` supplies what this needs of Xray and the command: a counter
that moved belongs to a served credential, a last value of this run is one its counter has
passed, and a client is deleted only after Xray was told to drop it. That nobody inherits a
total (`reborn = {}` without a death) is `QuietInv`: while such a total is on its way
(`Pending`), the client is served nowhere and the restart a new client of that name needs
waits in ExecStop for the sync (`Held`). TLC checked all three on the instances of
`traffic_restarts` and `traffic_connections` first.

`ClientAccessProofs` proves, for any calendar, zones ahead of UTC, terms and limits:

* `TypeCorrect`;
* `HandDisablingHolds`: `Spec => []DisabledByHandStays`;
* `ExpiryHolds`: `Spec => []ExpiredStays`;
* `TermsAreKept`: `Spec => []TermKept`.

These three are not inductive: whether a timer may enable a client hangs on the reason
stored with it, and an extension on the timezone stored with the term. `IInv` adds that a
served client has no reason (`Plain`), that a client disabled by hand has none either
(`HandMark`), that a term seen over is still over (`LateMark`), that an untorn term is
stored with the present timezone (`TermMark`), and that nothing is left of a removed
client (`GoneMark`).

`TelegramPollerProofs` proves, for any number of pollers and any bounds:

* `LockExclusion`: `Spec => []OneHolder`;
* `BatchesServeTheirOwner`: `Spec => []WorksForOwner`;
* `OwnerIsNextAfterBatch`: `Spec => []OvertakenOnce`;
* `PollerTypes`: `Spec => []TypeOK`;
* `UpdatesHandledOnce`: `Spec => []HandledOnce`;
* `NoUpdateLost`: `Spec => []NothingLost`;
* `NoticesSentOnce`: `Spec => []NoticesOnce`.

For the first three `IInv` adds the shape of the state and `LastBatch`: once a poller has
made a request while the owner waits, no other stands before its own request. The holder of
the lock is alone in that place, and the second look at the entry file stops whoever takes
the lock later. The other four need `QInv`, about what the batches hold. `QueuePart`:
Telegram's queue rises in both numbers; every claimed update still in it is below the
cursor and has its signature saved, unless the row is of the version that saved none; the
numbering was restarted no more often than updates were claimed. `HandsPart`: a fetched
batch is a beginning of the queue, of a claimed one only the first update may have been
acted on, and a claimed update that was neither acted on nor set aside is in somebody's
hands or its poller was killed. `CopiesPart`: the cursor of the lock's holder is the
database's, and no other copy is ahead of it, so that merging an old copy cannot move the
cursor back.

`ActivityProofs` proves, for any clients, processes, inodes and bounds:

* `ActivityTypes`: `Spec => []TypeOK`;
* `LinesCountedOnce`: `Spec => []CountedOnce`;
* `NoLineLost`: `Spec => []NoneLost`;
* `NoAlertPassedOver`: `Spec => []NothingPassedOver`;
* `SummarySentOnce`: `Spec => []SummaryOnce`.

What these say of a saved offset is not inductive while a sync has lines in its hands.
`LogInv` names the lines that are *ahead* of the collection (not yet below the offset of
access.log, read but not recorded, or written since) and those the running sync has *done*:
the windows hold nothing that is ahead, the counters only what a failed run left
(`CountsOK`, `WindowsOK`); alert ids are no more than the lines that were ever recorded
(`IdsOK`), and an alert's count is at most the sum of the counters of its client's lines
(`SumsOK`), which bounds the types; below the offset everything was seen (`ReadingOK`), and
a line younger than the retention is in a file, in an archive, or late (`KeepingOK`).
`NoticeInv` says of the saved state and of every state in a notifier's hands: what it holds
as sent was sent (`Honest`), up to its cursor everything was told or is among the rows still
to send (`Reported`), and a row that was read has not become another one (`Faithful`); the
log's steps enter only through what they do to rows (`RowsMove`, `StepsMove`). `SummaryInv`
rests on the timer's service being the only one that sends the summary.

`VpsProofs` proves, for any clients, cascades, bypasses, regions, connections, ports,
domains, processes and kits, with every command of the server beside every other:

* `ConfigIsSound`: `Spec => []ConfigSound`.
* `AllServicesFollow`: `Spec => []ServicesFollow`.
* `LockIsHeld`: `Spec => []LockHeld`, a part of the type invariant.

The first of them: whoever writes `config.json`, in whatever order, with the lock or without, killed or failed
half-way: if the file can be read, the outbounds it names once each exist, no rule leads nowhere, one
catch-all comes last, copies of the watched regions are those of the rules, and inbounds have tags and
ports of their own; and it can be read whenever all commands have ended and none was torn. The
second half follows from `FInv` below. What is sound now follows from what was *in hand*
before: `VInv` says *sound, or what a cut left* (`Usable`) of
every config that is in a place (`StateFine`: the file, the archives, the sites and rows
they are stored with) and of every job (`JobsFine`). A job has a config to write or to put
back only when the steps behind it made one, so `JobFine` gives each plan a discipline:
`Guarded` says of the steps that use something (`save` the new config, `undo` the old one,
`place` the archive) that a step which makes it stands before them in the plan, or that it
is there. Plans are changed in few ways (the next step, the way back, the end), and each
keeps the discipline. The other half is pure: every operator of Routing and Connections that
computes a config (`SyncWarnings`, `Upsert`, `ClientRules`, `SyncBlocks`, `Outcome`, ...) returns a
sound one from a sound one; `Only` (a filter, as a recursive function) has the lemmas that
the order of rules rests on. TLC checked `VInv` on the instance of `server` first.

`ServicesFollow` speaks of idle moments only: between a write and the restart that brings it
in, a service runs on what was, and two commands that take turns at the same file leave it
so for long. `FInv` (checked by TLC on the same instance) says what holds at any moment: a
service runs what its files say, or a command was cut short (`torn`), or the *next* step of
some process is due to make it follow (`Follows`). What carries it is a property of plans
alone: in a closed plan (`Closed`) a step that may let a service stray (`Strays`: a write of
config or site, a stop of the writers) comes right before one that is due for it (`Due`), and
the last step lets none stray; the plan a failure leads to is closed too and begins with a
step due for what was under way (`BackOn`). So no process ends while a service waits for it
alone; and since `Current` looks at the files as they
are, the step of one process may make good what another wrote. That every command begins
with such plans is the second half of the module; its lemmas about literal plans are many
and small.

Assumptions: the named `ASSUME`s of the modules (identifiers of processes and locks are
distinct, families of tags too, since their prefixes are, bounds are natural numbers, the
clock stays within the calendar), which TLC evaluates in every run.

**Only model-checked**: liveness (`EveryCommandEnds`, `EveryWaitEnds`, `EveryUpdateHandled`,
`OwnerGetsIn`, `EventsGetThrough`, `BlocksGetIn` and the second half of
`LimitLastsItsPeriod`), since fairness and ENABLED are beyond the prover;
`MovesCountOnce`, for which the invariant would have to follow a last value that sums over
several credentials; the first half of `LimitLastsItsPeriod`, which compares sums over a
period; and of the server `ChoiceApplies`, `StrategyReturns`, `StoresMatch`, `FilesWhole`, `PanelSound`
and its types: all but the last two speak of runs that nothing unlocked crossed, and need
an invariant of what is in hand for each command.

## 6. Findings

`traffic_restart_loss`: `positive_delta` (`commands/traffic_sync.py:227`) knows a restarted
Xray only by a counter smaller than the saved one. If the new counter has passed the
saved value before the first sync, what was carried up to that value is dropped from the
totals, although the documentation says that totals survive a restart and that only
traffic since the last sync may be lost in a failure. TLC's trace has an orderly restart.

`poller_used_button`: `merge_client_subscription_state` (`telegram/settings.py:435-475`)
protects the cursor and the reminders from a writer with an old copy, but not
`callbackGuards`. `notify-expiry` (`telegram/notifications.py:353`) saves the whole row it
loaded before it sent its messages. If a poller accepted a tap in between, the used menu
becomes usable again, and a second tap that arrives in a later batch runs its action
again, although `docs/telegram.md:238` says that it is refused.

### Met while modelling

The models contain these as the code does them; the properties of section 4 say what holds
beside them. None is a run of its own.

* Writers without `manager.lock` (blocklist sync, the menus of activity and Xray) and a
  probe: the probe's text restore drops their change, or their save keeps its temporary
  inbound. `ChoiceApplies` and `StoresMatch` claim such things only while no two commands
  `crossed`; `ServicesFollow` holds all the same. The timer brings a lost block back (`BlocksGetIn`), but not a
  lost removal whose row is gone.
* Disabling or removing a bypass that is disabled already also removes the region's rule
  when another enabled bypass serves it; adding the same bypass for another region leaves
  the rule of the first.
* WARP commands do not make the copies `geoip-warning-REGION` again from the new catch-all.
* A kill or a full disk while `config.json` is put back (see Server) leaves a file no command
  can load, the blocklist's reconcile included: blocks stay out until the file is put back.
  `ConfigSound` and `BlocksGetIn` except that state, and say when it cannot be.
* `server.env` is written whole from the values read at the load: of two writers one loses
  its key. After the default connection is removed it describes another one.
* The random-TLS switch writes what it read, so a Trojan update between the two is undone
  in the site.
* `xray-manager-update --rollback` takes the newest copy also when it was being written when
  its process was killed; the rollback then ends without a change to the package, having
  replaced the sources and wrappers.
* A failed setup of a new Caddy connection leaves connection and site; removing a
  connection leaves its site. A restore that fails cannot delete Caddy files which did not
  exist before.
* `ensure_credential_entry` (`commands/traffic_sync.py:309`) lets the only credential entry
  of a client take over the client's last value, which is the sum over its credentials. After
  a `move-connection` deleted the only row, and a failed or killed command left an Xray that
  still counts another credential, the counter of one is compared with the last of two: it
  looks restarted and is counted again. It takes more than seventy steps, beyond what TLC
  searches breadth-first, so it is not a run; `NeverOvercounts` leaves `moved` clients out,
  and `MovesCountOnce` says when a move is safe.
* Marking alerts as notified fails silently; alerts that were not marked, or that an exception
  covered when they were read, are not reported when they count on. `geoipState` is saved
  whole, so of two overlapping notifiers the later wins.
