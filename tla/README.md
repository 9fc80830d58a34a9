# Archie, specified

TLA+ models of Archie, a self-hosted VPN server: an Xray process and UFW on the
host, a Python `vpn-api` that controls them, a Next.js dashboard, a root script that
applies changes, a Telegram bot and an installer. The state of the system is spread
over JSON files and a SQLite table that several processes load whole, change in
memory and put back whole, mostly without a lock they share. That is what these
modules are about: what stays true, and what does not, when the processes
interleave, die, lose a call, or act on what they read before an `await`.

    tlc -config fw_core.cfg MCFirewallQueue     # check a run (see Runs)
    tlapm FirewallProofs.tla                    # check the proofs of a module

`PROJECT.json` maps each definition to the lines it models, and lists the
runs, a plausible bug in the code that each property catches (mutants), the hazards, the
findings and the theorems. Paths below are relative to the repository's root.

## 1. The system

### How the parts interact

     browser ──HTTP──> dashboard (Next.js, one Node process)
                        │  reads and replaces: Xray config.json (+ .bak), device_approvals.json,
                        │  permanent_blocks.json, pending_firewall.json, users and invites files
                        │  owns: user_meta, traffic_daily and more, in SQLite
                        └──HTTP──> vpn-api (Python, one request at a time, threads for the bot's
                                    │  commands and the push monitor)
                                    │  reads and replaces: config.json, device_approvals.json,
                                    │  pending_firewall.json, gateways.json
                                    └──handler service / SIGTERM──> Xray
     systemd ──restarts──> apply-vpn-changes.sh: pending_firewall.json ──> UFW, block lists;
                                                pending_config.json ──> test, restart Xray

### Inventory

| Part | State | Operations | What is hard | What makes it correct |
|---|---|---|---|---|
| Firewall queue and applier: `scripts/apply-vpn-changes.sh`, `dashboard/src/lib/firewall.ts`, `write_firewall_command` in `api/vpn_extensions_v3.py` | `pending_firewall.json`, `permanent_blocks.json`, `device_blocks.json`, UFW's rules | append a command; drain the queue; promote bans | no shared lock; truncating writes; death of the script; two holders of one address | rules and lists agree; no hold loses its rule; the queue is drained |
| Device policy: `dashboard/src/lib/devices.ts`, the device routes, `evaluate_device_policy` and its siblings in `vpn_extensions_v3.py` | `device_approvals.json`, block routes in `config.json`, the firewall | evaluate, approve, reject, clear, delete, reset, set limit | two writers with different defaults, last save wins; calls that fail silently | never more approved addresses than the limit; routes and firewall follow the verdicts |
| Access keys and enforcement: `xray-config.ts`, `user-meta.ts`, `traffic-enforce.ts`, the users, meta and invite routes | clients of `config.json`, its `.bak`, table `user_meta` | add, delete, rotate, disable, enable, edit; enforcement runs | runs walk over a stale snapshot and await after each action; keys are found by email and changed by uuid | an email never has two uuids; disabled keys are out; blocked keys are disabled, and not restored while blocked |
| Running Xray: the second half of `apply-vpn-changes.sh`, `safe_restart`, live adds and removals in `vpn-api.py` | Xray's memory, `pending_config.json` | request, test, restart, restore the backup; live sync | restart requests lost, syncs reordered, vpn-api as second writer of `config.json` | Xray ends up serving what the config says; a bad config is never loaded |
| Gateways: `vpn-api.py`, `vpn_extensions_v3.py` | `gateways.json`, outbounds and rules of `config.json` | add, remove, attach, failover | two files, several steps | every gateway has its outbound and the reverse (but see "Not modelled") |
| Accounts and sessions: `auth-users.ts`, `auth.ts`, `middleware.ts`, `api/auth/*`, the sign-in and setup pages | table of accounts, signed cookies, where each browser is | set up, create, change, delete, log in and out, redirect | checks before an `await`, acts after it; three places that redirect | an owner is not lost by accident; redirects end |
| Invites: `invite-tokens.ts`, `api/invite`, `api/sub`, the invite page | invite file, keys made from it | issue, deliver, delete, prune, redeem, show | validated before an `await`, consumed after it; the page and the subscription find the key in two ways | an invite names who redeemed it; page and subscription agree |
| Protection mode: `security-policy.ts`, `api/stats`, `api/security`, `api/security-mode` | mode file, permanent list, fail2ban's log | change mode, poll, promote bans | log and mode read before an `await`, used after it | only bans under the mode in force are promoted, and they are |
| Posture and groups: `posture.ts`, `groups.ts`, `xray-log.ts`, the devices page | presets per key and group, verdicts, what each page last saw | evaluate, keep, block, choose a preset, rename, move | pages of different age act on one list of verdicts | what was kept or blocked stops being flagged |
| Protocols: `protocol-catalog.ts`, `inbound-config.ts`, `inbounds.ts`, `sub-formats.ts`, `client-matrix.ts`, `xray-config.ts` | an inbound, a key's protocols | make from a template, edit, sync, hand out | the same fact in six hand-written tables | what is shown is served, what is handed out can be dialled |
| Pages of keys: `VpnUsersPageClient.tsx`, `VpnUsersPanel.tsx`, `Dashboard.tsx`, `Modals.tsx` | the statistics as last seen, an open panel, its forms | poll, select, save limits and protocols, rotate, disable, delete | late answers, forms that are saved whole, two ways to write a day | the panel stays with its key and writes back nothing stale |
| Telegram bot and push monitor: `vpn_extensions_v3.py` | in-memory "seen" sets, poll offset | poll, alert, answer callbacks | alerts remembered for ever or lost on restart | one alert per event |
| Installer: `install/lib/apply.py`, `install/wizard/serve.py` | job file, plan | start, run steps, verify, resume | handler threads and job thread, restarts | one job at a time; a failed job is reported as failed |
| Traffic accounting: `api/traffic`, `lib/traffic.ts` | `traffic_daily` | copy days, compare with quota | the poller that counts is not in the repository | no traffic counted twice or lost |
| Storage helpers, generators, translation, charts | small files, or none | write, format, render | little | see "Not modelled" |

## 2. Modules

| Module | What it is |
|---|---|
| `BlockRegistry` | abstract: what the firewall promises. Two holders, rules are what is held |
| `FirewallQueue` | the queue file, its producers, the applier step by step, promotions, crashes |
| `FirewallProofs` | theorems about it and about `Protection` |
| `DevicePolicy` | the device policy in both processes, on top of `BlockRegistry` |
| `DevicePolicyProofs` | theorems about it |
| `KeyLifecycle` | keys, the config and its backup, operators and enforcement runs |
| `KeyLifecycleProofs` | theorems about it |
| `XrayConfig`, `XrayConfigProofs` | `config.json` and the running Xray: the dashboard's writes, edits by position, live calls, the vpn-api's writes, test and restart |
| `Accounts`, `AccountsProofs` | accounts, cookies, handlers over their awaits, and the pages' redirects |
| `Invites`, `InvitesProofs` | invites from issue to pruning, redemption over its awaits, and the four readers of an invite |
| `Protection` | fail2ban's log, the mode and the polls, on top of `FirewallQueue`, whose promotions it decides |
| `Review` | postures, groups and the devices page |
| `KeyPanel`, `KeyPanelProofs` | the page of keys with its panel, and the dashboard's cards |
| `Protocols` | the catalog, templates, classifiers, links, subscription formats, apps and the invite page's choice |
| `TablesProofs` | theorems about what the tables of `Protocols` and `Review` say |
| `MC...` | the small instances the runs use |

Composition: `FirewallQueue` and `DevicePolicy` both stand on `BlockRegistry`, the first refining
it and the second using it; `Protection` extends `FirewallQueue`, and a step of it is a step of that module
or leaves it alone (`ProtectionIsPromoting`). The other modules share a file in the code and split
what is in it: of `config.json`, `KeyLifecycle` has the uuids, `DevicePolicy` the routes,
`XrayConfig` the order and kind of the inbounds and what runs, `Protocols` what an inbound is taken for.

### FirewallQueue

A file is a variable, and reading it and replacing it are two actions, because they are
two system calls of processes that share no lock.

- *Producers.* `LoadAndAppend` is `load`, append and the writing of the temporary file;
  `ReplaceQueue` is the rename. In between, `draft[p]` holds the copy. Whatever
  thread of the vpn-api queues commands is one producer: the one that serves HTTP, a request at a time,
  or one that carries out a command of the bot. The dashboard is another, and its synchronous handlers
  never overlap. Commands carry an `id` that exists only in the model, so that properties can tell
  two equal commands apart.
- *Applier.* `LoadQueue`, `LoadLists`, `ApplyNext` (the UFW call and the change of the list in memory),
  `OpenBlocks`/`WriteBlocks` and `OpenDeviceBlocks`/`WriteDeviceBlocks` (`open(path, "w")` truncates:
  the file is `Torn` until it is written), `RemoveQueue`. `LoadFails` is the
  exception that a truncated list raises: it is logged and the queue stays.
- *Crash.* The applier dies between any two of these steps; files and UFW's rules survive. The history
  `overwritten` has the addresses of the commands that a producer's copy took out of the queue.
- *Promotion.* `applyProtectionModeToBans` in the dashboard: read the permanent list, queue
  a block for every new address, write the list it read with those addresses added. Which bans are promoted is left open here.

`BlockRegistry` is refined by reading "the list in force" as the applier's copy while it is
working and as the file otherwise.

### DevicePolicy

`work[w]` is the handler under way in worker `w` with its own copy of the file. `Evaluate`,
`Approve`, `Reject`, `Clear`, `DeleteBlocked`, `Reset` and `SetLimit` load the file and compute
the copy; `EvaluateOne` classifies one address of an evaluation; `Save` replaces
the file by the copy, whatever the file holds by then. What follows a verdict differs: the dashboard
rebuilds the block routes from the file and sends an HTTP call (`SyncAndCall`) that arrives
(`Deliver`) or fails unnoticed (`LoseCall`); the vpn-api queues a command with scope `device`
(`QueueDevice`). In the code, a handler of the dashboard is synchronous from load to save; the model lets the
other process in between, which is the finest interleaving of two processes. Firewall
commands act on `BlockRegistry` at once: `FirewallQueue` is where it is shown that
the queue implements that registry. A worker is the dashboard, or a thread of the vpn-api: the one that serves
HTTP, or one that carries out a press of a button of the bot.

Two histories say what a property has to except. `unsynced` has the verdicts the vpn-api saved since the dashboard
last rebuilt the routes: the vpn-api does not touch them. `unsettled` has the addresses about which the last command
may have missed its rejection: its call was lost; it met a command of the same scope that says the opposite and had not been
carried out (which of the two comes last is open); or it lifted the rule while another key, or a copy that was still to be saved,
rejected the address. A later block that no unblock of its scope can follow settles an address again. Two equal calls on their way are
one, as carrying out the second changes nothing.

Time stamps are dropped: the address that an approval at the limit replaces, the oldest one, is any approved
address. The file of known addresses is dropped: the seed of a new policy is any set of the user's addresses
within the limit.

### KeyLifecycle

A key is a uuid; `clients` is the set of inbound, email and uuid triples that `config.json` lists, `backup`
is `config.json.bak`, `meta` the table. Handlers do everything without an `await`
in between, so each is one action with all it writes, including what `Write` does to the backup. An enforcement
run is not: it takes `Snapshot` and `Listed` and then awaits the live sync after each row it acts
on, so `Begin` and `Proceed` go from one `await` to the next and other actions run in between. A row carries
`disabled` and `reason` from the snapshot, while its limit is evaluated afresh, as in the code.

`Exceed` and `NewMonth` stand for traffic counting and expiry. `RewriteRoutes` is the device policy
rewriting the config: for keys it only replaces the backup, which is what `Enable` looks uuids up in. A
display name is the email it normalises to (lower case, spaces removed).

### XrayConfig

The config is a sequence of inbounds, as positions matter: an operator edits the inbound at the index that
their page's list, loaded earlier, gave it (`OpenEdit`, `Save`). Every write of the dashboard keeps the previous file
(`WriteConfig`). A change of a key adds a live call (`Told`), which `Sync` carries out against the *file of that
moment* for additions and against the running inbounds for removals, in any order, or `LoseCall` drops.
The vpn-api reads and writes the file in two steps (`VpnApiRead`, `VpnApiWrite`) and makes no call. The applier
takes the request (`TakeRequest`), tests the file or puts the backup back (`TestConfig`), removes the
request and restarts (`RestartXray`), or dies with the request it removed (`ApplierDies`). `SafeRestart` and `SafeRestartEnds` are the
vpn-api's own restart, over HTTP or from a thread of the bot, so that other handlers run in between; it waits
for a process that systemd does not start again, and waits too where there was none to end. History variables say what a property has to
except: `undone` (an older config was put back, or the applier died), `failed` (a call was lost), `narrowed` (keys whose protocols were
edited). A restart by the applier loads the whole file and clears all three.

### Accounts

Each handler that awaits its body is two steps: it is let in by the session (`Begin...`) and acts later on whatever the
table holds then (`Finish...`). A session is a username, so an account that is deleted and made again
is the cookie's account again. A page is where it is and whether it still asks where it belongs; `Check...`
and `Load` are the effects that ask, with the answers of middleware, page and `fetchJson`.

The dashboard's pages are of three kinds. `"home"` stands for those that poll through `fetchJson` (the dashboard itself, connections,
devices, protocols, server, security); `"panels"` for those that load once that way and again only when somebody does something (gateways,
settings, access keys; the poll of the panel of keys and the events of the list use `fetch` and `EventSource`, which send nobody away);
`"clients"` for `/clients`, which asks nothing at all. `Load` is the call that comes by itself (`Calls`), `Reload` one that may come.

### Invites

Redeeming is validate (`Submit`), make the key (`MakeKey`), await the live sync, mark the invite used (`Answer`);
`Restart` loses the handlers in between. An invite is judged by its page (`PageState`), by its subscription (`Served`), by
its QR code (`QrCode`) and by the operator's table (`StatusOf`), each translated from its own code.
`Pruned` drops old invites where the list is read, which in the code is a GET.

### Protection

A GET of the security page or of the dashboard page reads fail2ban's log (and the one, but not the other,
the mode), awaits the geolocation of the addresses, and then applies the mode: `PollBegin`, `PollEnd`. Time is in half seconds, as
the log has whole seconds and the mode milliseconds. The promotion that `PollEnd` begins is `FirewallQueue`'s.

### Review

A key's addresses have ages, providers, countries; the policy has verdicts with their provenance. Two polls bring a page up
to date, `FetchStats` and `FetchPosture`, and `Violations` is what the page makes of them with the preset it knows. `Press` makes
one call per address as the page last saw them, and each arrives (`Handle`) or is lost (`LoseCall`).

### KeyPanel

`stats` is what the page last got, `late` an answer that is overtaken, `asks` the calls for links under
way. `Show` finds the panel's key again in new statistics, by email, and resets the forms; `Save...`
write all the fields of a form. The card's form keeps what it was opened with.
A day is shown and saved in two ways by the two pages, so an expiry is a time, not a day.

### Protocols

All protocols, presets and apps of the source. One inbound is made from a template and edited, one key gets
protocols from a preset and by ticking; the rest is operators: `MatchCatalogKey` and `InboundProtocolKey` are
the two classifiers, `Link`, `ToClashYaml` and `ToSingBoxJson` the nodes, `AvailableClients`, `ActiveClient`,
`LinkMode`, `HandedOver` and `Encoded` what a visitor is offered. The apps a page lists are positions of the matrix, and the
first of them is the one that no other is `Before`: the filter and the stable sort of the code.

Left to the other modules: the clients an edited inbound keeps (those of the draft, which `XrayConfig` has), and disabled keys, whose protocols
are edited without any inbound listing them (`KeyLifecycle`). The port is 443 on both sides, as the installer writes it: the links take it
from `SERVER_PORT`, the templates have it written out, so another `SERVER_PORT` would make them differ.

## 3. Runs

All runs pass. The states are those TLC finds with two workers; no run takes more than five minutes.

| Run | Question | Instance |
|---|---|---|
| `fw_core` | do producers that overwrite each other ever make UFW and the lists disagree? Does the pipeline implement `BlockRegistry`? | 2 producers, 2 addresses, 2 scopes, 3 commands |
| `fw_crash` | what is left after the applier died, and is the queue always drained? | 2 producers, 1 address, 2 scopes, 3 commands, 2 crashes; 555,608 states |
| `dev_limit` | do two processes with different defaults ever approve more addresses than the limit? | dashboard and vpn-api, 1 user, 2 addresses, defaults 2 and 1; 185,760 states |
| `dev_verdicts` | do routes and firewall follow the verdicts of two processes, with copies that replace each other and calls that are lost? | dashboard and vpn-api, 2 users that share 1 address, every operation but `reset`, default and set limit 1, 1 call in flight; 2,609,251 states |
| `keys` | all safety properties of keys and their inductive invariant; is a blocked key ever served for good? | 2 emails, 2 uuids, 2 inbounds, of which one has clients with passwords, 2 runs, 4 operations |
| `accounts` | what can cost the dashboard its last owner? Do redirects end, and do pages let go of whom is signed out? | 2 browsers, 3 ids, 2 names, roles admin and owner, 6 operations; 173,791 states |
| `invites` | whose key does an invite lead to, and do the readers of an invite agree? | 2 invites, 2 names, 2 visitors, 3 uuids, 2 profiles of which one is in the first inbound, 5 operations, 1 restart; 1,340,982 states |
| `xray` | what have `config.json` and the running Xray to do with each other? | 1 key, 2 protocols, 2 inbounds and the system's between them, at most 3, 2 pages, 3 operations, 1 safe restart; 935,975 states |
| `protocols` | is what is shown, synced and handed out the same? | every protocol, preset and app of the source, 6 networks, 3 securities, 2 changes by hand; 1,667,828 states |
| `protection` | which bans get on the permanent list, do they, and does the page tell it? | 1 address, the dashboard as producer, 1 command, 2 promotions, 2 log lines, 1 choice of mode; 712,954 states |
| `review` | are stricter presets stricter, and does what operators did stay done? | 1 key, 3 addresses, 2 providers, 2 countries, 1 page, 2 connections, 1 turn; 379,342 states |
| `keypanel` | does the panel stay with its key and come to show the truth? | 2 keys, 1 call for links besides those of the page, 2 turns, 1 day, 2 limits; 401,996 states |

### What the properties say

- `RulesFollowLists`, `ImplementsRegistry`: UFW denies an address exactly while one of the lists in force
  has it, and every applied command is one change of one hold. Overwritten and replayed commands do
  not matter to this, which is why it deserves a proof.
- `SettledMeansConsistent`: after any crashes, an empty queue means whole lists that UFW agrees with. The
  queue is removed last, and replaying commands over lists that were or were not saved ends where one run
  would have ended: that is the argument the code relies on without saying so. It needs the commands to stay
  queued: where a producer's copy took one out and the run that was doing it died, the address may be left listed and not
  denied, or denied and in no list. The property excepts those addresses and no others; this is a finding.
- `DrainsUnlessWedged`: the queue is drained unless a crash left a truncated list. The exception is a finding.
- `DeviceHoldKeepsRule`: with promotions, `RulesFollowLists` no longer holds (both rewrite the
  permanent list); what remains true is that no rule the device list needs is lifted.
- `LimitRespected`: each save is a whole file in which each user is within the limit stored with it,
  so overwriting cannot add up approvals. It does not hold when limits are lowered or
  networks trusted, by design of the code; the run and the theorem exclude both.
- `RoutesMatchRejected`, `RejectedIsDenied`: the two enforcements of a rejection, whichever process gave the verdict and
  through whatever copy of the file. What the first excepts are the very pairs the vpn-api rejected or stopped rejecting since the dashboard
  last rebuilt the routes. The second excepts the addresses of `unsettled`. Each way to get there is an accident of the code,
  and without any one of them the property fails: a call that fails is ignored; calls of one scope overtake each other; and the commands
  are per address while verdicts are per key, and are sent for the copy a handler saved, which another handler's older copy may replace.
  An evaluation that saves an old copy brings back a rejection, but one whose rule is still there, or that is excepted.
- `OneUuidPerEmail`, `DisabledIsOut`, `KeyInvariant`: handlers find keys by email and change rows by uuid; these
  say that in no interleaving this touches somebody else's key or leaves a disabled one listed.
- `RestoredNotBlocked`: no step restores a key while the limit of the email it is listed under blocks it.
- `LimitsEnforced`: a key that is served while blocked is not served so for ever. A key is served
  under the name the restore gave it, so this is about that name's limit.
- `OwnerLostOnlyByChange`: of all interleavings of set-ups, deletions and changes, only a change of the last
  owner's own row leaves the dashboard without an owner. That this change is let through is a finding.
- `RedirectsEnd`, `SignedOutLeaves`: three pieces of code send a browser elsewhere, by a cookie whose account may
  be gone; they never send it in circles, and a page that polls, or that was just opened, does not stay open for somebody who is out.
  The other pages may: nothing on them asks (see the end of section 5).
- `UsedNamesItsRedeemer`, `FirstRedeemerKeeps`, `GoneStaysGone`: an invite may make two keys (a finding), but it is
  recorded for one who redeemed it, the first one stays, and an invite that was deleted while being redeemed stays deleted.
- `PageAndSubscriptionAgree`: the page finds the key by name and clock, the subscription by uuid; they agree where the key is listed.
- `RedeemingEnds`: nobody waits for ever, whatever fails or restarts.
- `SystemInboundStays`: no stale position, no unlocked write and no restored backup loses the inbound the vpn-api reaches Xray through.
- `EditsAreLoaded`, `RequestsAreServed`: requests that come while the applier is at work are removed with
  the one it works on, yet no edit is forgotten, because the file is tested and loaded after the request was read, not before.
- `ServesOnlyListed`: calls overtake each other, yet none leaves a removed key served.
- `ShownIsServed`, `NodesDialTheirInbound`, `VisitorIsServed`: tables written apart agree, on everything a template or an edit
  can make and on every app. Their exceptions are findings.
- `PromotedOnlyInForce`, `BansGetPromoted`, `PageSettles`: a mode that changes during the await never promotes a ban it
  does not cover; a ban it does cover gets on the list while a page is open.
- `PresetsAreOrdered`: over every page that can be seen, strict judges no more mildly than balanced, and balanced than open.
- `ReviewSettles`: keeping and blocking what is flagged, on a page that is always behind, comes to an end.
- `DaysWereEntered`, `LinksFollow`, `PanelKeepsItsKey`, `PanelSettles`: what late answers and two spellings of a day could do to a form that is saved whole.

Type invariants are model-checked in `fw_core`, `dev_verdicts` and `keys`, and proved there and for `Accounts`, `Invites`, `KeyPanel` and `Protocols`;
elsewhere the runs spend their time on other properties.

### Bounds

Each `Max...` constant caps one counter in a guard, and only the environment's steps (commands,
crashes, promotions, operations), never those of the code under study. Three commands
with two producers give every way one copy of the queue overwrites another while the applier is at
any step; two crashes give a crash during a replay after a crash, and with both producers one over a queue that was overwritten since. Two addresses and two scopes give
both holds on one address next to an address that is not involved. For keys, four operations
reach a key that is disabled, re-enabled by a stale run, and its name taken by another key; the inductive
invariant was also checked with five operations. `CHECK_DEADLOCK FALSE` stands where a bound may exhaust
every step: a system with nothing left to do. The device runs need no such line: an evaluation can always start.

One address is enough for `dev_verdicts`, as commands, routes and histories are about one address each: two keys share it, so that a
verdict on one meets the rule of the other, and a copy of either process can be as old as the other's last save. Limits of one keep an
approval at a full limit in it. `reset`, several threads of the vpn-api and several calls in flight are left to the theorems, which hold for any;
one key with two threads of the vpn-api, two calls in flight and every operation was tried as well (1,003,202 states). No run has trusted networks.

Six operations of two browsers give two set-ups at once and an owner who is demoted while letting in a deletion;
five of visitors and operators give two redemptions of one invite while its key is disabled. Three operations on
an inbound list with the system's in the middle give an edit from a list two edits old, and a restore over a later write.
Two changes by hand are needed in `protocols`: with one, a protocol that is unticked and ticked again, which changes the order
of a key's protocols, does not happen. One address is enough for `protection`, as the mode is applied to each by itself,
and two promotions give one that meets the other's list. Three addresses give two networks, one of them with two addresses.
Where the state space allowed no more, random behaviours of larger instances were tried as well, without a violation: invites with 9
operations, 2 restarts and 3 profiles; accounts with 9 operations and 4 roles; the panel with 3 calls and 6 turns; protection with 2
addresses, 4 lines and 4 modes; Xray with 9 operations and 3 safe restarts. No known address seeds a policy in `review`.

### Fairness

- `FairCrashSpec`: weak fairness of the applier's own steps. The unit has `Restart=always`
  (`install/lib/gen_systemd.py`), so a script that ended or died is started again, and the script has no
  loop or wait inside. Crashes and producers get no fairness.
- `FairSpec` of `KeyLifecycle`: weak fairness of enforcement as a whole. Pages of the dashboard that
  refresh from the stats and traffic routes start runs, and the calls a run awaits are answered or
  fail, and both let the run go on. With no dashboard open nothing enforces limits, so this is an assumption
  about use and not only about scheduling. Operators and traffic get no fairness.
- `Accounts`: a page that asks where it belongs is answered, one that polls polls (every 3 to 30 seconds, in a tab that is visible), and a request
  ends, if only by being refused. `Reload` and `/clients` get no fairness: nothing makes those pages call. `Invites`: a handler whose await is over goes on, a call is answered, a page
  that lost its call is loaded again. Neither browsers' users nor operators have any.
- `XrayConfig`: the applier's three steps, as in `FirewallQueue`. Calls, operators and the vpn-api have none.
- `FairProtectionSpec`: the two pages poll (every 30 and 5 seconds) and a promotion that was begun goes on. This needs an open page:
  nothing else promotes a ban.
- `Review`: polls, the arrival of calls, and strong fairness of an operator doing something about what is
  flagged (`Resolved`): a button may be busy again and again, but not always when they look.
- `KeyPanel`: polls, answers of calls, and the call for the limit of devices that follows the saving of a form. Dialogs, typing and everything elsewhere have none.

## 4. Proofs

For every number of producers, addresses, commands, users, workers, keys, inbounds, runs, browsers, accounts, invites, visitors and polls:

| Theorem | Says | Argument |
|---|---|---|
| `FirewallProofs!TypeCorrect`, `PromotingTypeCorrect` | `Spec`, `PromotingSpec` => []`TypeOK` | one step lemma over the steps of all three specifications |
| `RulesAlwaysFollowLists` | []`RulesFollowLists` | strengthened by: a list is torn exactly while the applier is between truncating and writing it, and once written it equals the applier's copy |
| `QueueImplementsRegistry` | `Spec => ImplementsRegistry` | each `ApplyNext` is a step of the registry; each other step leaves the lists in force alone, which needs the strengthening above |
| `RunsComeToAnEnd` | in `CrashSpec`, each step of a run, or its death, shortens what it has left; it ends with the queue removed, at a torn list or by dying; and nothing it reads stops it | the length of what is left to apply and the phases still to come; commands in the queue are well-formed, by types |
| `DeviceHoldsSurvivePromotions` | []`DeviceHoldKeepsRule` under promotions | only the applier touches the device list |
| `CrashesHeal` | []`SettledMeansConsistent` with any number of crashes | no induction over what a replay does: for each address, what is still to do in a list of commands *heals* (rule and lists agree, or a later command is sure to make them), both for what the applier has left and, from the files, for the whole queue; `ApplyNext` keeps the first, a crash falls back on the second, and the phases say which list may be torn |
| `DevicePolicyProofs!TypeCorrect` | []`TypeOK` | one lemma per group of actions |
| `LimitAlwaysRespected` | []`LimitRespected`, if no limit is changed and no network trusted | the file and every handler's copy are within the limit stored with them; once stored, limits stay, so any copy may replace any file |
| `HighestLimitRespected` | []: no key has more approved addresses than a bound on all the limits operators give and all the defaults; limits change, no network is trusted | the bound holds of limit and approvals in the file and in every copy, so that a copy from under a higher limit may still replace the file |
| `RoutesAlwaysMatchRejected` | []`RoutesMatchRejected`, for any workers and calls | the routes are the rejections of the file the dashboard last synced; a save of another worker that changes one puts the pair in `unsynced`, and a save of the dashboard is followed by a sync before it is idle |
| `RejectedAlwaysDenied` | []`RejectedIsDenied`, for any workers and calls | strengthened to copies: an address that the file, or a copy that is still to be saved, rejects is unsettled or *sure* in one of the two scopes: its block there is under way and no unblock of it, or the list there has it and no unblock of it was sent. A handler's unblock under way makes sure of nothing else: at its `Save` whoever still rejects the address gets it into `unsettled` |
| `KeyLifecycleProofs!TypeCorrect`, `OneUuidAlways` | []`TypeOK`, []`OneUuidPerEmail` | every write of the config goes through an operator that keeps one uuid per email |
| `KeysInvariant`, `DisabledAlwaysOut`, `NeverRestoredBlocked` | `KeyInvariant`, `DisabledIsOut`, `RestoredNotBlocked`, if every profile contains the first inbound's protocol | `DisabledIsOut` is not inductive: it needs that config and backup list a uuid under one email, that the first inbound lists every key, and that fresh uuids are fresh |
| `NoKeyPassedOver` | under the same condition: a run that begins has every served key its limit blocks before it, and each step of a run leaves such a key taken out or still to do | wherever such a key is looked up it is found under its one email, so no row of it is skipped, and acting on it takes out every entry; the two facts are about the state now, whatever changed since the run's snapshot |
| `AccountsProofs!TypeCorrect`, `OwnerLostOnlyWhenChanged` | []`TypeOK`, `OwnerLostOnlyByChange` | names stay unique, so who asks is one account; a deletion counts the owners in the step that deletes |
| `RedirectsLeadHome` | an answer takes a page to where its browser belongs in that moment, and a page that is there already stops asking; so does a later call of a page that does not poll | what the handlers answer is a function of accounts and cookie; a case per page and answer |
| `InvitesProofs!TypeCorrect`, `UsedByRedeemer`, `RedeemerKept`, `GoneForGood` | []`TypeOK`, `UsedNamesItsRedeemer`, `FirstRedeemerKeeps`, `GoneStaysGone` | strengthened by: a handler past its await made its key under its name; then a case per way an invite can change in a step |
| `PageAndSubscriptionAlwaysAgree` | []`PageAndSubscriptionAgree` | the readers agree wherever a listed name is enabled, which every write of rows and config keeps |
| `NoOneWaitsForNothing` | a page that waits has a request of its own under way, about its own link; a request makes one key at most, and one that ends frees the page | inductive with: a page that waits shows the form; what one visitor does leaves the others' pages and requests alone |
| `ProtectionIsPromoting`, `DeviceHoldsSurvivePolls` | `ProtectionSpec => PromotingSpec`, so []`DeviceHoldKeepsRule` | each step is one of `FirewallQueue` or leaves its variables alone |
| `OnlyInForcePromoted` | `PromotedOnlyInForce` | strengthened by: the date of a mode other than permanent-deny lies after every ban; bans have the date of a line of the log |
| `XrayConfigProofs!SystemStays` | []`SystemInboundStays` | file, backup, every copy and the running config have the system's inbound and unique tags |
| `EditsLoaded` | []`EditsAreLoaded` | syncs and calls keep the inbounds, and a write that does not keep them leaves a request behind |
| `OnlyListedServed` | []`ServesOnlyListed` | strengthened by naming the keys served and not listed: those whose call to remove them is still under way; inbounds correspond by tag |
| `KeyPanelProofs!TypeCorrect` | []`TypeOK`, and no dialog works on a key that is not there | one lemma per group of actions: the server, the list, the panel, its links |
| `PanelIsOfItsKey` | []`PanelKeepsItsKey` | each answer that is shown looks the key up by the email of the panel; only opening a panel changes that |
| `PanelIsAsListed` | []: what the page last got says of the panel's key what the panel shows, if it names the key at all | statistics have one entry for a name; every answer that is shown replaces both |
| `LinksAreTheKeys` | []`LinksFollow` | strengthened by: a call under way is the last one asked and is for the panel's uuid; once it was answered as the last, the links are that uuid's |
| `DaysAreKept` | []`DaysWereEntered` | strengthened to the statistics shown, late answers and forms: they have no day that was not entered, and saving a day gives a time of that day |
| `TablesProofs!TypeCorrect` | `Spec` of `Protocols` => []`TypeOK` | edits write a field; ticking keeps a sequence without repetition |
| `ClassifiersAgree`, `ShownAlwaysServed` | []`ShownIsServed`, for any networks and securities | by protocol, over all addresses; strengthened by: after a sync, an inbound lists the key exactly if it is taken for one of its protocols |
| `NodesAlwaysDial` | []`NodesDialTheirInbound` | `TemplatesAgree`, by protocol over the tables; a key only has protocols of the catalog, by `TypeCorrect` |
| `VisitorsAreServed` | []`VisitorIsServed`: for keys with a protocol every link app knows; WireGuard's apps need a peer, apps that import one link a list that begins with such a protocol | over all the sequences of protocols a key can have: Hiddify runs everywhere, comes first where it is available and takes what any app takes; which entry of the matrix the page explains follows from its position, and then what that app is handed, by the way it imports |
| `PresetsAlwaysOrdered` | `ReviewSpec => []PresetsAreOrdered` | every rule of a preset that a stricter one lacks or softens is compared with the stricter one's: a key that is out stays out, one in review stays in review or is out; `Unlimited` is never exceeded, as pages show addresses of `IPs` only |

`KeysInvariant` and its two consequences assume `ProfilesListPrimary`. Two
profiles of `access-profiles.ts`, "cdn-safe" and "legacy", do not meet it (a finding).

Assumptions on the constants are named in the modules (`ConstantsAssumption`, `DeviceConstants`, `IdleIsNoHandler`,
`KeyConstants`, `AccountConstants`, `InviteConstants`, `ProtectionAssumption`, `XrayConstants`, `KeyPanelAssumption`, `NoKeyIsNone`,
`ProtocolsConstants`, `NoneIsNoProtocol`): the kinds of the constants and that marker
values (`Torn`, `NoPromotion`, `Idle`, `NoMeta`, `None`, `Gone`, `NoKey`) differ from the values they stand beside. `XrayConstants` also says that
the installed config has the system's inbound and unique tags, `InviteConstants` that no token is a uuid (both are random).

Only model-checked: the liveness properties, as the prover does not treat fairness. Of five of them the part that is not about fairness is
proved: `RunsComeToAnEnd` (`DrainsUnlessWedged`), `RedirectsLeadHome` (`RedirectsEnd`, `SignedOutLeaves`), `NoKeyPassedOver` (`LimitsEnforced`),
`NoOneWaitsForNothing` (`RedeemingEnds`) and `PanelIsAsListed` (`PanelSettles`): what is left to assume is that the next step is taken.
Of `RequestsAreServed`, `BansGetPromoted`, `PageSettles` and `ReviewSettles` nothing but the model-checking is there. `ReviewTypeOK` is
not proved: an evaluation folds over the addresses of a key, and what a fold returns for every sequence takes an induction over data. The
runs check safety invariants too, but each of those is proved.

## 5. Findings

Each contradicts a line of the repository, quoted in `PROJECT.json`. No run checks them: the definition named is the property
of the module that states what is said, or that states what is true with the finding as its exception.

*Firewall, devices, keys*

1. *A command can be lost* (`NoCommandLost`): appended between the applier's read and its
   `os.remove`, it is deleted unapplied though answered with "UFW rule applied within 60 seconds".
2. *A crash can wedge the queue* (`DrainsUnlessWedged`): a list truncated by `open(path, "w")` makes every later run fail. *A crash before an
   overwritten queue leaves list and rule apart* (`SettledMeansConsistent`).
3. *Orphaned rules* (`DeniedIsRejected`): `DELETE /api/devices/blocked` is documented to unblock and does not.
4. *Keys under a wrong email* (`KeysKeepEmail`): enforcement resolves a removed key by its display name.
5. *Manual disables undone* (`ManualNeverAutoRestored`): decided with the snapshot instead of the row.
6. *Re-enable fails* (`ReenableFindsKey`): the uuid is only in a backup that any write replaces.
7. *Limits not enforced for some profiles*, and *a reset month forgets nothing* (`LimitsEnforced`): only the first inbound's clients are
   looked at; the days that were reset are copied again from the poller's file.
8. *Connection limits never act* (`LimitRespected`): the vpn-api's users are read as objects and are strings.

*Accounts and invites*

9. *Two owners from one set-up*, and *the last owner can be demoted* (`OwnerLostOnlyByChange`).
10. *A used invite makes a second key* (`FirstRedeemerKeeps`): validated before an await, consumed after it, the answer ignored.
11. *A revoked key is shown as ready* (`PageAndSubscriptionAgree`); *no invite is ever "revoked"* (`GoneStaysGone`).

*Xray and protocols*

12. *Edited protocols and the vpn-api's deletions do not reach Xray* (`ServesOnlyListed`).
13. *`safe_restart` leaves Xray down* (`EditsAreLoaded`): the unit restarts on failure, and SIGTERM is none.
14. *The network mkcp is classified two ways* (`ShownIsServed`); *Clash nodes do not name WebSocket* (`NodesDialTheirInbound`).
15. *The direct link is of the first protocol stored, not of one the app can use* (`VisitorIsServed`).

*Protection, review, pages*

16. *Thresholds are shown and decide nothing* (`PromotedOnlyInForce`).
17. *A pending address hides a conflict*, and *travel is flagged after Keep* (`ReviewSettles`).
18. *No preset blocks; a group's preset is one of the group's name* (`PresetsAreOrdered`).
19. *The links of another key* (`LinksFollow`): a late or failed call leaves them.
20. *"Reset traffic" posts to no route; a rotated key's limits are saved for nobody; the tab "Disabled" is always empty* (`PanelSettles`).

Seen while modelling, and no contradiction of anything written:

- The bot's "temporary" bans have no expiry: the applier puts every scope but `device` into the permanent list.
- An address approved automatically stays on the pending list if it was there.
- The dashboard sends its verdicts with scope `permanent`, the vpn-api with `device`: neither lifts the other's rule.
- Rules are per address, verdicts per user: approving a shared address for one user lifts the rule that another user's rejection made.
- `DEVICE_LIMIT` is 6 in the dashboard and 2 in the vpn-api; whichever evaluates a user first stores its own.
- The seed of known addresses is not compared with the rejected ones.
- `addUser` looks for duplicates in the first inbound only; a disabled key's name can be taken, and enforcement
  may later restore the old uuid over the new key. `DELETE` of a disabled key is answered with 404.
- Two producers that overlap lose one of their commands even with no applier running.
- UFW's exit status is never looked at, and the legacy v2 queue is drained but written by nobody.
- The stats route compares a quota with the last thirty days, the traffic route with the calendar month.
- Only a GET of a page promotes a ban; a queued block that is lost leaves its address listed and not denied; a promoted address that is
  unblocked is promoted again while fail2ban holds it; a ban in the second the mode was chosen counts as earlier; one whose
  line was rotated away twice is shown as not banned.
- "Set all" on the devices page reaches only the keys that match the search. Keep of a pending address at a full limit is answered with 409 and says nothing.
- Somebody who is signed out, or whose account is deleted, may keep `/clients` open for good, which makes no call, and a page that does not poll, with
  what it loaded, until something on it is pressed. The sidebar asks for the session once and does not leave.
- A key without any of the protocols every link app knows may be offered an app that can use nothing it is handed: with WireGuard and VLESS over
  XHTTP, Clash Verge is listed for the first and given a subscription with the second.
- A call that fails on the invite page is shown as "Invalid invite". Listing groups or invites deletes invites older than thirty days.
- A key with the protocol wireguard alone is in no inbound and so has no uuid.
- The panel saves the midnight a day begins with, the card its last second. The card writes every field of a key, changed or not.
- Selecting a key while the form of new keys is open shows nothing. Rotating a client with neither id nor password reports success.

## 6. Not modelled, and why

- *UFW, Xray, systemd, SQLite* are the environment: UFW does what it is told, systemd restarts, a table row is written whole.
- *Gateways*: the vpn-api's handlers of POST read `content_length`, which is not defined there (`vpn-api.py:1194`), and answer 400 always;
  what they would do afterwards is never reached.
- *The traffic poller* is started by a unit and is not in the repository. What is modelled is that a limit is exceeded and a month begins.
- *Installer*: runs once on a machine without users, apart from everything here; its config generators and crypto are text from parameters, tested
  by the repository's tests.
- *Bot and push monitor*: alerts change nothing; the commands that change something go through the queue and the policy file.
- *Import of a backup* (`api/backup`) replaces the files of all components at once: any state of the others.
- *Dead code*: `keys/KeysPageClient.tsx` and `UserPanel.tsx`, `JoinPageClient`, `authMiddleware` are used by nothing.
- *Text*: links, QR images, translation, charts, sorting, the map.
- *Smaller omissions*. `QrCode` of `Invites` is the code without a mode; the modes `direct` and `wireguard` are in `Encoded` of `Protocols`.
  fail2ban writes local times and `threats.ts:135` reads them as UTC: `Protection` takes the host's clock to be in UTC, and with another
  zone every comparison of a ban with the mode's date is off by the difference.
- Failing writes of the producers (a full disk) are left out everywhere: what the code does is to answer with an error.

## 7. Plan

Done: `FirewallQueue`, `DevicePolicy`, `KeyLifecycle`, `XrayConfig`, `Accounts`, `Invites`, `Protection`, `KeyPanel`, `Protocols` and
`Review`, each with proofs.

Left, in this order:

1. The refinement of `FirewallQueue` under promotions, with a registry that allows a ban to be listed before it is denied.
2. `InstallJob`: job file, handler threads, the job thread and its steps, restart of the wizard; abstract
   specification: a job that is idle, running, done or failed, with its steps in order.
3. `PushMonitor`: alerts over two polling loops and callbacks.
