# A verification model of Katacomb VPN

TLA+ specifications of the parts of Katacomb VPN in which order, failure and
concurrency decide whether the program is right, TLC configurations that check
them exhaustively on small instances, and TLAPS proofs of the properties that
matter most for every value of the constants. Paths below are relative to the
repository: `main/` stands for `src/main/`.

    tlc -config MClifecycle.cfg MCConnectionLifecycle    # check one run
    tlapm Firewall_proofs.tla                            # check the proofs of a module

`PROJECT.json` lists the runs, the definition-to-source map, the hazards, the
findings and the theorems.

## 1. The system

Katacomb is an Electron application. One Node process ("main") keeps all state
and has every right; a sandboxed renderer asks it for things over IPC; a small
Go helper, run as a root daemon on a Unix socket or once through pkexec, carries
out the privileged verbs (wg, ip, iptables, resolv.conf). A user buys a session
on the Sentinel chain with one of the wallets on the device, does a handshake
with the node, and gets a configuration from which main builds a tunnel: an
interface root keeps up (wireguard, amneziawg, openvpn) or a core main spawns
(v2ray, xray, hysteria2), alone as a proxy or behind tun2socks as a full tunnel.

JavaScript is single threaded: code between two `await`s is atomic, and
everything else interleaves. Hence the grain of the models: **an action is the
code between two awaits**, and every user call, timer, process exit, chain
answer or helper answer may come in between.

### 1.1 Inventory

| Component | State | Operations | What is hard | What makes it correct | Module |
|---|---|---|---|---|---|
| Connection lifecycle (`main/ipc-handlers.ts`) | tracked session, epoch, attempt counter and timer, notices, lock queue | connect, disconnect, stand-down, retry, give-up, ticks of monitor and watchdog, firewall toggle | an ending at any await of a bring-up; a give-up that takes no lock; two triggers of one ladder | what was torn down stays down; every tunnel supervised; the ladder ends | ConnectionLifecycle |
| Tunnel manager (`main/vpn/vpn-manager.ts`) | interfaces, tracked core, active configs | bring-ups, `disconnect`, status predicates | the core dies while it is being awaited | no untracked core | ConnectionLifecycle |
| Proxy cores (`main/vpn/proxy-children.ts`) | child processes | spawn, exit, kill | as above | as above | ConnectionLifecycle (start, exit, replacement) |
| Purchases and refunds (`main/ipc-handlers.ts`, `main/chain/chain-service.ts`, `main/plans/*`) | captured wallet and key, pending refunds, session files | subscribe, start from subscription, smart connect, chain, end session | transactions that land after the wait for them ended; partial failure; wallet switches | no plan paid twice behind an answer with its subscription; every session with money in it known to the user, but for one whose outcome could not be read; refunds signed by the buyer | Purchase, PaidSessions |
| Wallets (`main/settings.ts`, `main/chain/wallet.ts`, the wallet screens) | index, seed file per wallet, active id, retained seed, the key in memory | import, restore, switch, derive, delete, remove or keep a seed, start fresh, migrations | death between two writes; key derivations that overlap; a keyring that is gone | a listed wallet has its seed; seeds stay until removal is asked, and not after | WalletStore; Purchase (switch, key wipe) |
| Plans (`main/plans/*`) | node list of a plan, cached | list, subscribe, smart connect | the ladder across nodes; late answers | pay once, ride after; the pane shows its plan | Purchase (subscribe, ladder), PlanNodes (lists) |
| Kill switch (`main/vpn/kill-switch.ts`) | marker file, what the chain was built with, two notices | arm, re-arm, disarm, heal | verbs that fail, are lost, or run after their caller gave up; crashes | protected or told; markers honest | Firewall; who calls it: ConnectionLifecycle |
| DNS override (`main/ipc-handlers.ts`, `daemon/internal/ops/dns.go`) | marker, resolv.conf and its backup | set, restore, heal | repeated set, crash between steps | the user's resolver can always be restored | Firewall |
| Privileged client (`main/helper/*`) | pending requests | run a verb with a time limit | the time limit passes and the verb still runs | callers survive every answer | Firewall |
| Helper daemon (`daemon/internal/server`, ...) | mutex, lock file, socket | one verb at a time | two doors, one machine | verbs never overlap | Firewall (FIFO of verbs); planned: PrivilegedDoor |
| Helper operations (`daemon/internal/ops`) | chain, backup, interfaces | 20-odd verbs | half-done verbs | re-runnable from any state | Firewall (the four of firewall and DNS); tunnel verbs by what they leave up |
| Application start and quit (`main/index.ts`) | none of its own | launch, heal, quit | healing beside user actions | a later launch finds what is installed | Firewall |
| Quota, usage floor, session cache (`main/ipc-handlers.ts`, `main/vpn/traffic-stats.ts`) | usage file, clock | tick, remember, prune | the clock is stopped before it is read | a clock runs over every tunnel | ConnectionLifecycle (clock, remembered or not) |
| Settings (`main/settings.ts`) | settings.json | read, write by atomic rename | toggles during a job that has read them | the last toggle wins | ConnectionLifecycle, Firewall (as inputs) |
| Chain endpoint monitor (`main/chain/rpc-monitor.ts`, `shared/rpc-health.ts`) | endpoint, mode, published verdict, probe in flight | refresh, confirmation, path change, Smart RPC's run, manual choice, banner | answers about an endpoint no longer used; a selection that overlaps a choice | manual choice kept; the pill comes to tell the truth; no flapping | Endpoints |
| Chain clients and queries (`main/chain/*`) | the redirect target of each endpoint | requests | reports of failed calls | | Endpoints (memo, reports), outcomes in Purchase |
| Provider console (`main/provider/*`, `main/ipc/provider.ts`) | write lock, plan and node caches | register, plan and lease calls | two calls of one account; prices that move; transactions that land late | pays what was checked; calls do not collide; all are answered | ProviderConsole, PlanNodes |
| Protocol configurations (`main/protocols/*`, `main/config-guard.ts`, `daemon/internal/guard`) | last address of each name; the stored configuration | build from a reply, guard, pin, amend | three guards that must agree on what was already paid for; a name that moves | what is paid for starts; the address let through is the one dialled | TunnelConfigs |
| Node directory and probes, System setup, Diagnostics | caches | fetch, one-off installs, read-only probes | none across components | | not modelled |
| Renderer (`renderer/*`) | views | requests | which screen offers what; answers for an older view | | its wallet, plan and endpoint screens in WalletStore, PlanNodes, ProviderConsole, Endpoints; otherwise free inputs |
| IPC door and preload | none | pass-through | | | as free inputs |
| Packaging and scripts | none | build | | | not modelled |

### 1.2 How the parts interact

* The renderer *calls* main; each call is a request that may come at any await.
  The models allow more than its buttons do, as main's own guards must hold.
* Tunnel-affecting handlers queue on `withConnectionLock`. Timers, a core's exit
  handler, the give-up of the ladder, purchases and the healing of a launch do
  not, and are the source of most of what is found below.
* `connectionEpoch` is the other protection: an ending raises it, and a retry of
  an older epoch drops itself. A connect does not read it.
* Main *calls* the helper and waits with a limit; the helper runs the verb
  whether or not main still waits. Both leave facts on disk (two markers, a
  backup) that only a later launch reads.
* Main *broadcasts* transactions and polls; the chain decides later. Transactions
  of one account share a sequence number.
* The connection lifecycle and the purchases meet in the tracked session: a
  purchase checks `assertNotConnected` first and tracks its session last.
* Purchases, the console and the wallets meet in the active account: the console's
  lock orders its own calls only, and `assertNotConnected` also guards every change
  of the active wallet.
* A reply becomes a configuration once, after it was paid for; connects and retries
  of all later runs start from the stored one.

## 2. The modules

### 2.1 ConnectionLifecycle: the core

Models `withConnectionLock` and everything that runs in it (connect, disconnect,
stand-down, retry, firewall toggle), and everything that does not (give-up,
timers, `MonitorTick`, `RouteTick`, the two quota ticks, drops, `CoreExits`, the
purchase and renewal handlers' tracking).

| In the model | In the code |
|---|---|
| `job`, `at`, `waiting` | the handler that holds the lock, the await it is suspended on, the queue behind |
| `giveUp` | the program counter of a `teardownToIdle` that runs outside the lock |
| `connectionEpoch`, `reconnectAttempt`, `reconnectTimer`, `isIntentionalDisconnect`, `activeSessionId` | the variables of those names; a timer is the epoch its closure captured |
| `rootUp`, `tunUp`, `activeChild` | `sntl0`/`sntl-ovpn`, `sntl-tun`, the tracked child with the mode it was spawned in |
| `stash` | which session's configuration the `active*Config` variables hold |
| `armed`, `killSwitchFailed`, `killSwitchTeardownFailed` | the marker file and the two notices |
| `flow` | what a purchase or a renewal still has to do with its session |
| `wanted`, `carrier`, `leaked`, `tries`, `owed` | history, read by properties only |

A bring-up is `StartConnect`/`StartReconnect`, `ConnectReady`, then by family
`BringUpRoot` or `CoreStarted`/`BringUpTun`, then `PostConnect`, `ProbePassed` or
`ProbeFailed`, each able to be overtaken. `family` is chosen initially and kept,
as one protocol is in use in a behaviour; `StashFirst` tells protocols that
prefer the stashed configuration over the one passed in. `RouteTick` does not ask whether
the interface is still there, since the code's `tunActive` outlives it; it thus fires in
more states than the code's.

Abstracted: the commands inside a bring-up; teardown verbs succeed (their
failure is Firewall's subject); the LAN re-arm, the DNS override and multihop's
second session.

### 2.2 Purchase, and PaidSessions which it implements

`PaidSessions` is the promise: a purchase answers only when the user knows of
every session that still holds his money, and money locks later only in a session
he was told about; but each purchase may lose sight of one session, live and named
to nobody. That exception is what the code does where it cannot read the outcome of
a transaction (below and section 4). `Purchase` models the three kinds of handler that buy
(`single`, `smart`, `chain`), with the chain as an actor: a broadcast transaction
sits in the pool until it lands or is dropped, whatever the handler does
meanwhile, and a landing transaction voids the others of its account in the pool.
A transaction that succeeded need not yield its ids: without the session's id
(`BuyUnnamed`) the handler throws with the session live, and neither refunds nor names it;
without the subscription's (`idless`) the ladder has none to ride and buys the plan again.
Refunds run with bounded waits whose work is not bounded. The user may switch
wallets (which zeroes the key a handler captured) and end sessions at any moment,
while a purchase is at work too.
`Purchase_proofs` holds its theorems.

Refinement: `money` is `Money(k)` of the session's state on chain; `known` is what was
delivered, named by a failed refund, or announced as possibly still to land; `lost` is
`unread`, the purchases whose outcome the handler could not read, because a poll failed or
because the answer lacked the session's id, and `missed` those of the last request;
`busy` is the handler's not being at rest.

Abstracted: one buying handler at a time (two overlapping show in
`finding_tracked`); funds, prices, ranking and a
session's own expiry; `timeoutHeight` is unbounded, which allows more behaviours;
a wallet switch is one step; the provisioning proxy is a boolean; the sweep of files of
sessions that are over (`sweepStaleSessionFiles`, `chain-service.ts:224`).

### 2.3 Firewall

Two threads of main, `lock` (jobs) and `launch` (the healing of `index.ts`, which
takes no lock), call four verbs of the helper. A call is asked for (the prompt may
stay open), reaches the queue, runs, and is answered, or its caller stops waiting
at any point. The application crashes, exits or reboots anywhere; queued verbs
survive its end, a daemon's death drops those not begun. `chain`, `resolver`,
`backup` are the machine; `ksMarker`, `dnsMarker` are the marker files; `armedWith`
is what main believes. `decideFirewallAction` is the pure function of
`connect-decisions.ts`, as an operator.

Abstracted, each a choice to be known when reading its results: verbs run in the
order of arrival (Go's mutex and the polled lock file could let one overtake only
with three waiting); a password prompt does not outlive the application; the
automatic ladder is left out (a drop leads to a stand-down); tunnel verbs end and
succeed; the session is tracked when a connect starts; a node has one protocol;
the resolver is the user's or ours; a file copy is whole or not at all, removing
`resolv.conf` as root succeeds, and a verb cut half way is one of its failed
outcomes; the custom DNS is fixed for a behaviour; the application's view and the
setting may be interleaved at one point ("arm") where the code has none without
DNS, which allows more behaviours.

`excused` is a history of four events after which some properties are not asked,
because the code knowingly or by a recorded disagreement gives them up there:
`overlap` (a job began while a launch still healed), `quiet` (a verb failed and
reported success), `unconfirmed` (a removal got no good answer), `forgotten` (a
connect withdrew the warning of a failed arming and armed nothing itself). Each
property names the ones it is not asked after; everything else is in scope.

### 2.4 Endpoints

The RPC endpoint: the monitor's probes (`probe`, `confirm`, `health`), the path it
is told of (`tunnel`, `armed`, `told`), Smart RPC's run (`run`), the settings
(`endpoint`, `mode`) and the banner (`dismissed`, `asking`, `offer`). `truth` is
what a probe of a host reads and `via` where an endpoint redirects; the program's
memo of it is `base`. `Poll`, `ConfirmFires`, `ProbeOvertaken`, `ProbeHeld` and
`ProbePublished` are `refreshRpcHealth`; `AutoTrigger` to `RunKeeps` are
`autoSelectCore`; `Classify`, `PickBest` and `PickAuto` are the pure functions of
`shared/rpc-health.ts`. Abstracted: labels; heights and latencies are a handful of
readings; a probe reads the truth at its end.

### 2.5 WalletStore

Main writes its files synchronously, so nothing comes between two writes of one
operation, except death. An operation is therefore a sequence of disks
(`Removal`, `Addition`, `Unretained`, `Migration`): it ends in the last, or the
process is killed with one of the others. Key derivation is asynchronous and is
a job, any number of which may be under way; what the handler checks after its
await is in the action that ends the job. `disk` is the index, the seed files,
the active and the retained id and the file of the single-wallet format; `foreign`
are files written under the application's previous name, which nothing opens.
The screens (`PickerShown`, `AppShown`, `SavedSeedShown`, `DuplicateUses`) are
guards, because what they do not offer cannot be asked of main.
`owned`, `removed`, `cut` and `adopted` are history. Abstracted: names and order of
entries, the recovery-phrase modal, and encryption: a file opens or does not, and one
condition, a keyring, stands for the code's two (a seed is written only under a real
keyring, and what that encrypts the plain-text fallback does not open).

### 2.6 ProviderConsole, and PlanNodes

`ProviderConsole`: a call of the tab reads its own record (`own`), the price,
the funds, queues for the write lock (`queue`), broadcasts, polls and is answered;
its transaction is in `pool` until the chain includes it or drops it, which it may
do after the answer. `Outside` is a transaction of the same account made elsewhere.
The rest of the world moves prices, ends leases and takes the tunnel up.
Hours and figures are left out (a lease costs its hourly price).

`PlanNodes`: `cache` is `planNodesCache`, each entry with the moment its read was
asked for; `reads` are `listNodesForPlan` calls in flight, `calls` the provider's
writes from their broadcast on, `shown` the two panes. The console's reading a list again
(`Reloads`) is a step after the answer (`Succeeds`), as it is another call of main. Four
fields are history: `asked`, the calls answered when a read was asked for; `saw`, those
landed when the chain answered it; `read`, the moment of that; `wrote`, the calls answered
when the entry was kept. How a call comes to be broadcast is ProviderConsole's.

### 2.7 TunnelConfigs

From a node's reply to a tunnel. A reply is a list of inbounds and a list of
addresses, or a WireGuard or AmneziaWG reply with its keys. An inbound's protocol and
security may be ones the client does not know: the V2Ray builder then takes them for VLess
and none (`Spoken`), which the outbound remembers as `guessed`. `Built` is what the
builder of each protocol makes of a reply or throws at, `AppAccepts` is
`config-guard.ts`, `HelperAccepts` is `guard.go`, `DeviceAccepts` what
`amneziawg.go` translates. `saved` is the stored configuration, `active` the one a
bring-up amended: names pinned to an address (`cache` is `lastResolvedIpByHost`,
`dns` what the names resolve to now), the user's resolver, the DNS rules of a
core. `route` and `armed` are the address routed around the tunnel and the one the
kill switch lets through. Drops, retries, crashes and the next launch's heal are
those of the other models, without their concurrency: this module is about data,
one session and one job at a time. A configuration is the fields the guards and
the bring-up tell apart, not text.

### 2.8 How the modules fit

ConnectionLifecycle, Firewall and TunnelConfigs model the same bring-up: the first
with all of main's concurrency and a helper that obeys, the second with a helper
that does not and two threads, the third with the data. Their common actions
(connect, drop, stand-down, disconnect, crash, heal) are translated from the same
lines. Purchase is where a session comes from; TunnelConfigs begins at the
handshake Purchase takes as a choice. WalletStore keeps the active wallet that
Purchase switches. ProviderConsole's answered calls are what PlanNodes begins with.

## 3. What is checked

All passing runs are exhaustive. Numbers are distinct states.

| Run | Instance | States | Shows |
|---|---|---|---|
| `lifecycle` | 1 session, 1 retry, 4 requests (root family) or 3 (child), 2 waiting jobs | 6.3 M | every interleaving of requests, ladder, monitors, exits, give-up, toggles |
| `liveness` | 1 session, 1 retry, 3 requests (root), 1 (child), 2 waiting jobs, with fairness | 0.24 M | endings carried out, drops noticed, ladders end |
| `purchase` | 2 wallets (symmetric), 2 purchases, 3 candidates, 2 ladder transactions, 1 handshake retry, 1 session ended by hand | 2.2 M | money and signers; refinement of PaidSessions |
| `firewall` | a wireguard and an xray node, 2 requests, 1 exit or crash, 2 waiting jobs | 2.1 M | protection, markers, resolver across failure and restart |
| `endpoints` | 2 endpoints, either may redirect to the other, 5 readings, 2 events, with fairness | 1.1 M | choices kept, the pill true in the end |
| `wallets` | 2 phrases, 2 paths, 3 wallet ids, 3 launches, any write cut | 0.5 M | seeds kept, and gone when asked |
| `console` | 1 node, 2 prices, 2 calls, 1 move of the world, with fairness | 0.6 M | leases as checked, calls ordered and answered |
| `plannodes` | 2 plans (symmetric), 1 node, 1 read at a time, lifetime 1, 1 call | 1.5 M | no list outlives its lifetime; one without an answered call's change is of a read under way at the answer |
| `configs` | 2 names, 2 addresses, 1 record a name, 9 inbounds, replies of up to 2, kill switch and a resolver set | 0.3 M | what is paid for starts, on the address let through |

`CHECK_DEADLOCK FALSE` stands where a behaviour may really end: nothing up and
nothing requested any more, or the bounds used up. Purchase and TunnelConfigs have
no such state and are checked for deadlock.

### 3.1 Properties

Lifecycle:

* `NoResurrection`: after an ending, once the lock has drained, no interface and
  no core is up, whatever connects, retries, exits and timers were in flight.
* `EndingIsInCharge`: why. It is the inductive invariant of section 5, as a property.
* `ProtectionIsHonest`: with the setting on, a full tunnel has its chain marked as
  armed or the user is told it has not.
* `TunnelIsSupervised`: the clock runs over every tunnel, the monitor over every full one.
* `AttemptIsBacked`: an attempt that is counted, which refuses every connect, keeps a
  timer or a retry of the present lifecycle to end it. One step alone is excepted: a
  retry that finds the session torn down under it returns and leaves the count
  (observations and 3.2).
* `EndingIsHonoured`, `DropIsNoticed`, `LadderSettles`: liveness, with a `~>`.

Purchase:

* `PlanPaidOnce`: one smart-connect request pays a plan's price again, counting
  transactions that may still land, only behind a purchase whose answer gave no
  subscription's id. `LadderNeverStacks`: it broadcasts only when
  every earlier session of the request is over on chain.
* `OneTxAtATime`: while no wait was given up on, a request never has two
  transactions of one account in the pool, which would carry one sequence number.
* `CancelSignedByOwner`: refunds and manual cancels are signed by the account that
  bought, in spite of wallet switches. `ChainStaysManageable`: both hops of a
  delivered chain stay listed and cancellable by their owner.
* `KeepsPromise`: refinement of `PaidSessions`: when a purchase has answered, at most one
  transaction of it, the one whose outcome could not be read, holds money nobody was told of.

Firewall:

* `MarkersAreHonest`: a chain that may drop traffic, and a resolver not the
  user's, are marked on disk for a later launch.
* `ResolverIsRecoverable`: while the resolver is ours the backup holds the user's.
* `ProtectedOrTold`, `LanIsAsSet`: once jobs and verbs are through, the chain is
  what the settings say, or the notice is up, if none of the four events happened.
* `EndingOpensOrTells`: a disconnect, or a healing launch, that ends has opened the
  machine or says it has not, whatever became of the setting and the tunnel meanwhile.

Endpoints:

* `ManualIsUsers`: with the automatic choice off, the endpoint is the one the user
  last picked or kept: a selection whose probes come back late changes nothing.
* `PillNamesThePath`: once the monitor was told of the path and no probe is out, the
  pill blames tunnel or kill switch exactly while they have the path.
* `SelectionSettles`: a selection repeated over the same readings changes nothing.
* `PillConverges`: left alone, the pill comes to tell the truth and stays with it.

Wallets:

* `WalletsHaveSeeds`: whatever write the process dies after, a listed wallet has its
  own seed file, which gives the address shown.
* `OneEntryPerAddress`: once started, no address is listed twice, but for the wallet
  migrated from the single-wallet format.
* `SeedsStay`, `RemovedIsGone`: a stored seed stays usable until its removal is asked
  for, and not after, whatever is killed when; excepted are a "Keep seed" cut in two
  and a merge made without the keyring (observations).

Provider console and plan lists:

* `NeverPaysMoreThanChecked`: no lease takes a larger deposit than the one whose
  funds were checked, though its price moves. `CollisionsAreLate`: two transactions of
  the account meet only when one was made elsewhere or its call already answered.
  `CallsEnd`: every call is answered; the lock is never left held.
* `ServedIsRecent`: what main answers from memory instead of asking the chain was on
  chain less than a lifetime ago. Behind a tunnel, and after a read that failed, it answers
  what it has at any age. `ReturnsDropOldLists`: after a call is answered, a kept list that
  lacks its change is of a read that was under way at the answer, or was asked for after an
  answer that could not say the transaction landed. What changes a plan's list is taken
  from what the transaction does on chain (`Changes`), not from what the code invalidates.
  `CatalogListIsOfThePlan`: the catalog's pane shows the plan it is open on.

Configurations:

* `WhitelistIsDialled`: while up, the address let through the kill switch and the one
  routed around the tunnel are those the core dials. `ReconnectNeedsNoDns`: a session
  that has carried traffic in this run is not refused for want of an address, although
  its retries run behind a closed chain. `PaidConfigsStart`: what was paid for and
  stored passes every later guard and the device, two forms aside that the builders let
  through and something later refuses (`Unforeseen`); and of it an outbound is cleartext only
  where the V2Ray builder guessed. `DnsThroughTheNode`: DNS over
  HTTPS reaches the DNS module and leaves by the node, and no other routing moves.

Every property of every passing run has a mutant of the mapped code in
`PROJECT.json` (a dropped guard, a missing reset, an off-by-one, a swapped order)
under which TLC finds the property violated in the same instance.

### 3.2 Why the bounds are enough

Lifecycle. The bad orders need at most three parties at once: a job that holds
the lock, one that waits and one callback; two waiting jobs and three or four
requests give one more than that (a purchase, a connect, a disconnect and a
reconnection). The one step `AttemptIsBacked` excepts needs four requests of a child
protocol or five of a root one. Three waiting jobs give 9.4 M states, run to the end as
well. One retry already has the ladder's both ends, as `MaxAttempts` appears only as the
limit. Every property of the run is then proved without these
bounds.

Purchase. Two sessions are the least at which a ladder has an earlier purchase, a
chain has two hops and a refund races a purchase; two wallets are the least at
which a switch matters; three candidates let a candidate be skipped before a
second is bought and one be left over after it. One session ended by hand lets an end
race the refund, or precede the delivery, of either; with two the run has 8.7 M states and
was run to the end as well.

Firewall. Two requests and one exit give connect, crash, heal; connect, toggle,
disconnect is given by three requests and no exit, which was run to the end as well
(11.2 M states, all properties hold) and is the bound of `finding_silent`. Two kinds
of node differ in the two things that matter: whether the interface outlives main,
and who brings the DNS.

Endpoints. Two endpoints are the least that can flap; two events put a choice or a
change of path before and inside a run or a probe. The readings have one of each
class, one beyond the margin and one behind the chain. `SelectionSettles` is proved for
all readings.

Wallets. Three ids allow two wallets of one phrase and one of another, or an original,
its duplicate and an import; three launches allow an operation cut, a merge cut and a
launch after both. Two paths tell an import from a derivation.

Console and plan lists. Two calls are the least that collide; one move of the world
puts a price between check and payment. One read, one call and a lifetime of one tick
let every pair of read, write, answer and expiry come in both orders; the three
properties are proved for any number of each.

Configurations. Two names and two addresses let a name move to another's address; two
inbounds let a good one come before or after a refused one; two of the nine are of a
protocol or a security the client does not know. The lists have an
IPv6 address first or none, and the keys are padded, unpadded or short, so that
both forms `PaidConfigsStart` excepts are stored and refused. One record a name is the
limit of what holds for V2Ray: with two, `LookupsAgree` fails (section 4); that
`WhitelistIsDialled` holds for every other core with any number is proved. The
configuration has the kill switch on, a resolver chosen and signed nodes only, the settings under which
the properties ask most.

### 3.3 Fairness

Three runs assume any. `liveness` (`FairSpec` of ConnectionLifecycle):

* `WF(LockStep)`: a job that holds the lock goes on. Its awaits end: spawns and
  probes have time limits, and so has every helper call, the password prompt of
  pkexec included (60 s, `main/helper/privileged.ts`).
* `SF(GiveUpRevert)`, `SF(GiveUpUndo)`, `SF(TimerFires)`: an await that was answered
  and a timer that is due run in their turn of the event loop. Strong, because
  other actions may take the enabling state away and give it back between: a
  timer waits in the model while `MaxWaiting` jobs do.
* `WF(MonitorTick)`, `WF(QuotaTickDropped)`: intervals go on firing.

`endpoints` (`Fairness`): weak for the poll, the path timer, the steps of a probe and of a
run, and the banner's answer, all of which have time limits in the code;
`SF(ConfirmFires /\ ~InFlight)`, because a confirmation that fires while an ordinary
probe is out is lost, but the poll comes every 30 s and a confirmation 2.5 s after a
probe of at most 10 s, so not every one can be.

`console` (`FairSpec`): weak for each call's handler. Its queries and its poll are
bounded, and the lock goes to the next in line.

Users, quotas, routes, exits, drops and the chain owe nothing. The other modules state
safety only.

## 4. Disagreements between the code and what it says

Each is a run in which TLC finds a documented claim violated; `PROJECT.json`
quotes the line.

| Run | Claim | What happens |
|---|---|---|
| `finding_tracked` | one connection at a time, enforced in main (`docs/invariants/reliability.md:19`) | a purchase begun earlier tracks its session over a connection made meanwhile |
| `finding_silent` | never silently unprotected (`main/ipc-handlers.ts:174`) | a removal that ran unconfirmed keeps the marker, which makes the next arming a no-op, with no notice |
| `finding_resolver` | a user who named a resolver gets that one and nothing else (`main/vpn/connect-decisions.ts:283`) | an automatic retry brings the tunnel up on the node's own list |

Seventeen more claims are definitions of the modules that no run lists, each false of the
model: add one as INVARIANT (or PROPERTY where it has a box) to the module's passing
configuration to see the trace.

| Definition | Claim | What happens |
|---|---|---|
| `GiveUpSparesConnections` | teardowns never bypass the lock (`reliability.md:16`) | the ladder's give-up tears down outside it and takes down a tunnel built since |
| `LadderGivesUp` | the ladder gives up (`main/ipc-handlers.ts:2152`) | a core that dies as it starts advances the ladder twice; the give-up resets the count and the second trigger starts from 1 |
| `UsageIsRemembered` | usage is remembered before the clock stops (`:4217`) | `teardownToIdle` (`:2000`) stops the clock without remembering |
| `CoresAreTracked` | failed attempts do not leak cores (`:2145`) | a retry asked for by the route check spawns over the live core (`vpn-manager.ts:570`) |
| `ToldIsListed` | "cancel it manually" on the Session tab (`connect-decisions.ts:102`) | an exit hop from a second wallet is not listed until the chain is finalised (`chain-service.ts:203`) |
| `CommittedPlanIsRidden` | from the moment a plan's purchase commits, every further attempt rides it (`plan-connect.ts:127`) | the answer may lack the subscription's id (`plan-service.ts:624`), which `ipc-handlers.ts:3983` then leaves unset: the next rung pays again |
| `FailureNamesItsMoney` | refund on any failure (`reliability.md:8`) | a purchase that succeeded without its session's id (`plan-service.ts:614`, `chain-service.ts:391`) or whose poll failed (`tx-utils.ts:89`) is neither refunded nor named |
| `ChainIsMarked` | the marker finds a chain after a crash (`vpn/kill-switch.ts:9`) | the healing launch, outside the lock, clears the marker of a chain being armed (`index.ts:335`) |
| `FaultsAreConfirmed` | a fresh fault is published on the second probe only (`rpc-monitor.ts:167`, `rpc-health.ts:103`) | `needsConfirmation` compares states, not endpoints (`rpc-monitor.ts:193`): a fault of the old endpoint stands for the new one's first |
| `MergeKeepsACopy` | a merge keeps the copy that opens (`settings.ts:405`) | without the keyring it keeps the oldest and deletes the working one (`:431`) |
| `LockedComesBack` | import the same phrase again (`WalletPicker.tsx:214`) | the import of a locked wallet's phrase is refused as a duplicate (`settings.ts:217`) |
| `TimeoutStaysATimeout` | past the timeout height a timeout stays one (`provider-console.ts:573`) | polling ends at 60 s, thirty blocks may not have passed; `ipc/provider.ts:292` says so |
| `ProviderListIsOfThePlan` | "Nodes serving one plan" | the late answer of the plan opened before is shown under the next (`PlanNodesManager.tsx:67`) |
| `OldAnswerDropped` | a failed call drops the lists as well, as it may still land (`ipc/provider.ts:292`) | a list read between the answer and the landing is served for ten minutes |
| `RereadIsNew` (a PROPERTY) | the re-read after our own link must not get the old answer (`ipc/provider.ts:290`) | a read under way at the answer keeps its old list after the invalidation and before the re-read, which is then answered with it |
| `V2RayIsEncrypted` | a node that offers an acceptable inbound is never connected over a VLess-none one (`config-guard.ts:826`) | an inbound of an unknown security is acceptable, by choice (`:809`), and `v2ray-config.ts:77` writes `none` for it |
| `LookupsAgree` (with `MaxRecords = 2`) | the address pinned is the one routed (`config-guard.ts:313`) | several outbounds of one name get different records of it; one is routed and let through (`vpn-manager.ts:311`) |

### Observations no run states

Met while modelling, without a claim of the repository that a run could quote, or
with the model's limits in between:

* Lifecycle. A connect queued behind a disconnect builds a tunnel with no session
  tracked (`ipc-handlers.ts:3314` against `:1833`). The body of a connect never
  reads the epoch (`:3316`; the comment at `:4214` has it bail). `lastExpiry` is
  cleared at `:3325` before a bring-up that may fail, which leaves blocked traffic
  unexplained. A retry that fails its probe opens the chain in the middle of the
  ladder (`:984`). A retry dropped for want of a session (`:2072`) leaves its
  attempt counted. v2ray, and wireguard with the system's DNS, prefer the stashed
  configuration (`:3340`, `:3397`) to the one the renderer chose.
* Purchase. A chain whose purchase timed out, and then lands, is never refunded,
  only told of (`:1559` against the comment at `:1489`). A wallet switched during a
  single-hop purchase (`:2556` allows it) leaves a session file without an owner
  under a wallet that did not buy it. A chain's handler reads the active wallet
  again after awaits (`:2998`); that it is harmless is due to the zeroed key, which
  is what `CancelsAreSigned` proves.
* Firewall. A re-arm replays the endpoint this run armed last, which after a failed
  arming of another session is not the tunnel's (`:1763`). `KillswitchOff` discards
  its iptables errors (`killswitch.go:159`) and `DnsRestore` makes a failed copy a
  warning (`dns.go:79`), while main clears its marker on success: this is `quiet`.
  A post-connect clears `killSwitchTeardownFailed` (`:1653`) while an old chain may
  stand, and `killSwitchFailed` (`:1652`) while the marker of the arming that failed
  does: with the setting off by then nothing is armed, and switching it on later takes
  that marker for the chain (`forgotten`). After a crash without the kill switch a DNS override is undone only by the
  next teardown. A backup whose removal failed is kept, and a later session restores
  that older one.

* Wallets. A kill between the index and the retained id of "Keep seed" leaves a seed file
  nothing refers to (`settings.ts:327`); a kill between a derivation from the retained
  seed and its clearing leaves the retained id beside stored wallets, against
  `settings.ts:86`. The wallet migrated from the single-wallet file can be imported again
  before its address is known (`wallet.ts:124`), and is then listed twice. A switch saves
  the choice before it reads the seed, so one that does not open leaves the keys of
  another wallet in memory (`ipc-handlers.ts:2711`). The clipboard's clearing timer is
  cancelled when its screen closes (`MnemonicInput.tsx:28`, `WalletsTab.tsx:266`).
* Endpoints. `resolvedBases` is never invalidated (`chain-clients.ts:45`): an endpoint
  that redirects elsewhere later is still called where it redirected first. Dismissing
  one endpoint's banner silences the next one's.
* Provider. The funds check reads the balance of the wallet active at that moment and
  lets pass what it cannot read; a purchase of the same wallet does not take the console's
  lock. A quote the user confirmed is read again when the lease starts. After a wallet
  switch the tab shows the former provider for one refresh, against `useProvider.ts:58`.
* Configurations. `guard.go:7` says the two guards accept and reject the same inputs:
  an unpadded base64 header key passes the application's and not the helper's, after it
  was paid. The WireGuard builder and guards check only the alphabet of the peer's key,
  so that a malformed one is refused by the device, after it was paid (`PaidConfigsStart`
  asks the device of AmneziaWG only). A Hysteria2 reply that lists an IPv6 address first
  is refused by the guard (`config-guard.ts:402`) after it was paid. `PaidConfigsStart`
  excepts the first and the last by name, as `Unforeseen`. A name not pinned at the connect and resolved a moment later gives a tunnel whose
  core must look it up through itself, and the probe fails.
* Nodes. A batch of tests cancelled while in flight shows its progress bar again, and for
  good (`node-tester.ts:297`, `useNodeTest.ts:76`).

## 5. What is proved

Eight modules hold 40 theorems and the lemmas they rest on, all checked by TLAPS
for every value of the constants that meets the assumptions.

| Theorem | Module | States |
|---|---|---|
| `TypeCorrect` | ConnectionLifecycle_proofs | `TypeOK`; the attempt counter never passes its maximum |
| `EndingStaysInCharge` | | `EndingIsInCharge` |
| `TornDownStaysDown` | | `NoResurrection` |
| `TunnelsAreSupervised` | | `TunnelIsSupervised` |
| `ProtectionStaysHonest` | | `ProtectionIsHonest` |
| `AttemptsStayBacked` | | `AttemptIsBacked`, an action property |
| `TypeCorrect` | Purchase_proofs | `TypeOK` |
| `PlanIsPaidOnce` | | `PlanPaidOnce` |
| `LadderIsSequential` | | `LadderNeverStacks`, an action property |
| `PurchaseKeepsPromise` | | `KeepsPromise`: Purchase implements PaidSessions |
| `TransactionsAreSequential` | | `OneTxAtATime` |
| `CancelsAreSigned` | | `CancelSignedByOwner` |
| `ChainsStayManageable` | | `ChainStaysManageable` |
| `TypeCorrect` | Firewall_proofs | `TypeOK` |
| `ResolverStaysRecoverable` | | `ResolverIsRecoverable` |
| `MarkersStayHonest` | | `MarkersAreHonest` |
| `EndingsOpen` | | `EndingOpensOrTells`, an action property |
| `ProtectedStaysTold` | | `ProtectedOrTold` |
| `LanStaysAsSet` | | `LanIsAsSet` |
| `TypeCorrect` | Endpoints_proofs | `TypeOK` |
| `ManualEndpointIsKept` | | `ManualIsUsers` |
| `PillIsOfThePath` | | `PillNamesThePath` |
| `SelectionsSettle` | | `SelectionSettles`, for all readings of all hosts |
| `TypeCorrect` | WalletStore_proofs | `TypeOK` |
| `ListedWalletsOpen` | | `WalletsHaveSeeds` |
| `AddressesStayUnique` | | `OneEntryPerAddress` |
| `StoredSeedsStay` | | `SeedsStay` |
| `RemovedSeedsAreGone` | | `RemovedIsGone` |
| `TypeCorrect` | ProviderConsole_proofs | `TypeOK` |
| `LeasesAreAsChecked` | | `NeverPaysMoreThanChecked` |
| `LockPreventsCollisions` | | `CollisionsAreLate`, an action property |
| `TypeCorrect` | PlanNodes_proofs | `TypeOK` |
| `ServedListIsRecent` | | `ServedIsRecent`, for every time to live |
| `AnswersDropOldLists` | | `ReturnsDropOldLists` |
| `CatalogShowsItsPlan` | | `CatalogListIsOfThePlan` |
| `PaidConfigsAreStartable` | TunnelConfigs_proofs | `PaidConfigsStart`, for every list, inbound and key a reply may carry |
| `ReconnectsNeedNoDns` | | `ReconnectNeedsNoDns` |
| `OneAddressIsDialled` | | `WhitelistIsDialled`, if a name has one record at a time |
| `OneRemoteIsDialled` | | `WhitelistIsDialled` of every core but V2Ray's, for any number of records |
| `DnsLeavesByTheNode` | | `DnsThroughTheNode` |

**Assumptions.** `ConstantsAssumption`: no session is the null session, the bounds are
naturals, at least one job may wait. `WalletsAssumption`: there is a wallet, and
none is called as the two non-wallet marks are. `HostsAssumption`: the node kinds
are sets of nodes. `BoundsAssumption` (Purchase, Firewall): bounds are naturals,
positive where a bound of zero would have no program. `EndpointsAssumption`: the
application's endpoints are hosts, the readings are readings, the feed says one of
three things of each. `WalletStoreAssumption` and `SeedsAssumption`: path 0 exists, two
ids may be given, no phrase is the mark of an absent one. `ConsoleAssumption` and
`OpeningsAssumption`: prices are positive, and no lease is the console's before it
has called. `PlanNodesAssumption`: a list lives for some time, and the null value is
no plan or node. `ConfigAssumption` and `ReplyAssumption`: names, addresses and the marks are told
apart, addresses are finitely many, replies are made of the parts the parsers accept. All
are evaluated by TLC in the passing runs.

**Lifecycle.** `NoResurrection` speaks only of a drained lock, so nothing follows
from it for the next step. The invariant the code keeps is that an ending leaves
nothing behind it that can raise a tunnel, or leaves it in front of a queued
teardown: `JobMatchesAwait` (the await is one of the job's), `EpochsArePast` (no
timer or retry carries a future epoch, so that raising it outdates them all),
`LadderIsDisarmed` (no timer, no retry of this epoch, later drops ignored),
`TeardownIsBehind` (a connect queued or a bring-up running has a teardown queued
behind it), `CarryingIsDoomed` (so has whatever is up). Each is preserved action by
action; `NoResurrection` is `CarryingIsDoomed` with an empty queue.

The other three speak of a drained lock as well, and are shown at every rest of it
whatever is queued. `SupervisionInv`: each family has its own tunnels and awaits, a core
runs in the mode of the job that spawned it, and whenever no bring-up or teardown is at
work what is up has its clock and monitor. `HonestInv`: a tunnel at rest, or at its probe,
has its chain, the warning, or a firewall job in the queue, because a setting changed
after it was read always left such a job behind it. `LadderInv`: a timer is of the
present lifecycle, an ending leaves no attempt, a retry has a session, and a retry that
gives its bring-up up has scheduled the next one already.

**Purchase.** The ladder goes on because a refund was confirmed; that is reported
only by a call that succeeded; which only a session that is over allows. `OnChain`
states this chain of facts and `Ladder` what each position of the handler knows
of the request's earlier transactions; `Fresh` that transactions not yet broadcast
have left no trace; `PlanFirst` that a plan is bought behind another only if that one was `idless`. The
refinement rests on `Answerable`: a session that is live, or whose transaction may still land, is
known to the user or in `unread`, or the handler at work awaits its confirmation or holds
it in `paid`. A refund ends with every paid session over or stranded, and the stranded ones
are told, so when the handler answers, what is left is known, or was never read; and that is
one transaction at most, because nothing is broadcast behind it (`AtMostOne`). A step of the
handler then maps to `Work`, which tells of sessions and may miss one, a transaction that
lands to `Lock` or `Return`, a request to `Begin`, and all else to a stutter. For the signers, `Owners` adds that
the wallet is the payer's while the key is unwiped (`Unswitched`), that a chain's
recorded ids are right or the key is wiped and nothing will be recorded (`Ids`),
and what the files hold (`Recorded`). For `OneTxAtATime`, `TxInv`: without a wait given
up on, a purchase in the pool is the one being awaited, a cancel in the pool is of a call
still at work, and a refund's is that of the least session not yet settled.

**Firewall.** `Inv` adds to the types that a call in flight is one of the verb its
thread stands at, that a verb in the queue with an owner is the one its owner waits
for, and that only a thread with a job is at a step. `ResolverIsRecoverable` is
inductive once the backup is known never to hold our own resolver (`Recoverable`).
`MarkersAreHonest` needs `MarkerInv`: as long as neither an overlap nor a quiet
failure happened, one thread works at a time (`Alone`), the verb waited for is the
last of the queue (`InLine`: verbs of callers that gave up are before it), what is
installed or about to be is marked (`Marked`), and a removal being reported is done
with nothing in the queue to undo it (`Removed`). `CourseInv` adds which jobs reach which
steps, that a chain asked for names its node, and when a session is tracked.
`EndingOpensOrTells` then needs that past the chain's removal there is neither a chain
nor an arming in the queue, or the notice is up (`OpenInv`). `ProtectedOrTold` and
`LanIsAsSet` need `ToldInv`: a reported arming stands with nothing in the queue to undo it
(`Installed`); a marker no job is at work on has its chain or its warning, since
`reapplyFirewall` takes the marker for the chain (`MarkerTold`); a healing launch has
nothing to protect (`Launching`); and what a job read of the settings is still so, or a
firewall job waits behind it (`Following`).

**Endpoints.** `PillNamesThePath` says nothing of the moments while a probe is out,
so `PathInv` adds that even then the pill never blames what does not hold the path;
`ManualIsUsers` is kept because the run looks at the mode again after its probes.
`SelectionsSettle` needs no invariant but the shape of a pass: it is a fact about
`PickAuto`, that the endpoint it picks is within the margin of every other one it
could pick next.

**Wallets.** Each operation is a sequence of disks, and a crash leaves any of them, so
the lemmas are about what one write may do: `Trimmed` (entries and their own files go),
`Removes`, `Keeps`, `Drops`, `Grows`, each shown of the writes that make it and each
shown to keep `DiskOK`, which is `WalletsHaveSeeds` with unique ids below the next one
and a retained seed of no listed wallet. The history properties are not inductive alone:
a seed stays because what a removal loses is what only the removed wallets held
(`OnlyFacts`), and none returns because no copy is hidden. Where copies can hide is the
rest of `Core`: the single-wallet file is there only beside its migrated copy and until
the store is first read (`SingleInv`); no seed is retained beside wallets but one a
crash left (`KeptInv`); what a job in flight will write is still what the disk calls for
(`JobInv`); an entry without an address is the migrated one (`BlankInv`). That the merge
at start keeps a copy that opens (`Survives`) rests on a least id of a set of ids
existing, which is well-founded induction on the naturals.

**Provider console.** `LeaseIsChecked` bounds every lease the console made by the deposit
its call had checked; it needs that only a signed call has a transaction
(`PoolIsSigned`) and that the transaction's price limit is that deposit
(`MaxIsChecked`). `CollisionsAreLate` follows from `PollsUnderLock`: what is polled is
polled by the head of the lock's queue.

**Plan lists.** `ServedIsRecent` needs that a read is stamped before the chain answers it
(`ReadsAsked`), and that a cached list keeps that stamp (`EntriesAsked`).
`ReturnsDropOldLists` speaks of what a transaction changes on chain; that the code drops
the lists of every plan so changed is `DropsCoverChanges`. It needs that a good answer
means a transaction that landed (`OkLanded`), so that a read asked for afterwards sees it
(`ReadsSee`), and that an entry without it was kept after the answer (`KeptSee`).
`CatalogListIsOfThePlan` needs that the reads the pane still
listens to are of the plan it is open on (`ListensToItsPlan`).

**Configurations.** `Stored` is what the builders guarantee, shown for each protocol's
builder and for any reply: the type of every field, one address for all the host dials
itself, one of three routings, the guards' conditions, and that a cleartext outbound was
guessed, the known cleartext inbounds having been dropped. Pinning and amending a stored
configuration keep all but names and DNS (`Runs`), and a name that became an address is in
the resolver's memory. That memory only grows, and once a session was up it holds every
name the session dials (`AddressInv`), which is `ReconnectNeedsNoDns`. `DialledInv`: if
the host dials one address, route and chain were built for that one. Where a name has one
record at a time pinning gives every outbound the same; with more it does so where only
one outbound is dialled by the host, which is every core but V2Ray's. V2Ray's inbounds are
looked up one by one, and `LookupsAgree` shows them differ: hence the theorem's hypothesis.
`DnsThroughTheNode` is a computation over the first rule that matches, of the two routings
with the two DNS rules put before or into them. That the accepted inbounds of a reply are
selected in order, and that a first or least one exists, are lemmas about least elements
of sets of naturals, by well-founded induction.

Each strengthening was first checked by TLC as an invariant of the run's instance.

**Only model-checked.** Liveness under fairness (`EndingIsHonoured`, `DropIsNoticed`,
`LadderSettles`, `PillConverges`, `CallsEnd`), which is beyond this prover, as induction
over data is (no module needs it, and none uses a RECURSIVE operator). Every safety
property of every passing run is stated by a theorem.

## 6. What is not modelled

* Text: how configurations, handshakes and helper messages are written and parsed,
  and the wording of errors. TunnelConfigs has the fields the guards and the
  bring-up tell apart; the repository tests the text on corpora.
* Node directory and probes (`main/nodes/*`): lists fetched, filtered and cached, and
  tests of nodes whose results only the views use.
* System setup (installing the helper, packages, polkit rules): one-off, sequential, and
  in the hands of the package manager.
* Diagnostics: read-only.
* IPC door and preload: a pass-through; what they let in are the models' inputs.
* Packaging and scripts: build time.
* The renderer but for its wallet, plan, provider and endpoint screens: views, whose
  calls are free inputs of the models.
* Forms that build one transaction and read-only queries, which change no state.

## 7. Plan

Order of importance; the first eight stand.

1. `ConnectionLifecycle`: done. To add: multihop's second session.
2. `Purchase` implementing `PaidSessions`: done, checked and proved.
3. `Firewall`: done, checked and proved. To add: liveness of a launch (a marked chain is
   eventually open or told of, if the helper answers), and the reconnect ladder composed
   with the helper's failures.
4. `Endpoints`: done. 5. `WalletStore`: done. 6. `ProviderConsole`: done.
7. `PlanNodes`: done, on the answered calls of 6. 8. `TunnelConfigs`: done.
9. `Usage`: `evaluateQuota`, the floor a session's remembered usage sets under the
   chain's figure, `prunableUsageIds`, across restarts. Abstract specification: the
   usage shown never goes down while a session lives, and is never above what ran.
   To prove: the floor is monotone.
10. `PrivilegedDoor`: the daemon's mutex, the lock file it shares with the one-shot
    helper, the read-only verbs that take neither; implements the one-verb-at-a-time
    queue that Firewall assumes, by refinement.
