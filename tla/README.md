# A specification of esp-embedded

TLA+ modules, TLC configurations and TLAPS proofs for the Rust crates of this
repository: reusable parts of ESP32 firmware (Wi-Fi with a saved configuration,
a flash key-value store, sessions, login, OTA, small network services).  Paths
are relative to the repository; `config.rs` is `esp-wifi/src/config.rs`,
`tasks.rs` is `esp-wifi/src/tasks.rs`.

Check a model with `tlc -config MCWifiNetworks.cfg MCWifiConfig`, the proofs with
`tlapm WifiConfigProofs.tla`.

## The system

| Component | State | Operations | Talks to |
|---|---|---|---|
| Flash key-value store, `esp-persistent-config` | items under `u8` keys, a mutex over each `store`/`fetch` | `init`, `store`, `fetch`; adapters that share one flash; `define_config!` | sequential-storage, the flash driver |
| Wi-Fi configuration, `config.rs` | RAM mirror (flags, strings, a list of at most N networks), seven scalar keys and two keys per network in flash | `init`, the readers, the setters, `configure_ap`, `add_`/`add_and_connect_`/`remove_sta_network` | flash store; raises three signals |
| Connection loop, `tasks.rs` | `net_idx`, `ConnState`, the radio controller | one loop over `select4`, `apply_ap_reconfig` | reads the configuration, takes the signals, drives the radio |
| Driver, `driver.rs` | none after start-up | `WifiDriver::init` starts the radio and the stacks | radio, configuration |
| Sessions, `esp-session-mgmt` | N slots of `Option<Record>` under a mutex | `load`, `save`, `delete`, `exists`; cookie texts | called by login and `Authorized` |
| Login, `esp-web-utils` | a ring of N nonces under a mutex | `insert`, `verify`, `handle_login`, `Authorized`, `run_ota` | session store, user storage, OTA writer |
| Services, `esp-services` | none, or a library's | DHCP, DNS, mDNS, HTTP tasks | network stacks |
| `esp-system-api`, the macro of `esp-wifi/src/lib.rs` | none | trait declarations, forwarding | |

What is hard here:

* **Power loss.** A network is two items of flash and `remove_sta_network`
  rewrites all slots; the power may go between any two writes, and `init` must
  make sense of what it finds.
* **Partial failure.** A write may fail after others have succeeded; the radio
  may fail to stop, to be configured or to start.
* **Two copies.** The mirror and flash are changed in two critical sections, so
  are the index of a new network and the list.
* **Signals.** A signal says *that* something changed.  Several may be raised
  while the loop is busy, and each is handled with the configuration as it is by
  then.
* **Cancellation.** A signal cancels a `connect_async` the radio goes on with.
* **Time and capacity.** Sessions and nonces expire, are evicted and overwritten.

What makes each component correct:

* configuration: mirror and flash agree; no saved network is lost, mixed up or
  brought back; the first boot writes the defaults, whole, and only once;
* connection loop: the radio follows the configuration, a station that is off
  stays off, a lost link is noticed, every saved network gets its turn, every
  request is tried;
* sessions: the slots are a bounded map in which a deleted session stays deleted
  and the least active one goes first;
* nonces: accepted once, while young, and not forgotten too early (0 is a special case).

## The modules

| Module | Models |
|---|---|
| `FlashStore` | `store` and `fetch` as single steps on a map that outlives resets |
| `WifiConfig` | `FlashBackedWifiConfig`: `init` write by write, every manager call await by await, resets, power loss |
| `Settings` | abstract: what flash promises of a record of settings |
| `AppConfig` | the code `define_config!` generates, and its refinement of `Settings` |
| `WifiManager` | abstract: what the traits `WifiConfig` and `WifiManager` promise the connection loop |
| `Connection` | `run_connection` of the three builds, `apply_ap_reconfig` and the radio they use, over the manager calls of `WifiManager` |
| `Sessions` | records, expiry and replies, shared by the next two |
| `SessionMap` | abstract: what the `SessionStore` trait promises |
| `SessionStore` | `LruMemoryStore`, and its refinement of `SessionMap` |
| `NonceStore` | the ring of login nonces |
| `Login` | `handle_login` and `Authorized`, composed of `NonceStore` and `SessionStore` |
| `Ota` | one firmware upload, `run_ota` |
| `SharedFlash` | the two flash adapters under `FlashStore`s and uploads, composed of `Ota` and the executors; its stores implement those of `FlashStore` |
| `Dns` | `run_dns` |
| `...Proofs` | theorems about the module of that name; `SharedFlashProofs` has those about `Ota` too |
| `MC...` | values of the constants for TLC |

`AppConfig` and `WifiConfig` EXTEND `FlashStore`, `SharedFlash` EXTENDS `Ota`,
`Connection` EXTENDS `WifiManager`; `Login` takes the two stores by INSTANCE, so its
steps are theirs.  `WifiConfig` and `Connection` meet in `WifiManager`: the first
implements it, the second has it as its environment and takes its signals.

Operators whose name ends in `_Something` and whose comment starts with *Faulty
variant* are mutants: each replaces one definition to show that a property can
fail.  They are not part of any specification.

### FlashStore

`FlashStore::store` and `fetch` hold the mutex of the store throughout, so each
is one step.  The item format below is sequential-storage's, which leaves the
old item in place when an update is interrupted.  `fetch` turns a read error into
`None` (`.ok().flatten()`); `ReadErrors` gives the keys to which that happens.
`store` reports `is_ok()`.

### WifiConfig

`data` and `sta_networks` are `WifiConfigData`; `boot` is where `init` is; `task`
has for each caller the call it is in and where.  A step ends at an await:
`Set` is the store of a setter and `Publish` (or `PublishByReset`) its update of
the mirror and its signal; `ConfigureAp...` are the steps of `configure_ap`;
`AddSta`, `WriteSlotSsid`, `WriteSlotPassword`, `PushSta` and `Connect` those of
an add; `RemoveSta` and the `WriteSlot` steps those of a removal.  Texts are model
values, with one that is empty and one (`TooLong`) that does not fit a
`String<64>`.  The slot keys are computed in `u8` arithmetic, as in the code.

*Who may interleave.*  The flash driver blocks, and no code holds the mirror's
mutex over an await that pends, so on one executor no await of a manager call
pends: a call runs from its first step to its last (`Preemptive = FALSE`), and
only the power can come between.  The mutexes are critical-section mutexes and
the type is documented as thread-safe, which allows callers on executors of
different priority; `Preemptive = TRUE` interleaves them at every await.

*External.*  `PowerLoss` at any step; `TakeSignal`, the connection loop taking a
raised signal.

*Two abstractions.*  `ImplementsManager` is the view of the connection loop
(`WifiManager`): no configuration while `init` runs, one atomic step for a call,
with its signal.  In the mapping a signal is raised from the step that changes what
it announces; `configure_ap` and `add_and_connect_sta_network` raise theirs a step or
two later, which the loop, on the same executor, cannot tell.  `ImplementsSettings`
is the view of flash: each scalar key is a field of `Settings` whose value is its
item, or the default that `init` would write while there is none.

### AppConfig and Settings

`opened` is whether `FlashStore::init` has run on `STORE`, `CONFIG` the record in
RAM, `boot` the place in `init_config` and `task` the setter each caller is in.
`init_config` goes through the fields in the order of the struct: `Fetch`, and for
an item that is not there `StoreDefault`, whose result the code ignores, and
`Apply`.  A setter is `SetStore`, which returns false on a failed write, and
`SetPublish`.  A setter before `STORE` is opened returns false and changes nothing.
Again no await pends on one executor (`Preemptive = FALSE`), and the README's
`main` calls `init_config` before it spawns the tasks.

`Settings` is a record that starts as the defaults and changes by setters only.
The mapping of `AppConfig` takes for `value` what the next boot would load: the item, or the
default while there is none.  A boot is therefore a stutter, and so is a loss of
power anywhere; the step of a setter is its store.

### Connection

`pc` is the await the loop is at: `select`, `pause` (5 s), and `stop`, `configure`,
`start` inside `apply_ap_reconfig`, which returns to `resume`.  The configuration
is read without an await that pends, so `Compute` is `compute_state`, the head of
the loop and the first poll of the `select4` in one: it sets the mode and the
network and starts the attempt, unless a signal is raised already, because
`select4` polls the signals first.  `TakeReconfig`, `TakeToggled` and `TakeRequest`
are the first three arms in the order of polling, `Timeout`, `ConnOk`, `ConnFail`
and `ConnLost` the events of the fourth.

The radio is esp-radio's and external.  `radio` has what the loop's calls set and
what they return: on or off, mode, the access point's settings, the station's
network, the link, an attempt under way, its answer, a pending disconnection.
A cancelled attempt goes on by itself; `connect_async` starts afresh and
discards older events; `set_config` takes effect at once; stopping ends link and
attempt; calls that wait for a radio event return.  A call in `RadioFailures`
may return `Err` and then changes nothing.

The manager calls are those of `WifiManager`: the ones that succeed, with the signal
each raises.  They may come at every await of the loop.

### Sessions and nonces

Methods of both stores are one critical section without an await inside, hence
one step.  The instant a session call works with was sampled before it waited
for the mutex, so it may be up to `MaxDelay` old.  `Reuse` allows `save` to be given
the id of a stored session, as an update would; `handle_login` never does, it
draws a random 64-bit id.  Time is a bounded counter; 64-bit overflow is not modelled.

`insert` is given any number of `Nonces`, `verify` any of `Claims`, which has 0 too:
what a client sends as nonce is its own choice, and 0 is the mark of an empty slot.
The code makes no exception for it.  An empty slot (`lib.rs:78`, or `:94` after a
claim) matches 0 and stays as it is, so `verify(0)` returns true, any number of times,
while the first such slot is young: until 30 s after the boot, or after the issue of
the nonce that was claimed from it.  The properties say so.  `AcceptedOnce` and
`OneLoginPerNonce` are about nonces other than 0, with claims of 0 among the calls;
for 0 they are false of this code, as `NonceStoreZero` below shows.  What does hold
of 0 is in `AcceptedYoung`: never 30 s after the boot and after the last issue.  A
login with 0 still needs the right response.  No text of the repository speaks of
the nonce 0, so this is not among the findings.

### Login

`handle_login` awaits four times, at `UserStorage` and the random source of the
application, which may pend: `Verify` takes the nonce, one handed out or not, or 0,
`ReadUsername`, `ReadPassword` (which compares the response) and `Open`, which saves
the session and sends its cookie.  `Visit` is a request with the extractor `Authorized`: it
takes the first part of the `Cookie` header named `session` whose value is a number
and loads the session.  A response is the hash of three values and is taken for
them.  External: the clients, with one request each at a time, the cookie they hold
and other parts of their header; the credentials, which may change between any two
steps (`ChangeCredential`); the login page that issues nonces.  `seen`, `issues`,
`logins` and `current` are history for the properties.

### Ota and SharedFlash

All flash access goes through one mutex, `FLASH`.  `AsyncSharedFlash` locks it for
each read and each write and waits; `BlockingSharedFlash` tries to lock it and
panics if it cannot.  A `store` is thus two accesses, one that looks for the free
place and one that writes there, inside the mutex of its `FlashStore` (`storage`).
Below is the log of sequential-storage (external): an item written to a place that
is taken spoils both; `fetch_item` finds the last intact item of a key.

`run_ota` receives a chunk, writes it, and at the end of the body finalizes, each
through the `OtaWriter` of the application.  That one is external and modelled
after the README's: a blocking access for `begin_ota`, for each `write_chunk` and
for `finalize`, which makes the partition bootable and resets the device.
`Truncated` lets a body end early as if it were complete.

Who may run: a task runs until it waits or returns (`polled`), and only a task of a
higher executor level preempts it (`layout`).  On one level, tasks come between
each other's accesses only where one waits.  An upload waits for its next chunk
and holds nothing then.

### Dns

`run_dns` answers the first question of a query.  One step is one turn of the loop
over the labels (`Label`, `LastLabel`), or what lies between two awaits: `Receive`,
`Ignore` and `Answer`, `Send`.  `qpos` and `name_len` are the code's, counted from
behind the header; of the header only the outcome of the tests on it is kept.  The
bytes of `name_buf` are only logged and are left out, their number is not: it
indexes the buffer.

## What the runs show

| Run | Question | Bounds |
|---|---|---|
| `wifi_networks` | Are saved networks safe under adds, removals and power losses? `NetworksSynced`, `NetworksDurable`, `ConnectNamesNewest`, `DefaultsOnce`, `TypeOK` | 3 slots, 2 tasks, any order of calls |
| `wifi_write_errors` | Does the mirror stay with flash when writes fail, and does only a call change what flash keeps? `ScalarsSynced`, `ImplementsSettings` | every kind of scalar call, 1 slot |
| `wifi_uninterrupted` | Does the first boot write every default; do pairs stay together; does the loop see single calls? `FirstBootComplete`, `NetworksAsGiven`, `ApPairFromOneCall`, `ImplementsManager` | all variables set, one text too long; 2 slots |
| `app_config` | Is RAM what the next boot loads, and does only a setter change that? `ConfigSynced`, `ImplementsSettings`, `TypeOK` | 3 fields, 2 tasks, write errors, power losses, any order of calls |
| `conn_loop` | Does the radio follow the configuration, and does the device connect? `ApFollowsConfig`, `StaDisabledMeansQuiet`, `NeverSleepsInVain`, `EventuallyConnected`, `RequestTried`, `TypeOK` | 3 manager calls, 1 lost link, 1 failure; one network in reach, one not; three builds |
| `sessions` | Are the slots a bounded map? `ImplementsMap`, `ClosedStaysClosed`, `EvictsExpiredFirst`, `TypeOK` | 3 ids, 2 slots, clock up to 3 |
| `nonces` | Is a nonce good once, while young, and long enough, and 0 only early? `AcceptedOnce`, `AcceptedYoung`, `RecentAccepted` | nonces 0, 1 and 2, ring of 2, 4 insertions, 5 acceptances of each, clock up to 3 |
| `login` | Does a login open one session, for credentials of now; who is admitted, and who is not forgotten? `OneLoginPerNonce`, `LoginIsCurrent`, `AdmittedWhileActive`, `ActiveNotForgotten` | 2 clients, 2 users, 2 nonces and 0, ring of 2, 3 ids, 2 slots, clock up to 2 |
| `shared_flash` | Do stores and uploads share the flash without a panic, a torn item or a deadlock? `NoPanic`, `StoresAreAtomic`, `ActiveIsWhole`, `CallsReturn`, `TypeOK` | 2 tasks, 1 upload at a time of 2 chunks, 4 calls, three wirings |
| `dns` | Does every query leave the server in order, and every question get its answer? `InBounds`, `Answers`, `Serves`, `TypeOK` | up to 5 free bytes and 6 endings; `name_buf` of 3 bytes, buffers of 36 |

Three slots are the least with a first, a middle and a last one to remove; two
suffice for a second slot.  The configurations have no bound on the number of calls:
their state spaces are finite.  Three manager calls give two signals and a change in
the middle of handling them; more add no new pairs.  One failed controller call is
enough, since nothing in the code remembers a failure.  Three ids in two slots
make evictions; a clock of 3 passes both expiry times.  A ring of 2 with four
insertions overwrites each slot twice.

In `login` the lifetime of a nonce and the window of a session are one tick each, so
a clock of 2 passes both; each client may log in several times, with an answer for
either user, to a nonce or to 0, and a third session evicts one.  Issues that overwrite
slots are left to `nonces`.  A login is begun only while an id is left for it (`IdLeft`):
the run has three ids, the code 2^64.  `MCView` leaves out what the stores returned last,
which no later step reads.  In `nonces` the bound on acceptances is above that on
insertions, so that it can hide no second acceptance of a nonce.
The three wirings of `shared_flash` are two stores on one executor, the same on a
level above the uploads, and one store used from two levels.  Four calls are enough
for a call to preempt another or be cut off by a reset while a third waits and an
upload goes on; the second chunk shows a partition written in part.  In `dns` the
sizes are scaled so that the limits are met: two labels fill `name_buf` and the dot
falls on its end, the longest query with an answer exceeds the 36 bytes, and a label
of 255 bytes runs past every query.  What is proved of these modules holds at the sizes
of the code.

`CHECK_DEADLOCK FALSE` stands in the connection runs only, where the loop may sleep
for ever when the station is off.

The runs that TLC must find violated show where code and documentation disagree:

| Run | Property | What happens |
|---|---|---|
| `wifi_defaults_return` | `DefaultsOnce` | the user removes the last network; the next boot writes the default network and enables the station again |
| `conn_boot_ap` | `ApFollowsConfig` | access point disabled, station enabled, nothing saved: the device beacons from boot on |

More counterexamples have a configuration but are not among the runs of
`PROJECT.json`; TLC reports each as violated.  They mark the edge of what the theorems
assume, or a property the code was not written to have:

| Configuration | Property | What happens |
|---|---|---|
| `MCWifiPreemptedSet` | `ScalarsSynced` | two preempting setters leave mirror and flash different |
| `MCWifiPreemptedAdd` | `ConnectNamesNewest` | two preempting adds: the request names the other network |
| `MCWifiSlotWriteError` | `NetworksSynced` | a failed password write leaves an SSID in flash that is not listed |
| `MCWifiApPair` | `ApPairFromOneCall` | `configure_ap` with a password that does not fit returns false and keeps the new SSID |
| `MCWifiEmptySsid` | `NetworksDurable` | an empty SSID is accepted, leaves a hole, and after a reboot an add overwrites another network |
| `MCWifiSlotCut` | `NetworksAsGiven` | power loss inside a slot: SSID of one network, password of another |
| `MCAppReadError` | `DefaultsFillGaps` | a read error is taken for a missing item: the default overwrites the user's value |
| `MCConnIndex` | `ConnectedNamesLink` | after a removal, `Connected(idx)` has the index of another network |
| `MCConnStartFails` | `Reconnects` | one failed start of the radio keeps the device off the network for good |
| `MCSessionDelete` | `ClosedStaysClosed` | a reused id is stored twice; after the delete the session still loads |
| `NonceStoreZero` | `OnlyIssuedAccepted` | the nonce 0, never issued, is accepted right after the boot |
| `MCLoginCookie` | `ActiveStaysLoggedIn` | the browser drops the cookie an hour after the login, however active the session is: `Max-Age` is never renewed |
| `MCSharedTwoStores` | `StoresAreAtomic` | two stores over one region from two levels: one store between the two accesses of another spoils both items |
| `MCSharedHighUpdate` | `NoPanic` | an upload on a level above a store finds the mutex locked |
| `MCOtaTruncated` | `ActiveIsWhole` | a body that ends early without an error is finalized |
| `MCOtaTwoUploads` | `ActiveIsWhole` | two uploads at once: the image that boots has chunks of both |
| `MCDnsMalformed` | `OnlyQuestionsAnswered` | a query whose name runs past its end is answered from where the loop stopped |

### Fairness

* `Connection`.  `WF(Loop)`: a task that was woken is polled by the executor, and the
  timers it waits for expire.  `WF(Resolve)`: the radio answers a connection attempt.
  Nothing is assumed of the manager, of links, or of failures; their number is bounded
  (`MaxChanges`, `MaxDrops`, `MaxFailures`), so every behaviour ends in a part where the
  loop is left alone, which is what `EventuallyConnected` speaks of.  `RequestTried`
  holds during the changes as well.
* `SharedFlash`.  `WF(Caller(t))` for every task and `WF` of the accesses of every
  uploader: an executor turns to a task that is ready, and a mutex wakes who waits for
  it.  Clients need not send the next chunk.  Since calls are bounded (`MaxCalls`), no
  level starves a lower one for ever; the firmware must not let it either.
* `Dns`.  `WF(Serve)`: once a query has come, only the room to send holds the task up.

## What is proved

TLAPS checks these for every value of the constants that the named assumptions
allow.

* `TypeCorrect`: `WifiConfig!Spec => []TypeOK`, with preemption, write and read
  errors and power loss: the list never exceeds its capacity and a connect request
  is always a valid index.  `TypeOK` alone is not inductive: a call in a slot step
  must be an add or a removal, its index below N and its copy of the list short
  enough for the kind of call; no task is in a call while `init` runs.
* `MirrorCorrect`: without preemption and read errors, and with either no write
  errors or no default station network, `Spec => []ScalarsSynced`, whatever power
  losses occur.  The strengthening says, for each place in `init`, which fields
  already agree with flash and which keys are still to be written, and that a call
  about to mirror holds what it stored.  The restriction on write errors is needed:
  `init` ignores the result of its store of `sta_enabled`.
* `SlotKeysDistinct`, `KeysReserved`: the wrapping key arithmetic gives every slot
  keys of its own up to 123 slots, and stays within the reserved 0-49 up to 20.
* `SlotsFollowList`, `SavedStaysSaved`, `RequestNamesNewest`: under `Saving` - no
  preemption, no write or read errors, and no empty SSID, neither as the default nor in
  an add - `Spec => []NetworksSynced`, `Spec => []NetworksDurable` and
  `Spec => ConnectNamesNewest`, for every N, with the power lost at any step.  `NetInv`
  describes a call in the middle: while a removal is at slot i, slots below i hold the
  new list and slots from i on the old one, so every network is in one of them; an add
  writes the first vacant slot, and there is no vacant slot before a taken one
  (`NoHole`), so what a boot reads is the list again.
* `DefaultsNotAgain`: with `Reliable` flash (no write or read errors) and no default
  station network, `Spec => DefaultsOnce`, with preemption and power losses.  A default
  network breaks it, see `wifi_defaults_return`.
* `FirstBootWritesAll`: with `Reliable` flash and no power loss,
  `Spec => []FirstBootComplete`, for every environment.
* `NoMixedNetwork`: under `Saving` and without power loss, `Spec => []NetworksAsGiven`;
  the resets the manager triggers are included.
* `ManagerRefined`: under `Announced` - all callers on one executor, and no
  `configure_ap` that can fail half-way - `Spec => ImplementsManager`, through boots,
  resets, power losses and the takes of the loop.  A `configure_ap` whose second text
  fails has changed the mirror and raises no signal, and two preempting calls can
  change it in the other order than flash; both are left out by the hypothesis.
  `SignalInv` says of a call between its change and its signal that it can no longer
  fail (`FrameInv`), that it is the only one, and that the network its request will
  name is in the list.
* `ScalarsImplementSettings`: with readable flash and no default network,
  `Spec => ImplementsSettings`, for callers on any executors, failed writes, resets and
  power losses.  Every step of `init` must be a stutter: a default is written only
  where flash has no item, which `init` found out some steps earlier and nothing has
  changed since (`GapInv`).  The hypotheses are needed: a read that fails looks like
  an item that is not there, and a default network rewrites `sta_enabled`.
* `ApPairWhole`: with `Reliable` flash, without preemption and power loss, if every
  `configure_ap` is given two texts that fit and no other call sets one of the pair,
  `Spec => []ApPairFromOneCall`.
* `AppConfigProofs`: `TypeCorrect`; with `~Preemptive` and no read errors
  `ConfigCorrect` (`[]ConfigSynced`) and `ConfigImplementsSettings`
  (`Spec => ImplementsSettings`), through write errors and power losses.  `SyncInv`: the
  fields the boot has passed agree with flash, or with the default where there is no
  item because its store failed, and a setter about to publish holds what it stored.
* `ConnectionProofs`: `TypeCorrect`; `LoopNeverSleepsInVain` (`[]NeverSleepsInVain`):
  where the loop waits, what it waits for is under way or a signal is raised
  (`SleepInv`), and an answer of the radio is never of an attempt that was given up
  (`LinkInv`); `LoopKeepsInterface` (`Spec => ManagerSpec`): the loop changes nothing of
  the manager's but the signals it takes; `OffStaysOff` (`[]StaDisabledMeansQuiet`): link and attempt are
  gone wherever the loop is after it has seen the flag (`QuietInv`);
  `AccessPointFollows` (`[]ApFollowsConfig`) under `BootFollows`, which leaves out the
  devices of `conn_boot_ap`: `ApInv` says at each await how far the radio has got.
* `SessionStoreProofs!TypeCorrect`, for every capacity and all saves.
* `EvictsExpired`: `Spec => EvictsExpiredFirst`.  A step that puts another session in
  a slot is a save that found every slot taken and took one of the oldest; of two
  records with one inactivity policy the older has expired if the younger has.
* `OneSlotPerSession`, `DeletedStaysDeleted`: with `Reuse = FALSE`, that is, when
  `save` is given ids that are not stored (`handle_login` draws 64 random bits for
  each), `Spec => []UniqueIds` and `Spec => []ClosedStaysClosed`.  The invariant
  `SessionInv` adds that nothing is held under an id that was deleted; uniqueness is
  what makes clearing one slot enough.  Without the assumption both fail; `MCSessionDelete.cfg`
  shows it of `ClosedStaysClosed`.
* `StoreImplementsMap`: with `Reuse = FALSE`, `Spec => ImplementsMap`.  Each method is
  the operation of the map with the same reply.  As many ids are stored as slots are
  taken (a bijection), so a save evicts exactly when the map is full, and what it
  evicts is one of the map's least recently active.
* `NonceStoreProofs!TypeCorrect`, for every size of the ring.
* `NonceAcceptedOnce`: `Spec => []AcceptedOnce`, of nonces other than 0, whatever is
  claimed, 0 included.  The acceptances of a nonce and the slots that hold it are
  together at most its issues; an acceptance moves one from one side to the other.
* `NonceAcceptedYoung`, `RecentNonceAccepted`: `Spec => AcceptedYoung` and
  `Spec => RecentAccepted`.  `RingInv` counts back from the index: the slot written d
  inserts ago holds the nonce issued then, unless it was claimed or issued again; and
  the time of every slot, which is all that decides on 0, is an issue's or the boot's
  (`SlotTimes`).

* `LoginProofs`, for every number of clients, nonces, slots and users: `TypeCorrect`;
  `NonceOpensOnce` (`[]OneLoginPerNonce`, of nonces other than 0): the sessions opened
  with a nonce, the logins under way with it and the slots that hold it are together
  at most its issues (`SpentInv`); `LoginsAreCurrent` (`LoginIsCurrent`): what a login has read was stored
  after its nonce was verified (`CurrentInv`); `OnlyActiveAdmitted`
  (`AdmittedWhileActive`): a stored session was opened by the user it names and its
  record has its last use (`SeenInv`); `ActiveAdmitted` (`[]ActiveNotForgotten`): an
  opened session is stored, or its hour is over, or as many others as there are slots
  were used since (`KeptInv`).
* `SharedFlashProofs`: `TypeCorrect`; `UpdatesNeverPanic` (`[]NoPanic`) under
  `UpdatesLowest`, no task below an uploader: who holds the flash is being polled
  (`PolledInv`), so an uploader that runs finds it free; `StoresAtomic`
  (`StoresAreAtomic`) under `LevelsShareStore`, tasks of different levels use one store
  object: the place a store has found is still the first free one when it writes
  (`PlaceInv`); `WholeImages` (`[]ActiveIsWhole`) under `OneUploader`, which also
  excludes `Truncated`: an upload has written every chunk it has read (`WrittenInv`).
  `CallsNeverStuck` and `CallsShorten` are the safety half of `CallsReturn`, for every
  wiring, with no assumption on the levels: of those that are polled one is above all
  others and has a step, and when nobody is polled the flash is free and the holder of
  a store waits for the flash only (`StoreHolders`, `BusyInv`); and a call has at most
  nine steps to go, the waits included, which no other task adds to (`Left`).  What
  `CallsReturn` needs besides is fairness.
* `DnsProofs`, for every query and every length of the buffers: `TypeCorrect`;
  `NoIndexPanics` (`[]InBounds`, from `Fits` and `Sized`); `QuestionsAnswered`
  (`Answers`): the loop is always at a length of the name, and after it right behind the
  name (`OnName`); `LabelLoopEnds`: every turn for a query of n bytes leaves fewer turns
  than before, from n + 3 on (`TurnsLeft`), the safety half of `Serves`.

Only model-checked: liveness (`EventuallyConnected`, `RequestTried`, `CallsReturn`,
`Serves`), because the prover cannot reason about fairness and ENABLED here, and that
the violations occur.  For `CallsReturn` and `Serves` the bounded way to go is proved,
as above; `EventuallyConnected` and `RequestTried` have only `NeverSleepsInVain`, since
with a network out of reach the loop has no end to count down to.  Every other property
of a passing run has its theorem, where the run does not exceed the theorem's
assumptions.

## Not modelled

* DHCP, mDNS and HTTP tasks, `net_task`, `log_sta_ip`: set-up and I/O of libraries.
  The mDNS task reads its address once (`mdns.rs:21`); that it may be out of date
  later is known from reading only.
* The delegation macro, and of the traits what the connection loop does not use.
* The network stacks that `driver.rs` configures once.
* Cookie texts except `Max-Age`, hash functions, logging.
* The pages of sequential-storage, their migration and erasure; a power loss inside a
  single write, which that library handles.
* Executors on two cores: levels are those of one core.
* 64-bit overflow of instants.

## Plan

1. `FlashStore`, `WifiConfig`, their runs and theorems: done.
2. `Connection`, its runs and theorems: done.
3. `SessionMap`, `SessionStore`, `NonceStore`, their runs and theorems: done.
4. `Login`, composed of the two stores, its run and theorems: done.
5. `Settings` and `AppConfig`, the refinement and its proof: done.
6. `Ota` and `SharedFlash`, their run and theorems: done.
7. `Dns`, its run and theorems: done.
8. `WifiManager`, implemented by `WifiConfig` and kept by `Connection`: done.
9. `Settings` as the abstraction of the scalar settings of `WifiConfig`: done.
10. `WifiSystem`, one specification with the steps of `WifiConfig` and of `Connection`:
    not done.  By the two theorems about `WifiManager` the loop sees of the calls what
    `Connection` has of them; what they leave out are callers on another executor than
    the loop, which could read a change before its signal is raised.
