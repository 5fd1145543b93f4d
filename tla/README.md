# Verification of icloud-location

TLA+ models of the standalone location tracker in this repository, the TLC
configurations that check them on small instances, and TLAPS proofs of what holds
for every instance. Paths below are relative to the repository.

    tlc -workers 2 -config scheduler_faults.cfg MCScheduler    # check one run
    tlapm SchedulerProofs.tla                                  # check the proofs of one module

## The system

The tracker is a long-running process. Every five seconds a *tick* asks, for each
configured Apple account that is due, where the devices of the family are, feeds
each answer through a pipeline of policies, and saves one JSON file. Between ticks
a host program may pause and resume devices, schedule them, ask for a location
now, or hand in a location from a mobile app.

| Component | State | Operations | What makes it correct | Model |
|---|---|---|---|---|
| Runtime, scheduler (`src/runtime.rs`) | accounts (twice: `self.accounts`, `self.state.accounts`), device records with deadline, pause and error count | `register_account`, `pause`, `resume`, `schedule`, `locate_now`, `ingest_external_update`, `tick`, `run` | backoff is honoured, pauses hold, nobody starves, a failed tick loses no turn, restarts lose nothing | `Scheduler` |
| Runtime, snapshot pipeline (`src/runtime.rs`, `apply_refresh`) | current location, zone, occupancy, events | one snapshot of one device | only good evidence moves a device, zone events agree with the zone | `DeviceTracking` |
| Location quality (`quality.rs`, `state.rs`) | `current_location`, `consecutive_bad_updates` | `evaluate`, `apply_location` | no older sample wins, grace is bounded | `LocationQuality` |
| Zone transitions (`zone_state.rs`) | current and pending zone | `update` | a zone passed through is not entered | `ZoneTransition` |
| Stationary zones (`stationary.rs`) | zones, device → zone, still since | `observe` (`observe_existing`, `reusable_zone`), `move_to_device` (unused) | the records agree, active zones are apart, the list is bounded | `StationaryZones` |
| External sources (`external.rs`) | health per source | `arbitrate`, request throttle | an accepted update is newer; requests are throttled | partly: `LocationQuality!Arbitrated` |
| Configured zones (`zone.rs`) | none | `select`, `closest` | pure geometry | a table in `DeviceTracking` |
| Direction (`direction.rs`), interval policy (`interval.rs`) | direction with its history, last distance and travel time, deadline | `determine_direction`, `determine`, `retry_interval_seconds` | an override cannot feed itself, an approaching device is polled in time | `IntervalPolicy`, `Travel` |
| Nearby groups (`nearby.rs`) | group and nearest device per device | `group_nearby_devices`, `update_nearby_devices` | groups are the connected components | `NearbyGroups`; any set in `Scheduler` |
| State store (`state.rs`) | the file, the temporary file | `load`, `save`, `migrate_state` | atomic replacement, an upgrade holds | `StateStore`, `StateRegister`; atomic, may fail, in `Scheduler` |
| Configuration (`src/config.rs`) | none | `migrate`, `validate`, `runtime_config` | an accepted file starts the program | `Configuration` |
| Program (`src/main.rs`) | none beyond the files | `watch` and one-shot commands | commands on durable state | `watch` is `Scheduler!RunSpec`; commands in `StateStore`, `AppleSession`, `RouteHistory` |
| Apple session (`client.rs`, `session.rs`) | tokens, challenge, cookies, two files | sign-in, verification, trust, replay of reads, removal | what is reported is saved, dropped tokens stay dropped, reads are replayed once | `AppleSession` |
| Waze client and route history (`icloud-waze`, `icloud-routing`) | availability, SQLite table | `fetch`, `lookup`, `store`, `maintain`, `recalculate` | an estimate stays with its route, the table does not grow, travel times are kept | `RouteHistory` |
| SRP, security keys, device model, coordinates, core types | none | arithmetic, parsing, USB | test vectors | not modelled |

They interact through direct calls on one task: `tick` holds the runtime
exclusively while it awaits a provider, so the interleavings that matter are not of
threads but of *operations over shared records*: two accounts that own the same
device, Apple and external samples of one device, operator commands between ticks,
and every one of these with a crash, a refused event, a failed save or a restart
under another configuration at any step. Processes meet in three places only, none
with a lock: the state file, the session directory and the route history. The `hazards` of PROJECT.json list them
with their lines.

## The modules

**Scheduler** (src/runtime.rs). One action per operation: `Pause`, `Resume`,
`Schedule`, `LocateNow`, `IngestExternal` (each takes effect in memory, then emits,
then saves; `Conclude(FALSE)` is the early return that leaves memory changed and the
file not), `BeginTick` (one reading of the clock, the due accounts fixed), then for
each due account in any order `RefreshAccount`, `FailAccount` or `AbortRefresh` (the
early returns of `apply_refresh`, from the first event to `update_nearby_devices`), `EndTick`, `Stop` (the final save of `run`),
`Continue` (a host that calls `tick` after an error) and `Restart`, enabled in every
state, which is the crash as well. Variables are the code's fields; `quiet` and
`acked` are observations no action reads: how long a failed call forbids another,
and what the last acknowledged command said. Because `quiet` describes what a file
promises, it is saved and restored with the file.

Time: the code compares absolute deadlines with the clock; the model keeps what
remains of each and `Elapse` counts it down to 0. That is exact, since a deadline
is only ever compared with `now` or `now + prefetch`, and a tick's own reading of
the clock, which gets old while calls are awaited, is the variable `lag`. What a
snapshot contains matters to the scheduler only through the interval it leads to,
which is any member of `Intervals`.

**LocationQuality**, **ZoneTransition**, **StationaryZones** model one policy each,
with a sample's timestamp as its age and a location as a member of a small set with
relations for "in reach" and "moved". Each can be instantiated alone.
**DeviceTracking** composes the three as `apply_refresh` does: a sample is judged; an
accepted one is looked up in the zones, updates the transition machine and the
stationary zones; the two answers are joined by `Settle` into `current_zone` and the
occupancy, with a stationary zone before a configured one. A rejected sample, or none,
still passes through `Settle`. `told`, `steady` and `doubted` are observations.

**AppleSession** (crates/icloud-findmy) is the client with the programs that own one.
A public call is a sequence of exchanges (`Exchange`), each answer of which is
captured in memory, saved to `session.json` and then to `cookies.json` (`SaveState`,
`SaveCookies`), and only then judged (`Judge`); the process may stop before each of
these (`Stop`). A session is what its tokens allow; the server is external and answers
anything a status code can tell apart, with new tokens in any answer. A trusted session
is restored from any snapshot that has a trust token, as the client compares no account.
`dropped` and `sent` are observations: tokens
dropped and none received since, requests of the call that read or change devices.

**RouteHistory** (crates/icloud-waze, and the routing part of `apply_refresh`) has the
daemon, `waze history recalculate` and `maintain` over one table, each SQL statement
a step of its own, with a Waze client per process: pauses, giving up, the straight line
of a paused client, a failing statement, and a database that is new, current or of a
later version. A device that two accounts report in one refresh may keep the route of its
first sighting when the second gets none (`KeepRoute`), and others may share that where
the device is now: `there` is FALSE of such a route. `missed` and `recycled` are
observations: a statement failed, an id was given out again while a recalculation held it.

**Configuration** (src/config.rs, `runtime_config`, `validate_config`) is pure: which
files are accepted, and the settings made of one. **IntervalPolicy** (interval.rs) is
pure as well: `Determine` with its priorities, limits and rounding. **Travel** composes
the two with direction.rs as the end of `apply_refresh` does: one update moves the
device to a place, derives zone, distance, direction and override from what is
remembered, and from these the seconds to the next update, with a decision of its own for
each tracked zone that is not the closest (`Others`; the base zone is one of them when the
sample was not accepted). `decision` keeps what the properties say of the last update.

**NearbyGroups** (nearby.rs, `update_nearby_devices`) is pure: the groups as the search
visits them, the numbers they get, the nearest device, and whom a zone exit brings
forward.

**StateStore** (state.rs, with the daemon and the commands of main.rs) takes `save`
apart: `Create` the temporary file of the one fixed name, `Write` (and sync and close),
`Rename`; `Load` migrates or refuses. The programs of `Later` are of the next version:
they read everything and leave files that the others refuse. `file` maps what a file is *called* to its
content, since two programs that create the temporary file have the same file open
and a rename moves whatever has the name. **StateRegister** is what the trait's
documentation promises, "Atomically replaces durable tracking state": a register with
`Begin`, `Finish`, `Fail`, a power loss that takes back what was not flushed, and
`Scramble` for saves that overlap, and for them alone. `StateStore!Implements` is the
refinement: a writer is saving from `Create` to `Rename`, the value is what has the
name of the state file, and what a power loss would bring back is `Flushed`.

The **MC** modules give the constants of the runs values. **SchedulerProofs**,
**StationaryZonesProofs**, **DeviceTrackingProofs**, **TravelProofs** (with
Configuration and IntervalPolicy), **RouteHistoryProofs**, **AppleSessionProofs** and
**StateStoreProofs** hold the proofs about the module they are named after,
**LeastElements** what they share about least and greatest numbers.

Definitions that start with "A bug:" are the broken variants against which each
property is tried: with the variant in place of the definition that follows it, TLC
finds the property violated.

## What the runs check

| Run | Instance | Shows |
|---|---|---|
| `scheduler_faults` | one account, one device, every fault, lag 1, retry table 1, 2 | the two copies of an account agree; backoff is recorded and honoured, acknowledged pauses hold in memory and file |
| `scheduler_shared` | two accounts, a shared device, no faults but failing calls and crashes | the same backoff when one account writes the records of the other's devices; accounts own known devices only; an account that a failed tick did not reach is still due |
| `scheduler_liveness` | two accounts, `RunSpec` | no account starves, a shutdown ends the loop |
| `stationary_zones` | three devices, three places in a row and one inside a configured zone | the records agree, active zones are apart, one zone per device is enough when the stillness time is at least the cooldown |
| `device_tracking` | one device, home, its gate, and a shop, samples from 1 ahead to 2 old; no prefix exempts stationary zones from the delay, as by default | doubtful samples in a row move a device at most `GraceUpdates` times; a zone that may be passed through is entered only after the whole delay; no older sample replaces a newer one |
| `apple_session` | all commands, the daemon and a library host, one account, disk or memory | calls end; a read is replayed once, an action never; what a call reports is in both files; dropped tokens stay dropped through crashes and failing removals; a sound is played only by a session that is signed in |
| `route_history` | two zones, three places, a daemon with two devices, a recalculation, maintenance | a row keeps the estimate of its own route, a route that is used is near and from the right centre, rows are apart, known travel times are lost only in an outage, maintenance empties no cell |
| `travel` | two zones, five places, two accepted configurations, fifteen situations | an override cannot feed itself; the maximum interval, the travel time and a lost device bound the next update whatever layer of the policy gave it |
| `state_store` | a daemon and two commands, one of a later version | the store implements the register; what a command reported while it ran alone is kept; a file that the later program saved alone stays its version, whatever starts, saves or crashes after it |
| `scheduler_bad_sample` | two accounts | *violated*: an invalid sample of one account ends the tick before the others are called, against the documentation of `tick` |
| `device_tracking_events` | one device, stationary zones exempt from the delay by their prefix | *violated*: a rejected sample takes the device out of its zone with no event, against PARITY_PLAN.md |
| `apple_session_key` | as `apple_session` | *violated*: `authenticate_with_security_key` returns success when the login after it asks for a second factor again, against its documentation |

Bounds. Deadlines and retry intervals are at most 2 with a prefetch window of 1, so
that a deadline can lie beyond, inside and before the window; two error counts are
enough for a retry interval that grows and one that has stopped growing. One device
suffices for the faults, because accounts meet only in device records and those are
the subject of `scheduler_shared`, where two devices are shared in part. In
`stationary_zones` three places, of which the outer two are out of each other's
reach, give two zones a third device can be near to both of; three devices are the
fewest for a zone that is joined, left by one and kept by another while a second
one rests. In `device_tracking` two grace updates and ages on both sides of the
threshold give each verdict and the counter at its limit; `GraceBounded` needs
three samples in a row. Nothing is bounded by a state constraint: `AgeLimit`,
`MaxErrors`, `Cooldown` and `StillTime` are where the code's own comparisons stop
telling values apart.

Two pure modules are checked by an `ASSUME` of the module of a run. `MCTravel` lists
configuration files, two good and one change each that must be refused, and every
accepted one must pass the second validation of the runtime. `MCDeviceTracking`
compares `NearbyGroups` with the connected components of the community modules'
`Graphs` over all small families of devices.

In `route_history` a place is a number of 25 m units, so that the reach of 100 m of a
lookup and the 25 m of a route that is shared are both on the scale; places 0, 4 and 5
lie just inside the reach of one another or just outside. `MaxRows` is 2, which is
enough for rows of two zones, for duplicates that maintenance deletes and for an id that
is given out again. The client pauses after 1 failure and gives up after the second
(10 in a row and more than 40 in the code); the three attempts of a call are one step, since nothing else
happens to a client meanwhile. Two sightings in a refresh reach a route that is shared and
one that is kept, but not a kept one that is shared, which takes three: of that case the
theorem speaks, the run does not. In `travel` the history keeps 4 of 30 observations, of
which the code reads 3; the direction of the second tracked zone is any; the situations
turn on each layer of the policy by itself and in the pairs that meet, not in all
combinations. In `state_store` each command runs once and a change of a tick is one
value, as a tick saves again and again; two commands and a daemon give three saves that
overlap, and programs of both versions. `apple_session` has one account: the client
compares none but in the owner of an archive.

Fairness. `RunSpec` is the `watch` command: no operator commands and no restarts.
The loop is polled by tokio whenever its interval or channel is ready, so `BeginTick`,
`EndTick` and `Stop` are weakly fair; a provider call ends because the HTTP client
has a timeout, so `Serve(a)` is weakly fair, but what it answers is not assumed; time
passes. `AppleSession` is fair to the steps of a call (`Exchange`, `Judge`, `Save`) for
the same reasons, and to nothing a host or the server decides. `CHECK_DEADLOCK` is off in this run only: a loop that has stopped or failed
has nothing left to do once all deadlines have passed.

## What is proved

Every safety invariant and every action property that a passing run checks is a
theorem of its specification, for every value of the constants that the `ASSUME` of
the module allows. The runs show the same formulas on small instances; each inductive
invariant was checked by TLC there before it was proved.

| Module | Theorems | What carries them |
|---|---|---|
| `SchedulerProofs` | `TypeOK`, `BookkeepingAgrees`, `OwnedDevicesKnown`, `BackoffHonoured`, `BackoffRecorded`, `AckedPauseHolds`, `SkippedStayDue` | `BackoffRecorded`, `ConfiguredKnown` |
| `StationaryZonesProofs` | `StationaryTypeOK`, `OccupancyAgrees`, `ActiveZonesApart`, `ZonesBounded` | the first three together; `Few` |
| `DeviceTrackingProofs` | `TypeOK`, `GraceBounded`, `PassThroughConfirmed`, `FreshestWins`; `PipelineUsesManager`, `PipelineKeepsZones` | `Counted`, `Confirming` |
| `TravelProofs` | `AcceptedStarts`; `TypeOK`, `NeverAtOnce`, `OverridesBounded`, `PolledWithinMaximum`, `ApproachPolled`, `LostPolled` | lemmas on each layer of the policy |
| `RouteHistoryProofs` | `TypeOK`, `EstimatesMatch`, `RowsApart`, `UsedIsNear`, `DurationsKept`, `CellsKept` | `Held`, `NothingNear`, `PassedOn`, `Failures` |
| `AppleSessionProofs` | `TypeOK`, `ReadReplayedOnce`, `ReportedIsSaved`, `DroppedStaysDropped`, `SoundAuthenticated` | `Places`: what holds wherever a call can be |
| `StateStoreProofs` | `TypeOK`, `AckedHolds`, `UpgradeHolds`, and `Implements` (the refinement) | `OwnTemporary`, `AckedKept`, `UpgradeKept` |

**Scheduler.** `BackoffHonoured`, that an account being called has no retry interval
running, says nothing of idle states, so it is not inductive. What carries it is
`BackoffRecorded`: a running interval is backed by a positive count and a deadline
no sooner, both in memory and in the file. A restart needs more: `register_account`
takes the larger of the account's and its devices' counts, which keeps a positive
count positive, and restores the account's own deadline when there is one. A failure
needs `BookkeepingAgrees`, since the scheduler decides from one copy and a restart
reads the other. `ConfiguredKnown` (configured devices have records) is needed for
`OwnedDevicesKnown`, because a refresh takes the configured list as the account's
devices whatever was reported. `AckedPauseHolds` is stated of memory and file together
because each save copies one to the other and each restart the reverse. `SkippedStayDue`
relates two accounts: a call of one writes the devices it reaches, so only an account
without a device among those keeps its own deadlines; each action is shown to write no
other device.

**Stationary zones.** The types and the two agreements are inductive together.
`OneZoneChanges` says once what replacing one zone and moving one device in or out of it
does to them, `OneZoneMore` the same for a new zone; each case of `observe` is one of the
two. That a zone newly taken is apart from the others is the emptiness of `Joinable`.
`ZonesBounded` needs a history the variables do not keep: with a stillness time of at
least the cooldown, every zone that is still cooling was left by a device of its own,
which has not been still for as long. `Few` says so as an injection from those zones to
devices that are in none, and a device that opens a zone finds one that is reusable unless
fewer zones than devices exist.

**The pipeline.** `GraceBounded` follows from `Counted`, that a doubtful sample which
moves a device counts as a bad one. `PassThroughConfirmed` needs the observation to keep
step with the code: `Confirming` says that a device which waits for a zone has been
selected for it exactly as long as it has waited, across rejected samples.
`PipelineUsesManager` is the composition: what the pipeline does to the stationary zones
is a behaviour of their manager alone, so that `PipelineKeepsZones` carries the theorems of
`StationaryZonesProofs` over to it instead of proving them again.

**Travel.** The interval policy is a chain of layers each of which may undo the one
before, so there is one lemma per layer on what it leaves of a bound, and `Determine`
is bounded at the end of the chain. Rounding never rounds up but to five seconds, so the
maximum interval holds because `validate_config` accepts none below five: the theorems
speak of every file it accepts. `NeverAtOnce`, that no update asks for another within
five seconds, is what the assumption `0 \notin Intervals` of `Scheduler` stands for.
`AcceptedStarts`, for every file whatever: if `AppConfig::load` accepts it, the
checks of `TrackingRuntime::new` accept the settings made of it.

**Route history.** A program acts on what it read some statements ago. `Held`: a row a
recalculation still holds is the row it read, unless its id was given out again.
`NothingNear`: between a lookup of the daemon and its insertion nothing was stored near.
`PassedOn` bounds how far an estimate was handed from device to device by the number of
routes so far, which is the induction that `UsedIsNear` leaves out. `Failures` relates the
pause of a client to the failures counted, for `DurationsKept`.

**Apple session.** The four properties rest on one another and on the order of a call's
steps; the invariant says for each place of a call what is in memory, in the two files
and was sent (`SavedInOrder`, `Reports`, `Sends`, `Dropping`).

**State store.** `OwnTemporary` is what saves that do not overlap rely on: the file
behind the temporary name is the one the program itself created and wrote. `AckedKept`
says what of an acknowledged change is in the file, in every memory and in whatever is
about to replace the file. `UpgradeKept` says the same of an upgrade, with what makes it
last: once the file is the later program's, no other can start, and those that run are
all later ones. `StoreImplementsRegister` shows that every step of a save, a
crash or a power loss is a step of the register or invisible to it.

Assumptions on the constants: the sets of devices, accounts and programs are any (finite
where cardinalities are compared), distances are any symmetric relation in which a place
reaches itself, durations, reaches and pauses are naturals, the prefetch window and the
intervals positive ones, and the scheduler's retry table is any.
`None` is none of the values it stands beside.

Only model-checked: liveness (`AccountsKeepBeingServed`, `ShutdownEnds`, `CallsEnd`),
which is out of the prover's reach as is all that speaks of fairness and `ENABLED`;
`NearbyGroups`, whose search is a recursion over data; the three violations.

## Where the code stops short of what one might expect

- The three runs that expect a violation, above.
- A command that changes the state while a daemon runs reports success and is undone by
  the daemon's next save: README.md says "Operational commands work directly on durable
  state", and the daemon loads that state only once. `AckedHolds` therefore speaks of
  commands that ran alone.
- Two saves at one time share a temporary file and can leave a file nothing can read, or
  fail because the other renamed it. `StateRegister!Scramble` is that, and
  `StateStore` shows that it takes an overlap.
- A program of an older version that is already running when a later one upgrades the
  file writes its own version over it at its next save: `UpgradeHolds` speaks of an
  upgrade that nobody else was there for.
- A configured device that its account does not report keeps a deadline that has passed,
  so the account is due at every tick. No document says otherwise, and no property does.
- `session.json` and `cookies.json` are renamed one after the other: a crash between the
  two leaves tokens with older cookies. The model has it; the properties speak of calls
  that returned. A snapshot of a trusted session is not bound to the account it is from.
- A device that two accounts report in one tick may share the route of its first sighting
  from where the second one put it, any distance away (`KeepRoute`).
- The directory is never synced: a power loss may bring back an older state file
  (`PowerLoss`), though always a whole one.
- A missing or rejected sample counts as distance 0 km (`unwrap_or_default` at
  src/runtime.rs:963) unless the device rests in a stationary zone, so the next good one
  reads as moving away. `Travel` does the same.
- A straight line stored while Waze was paused stays in the history until it is
  recalculated, and a recalculation during an outage overwrites routes with such lines.

## Plan

1. Proofs: `DeviceTracking` as an implementation of `ZonePresence` (2); the safety half
   of `AccountsKeepBeingServed`, that every tick serves all accounts that are due.
2. In `DeviceTracking`: an abstract `ZonePresence` for what the events do promise, the
   file, and events emitted before a crash.
3. Two processes over one session directory; the health of external sources.

## Not modelled, and why

SRP and the security-key device (cryptography and USB), parsing and naming of
devices, conversion of Chinese coordinates and great-circle distances (real
arithmetic TLC does not have), parsing of Waze answers, the health and throttle of an
external source, two processes over one session directory, `move_to_device` (nothing
calls it), exports and output of the command line. Floating-point comparisons appear as
relations between places. The models have a clock that never goes backwards; the
code takes `Utc::now()`, and a clock that is set back delays everything by as much. Integers
are unbounded where the code's are: intervals and travel times stay below those on which
`Duration::mul_f64` (interval.rs:341) and `TimeDelta::seconds` (src/runtime.rs:1159) would
panic, which a configuration file with absurd but accepted numbers could reach.
