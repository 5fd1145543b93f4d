------------------------------ MODULE Scheduler ------------------------------
(***************************************************************************)
(* The account and device scheduler of the standalone tracker,             *)
(* TrackingRuntime in src/runtime.rs: register_account, pause, resume,     *)
(* schedule, locate_now, the scheduling effect of ingest_external_update,  *)
(* tick with its per-account provider calls, the retry backoff, the run    *)
(* loop's final save, and a restart of the process at any step.            *)
(*                                                                         *)
(* Time.  The code stores absolute UTC deadlines and compares them with    *)
(* the clock.  The model stores what remains of each deadline and Elapse   *)
(* counts it down; a deadline that has passed stays at 0, which is exact   *)
(* because the code only asks whether a deadline is at most `now' plus the *)
(* prefetch window, at a moment that is never before the one it was        *)
(* computed at.  A tick reads the clock once; `lag' is how long ago.       *)
(*                                                                         *)
(* Abstracted: what a snapshot contains (its zone, quality and route only  *)
(* matter here through the interval they lead to, any member of Intervals) *)
(* and the events themselves (only that emitting one may fail).            *)
(***************************************************************************)
EXTENDS Integers, FiniteSets, FiniteSetsExt

CONSTANTS
  Accounts,         \* account identifiers given to register_account
  Devices,          \* Apple device identifiers
  Visible,          \* Visible[a]: the devices a's provider may report (the family)
  Configurations,   \* device lists an operator may configure, {} meaning "discover"
  Prefetch,         \* config.prefetch_window
  DefaultInterval,  \* config.default_update_interval
  NearbyExitDelay,  \* the two minutes after which a nearby group is looked at again
  Intervals,        \* the update intervals the interval policy may choose
  RetryInterval,    \* retry_interval_seconds, as a table indexed by the error count
  MaxErrors,        \* the count from which that table no longer changes
  ScheduleTimes,    \* how far ahead an operator schedules a device
  MigratedDevices,  \* device maps of state files older than the account records
  Outcomes,         \* whether the event sink and the store take what they are given
  Embedded,         \* a host program may go on after tick returned an error
  MaxLag,           \* how long the calls of one tick may take
  None              \* an absent Option<DateTime>

Deadline == Nat \cup {None}
AccountState == [ids : SUBSET Devices, count : 0..MaxErrors, next : Deadline]
DeviceState == [known : BOOLEAN, paused : BOOLEAN, count : 0..MaxErrors, next : Deadline]
\* What the code saves, and the part of the observation a crash takes back to it
StateFile == [accounts : [Accounts -> AccountState],
              devices : [Devices -> DeviceState],
              quiet : [Accounts -> Nat]]

ASSUME SchedulerAssumption ==
  /\ IsFiniteSet(Accounts) /\ IsFiniteSet(Devices)
  /\ Visible \in [Accounts -> SUBSET Devices]
  /\ Configurations \subseteq [Accounts -> SUBSET Devices]
  /\ Prefetch \in Nat /\ Prefetch > 0
  /\ DefaultInterval \in Nat /\ DefaultInterval > 0
  /\ NearbyExitDelay \in Nat
  /\ Intervals \subseteq Nat /\ 0 \notin Intervals
  /\ MaxErrors \in Nat /\ MaxErrors > 0
  /\ RetryInterval \in [1..MaxErrors -> Nat]
  /\ ScheduleTimes \subseteq Nat
  /\ MigratedDevices \subseteq [Devices -> DeviceState]
  /\ Outcomes \subseteq BOOLEAN /\ Embedded \in BOOLEAN
  /\ MaxLag \in Nat
  /\ None \notin Nat

VARIABLES
  phase,       \* "idle", "ticking", "failed" (tick returned Err) or "stopped"
  shutdown,    \* the watch channel of run asks for an end
  configured,  \* AccountRuntime.configured_device_ids, {} for None
  runtime,     \* self.accounts: what the scheduler decides from
  accounts,    \* self.state.accounts: what a restart will know
  devices,     \* self.state.devices
  disk,        \* the durable state file
  due,         \* the accounts this tick has yet to call
  lag,         \* time since this tick read the clock
  failure      \* what made the last tick return Err, "none" if it did not

(***************************************************************************)
(* Observation variables: what was promised to whom.  No action reads them *)
(***************************************************************************)
VARIABLES
  quiet,       \* quiet[a]: how long a's failed call forbids another one
  acked        \* acked[d]: what the last acknowledged pause or resume said of d

vars == <<phase, shutdown, configured, runtime, accounts, devices, disk, due,
          lag, failure, quiet, acked>>
memory == <<runtime, accounts, devices>>

Phases == {"idle", "ticking", "failed", "stopped"}

TypeOK ==
  /\ phase \in Phases
  /\ shutdown \in BOOLEAN
  /\ configured \in [Accounts -> SUBSET Devices]
  /\ runtime \in [Accounts -> AccountState]
  /\ accounts \in [Accounts -> AccountState]
  /\ devices \in [Devices -> DeviceState]
  /\ disk \in StateFile
  /\ due \subseteq Accounts
  /\ lag \in Nat
  /\ failure \in {"none", "sample", "sink", "store"}
  /\ quiet \in [Accounts -> Nat]
  /\ acked \in [Devices -> {"paused", "running", "unknown"}]

-----------------------------------------------------------------------------
(* Time *)

\* now + x, as read by a tick whose clock reading is `lag' old
At(x) == IF x > lag THEN x - lag ELSE 0

Sooner(x) == IF x = None \/ x = 0 THEN x ELSE x - 1

ElapsedAccounts(as) == [a \in Accounts |-> [as[a] EXCEPT !.next = Sooner(@)]]
ElapsedDevices(ds) == [d \in Devices |-> [ds[d] EXCEPT !.next = Sooner(@)]]
ElapsedQuiet(q) == [a \in Accounts |-> Sooner(q[a])]

Earliest(S) == IF S \ {None} = {} THEN None ELSE Min(S \ {None})

-----------------------------------------------------------------------------
(* Registration: what a process that has loaded the state file starts from *)

NewDevice == [known |-> FALSE, paused |-> FALSE, count |-> 0, next |-> None]
NewAccount == [ids |-> {}, count |-> 0, next |-> None]

RegisteredIds(a, config, file) ==
  IF config[a] = {} THEN file.accounts[a].ids ELSE config[a]

\* A bug: insert in the place of entry(..).or_insert_with(..)
RegisteredDevicesOverwriting(config, file) ==
  [d \in Devices |->
     IF \E a \in Accounts : d \in RegisteredIds(a, config, file)
       THEN [NewDevice EXCEPT !.known = TRUE] ELSE file.devices[d]]

\* A bug: the records of newly configured devices are not created
RegisteredDevicesMissing(config, file) == file.devices

RegisteredDevices(config, file) ==
  [d \in Devices |->
     IF \E a \in Accounts : d \in RegisteredIds(a, config, file)
       THEN [file.devices[d] EXCEPT !.known = TRUE] ELSE file.devices[d]]

\* A bug: the persisted deadline of an account in backoff is not restored
RegisteredAccountEager(a, config, file) ==
  LET ids == RegisteredIds(a, config, file)
  IN  [ids |-> ids,
       count |-> Max({file.devices[d].count : d \in ids} \cup {file.accounts[a].count}),
       next |-> None]

RegisteredAccount(a, config, file) ==
  LET ids == RegisteredIds(a, config, file)
      count == Max({file.devices[d].count : d \in ids} \cup {file.accounts[a].count})
      persisted == file.accounts[a].next
  IN  [ids |-> ids,
       count |-> count,
       next |-> IF persisted = None /\ count > 0
                  THEN Earliest({file.devices[d].next : d \in ids})
                  ELSE persisted]

Registered(config, file) == [a \in Accounts |-> RegisteredAccount(a, config, file)]

\* Every process starts by loading the file and registering its accounts
Load(config, file) ==
  /\ phase' = "idle"
  /\ shutdown' = FALSE
  /\ configured' = config
  /\ runtime' = Registered(config, file)
  /\ accounts' = Registered(config, file)
  /\ devices' = RegisteredDevices(config, file)
  /\ due' = {}
  /\ lag' = 0
  /\ failure' = "none"
  /\ quiet' = file.quiet

\* The first process finds no file, or one written before accounts were recorded
Init ==
  \E config \in Configurations,
     saved \in MigratedDevices \cup {[d \in Devices |-> NewDevice]} :
    /\ phase = "idle"
    /\ shutdown = FALSE
    /\ configured = config
    /\ disk = [accounts |-> [a \in Accounts |-> NewAccount],
               devices |-> saved,
               quiet |-> [a \in Accounts |-> 0]]
    /\ runtime = Registered(config, disk)
    /\ accounts = Registered(config, disk)
    /\ devices = RegisteredDevices(config, disk)
    /\ due = {}
    /\ lag = 0
    /\ failure = "none"
    /\ quiet = disk.quiet
    /\ acked = [d \in Devices |->
                  IF saved[d].paused THEN "paused" ELSE "running"]

-----------------------------------------------------------------------------
(* The state file *)

Save == disk' = [accounts |-> accounts', devices |-> devices', quiet |-> quiet']

\* A bug: the operation answers without saving
ConcludeUnsaved(ok) == UNCHANGED disk

\* emit_at, then persist_at: the first error ends the operation without a save
Conclude(ok) == IF ok THEN Save ELSE UNCHANGED disk

-----------------------------------------------------------------------------
(* Operator commands: between ticks, on devices or accounts that exist *)

Known == {d \in Devices : devices[d].known}
Selections == {{d} : d \in Known} \cup {Known}

Acknowledge(selected, ok, what) ==
  acked' = [d \in Devices |-> IF d \notin selected THEN acked[d]
                              ELSE IF ok THEN what ELSE "unknown"]

Pause(selected, ok) ==
  /\ phase = "idle"
  /\ devices' = [d \in Devices |->
       IF d \in selected THEN [devices[d] EXCEPT !.paused = TRUE] ELSE devices[d]]
  /\ Acknowledge(selected, ok, "paused")
  /\ UNCHANGED <<phase, shutdown, configured, runtime, accounts, due, lag,
                 failure, quiet>>
  /\ Conclude(ok)

Resume(selected, ok) ==
  /\ phase = "idle"
  /\ devices' = [d \in Devices |->
       IF d \in selected THEN [devices[d] EXCEPT !.paused = FALSE, !.next = 0]
       ELSE devices[d]]
  /\ Acknowledge(selected, ok, "running")
  /\ UNCHANGED <<phase, shutdown, configured, runtime, accounts, due, lag,
                 failure, quiet>>
  /\ Conclude(ok)

Schedule(d, at, ok) ==
  /\ phase = "idle"
  /\ devices' = [devices EXCEPT ![d].next = at]
  /\ UNCHANGED <<phase, shutdown, configured, runtime, accounts, due, lag,
                 failure, quiet, acked>>
  /\ Conclude(ok)

\* The operator overrides the backoff of a failing account
LocateNow(a, ok) ==
  /\ phase = "idle"
  /\ runtime' = [runtime EXCEPT ![a].next = 0]
  /\ accounts' = [accounts EXCEPT ![a].next = 0]
  /\ devices' = [d \in Devices |->
       IF d \in runtime[a].ids THEN [devices[d] EXCEPT !.next = 0] ELSE devices[d]]
  /\ quiet' = [quiet EXCEPT ![a] = 0]
  /\ UNCHANGED <<phase, shutdown, configured, due, lag, failure, acked>>
  /\ Conclude(ok)

-----------------------------------------------------------------------------
(* Applying snapshots *)

\* What is left of a device record after its snapshot led to the interval f[d]
Updated(reported, f) ==
  [d \in Devices |->
     IF d \in reported
       THEN [devices[d] EXCEPT !.known = TRUE,
                               !.next = IF devices[d].paused THEN @ ELSE At(f[d])]
       ELSE devices[d]]

\* A zone exit seen by one device of a nearby group brings the others forward
BroughtForward(group, ds) ==
  [d \in Devices |->
     IF /\ d \in group /\ ~ds[d].paused
        /\ (ds[d].next = None \/ ds[d].next > NearbyExitDelay)
       THEN [ds[d] EXCEPT !.next = NearbyExitDelay] ELSE ds[d]]

\* An accepted external sample, applied between ticks through apply_refresh; an
\* error of the sample or of an event may end that early
IngestExternal(d, interval, group, ok) ==
  /\ phase = "idle"
  /\ LET updated == Updated({d}, [x \in {d} |-> interval])
         early == {[devices EXCEPT ![d].known = TRUE], updated}
     IN  devices' \in {BroughtForward(group \ {d}, updated)} \cup (IF ok THEN {} ELSE early)
  /\ UNCHANGED <<phase, shutdown, configured, runtime, accounts, due, lag,
                 failure, quiet, acked>>
  /\ Conclude(ok)

\* The end of apply_refresh for an account
Recovered(ids, ds) ==
  [d \in Devices |->
     IF d \in ids
       THEN [ds[d] EXCEPT !.count = 0,
                          !.next = IF @ = None THEN At(DefaultInterval) ELSE @]
       ELSE ds[d]]

NextDiscovery(ids, ds) ==
  LET soonest == Earliest({ds[d].next : d \in ids})
  IN  IF soonest = None THEN At(DefaultInterval) ELSE soonest

-----------------------------------------------------------------------------
(* One tick *)

\* A bug: an account in backoff is treated like any other
AccountIsDueIgnoringBackoff(a) ==
  \/ runtime[a].ids = {} /\ (runtime[a].next = None \/ runtime[a].next <= Prefetch)
  \/ \E d \in runtime[a].ids :
       /\ ~devices[d].paused
       /\ devices[d].next = None \/ devices[d].next <= Prefetch

\* A bug: a device that never had a deadline is not due
AccountIsDueOnlyScheduled(a) ==
  LET account == runtime[a]
  IN  IF account.count > 0 THEN account.next = None \/ account.next = 0
      ELSE \E d \in account.ids :
             ~devices[d].paused /\ devices[d].next # None /\ devices[d].next <= Prefetch

AccountIsDue(a) ==
  LET account == runtime[a]
  IN  IF account.count > 0
        THEN account.next = None \/ account.next = 0
      ELSE IF account.ids = {}
        THEN account.next = None \/ account.next <= Prefetch
      ELSE \E d \in account.ids :
             /\ ~devices[d].paused
             /\ devices[d].next = None \/ devices[d].next <= Prefetch

\* A tick that wins the select against a request already made is, step for step,
\* a tick during which the request is made
BeginTick ==
  /\ phase = "idle"
  /\ ~shutdown
  /\ phase' = "ticking"
  /\ due' = {a \in Accounts : AccountIsDue(a)}
  /\ lag' = 0
  /\ failure' = "none"
  /\ UNCHANGED <<shutdown, configured, memory, disk, quiet, acked>>

\* What the family-wide call of a reports, after the filter on configured ids
Reports(a) ==
  {IF configured[a] = {} THEN s ELSE s \cap configured[a] : s \in SUBSET Visible[a]}

IdsAfter(a, reported) == IF configured[a] = {} THEN reported ELSE configured[a]

\* A refresh of a that reported these devices, f[d] the interval d's snapshot leads to
Refreshed(a, reported, f) ==
  LET ids == IdsAfter(a, reported)
      ds == Recovered(ids, Updated(reported, f))
      record == [ids |-> ids, count |-> 0, next |-> NextDiscovery(ids, ds)]
  IN  /\ devices' = ds
      /\ runtime' = [runtime EXCEPT ![a] = record]
      /\ accounts' = [accounts EXCEPT ![a] = record]

RefreshAccount(a) ==
  /\ phase = "ticking" /\ a \in due
  /\ \E reported \in Reports(a) : \E f \in [reported -> Intervals] :
       Refreshed(a, reported, f)
  /\ due' = due \ {a}
  /\ quiet' = [quiet EXCEPT ![a] = 0]
  /\ UNCHANGED <<phase, shutdown, configured, disk, lag, failure, acked>>

\* apply_refresh returns early, after the snapshots of `applied': on an event of
\* theirs that is not taken, on an invalid sample of another device (inserted by
\* then), or with all of them applied, in update_nearby_devices
AbortRefresh(a, why) ==
  /\ phase = "ticking" /\ a \in due
  /\ why = "sink" => FALSE \in Outcomes
  /\ \E reported \in Reports(a) :
     \E applied \in SUBSET reported :
     \E f \in [applied -> Intervals] :
       \/ /\ IF why = "sink" THEN applied # {} ELSE applied = reported
          /\ devices' = Updated(applied, f)
       \/ /\ why = "sample"
          /\ \E e \in reported \ applied :
               devices' = [Updated(applied, f) EXCEPT ![e].known = TRUE]
  /\ phase' = "failed"
  /\ failure' = why
  /\ due' = due \ {a}
  /\ UNCHANGED <<shutdown, configured, runtime, accounts, disk, lag, quiet, acked>>

\* A bug: the count of failures and its deadline stay out of the durable record
RecordFailureInMemory(a, record) ==
  /\ runtime' = [runtime EXCEPT ![a] = record]
  /\ UNCHANGED accounts

RecordFailure(a, record) ==
  /\ runtime' = [runtime EXCEPT ![a] = record]
  /\ accounts' = [accounts EXCEPT ![a] = record]

\* A bug: a plain addition, past the last value the counter can hold
ErrorsAfterUnbounded(a) == runtime[a].count + 1

ErrorsAfter(a) ==
  IF runtime[a].count < MaxErrors THEN runtime[a].count + 1 ELSE MaxErrors

RetryAfter(count) ==
  RetryInterval[IF count < MaxErrors THEN count ELSE MaxErrors]

\* A bug: the failure is written to every device, whoever it belongs to
FailedDevicesOfAll(a, count, retry) ==
  [d \in Devices |-> [devices[d] EXCEPT !.count = count, !.next = retry]]

FailedDevices(a, count, retry) ==
  [d \in Devices |->
     IF d \in runtime[a].ids THEN [devices[d] EXCEPT !.count = count, !.next = retry]
     ELSE devices[d]]

\* provider.locate failed; `ok' tells whether the warning could be emitted
FailAccount(a, ok) ==
  /\ phase = "ticking" /\ a \in due
  /\ LET count == ErrorsAfter(a)
         retry == At(RetryAfter(count))
     IN  /\ RecordFailure(a, [ids |-> runtime[a].ids, count |-> count, next |-> retry])
         /\ devices' = FailedDevices(a, count, retry)
         /\ quiet' = [quiet EXCEPT ![a] = retry]
  /\ due' = due \ {a}
  /\ phase' = IF ok THEN "ticking" ELSE "failed"
  /\ failure' = IF ok THEN failure ELSE "sink"
  /\ UNCHANGED <<shutdown, configured, disk, lag, acked>>

EndTick(ok) ==
  /\ phase = "ticking" /\ due = {}
  /\ phase' = IF ok THEN "idle" ELSE "failed"
  /\ failure' = IF ok THEN failure ELSE "store"
  /\ lag' = 0
  /\ UNCHANGED <<shutdown, configured, memory, due, quiet, acked>>
  /\ Conclude(ok)

-----------------------------------------------------------------------------
(* The process and its surroundings *)

RequestShutdown ==
  /\ phase \in {"idle", "ticking"} /\ ~shutdown
  /\ shutdown' = TRUE
  /\ UNCHANGED <<phase, configured, memory, disk, due, lag, failure, quiet, acked>>

\* run leaves its loop and saves one final time
Stop(ok) ==
  /\ phase = "idle" /\ shutdown
  /\ phase' = IF ok THEN "stopped" ELSE "failed"
  /\ failure' = IF ok THEN failure ELSE "store"
  /\ UNCHANGED <<shutdown, configured, memory, due, lag, quiet, acked>>
  /\ Conclude(ok)

\* A program that drives tick itself may go on after an error
Continue ==
  /\ Embedded /\ phase = "failed"
  /\ phase' = "idle"
  /\ due' = {} /\ lag' = 0
  /\ UNCHANGED <<shutdown, configured, memory, disk, failure, quiet, acked>>

\* The process dies, or has ended, and another one starts
Restart(config) ==
  /\ Load(config, disk)
  /\ UNCHANGED <<disk, acked>>

Elapse ==
  /\ phase = "ticking" => lag < MaxLag
  /\ lag' = IF phase = "ticking" THEN lag + 1 ELSE lag
  /\ runtime' = ElapsedAccounts(runtime)
  /\ accounts' = ElapsedAccounts(accounts)
  /\ devices' = ElapsedDevices(devices)
  /\ quiet' = ElapsedQuiet(quiet)
  /\ disk' = [accounts |-> ElapsedAccounts(disk.accounts),
              devices |-> ElapsedDevices(disk.devices),
              quiet |-> ElapsedQuiet(disk.quiet)]
  /\ UNCHANGED <<phase, shutdown, configured, due, failure, acked>>

-----------------------------------------------------------------------------

Command ==
  \E ok \in Outcomes :
    \/ \E selected \in Selections : Pause(selected, ok) \/ Resume(selected, ok)
    \/ \E d \in Known, at \in ScheduleTimes : Schedule(d, at, ok)
    \/ \E a \in Accounts : LocateNow(a, ok)
    \/ \E d \in Devices, interval \in Intervals, group \in SUBSET Known :
         IngestExternal(d, interval, group, ok)

Serve(a) ==
  \/ RefreshAccount(a)
  \/ \E why \in {"sample", "sink"} : AbortRefresh(a, why)
  \/ \E ok \in Outcomes : FailAccount(a, ok)

Tick == BeginTick \/ (\E a \in Accounts : Serve(a)) \/ (\E ok \in Outcomes : EndTick(ok))

\* The run loop holds the runtime exclusively: no command interleaves with it
Run == Tick \/ RequestShutdown \/ (\E ok \in Outcomes : Stop(ok)) \/ Elapse

Next ==
  \/ Run
  \/ Command
  \/ Continue
  \/ \E config \in Configurations : Restart(config)

Spec == Init /\ [][Next]_vars

-----------------------------------------------------------------------------
(* Safety *)

(***************************************************************************)
(* The scheduler keeps every account twice: in self.accounts, which it     *)
(* decides from, and in self.state.accounts, which a restart will know.    *)
(* Every operation, failed ones included, leaves the two equal.            *)
(***************************************************************************)
BookkeepingAgrees == runtime = accounts

(***************************************************************************)
(* An account only ever refers to devices that have a state record, in     *)
(* memory and in the file: the `if let Some(device)' of tick, locate_now   *)
(* and apply_refresh never skips one silently.                             *)
(***************************************************************************)
Owned(as, ds) == \A a \in Accounts : \A d \in as[a].ids : ds[d].known

OwnedDevicesKnown == Owned(runtime, devices) /\ Owned(disk.accounts, disk.devices)

(***************************************************************************)
(* After a failed call an account is not called again before its retry     *)
(* interval has passed, whatever the operator does to its devices, other   *)
(* accounts do to shared devices, and however often the process restarts   *)
(* from a file that recorded the failure; only locate_now overrides it.    *)
(***************************************************************************)
BackoffHonoured ==
  phase = "ticking" => \A a \in due : quiet[a] = 0

(***************************************************************************)
(* What BackoffHonoured rests on: a retry interval that runs is recorded   *)
(* with the account, in memory and in the file, by a count and a deadline  *)
(* that is not sooner; nothing but a success or locate_now shortens it.    *)
(***************************************************************************)
Recorded(as, q) ==
  \A a \in Accounts : q[a] > 0 =>
    as[a].count > 0 /\ as[a].next # None /\ as[a].next >= q[a]

BackoffRecorded == Recorded(runtime, quiet) /\ Recorded(disk.accounts, disk.quiet)

(***************************************************************************)
(* An acknowledged pause or resume holds, in memory and in the file, until *)
(* the next one: no refresh, failure, error, crash or restart (even under  *)
(* other configured devices) undoes it.                                    *)
(***************************************************************************)
PausesAgree(ds) ==
  \A d \in Devices : acked[d] # "unknown" => ds[d].paused = (acked[d] = "paused")

AckedPauseHolds == PausesAgree(devices) /\ PausesAgree(disk.devices)

(***************************************************************************)
(* A tick serves its accounts one after the other, and what it does to one *)
(* reaches the devices they share.  An account it found due and has not    *)
(* called yet is still due, also when the tick fails before its turn and   *)
(* is lost: the only other reason is an account called before it in this   *)
(* tick that has, may report or is configured with a device of it.         *)
(***************************************************************************)
Reach(a) == runtime[a].ids \cup Visible[a] \cup configured[a]

SkippedStayDue ==
  phase \in {"ticking", "failed"} =>
    \A a \in due :
      \/ AccountIsDue(a)
      \/ \E b \in Accounts \ due : Reach(b) \cap runtime[a].ids # {}

(***************************************************************************)
(* What tick's documentation says of errors: `Returns an error only for    *)
(* event or persistence failures ... one account cannot stop other         *)
(* accounts' (src/runtime.rs:476).                                         *)
(***************************************************************************)
ErrorsAreEventOrPersistence ==
  phase = "failed" => failure \in {"sink", "store"} \/ due = {}

-----------------------------------------------------------------------------
(* The run loop under fair scheduling *)

(***************************************************************************)
(* tokio polls the loop whenever the interval or the channel is ready, so  *)
(* a tick that can start does, each provider call returns (the clients set *)
(* request timeouts), and time passes.  Nothing is assumed of what the     *)
(* providers answer.                                                       *)
(***************************************************************************)
Fairness ==
  /\ WF_vars(BeginTick)
  /\ \A a \in Accounts : WF_vars(Serve(a))
  /\ WF_vars(\E ok \in Outcomes : EndTick(ok))
  /\ WF_vars(\E ok \in Outcomes : Stop(ok))
  /\ WF_vars(Elapse)

RunSpec == Init /\ [][Run]_vars /\ Fairness

AllPaused(a) == \A d \in runtime[a].ids : devices[d].paused

(***************************************************************************)
(* No account starves: unless the loop ends, an account is called again    *)
(* and again, however the other accounts fail; the only exception is one   *)
(* whose devices are all paused.                                           *)
(***************************************************************************)
AccountsKeepBeingServed ==
  \A a \in Accounts :
    \/ <>(phase \in {"failed", "stopped"})
    \/ <>[](runtime[a].ids # {} /\ AllPaused(a))
    \/ []<><<Serve(a)>>_due

(***************************************************************************)
(* A requested shutdown ends the loop, with everything saved or with the   *)
(* error of an event, a store or a sample.                                 *)
(***************************************************************************)
ShutdownEnds ==
  shutdown ~> \/ phase = "stopped" /\ disk.devices = devices
              \/ phase = "failed" /\ failure # "none"

=============================================================================
