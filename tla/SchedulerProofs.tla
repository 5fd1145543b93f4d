--------------------------- MODULE SchedulerProofs ---------------------------
(* Invariance proofs about Scheduler, for every value of its constants *)
EXTENDS Scheduler, LeastElements, TLAPS

-----------------------------------------------------------------------------
(* Least and greatest elements *)

(* Min returns the least element of a nonempty set of naturals. *)
LEMMA MinOfNaturals ==
  ASSUME NEW S, S \subseteq Nat, S # {}
  PROVE  Min(S) \in S
BY LeastNatural, Zenon DEF Min

(* Earliest picks one of the deadlines it is given, or none. *)
LEMMA EarliestType ==
  ASSUME NEW S, S \subseteq Deadline
  PROVE  Earliest(S) \in Deadline
<1>1. CASE S \ {None} = {}
  BY <1>1 DEF Earliest, Deadline
<1>2. CASE S \ {None} # {}
  <2>1. S \ {None} \subseteq Nat
    BY DEF Deadline
  <2>2. Min(S \ {None}) \in S \ {None}
    BY <1>2, <2>1, MinOfNaturals
  <2>. QED  BY <1>2, <2>1, <2>2 DEF Earliest, Deadline
<1>. QED  BY <1>1, <1>2

(* A nonempty set of error counts has a greatest element, and Max returns it. *)
LEMMA MaxOfCounts ==
  ASSUME NEW S, S \subseteq 0..MaxErrors, S # {}
  PROVE  /\ Max(S) \in S
         /\ \A y \in S : y <= Max(S)
<1>. DEFINE T == {MaxErrors - y : y \in S}
<1>0. MaxErrors \in Nat
  BY SchedulerAssumption
<1>1. T \subseteq Nat /\ T # {}
  <2>1. T \subseteq Nat
    BY <1>0
  <2>2. PICK s \in S : TRUE
    OBVIOUS
  <2>3. MaxErrors - s \in T
    BY <2>2
  <2>. QED  BY <2>1, <2>3
<1>2. PICK t \in T : \A u \in T : t <= u
  <2>. HIDE DEF T
  <2>. QED  BY <1>1, LeastNatural
<1>4. PICK x \in S : t = MaxErrors - x
  BY <1>2
<1>5. \A y \in S : x >= y
  BY <1>0, <1>2, <1>4
<1>6. Max(S) \in S /\ \A y \in S : Max(S) >= y
  BY <1>5 DEF Max
<1>. QED  BY <1>0, <1>6

-----------------------------------------------------------------------------
(* Registration *)

(* What a process starts from after loading a well-typed file is well typed; *)
(* its error counts are not below those of the file, and a persisted         *)
(* deadline is kept.                                                         *)
LEMMA RegistrationFacts ==
  ASSUME NEW config \in Configurations, NEW file \in StateFile
  PROVE  /\ Registered(config, file) \in [Accounts -> AccountState]
         /\ RegisteredDevices(config, file) \in [Devices -> DeviceState]
         /\ \A a \in Accounts :
              /\ Registered(config, file)[a].count >= file.accounts[a].count
              /\ file.accounts[a].next # None =>
                   Registered(config, file)[a].next = file.accounts[a].next
<1>1. config \in [Accounts -> SUBSET Devices]
  BY SchedulerAssumption
<1>2. /\ file.accounts \in [Accounts -> AccountState]
      /\ file.devices \in [Devices -> DeviceState]
  BY DEF StateFile
<1>3. ASSUME NEW a \in Accounts
      PROVE  /\ RegisteredAccount(a, config, file) \in AccountState
             /\ RegisteredAccount(a, config, file).count >= file.accounts[a].count
             /\ file.accounts[a].next # None =>
                  RegisteredAccount(a, config, file).next = file.accounts[a].next
  <2>. DEFINE ids == RegisteredIds(a, config, file)
              counts == {file.devices[d].count : d \in ids} \cup {file.accounts[a].count}
              nexts == {file.devices[d].next : d \in ids}
              soonest == Earliest(nexts)
  <2>1. /\ file.accounts[a].ids \in SUBSET Devices
        /\ file.accounts[a].count \in 0..MaxErrors
        /\ file.accounts[a].next \in Deadline
    BY <1>2 DEF AccountState
  <2>2. ids \in SUBSET Devices
    BY <1>1, <2>1 DEF RegisteredIds
  <2>3. counts \subseteq 0..MaxErrors /\ counts # {} /\ file.accounts[a].count \in counts
    BY <1>2, <2>1, <2>2 DEF DeviceState
  <2>4. nexts \subseteq Deadline
    BY <1>2, <2>2 DEF DeviceState
  <2>5. soonest \in Deadline
    BY <2>4, EarliestType
  <2>6. Max(counts) \in 0..MaxErrors /\ file.accounts[a].count <= Max(counts)
    BY <2>3, MaxOfCounts
  <2>7. RegisteredAccount(a, config, file) =
          [ids |-> ids, count |-> Max(counts),
           next |-> IF file.accounts[a].next = None /\ Max(counts) > 0
                      THEN soonest ELSE file.accounts[a].next]
    BY DEF RegisteredAccount
  <2>. HIDE DEF ids, counts, nexts, soonest
  <2>. QED  BY <2>1, <2>2, <2>5, <2>6, <2>7, SchedulerAssumption DEF AccountState
<1>4. RegisteredDevices(config, file) \in [Devices -> DeviceState]
  BY <1>2 DEF RegisteredDevices, DeviceState
<1>. QED  BY <1>3, <1>4 DEF Registered

(* Registration only ever adds a record to a device. *)
LEMMA RegistrationKeeps ==
  ASSUME NEW config \in Configurations, NEW file \in StateFile, NEW d \in Devices
  PROVE  LET new == RegisteredDevices(config, file)[d]
             old == file.devices[d]
         IN  /\ new.paused = old.paused /\ new.count = old.count /\ new.next = old.next
             /\ old.known => new.known
             /\ \A a \in Accounts : d \in RegisteredIds(a, config, file) => new.known
<1>1. file.devices[d] \in DeviceState
  BY DEF StateFile
<1>. QED  BY <1>1 DEF RegisteredDevices, DeviceState

-----------------------------------------------------------------------------
(* Types of the helpers *)

(* A deadline that passes stays a deadline, on each of the four clocks. *)
LEMMA ElapsedType ==
  /\ \A x \in Deadline : Sooner(x) \in Deadline
  /\ \A x \in Nat : Sooner(x) \in Nat
  /\ \A as \in [Accounts -> AccountState] :
       ElapsedAccounts(as) \in [Accounts -> AccountState]
  /\ \A ds \in [Devices -> DeviceState] :
       ElapsedDevices(ds) \in [Devices -> DeviceState]
  /\ \A q \in [Accounts -> Nat] : ElapsedQuiet(q) \in [Accounts -> Nat]
<1>1. \A x \in Deadline : Sooner(x) \in Deadline
  BY SchedulerAssumption DEF Sooner, Deadline
<1>2. \A x \in Nat : Sooner(x) \in Nat
  BY SchedulerAssumption DEF Sooner
<1>3. \A as \in [Accounts -> AccountState] :
        ElapsedAccounts(as) \in [Accounts -> AccountState]
  BY <1>1 DEF ElapsedAccounts, AccountState
<1>4. \A ds \in [Devices -> DeviceState] :
        ElapsedDevices(ds) \in [Devices -> DeviceState]
  BY <1>1 DEF ElapsedDevices, DeviceState
<1>5. \A q \in [Accounts -> Nat] : ElapsedQuiet(q) \in [Accounts -> Nat]
  BY <1>2 DEF ElapsedQuiet
<1>. QED  BY <1>1, <1>2, <1>3, <1>4, <1>5

(* A moment of a tick, seen from now. *)
LEMMA AtType ==
  ASSUME TypeOK, NEW x \in Nat
  PROVE  At(x) \in Nat
BY DEF TypeOK, At

(* Applying snapshots keeps the device map well typed, and touches neither *)
(* the pauses nor the records that exist.                                  *)
LEMMA UpdatedFacts ==
  ASSUME TypeOK, NEW reported \in SUBSET Devices, NEW f \in [reported -> Intervals]
  PROVE  /\ Updated(reported, f) \in [Devices -> DeviceState]
         /\ \A d \in Devices :
              /\ Updated(reported, f)[d].paused = devices[d].paused
              /\ devices[d].known \/ d \in reported => Updated(reported, f)[d].known
<1>1. devices \in [Devices -> DeviceState]
  BY DEF TypeOK
<1>2. \A d \in reported : At(f[d]) \in Deadline
  BY AtType, SchedulerAssumption DEF Deadline
<1>. QED  BY <1>1, <1>2 DEF Updated, DeviceState

(* So does the end of a refresh. *)
LEMMA RecoveredFacts ==
  ASSUME TypeOK, NEW ids, NEW ds \in [Devices -> DeviceState]
  PROVE  /\ Recovered(ids, ds) \in [Devices -> DeviceState]
         /\ \A d \in Devices :
              /\ Recovered(ids, ds)[d].paused = ds[d].paused
              /\ Recovered(ids, ds)[d].known = ds[d].known
<1>1. At(DefaultInterval) \in Deadline
  BY AtType, SchedulerAssumption DEF Deadline
<1>2. 0 \in 0..MaxErrors
  BY SchedulerAssumption
<1>. QED  BY <1>1, <1>2 DEF Recovered, DeviceState

(* So does bringing a group of devices forward. *)
LEMMA BroughtForwardFacts ==
  ASSUME NEW group, NEW ds \in [Devices -> DeviceState]
  PROVE  /\ BroughtForward(group, ds) \in [Devices -> DeviceState]
         /\ \A d \in Devices :
              /\ BroughtForward(group, ds)[d].paused = ds[d].paused
              /\ BroughtForward(group, ds)[d].known = ds[d].known
<1>1. NearbyExitDelay \in Deadline
  BY SchedulerAssumption DEF Deadline
<1>. QED  BY <1>1 DEF BroughtForward, DeviceState

(* The moment of the next discovery is a deadline. *)
LEMMA NextDiscoveryType ==
  ASSUME TypeOK, NEW ids \in SUBSET Devices, NEW ds \in [Devices -> DeviceState]
  PROVE  NextDiscovery(ids, ds) \in Deadline
<1>1. At(DefaultInterval) \in Deadline
  BY AtType, SchedulerAssumption DEF Deadline
<1>2. {ds[d].next : d \in ids} \subseteq Deadline
  BY DEF DeviceState
<1>3. Earliest({ds[d].next : d \in ids}) \in Deadline
  BY <1>2, EarliestType
<1>. QED  BY <1>1, <1>3 DEF NextDiscovery

(* The count after another failure stays within the retry table, which then *)
(* names a retry interval.                                                  *)
LEMMA FailureFacts ==
  ASSUME TypeOK, NEW a \in Accounts
  PROVE  /\ ErrorsAfter(a) \in 1..MaxErrors
         /\ At(RetryAfter(ErrorsAfter(a))) \in Nat
<1>1. runtime[a].count \in 0..MaxErrors
  BY DEF TypeOK, AccountState
<1>2. ErrorsAfter(a) \in 1..MaxErrors
  BY <1>1, SchedulerAssumption DEF ErrorsAfter
<1>3. RetryAfter(ErrorsAfter(a)) \in Nat
  BY <1>2, SchedulerAssumption DEF RetryAfter
<1>. QED  BY <1>2, <1>3, AtType

(* The devices a family-wide call may report exist. *)
LEMMA ReportsType ==
  ASSUME TypeOK, NEW a \in Accounts, NEW reported \in Reports(a)
  PROVE  reported \in SUBSET Devices /\ IdsAfter(a, reported) \in SUBSET Devices
<1>1. Visible[a] \in SUBSET Devices /\ configured[a] \in SUBSET Devices
  BY SchedulerAssumption DEF TypeOK
<1>. QED  BY <1>1 DEF Reports, IdsAfter

(* What a refresh that returns early leaves of the devices. *)
Aborted(reported, applied, f) ==
  \/ devices' = Updated(applied, f)
  \/ \E e \in reported : devices' = [Updated(applied, f) EXCEPT ![e].known = TRUE]

(* What is saved is what a state file may hold. *)
LEMMA ConcludeType ==
  ASSUME disk \in StateFile, NEW ok \in BOOLEAN, Conclude(ok),
         accounts' \in [Accounts -> AccountState],
         devices' \in [Devices -> DeviceState],
         quiet' \in [Accounts -> Nat]
  PROVE  disk' \in StateFile
BY DEF Conclude, Save, StateFile

-----------------------------------------------------------------------------
(* Type correctness *)

(* The first process starts well typed. *)
LEMMA InitType == Init => TypeOK
<1>. SUFFICES ASSUME NEW config \in Configurations,
                     NEW saved \in MigratedDevices \cup {[d \in Devices |-> NewDevice]},
                     phase = "idle", shutdown = FALSE, configured = config,
                     disk = [accounts |-> [a \in Accounts |-> NewAccount],
                             devices |-> saved,
                             quiet |-> [a \in Accounts |-> 0]],
                     runtime = Registered(config, disk),
                     accounts = Registered(config, disk),
                     devices = RegisteredDevices(config, disk),
                     due = {}, lag = 0, failure = "none", quiet = disk.quiet,
                     acked = [d \in Devices |->
                                IF saved[d].paused THEN "paused" ELSE "running"]
              PROVE  TypeOK
  BY DEF Init
<1>1. NewAccount \in AccountState /\ NewDevice \in DeviceState
  BY SchedulerAssumption DEF NewAccount, NewDevice, AccountState, DeviceState, Deadline
<1>2. saved \in [Devices -> DeviceState]
  BY <1>1, SchedulerAssumption
<1>3. disk \in StateFile
  BY <1>1, <1>2 DEF StateFile
<1>4. quiet \in [Accounts -> Nat]
  BY <1>3 DEF StateFile
<1>5. configured \in [Accounts -> SUBSET Devices]
  BY SchedulerAssumption
<1>6. acked \in [Devices -> {"paused", "running", "unknown"}]
  OBVIOUS
<1>. QED  BY <1>3, <1>4, <1>5, <1>6, RegistrationFacts DEF TypeOK, Phases

(* Every step leaves the state well typed. *)
LEMMA NextType == TypeOK /\ [Next]_vars => TypeOK'
<1>. SUFFICES ASSUME TypeOK, [Next]_vars  PROVE TypeOK'
  OBVIOUS
<1>. USE DEF Phases
<1>. DEFINE MemoryType == /\ runtime' \in [Accounts -> AccountState]
                         /\ accounts' \in [Accounts -> AccountState]
                         /\ devices' \in [Devices -> DeviceState]
                         /\ quiet' \in [Accounts -> Nat]
<1>0. /\ Outcomes \subseteq BOOLEAN
      /\ configured \in [Accounts -> SUBSET Devices]
      /\ runtime \in [Accounts -> AccountState]
      /\ accounts \in [Accounts -> AccountState]
      /\ devices \in [Devices -> DeviceState]
      /\ quiet \in [Accounts -> Nat]
      /\ disk \in StateFile
  BY SchedulerAssumption DEF TypeOK
<1>1. CASE BeginTick
  BY <1>1 DEF BeginTick, memory, TypeOK
<1>2. ASSUME NEW a \in Accounts, RefreshAccount(a)  PROVE TypeOK'
  <2>0. PICK reported \in Reports(a) : \E f \in [reported -> Intervals] :
          Refreshed(a, reported, f)
    BY <1>2 DEF RefreshAccount
  <2>1. PICK f \in [reported -> Intervals] : Refreshed(a, reported, f)
    BY <2>0
  <2>. DEFINE ids == IdsAfter(a, reported)
              ds == Recovered(ids, Updated(reported, f))
              record == [ids |-> ids, count |-> 0, next |-> NextDiscovery(ids, ds)]
  <2>2. reported \in SUBSET Devices /\ ids \in SUBSET Devices
    BY ReportsType
  <2>3. ds \in [Devices -> DeviceState]
    BY <2>2, UpdatedFacts, RecoveredFacts
  <2>4. NextDiscovery(ids, ds) \in Deadline
    BY <2>2, <2>3, NextDiscoveryType
  <2>. HIDE DEF ids, ds
  <2>5. record \in AccountState
    BY <2>2, <2>4, SchedulerAssumption DEF AccountState
  <2>6. MemoryType
    BY <1>0, <1>2, <2>1, <2>3, <2>5 DEF Refreshed, RefreshAccount, ids, ds
  <2>. QED  BY <1>2, <2>6 DEF RefreshAccount, TypeOK
<1>3. ASSUME NEW a \in Accounts, NEW why \in {"sample", "sink"}, AbortRefresh(a, why)
      PROVE  TypeOK'
  <2>0. PICK reported \in Reports(a) : \E applied \in SUBSET reported :
          \E f \in [applied -> Intervals] : Aborted(reported, applied, f)
    BY <1>3 DEF AbortRefresh, Aborted
  <2>1. PICK applied \in SUBSET reported :
          \E f \in [applied -> Intervals] : Aborted(reported, applied, f)
    BY <2>0
  <2>2. applied \in SUBSET Devices
    BY ReportsType
  <2>3. PICK f \in [applied -> Intervals] : Aborted(reported, applied, f)
    BY <2>1
  <2>5. Updated(applied, f) \in [Devices -> DeviceState]
    BY <2>2, UpdatedFacts
  <2>4. devices' \in [Devices -> DeviceState]
    BY <2>3, <2>5 DEF Aborted, DeviceState
  <2>. QED  BY <1>3, <2>4 DEF AbortRefresh, TypeOK
<1>4. ASSUME NEW a \in Accounts, NEW ok \in Outcomes, FailAccount(a, ok)
      PROVE  TypeOK'
  <2>. DEFINE count == ErrorsAfter(a)
              retry == At(RetryAfter(count))
              record == [ids |-> runtime[a].ids, count |-> count, next |-> retry]
  <2>1. count \in 0..MaxErrors /\ retry \in Nat
    BY FailureFacts, SchedulerAssumption
  <2>2. /\ RecordFailure(a, record)
        /\ devices' = [d \in Devices |->
             IF d \in runtime[a].ids
               THEN [devices[d] EXCEPT !.count = count, !.next = retry]
               ELSE devices[d]]
        /\ quiet' = [quiet EXCEPT ![a] = retry]
    BY <1>4 DEF FailAccount, FailedDevices
  <2>. HIDE DEF count, retry
  <2>3. record \in AccountState
    BY <1>0, <2>1 DEF AccountState, Deadline
  <2>4. MemoryType
    BY <1>0, <2>1, <2>2, <2>3 DEF RecordFailure, DeviceState, Deadline
  <2>. QED  BY <1>0, <1>4, <2>4 DEF FailAccount, TypeOK
<1>5. ASSUME NEW ok \in Outcomes, EndTick(ok)  PROVE TypeOK'
  <2>1. MemoryType
    BY <1>0, <1>5 DEF EndTick, memory
  <2>2. disk' \in StateFile
    BY <1>0, <1>5, <2>1, ConcludeType DEF EndTick
  <2>. QED  BY <1>0, <1>5, <2>1, <2>2 DEF EndTick, TypeOK
<1>6. CASE RequestShutdown
  BY <1>6 DEF RequestShutdown, memory, TypeOK
<1>7. ASSUME NEW ok \in Outcomes, Stop(ok)  PROVE TypeOK'
  <2>1. MemoryType
    BY <1>0, <1>7 DEF Stop, memory
  <2>2. disk' \in StateFile
    BY <1>0, <1>7, <2>1, ConcludeType DEF Stop
  <2>. QED  BY <1>0, <1>7, <2>1, <2>2 DEF Stop, TypeOK
<1>8. CASE Elapse
  <2>1. MemoryType
    BY <1>0, <1>8, ElapsedType DEF Elapse
  <2>2. disk' \in StateFile
    BY <1>0, <1>8, ElapsedType DEF Elapse, StateFile
  <2>3. lag' \in Nat
    BY <1>8 DEF Elapse, TypeOK
  <2>. QED  BY <1>8, <2>1, <2>2, <2>3 DEF Elapse, TypeOK
<1>9. ASSUME NEW selected, NEW ok \in Outcomes, Pause(selected, ok) \/ Resume(selected, ok)
      PROVE  TypeOK'
  <2>1. 0 \in Deadline
    BY DEF Deadline
  <2>2. devices' \in [Devices -> DeviceState]
    <3>1. CASE Pause(selected, ok)
      BY <1>0, <3>1 DEF Pause, DeviceState
    <3>2. CASE Resume(selected, ok)
      BY <1>0, <2>1, <3>2 DEF Resume, DeviceState
    <3>. QED  BY <1>9, <3>1, <3>2
  <2>3. acked' \in [Devices -> {"paused", "running", "unknown"}]
    BY <1>9 DEF Pause, Resume, Acknowledge, TypeOK
  <2>4. MemoryType
    BY <1>0, <1>9, <2>2 DEF Pause, Resume
  <2>5. disk' \in StateFile
    BY <1>0, <1>9, <2>4, ConcludeType DEF Pause, Resume
  <2>. QED  BY <1>9, <2>3, <2>4, <2>5 DEF Pause, Resume, TypeOK
<1>10. ASSUME NEW d \in Devices, NEW at \in ScheduleTimes, NEW ok \in Outcomes,
              Schedule(d, at, ok)
       PROVE  TypeOK'
  <2>1. at \in Deadline
    BY SchedulerAssumption DEF Deadline
  <2>2. MemoryType
    BY <1>0, <1>10, <2>1 DEF Schedule, DeviceState
  <2>3. disk' \in StateFile
    BY <1>0, <1>10, <2>2, ConcludeType DEF Schedule
  <2>. QED  BY <1>10, <2>2, <2>3 DEF Schedule, TypeOK
<1>11. ASSUME NEW a \in Accounts, NEW ok \in Outcomes, LocateNow(a, ok)
       PROVE  TypeOK'
  <2>1. 0 \in Deadline
    BY DEF Deadline
  <2>2. MemoryType
    BY <1>0, <1>11, <2>1, ZenonT(60) DEF LocateNow, DeviceState, AccountState
  <2>3. disk' \in StateFile
    BY <1>0, <1>11, <2>2, ConcludeType DEF LocateNow
  <2>. QED  BY <1>11, <2>2, <2>3 DEF LocateNow, TypeOK
<1>12. ASSUME NEW d \in Devices, NEW i \in Intervals, NEW group, NEW ok \in Outcomes,
              IngestExternal(d, i, group, ok)
       PROVE  TypeOK'
  <2>. DEFINE f == [x \in {d} |-> i]
  <2>1. f \in [{d} -> Intervals]
    OBVIOUS
  <2>. HIDE DEF f
  <2>2. Updated({d}, f) \in [Devices -> DeviceState]
    BY <2>1, UpdatedFacts
  <2>3. devices' \in [Devices -> DeviceState]
    <3>1. BroughtForward(group \ {d}, Updated({d}, f)) \in [Devices -> DeviceState]
      BY <2>2, BroughtForwardFacts
    <3>2. [devices EXCEPT ![d].known = TRUE] \in [Devices -> DeviceState]
      BY <1>0 DEF DeviceState
    <3>3. devices' \in {BroughtForward(group \ {d}, Updated({d}, f)),
                        [devices EXCEPT ![d].known = TRUE], Updated({d}, f)}
      BY <1>12 DEF IngestExternal, f
    <3>. QED  BY <2>2, <3>1, <3>2, <3>3
  <2>4. MemoryType
    BY <1>0, <1>12, <2>3 DEF IngestExternal
  <2>5. disk' \in StateFile
    BY <1>0, <1>12, <2>4, ConcludeType DEF IngestExternal
  <2>. QED  BY <1>12, <2>4, <2>5 DEF IngestExternal, TypeOK
<1>13. CASE Continue
  BY <1>13 DEF Continue, memory, TypeOK
<1>14. ASSUME NEW config \in Configurations, Restart(config)  PROVE TypeOK'
  <2>1. config \in [Accounts -> SUBSET Devices] /\ disk.quiet \in [Accounts -> Nat]
    BY <1>0, SchedulerAssumption DEF StateFile
  <2>2. /\ Registered(config, disk) \in [Accounts -> AccountState]
        /\ RegisteredDevices(config, disk) \in [Devices -> DeviceState]
    BY <1>0, RegistrationFacts
  <2>. QED  BY <1>14, <2>1, <2>2 DEF Restart, Load, TypeOK
<1>15. CASE UNCHANGED vars
  BY <1>15 DEF vars, TypeOK
<1>. QED
  BY <1>1, <1>2, <1>3, <1>4, <1>5, <1>6, <1>7, <1>8, <1>9, <1>10, <1>11, <1>12,
     <1>13, <1>14, <1>15
     DEF Next, Run, Tick, Serve, Command, Known

(* Every variable of the scheduler always has its type: in particular, error *)
(* counts stay within the retry table however often an account fails.        *)
THEOREM TypeCorrect == Spec => []TypeOK
BY InitType, NextType, PTL DEF Spec

-----------------------------------------------------------------------------
(* The inductive invariant *)

\* Configured devices have a record too: a refresh makes them an account's devices
ConfiguredKnown == \A a \in Accounts : \A d \in configured[a] : devices[d].known

IInv ==
  /\ TypeOK
  /\ BookkeepingAgrees
  /\ ConfiguredKnown
  /\ OwnedDevicesKnown
  /\ BackoffRecorded
  /\ BackoffHonoured
  /\ AckedPauseHolds

(* A process that starts from a good file knows the devices it was given,  *)
(* owns devices with records only, and honours the backoffs of the file.   *)
LEMMA LoadedFacts ==
  ASSUME NEW config \in Configurations, NEW file \in StateFile,
         Owned(file.accounts, file.devices), Recorded(file.accounts, file.quiet)
  PROVE  /\ Owned(Registered(config, file), RegisteredDevices(config, file))
         /\ Recorded(Registered(config, file), file.quiet)
         /\ \A a \in Accounts : \A d \in config[a] : RegisteredDevices(config, file)[d].known
<1>1. /\ config \in [Accounts -> SUBSET Devices]
      /\ file.accounts \in [Accounts -> AccountState]
      /\ file.quiet \in [Accounts -> Nat]
  BY SchedulerAssumption DEF StateFile
<1>2. \A a \in Accounts : RegisteredIds(a, config, file) \in SUBSET Devices
  BY <1>1 DEF RegisteredIds, AccountState
<1>3. \A a \in Accounts : \A d \in RegisteredIds(a, config, file) :
        RegisteredDevices(config, file)[d].known
  BY <1>2, RegistrationKeeps
<1>4. \A a \in Accounts : Registered(config, file)[a].ids = RegisteredIds(a, config, file)
  BY DEF Registered, RegisteredAccount
<1>5. Owned(Registered(config, file), RegisteredDevices(config, file))
  BY <1>3, <1>4 DEF Owned
<1>6. \A a \in Accounts : config[a] # {} => RegisteredIds(a, config, file) = config[a]
  BY DEF RegisteredIds
<1>7. ASSUME NEW a \in Accounts, file.quiet[a] > 0
      PROVE  /\ Registered(config, file)[a].count > 0
             /\ Registered(config, file)[a].next # None
             /\ Registered(config, file)[a].next >= file.quiet[a]
  <2>1. /\ file.accounts[a].count > 0 /\ file.accounts[a].next # None
        /\ file.accounts[a].next >= file.quiet[a]
    BY <1>7 DEF Recorded
  <2>2. /\ Registered(config, file)[a].count >= file.accounts[a].count
        /\ Registered(config, file)[a].next = file.accounts[a].next
    BY <2>1, RegistrationFacts
  <2>3. file.accounts[a].count \in Int /\ Registered(config, file)[a].count \in Int
    BY <1>1, RegistrationFacts, SchedulerAssumption DEF AccountState
  <2>. QED  BY <2>1, <2>2, <2>3
<1>. QED  BY <1>3, <1>5, <1>6, <1>7 DEF Recorded

(* The first process starts in a good state. *)
LEMMA InitIInv == Init => IInv
<1>. SUFFICES ASSUME Init  PROVE IInv
  OBVIOUS
<1>1. TypeOK
  BY InitType
<1>2. /\ configured \in Configurations /\ disk \in StateFile
      /\ runtime = Registered(configured, disk) /\ accounts = runtime
      /\ devices = RegisteredDevices(configured, disk)
      /\ quiet = disk.quiet /\ phase = "idle"
  BY <1>1 DEF Init, TypeOK
<1>3. \A a \in Accounts : disk.accounts[a] = NewAccount /\ disk.quiet[a] = 0
  BY DEF Init
<1>4. Owned(disk.accounts, disk.devices) /\ Recorded(disk.accounts, disk.quiet)
  BY <1>3 DEF Owned, Recorded, NewAccount
<1>5. OwnedDevicesKnown /\ BackoffRecorded /\ ConfiguredKnown
  BY <1>2, <1>4, LoadedFacts DEF OwnedDevicesKnown, BackoffRecorded, ConfiguredKnown
<1>6. PausesAgree(disk.devices)
  <2>1. acked = [d \in Devices |-> IF disk.devices[d].paused THEN "paused" ELSE "running"]
    BY DEF Init
  <2>2. \A d \in Devices : disk.devices[d].paused \in BOOLEAN
    BY <1>2 DEF StateFile, DeviceState
  <2>. QED  BY <2>1, <2>2 DEF PausesAgree
<1>7. PausesAgree(devices)
  BY <1>2, <1>6, RegistrationKeeps DEF PausesAgree
<1>. QED
  BY <1>1, <1>2, <1>5, <1>6, <1>7
     DEF IInv, BookkeepingAgrees, BackoffHonoured, AckedPauseHolds

(* A save carries what is true of memory over to the file. *)
LEMMA ConcludeKeeps ==
  ASSUME IInv, TypeOK', NEW ok \in BOOLEAN, Conclude(ok),
         BookkeepingAgrees',
         Owned(runtime', devices'), Recorded(runtime', quiet'), PausesAgree(devices)',
         \A d \in Devices : acked'[d] \in {acked[d], "unknown"} \/ ok
  PROVE  OwnedDevicesKnown' /\ BackoffRecorded' /\ AckedPauseHolds'
<1>1. CASE ok
  <2>1. /\ disk'.accounts = runtime' /\ disk'.devices = devices' /\ disk'.quiet = quiet'
    BY <1>1 DEF Conclude, Save, BookkeepingAgrees
  <2>. QED  BY <2>1 DEF OwnedDevicesKnown, BackoffRecorded, AckedPauseHolds, PausesAgree
<1>2. CASE ~ok
  <2>1. disk' = disk
    BY <1>2 DEF Conclude
  <2>2. Owned(disk.accounts, disk.devices) /\ Recorded(disk.accounts, disk.quiet)
    BY DEF IInv, OwnedDevicesKnown, BackoffRecorded
  <2>3. PausesAgree(disk.devices)'
    BY <1>2, <2>1 DEF IInv, AckedPauseHolds, PausesAgree
  <2>. QED  BY <2>1, <2>2, <2>3 DEF OwnedDevicesKnown, BackoffRecorded, AckedPauseHolds
<1>. QED  BY <1>1, <1>2


(* Every step leads from a good state to a good state. *)
LEMMA NextIInv == IInv /\ [Next]_vars => IInv'
<1>. SUFFICES ASSUME IInv, [Next]_vars  PROVE IInv'
  OBVIOUS
<1>0. /\ TypeOK' /\ Outcomes \subseteq BOOLEAN
      /\ runtime \in [Accounts -> AccountState]
      /\ accounts \in [Accounts -> AccountState]
      /\ devices \in [Devices -> DeviceState]
      /\ quiet \in [Accounts -> Nat]
      /\ disk \in StateFile
      /\ runtime = accounts
      /\ Owned(runtime, devices) /\ Owned(disk.accounts, disk.devices)
      /\ Recorded(runtime, quiet) /\ Recorded(disk.accounts, disk.quiet)
  BY NextType, SchedulerAssumption
     DEF IInv, TypeOK, BookkeepingAgrees, OwnedDevicesKnown, BackoffRecorded
<1>. DEFINE KnownGrows == \A d \in Devices : devices[d].known => devices'[d].known
            PausesKept == \A d \in Devices : devices'[d].paused = devices[d].paused
(* What a step that leaves the accounts and the file alone has to show *)
<1>a. ASSUME UNCHANGED <<configured, runtime, accounts, quiet, disk, acked>>,
             KnownGrows, PausesKept
      PROVE  /\ BookkeepingAgrees' /\ ConfiguredKnown' /\ OwnedDevicesKnown'
             /\ BackoffRecorded' /\ AckedPauseHolds'
  <2>1. /\ \A a \in Accounts : runtime[a].ids \in SUBSET Devices
        /\ \A a \in Accounts : configured[a] \in SUBSET Devices
    BY <1>0 DEF AccountState, IInv, TypeOK
  <2>2. Owned(runtime, devices')
    BY <1>0, <1>a, <2>1 DEF Owned
  <2>3. ConfiguredKnown'
    BY <1>a, <2>1 DEF IInv, ConfiguredKnown
  <2>4. AckedPauseHolds'
    BY <1>a DEF IInv, AckedPauseHolds, PausesAgree
  <2>5. OwnedDevicesKnown' /\ BackoffRecorded'
    BY <1>0, <1>a, <2>2 DEF OwnedDevicesKnown, BackoffRecorded
  <2>. QED  BY <1>0, <1>a, <2>3, <2>4, <2>5 DEF BookkeepingAgrees
(* What an operation that saves has to show *)
<1>b. ASSUME NEW ok \in Outcomes, Conclude(ok), UNCHANGED configured,
             runtime' = accounts', \A a \in Accounts : runtime'[a].ids = runtime[a].ids,
             KnownGrows, PausesAgree(devices)', Recorded(runtime', quiet'),
             \A d \in Devices : acked'[d] \in {acked[d], "unknown"} \/ ok
      PROVE  /\ BookkeepingAgrees' /\ ConfiguredKnown' /\ OwnedDevicesKnown'
             /\ BackoffRecorded' /\ AckedPauseHolds'
  <2>1. /\ \A a \in Accounts : runtime[a].ids \in SUBSET Devices
        /\ \A a \in Accounts : configured[a] \in SUBSET Devices
    BY <1>0 DEF AccountState, IInv, TypeOK
  <2>2. Owned(runtime', devices')
    BY <1>0, <1>b, <2>1 DEF Owned
  <2>3. ConfiguredKnown'
    BY <1>b, <2>1 DEF IInv, ConfiguredKnown
  <2>4. BookkeepingAgrees'
    BY <1>b DEF BookkeepingAgrees
  <2>. QED  BY <1>0, <1>b, <2>2, <2>3, <2>4, ConcludeKeeps
<1>1. CASE BeginTick
  <2>1. ASSUME NEW a \in due'  PROVE quiet'[a] = 0
    <3>1. a \in Accounts /\ AccountIsDue(a)
      BY <1>1, <2>1 DEF BeginTick
    <3>2. CASE quiet[a] > 0
      <4>1. /\ runtime[a].count > 0 /\ runtime[a].next # None
            /\ runtime[a].next >= quiet[a]
        BY <1>0, <3>1, <3>2 DEF Recorded
      <4>2. runtime[a].next = 0
        BY <3>1, <4>1 DEF AccountIsDue
      <4>. QED  BY <1>0, <3>1, <3>2, <4>1, <4>2
    <3>. QED  BY <1>0, <1>1, <3>1, <3>2 DEF BeginTick
  <2>2. BackoffHonoured'
    BY <2>1 DEF BackoffHonoured
  <2>. QED  BY <1>0, <1>1, <1>a, <2>2 DEF BeginTick, memory, IInv
<1>2. ASSUME NEW a \in Accounts, RefreshAccount(a)  PROVE IInv'
  <2>0. PICK reported \in Reports(a) : \E f \in [reported -> Intervals] :
          Refreshed(a, reported, f)
    BY <1>2 DEF RefreshAccount
  <2>1. PICK f \in [reported -> Intervals] : Refreshed(a, reported, f)
    BY <2>0
  <2>. DEFINE ids == IdsAfter(a, reported)
  <2>2. reported \in SUBSET Devices /\ ids \in SUBSET Devices
    BY ReportsType DEF IInv
  <2>3. PICK us \in [Devices -> DeviceState] :
          /\ us = Updated(reported, f)
          /\ \A d \in Devices : /\ us[d].paused = devices[d].paused
                                /\ devices[d].known \/ d \in reported => us[d].known
    BY <2>2, UpdatedFacts DEF IInv
  <2>4. /\ devices' = Recovered(ids, us)
        /\ runtime' = accounts'
        /\ \A b \in Accounts : b # a => runtime'[b] = runtime[b]
        /\ runtime'[a].ids = ids
    BY <1>0, <2>1, <2>3 DEF Refreshed
  <2>5. \A d \in Devices : devices'[d].paused = us[d].paused /\ devices'[d].known = us[d].known
    BY <2>3, <2>4, RecoveredFacts DEF IInv
  <2>6. KnownGrows /\ PausesKept
    BY <2>3, <2>5
  <2>7. ConfiguredKnown'
    BY <1>2, <2>6 DEF RefreshAccount, IInv, ConfiguredKnown, TypeOK
  <2>8. \A d \in ids : devices'[d].known
    <3>1. CASE configured[a] = {}
      BY <2>2, <2>3, <2>5, <3>1 DEF IdsAfter
    <3>2. CASE configured[a] # {}
      BY <1>2, <2>7, <3>2 DEF IdsAfter, ConfiguredKnown, RefreshAccount
    <3>. QED  BY <3>1, <3>2
  <2>9. Owned(runtime', devices')
    <3>1. \A b \in Accounts : runtime[b].ids \in SUBSET Devices
      BY <1>0 DEF AccountState
    <3>. QED  BY <1>0, <2>4, <2>6, <2>8, <3>1 DEF Owned
  <2>10. Recorded(runtime', quiet')
    BY <1>0, <1>2, <2>4 DEF Recorded, RefreshAccount
  <2>11. OwnedDevicesKnown' /\ BackoffRecorded'
    BY <1>0, <1>2, <2>9, <2>10 DEF RefreshAccount, OwnedDevicesKnown, BackoffRecorded
  <2>12. AckedPauseHolds'
    BY <1>2, <2>6 DEF RefreshAccount, IInv, AckedPauseHolds, PausesAgree
  <2>13. BackoffHonoured'
    BY <1>0, <1>2 DEF RefreshAccount, IInv, BackoffHonoured, TypeOK
  <2>14. BookkeepingAgrees'
    BY <1>2, <2>4 DEF RefreshAccount, BookkeepingAgrees
  <2>. QED  BY <1>0, <2>7, <2>11, <2>12, <2>13, <2>14 DEF IInv
<1>3. ASSUME NEW a \in Accounts, NEW why \in {"sample", "sink"}, AbortRefresh(a, why)
      PROVE  IInv'
  <2>0. PICK reported \in Reports(a) : \E applied \in SUBSET reported :
          \E f \in [applied -> Intervals] : Aborted(reported, applied, f)
    BY <1>3 DEF AbortRefresh, Aborted
  <2>1. PICK applied \in SUBSET reported :
          \E f \in [applied -> Intervals] : Aborted(reported, applied, f)
    BY <2>0
  <2>2. PICK f \in [applied -> Intervals] : Aborted(reported, applied, f)
    BY <2>1
  <2>3. applied \in SUBSET Devices
    BY ReportsType DEF IInv
  <2>4. PICK us \in [Devices -> DeviceState] :
          /\ us = Updated(applied, f)
          /\ \A d \in Devices : /\ us[d].paused = devices[d].paused
                                /\ devices[d].known => us[d].known
    BY <2>3, UpdatedFacts DEF IInv
  <2>5. devices' = us \/ \E e \in reported : devices' = [us EXCEPT ![e].known = TRUE]
    BY <2>2, <2>4 DEF Aborted
  <2>6. KnownGrows /\ PausesKept
    <3>1. \A d \in Devices : /\ devices'[d].paused = us[d].paused
                             /\ us[d].known => devices'[d].known
      BY <2>4, <2>5 DEF DeviceState
    <3>. QED  BY <2>4, <3>1
  <2>7. BackoffHonoured'
    BY <1>3 DEF AbortRefresh, BackoffHonoured
  <2>. QED  BY <1>0, <1>3, <1>a, <2>6, <2>7 DEF AbortRefresh, IInv
<1>4. ASSUME NEW a \in Accounts, NEW ok \in Outcomes, FailAccount(a, ok)
      PROVE  IInv'
  <2>. DEFINE count == ErrorsAfter(a)
              retry == At(RetryAfter(count))
              record == [ids |-> runtime[a].ids, count |-> count, next |-> retry]
  <2>1. count \in 1..MaxErrors /\ retry \in Nat
    BY FailureFacts DEF IInv
  <2>2. /\ RecordFailure(a, record)
        /\ devices' = [d \in Devices |->
             IF d \in runtime[a].ids
               THEN [devices[d] EXCEPT !.count = count, !.next = retry]
               ELSE devices[d]]
        /\ quiet' = [quiet EXCEPT ![a] = retry]
    BY <1>4 DEF FailAccount, FailedDevices
  <2>. HIDE DEF count, retry
  <2>3. KnownGrows /\ PausesKept
    BY <1>0, <2>2 DEF DeviceState
  <2>4. /\ runtime' = accounts'
        /\ \A b \in Accounts : b # a => runtime'[b] = runtime[b] /\ quiet'[b] = quiet[b]
        /\ runtime'[a] = record /\ quiet'[a] = retry
        /\ \A b \in Accounts : runtime'[b].ids = runtime[b].ids
    BY <1>0, <2>2 DEF RecordFailure
  <2>5. Recorded(runtime', quiet')
    BY <1>0, <2>1, <2>4, SchedulerAssumption DEF Recorded
  <2>6. Owned(runtime', devices')
    <3>1. \A b \in Accounts : runtime[b].ids \in SUBSET Devices
      BY <1>0 DEF AccountState
    <3>. QED  BY <1>0, <2>3, <2>4, <3>1 DEF Owned
  <2>7. OwnedDevicesKnown' /\ BackoffRecorded'
    BY <1>0, <1>4, <2>5, <2>6 DEF FailAccount, OwnedDevicesKnown, BackoffRecorded
  <2>8. ConfiguredKnown'
    BY <1>4, <2>3 DEF FailAccount, IInv, ConfiguredKnown, TypeOK
  <2>9. AckedPauseHolds'
    BY <1>4, <2>3 DEF FailAccount, IInv, AckedPauseHolds, PausesAgree
  <2>10. BackoffHonoured'
    BY <1>4, <2>4 DEF FailAccount, IInv, BackoffHonoured, TypeOK
  <2>11. BookkeepingAgrees'
    BY <1>4, <2>4 DEF FailAccount, BookkeepingAgrees
  <2>. QED  BY <1>0, <2>7, <2>8, <2>9, <2>10, <2>11 DEF IInv
<1>5. ASSUME NEW ok \in Outcomes, EndTick(ok) \/ Stop(ok)  PROVE IInv'
  <2>1. /\ Conclude(ok)
        /\ UNCHANGED <<configured, runtime, accounts, devices, quiet, acked>>
    BY <1>5 DEF EndTick, Stop, memory
  <2>2. PausesAgree(devices)'
    BY <2>1 DEF IInv, AckedPauseHolds, PausesAgree
  <2>3. BackoffHonoured'
    BY <1>5 DEF EndTick, Stop, BackoffHonoured
  <2>. QED  BY <1>0, <1>b, <2>1, <2>2, <2>3 DEF IInv
<1>6. CASE RequestShutdown
  BY <1>0, <1>6, <1>a
     DEF RequestShutdown, memory, IInv, BackoffHonoured
<1>7. CASE Continue
  BY <1>0, <1>7, <1>a DEF Continue, memory, IInv, BackoffHonoured
<1>8. CASE Elapse
  <2>1. \A a \in Accounts : /\ runtime'[a].ids = runtime[a].ids
                            /\ runtime'[a].count = runtime[a].count
                            /\ runtime'[a].next = Sooner(runtime[a].next)
                            /\ quiet'[a] = Sooner(quiet[a])
                            /\ disk'.accounts[a].ids = disk.accounts[a].ids
                            /\ disk'.accounts[a].count = disk.accounts[a].count
                            /\ disk'.accounts[a].next = Sooner(disk.accounts[a].next)
                            /\ disk'.quiet[a] = Sooner(disk.quiet[a])
    BY <1>0, <1>8 DEF Elapse, ElapsedAccounts, ElapsedQuiet, AccountState, StateFile
  <2>2. \A d \in Devices : /\ devices'[d].known = devices[d].known
                           /\ devices'[d].paused = devices[d].paused
                           /\ disk'.devices[d].known = disk.devices[d].known
                           /\ disk'.devices[d].paused = disk.devices[d].paused
    BY <1>0, <1>8 DEF Elapse, ElapsedDevices, DeviceState, StateFile
  <2>3. ASSUME NEW q \in Nat, NEW next \in Deadline, q > 0 => next # None /\ next >= q,
               Sooner(q) > 0
        PROVE  Sooner(next) # None /\ Sooner(next) >= Sooner(q) /\ q > 0
    BY <2>3, SchedulerAssumption DEF Sooner, Deadline
  <2>4. BackoffRecorded'
    <3>1. Recorded(runtime', quiet')
      BY <1>0, <2>1, <2>3 DEF Recorded, AccountState
    <3>2. Recorded(disk'.accounts, disk'.quiet)
      BY <1>0, <2>1, <2>3 DEF Recorded, AccountState, StateFile
    <3>. QED  BY <3>1, <3>2 DEF BackoffRecorded
  <2>5. OwnedDevicesKnown'
    <3>1. \A a \in Accounts : /\ runtime[a].ids \in SUBSET Devices
                              /\ disk.accounts[a].ids \in SUBSET Devices
      BY <1>0 DEF AccountState, StateFile
    <3>. QED  BY <1>0, <2>1, <2>2, <3>1 DEF OwnedDevicesKnown, Owned
  <2>6. ConfiguredKnown'
    BY <1>8, <2>2 DEF Elapse, IInv, ConfiguredKnown, TypeOK
  <2>7. AckedPauseHolds'
    BY <1>8, <2>2 DEF Elapse, IInv, AckedPauseHolds, PausesAgree
  <2>8. BackoffHonoured'
    BY <1>8, <2>1 DEF Elapse, IInv, BackoffHonoured, TypeOK, Sooner
  <2>9. BookkeepingAgrees'
    BY <1>0, <1>8 DEF Elapse, IInv, BookkeepingAgrees
  <2>. QED  BY <1>0, <2>4, <2>5, <2>6, <2>7, <2>8, <2>9 DEF IInv
<1>9. ASSUME NEW selected, NEW ok \in Outcomes, Pause(selected, ok) \/ Resume(selected, ok)
      PROVE  IInv'
  <2>1. /\ UNCHANGED <<phase, configured, runtime, accounts, quiet>>
        /\ phase = "idle" /\ Conclude(ok)
    BY <1>9 DEF Pause, Resume
  <2>2. KnownGrows
    <3>1. CASE Pause(selected, ok)
      BY <1>0, <3>1 DEF Pause, DeviceState
    <3>2. CASE Resume(selected, ok)
      BY <1>0, <3>2 DEF Resume, DeviceState
    <3>. QED  BY <1>9, <3>1, <3>2
  <2>3. PausesAgree(devices)'
    <3>1. CASE Pause(selected, ok)
      BY <1>0, <3>1 DEF Pause, Acknowledge, IInv, AckedPauseHolds, PausesAgree, DeviceState
    <3>2. CASE Resume(selected, ok)
      BY <1>0, <3>2 DEF Resume, Acknowledge, IInv, AckedPauseHolds, PausesAgree, DeviceState
    <3>. QED  BY <1>9, <3>1, <3>2
  <2>4. \A d \in Devices : acked'[d] \in {acked[d], "unknown"} \/ ok
    BY <1>9 DEF Pause, Resume, Acknowledge
  <2>5. BackoffHonoured'
    BY <2>1 DEF BackoffHonoured
  <2>. QED  BY <1>0, <1>b, <2>1, <2>2, <2>3, <2>4, <2>5 DEF IInv
<1>10. ASSUME NEW d \in Devices, NEW at \in ScheduleTimes, NEW ok \in Outcomes,
              Schedule(d, at, ok)
       PROVE  IInv'
  <2>1. /\ UNCHANGED <<phase, configured, runtime, accounts, quiet, acked>>
        /\ phase = "idle" /\ Conclude(ok)
    BY <1>10 DEF Schedule
  <2>2. KnownGrows /\ PausesKept
    BY <1>0, <1>10 DEF Schedule, DeviceState
  <2>3. PausesAgree(devices)'
    BY <2>1, <2>2 DEF IInv, AckedPauseHolds, PausesAgree
  <2>4. BackoffHonoured'
    BY <2>1 DEF BackoffHonoured
  <2>. QED  BY <1>0, <1>b, <2>1, <2>2, <2>3, <2>4 DEF IInv
<1>11. ASSUME NEW a \in Accounts, NEW ok \in Outcomes, LocateNow(a, ok)
       PROVE  IInv'
  <2>1. /\ UNCHANGED <<phase, configured, acked>>
        /\ phase = "idle" /\ Conclude(ok)
    BY <1>11 DEF LocateNow
  <2>2. KnownGrows /\ PausesKept
    BY <1>0, <1>11 DEF LocateNow, DeviceState
  <2>3. /\ runtime' = accounts' /\ \A b \in Accounts : runtime'[b].ids = runtime[b].ids
        /\ Recorded(runtime', quiet')
    BY <1>0, <1>11 DEF LocateNow, AccountState, Recorded
  <2>4. PausesAgree(devices)'
    BY <2>1, <2>2 DEF IInv, AckedPauseHolds, PausesAgree
  <2>5. BackoffHonoured'
    BY <2>1 DEF BackoffHonoured
  <2>. QED  BY <1>0, <1>b, <2>1, <2>2, <2>3, <2>4, <2>5 DEF IInv
<1>12. ASSUME NEW d \in Devices, NEW i \in Intervals, NEW group, NEW ok \in Outcomes,
              IngestExternal(d, i, group, ok)
       PROVE  IInv'
  <2>. DEFINE f == [x \in {d} |-> i]
  <2>1. f \in [{d} -> Intervals]
    OBVIOUS
  <2>2. /\ UNCHANGED <<phase, configured, runtime, accounts, quiet, acked>>
        /\ phase = "idle" /\ Conclude(ok)
        /\ devices' \in {BroughtForward(group \ {d}, Updated({d}, f)),
                        [devices EXCEPT ![d].known = TRUE], Updated({d}, f)}
    BY <1>12 DEF IngestExternal
  <2>. HIDE DEF f
  <2>3. PICK us \in [Devices -> DeviceState] :
          /\ us = Updated({d}, f)
          /\ \A x \in Devices : /\ us[x].paused = devices[x].paused
                                /\ devices[x].known => us[x].known
    BY <2>1, UpdatedFacts DEF IInv
  <2>4. KnownGrows /\ PausesKept
    <3>1. CASE devices' = BroughtForward(group \ {d}, us)
      <4>1. \A x \in Devices : /\ devices'[x].paused = us[x].paused
                               /\ devices'[x].known = us[x].known
        BY <3>1, BroughtForwardFacts
      <4>. QED  BY <2>3, <4>1
    <3>2. CASE devices' = us
      BY <2>3, <3>2
    <3>3. CASE devices' = [devices EXCEPT ![d].known = TRUE]
      BY <1>0, <3>3 DEF DeviceState
    <3>. QED  BY <2>2, <2>3, <3>1, <3>2, <3>3
  <2>5. PausesAgree(devices)'
    BY <2>2, <2>4 DEF IInv, AckedPauseHolds, PausesAgree
  <2>6. BackoffHonoured'
    BY <2>2 DEF BackoffHonoured
  <2>. QED  BY <1>0, <1>b, <2>2, <2>4, <2>5, <2>6 DEF IInv
<1>13. ASSUME NEW config \in Configurations, Restart(config)  PROVE IInv'
  <2>1. /\ runtime' = Registered(config, disk) /\ accounts' = runtime'
        /\ devices' = RegisteredDevices(config, disk)
        /\ quiet' = disk.quiet /\ configured' = config /\ phase' = "idle"
        /\ UNCHANGED <<disk, acked>>
    BY <1>13 DEF Restart, Load
  <2>2. OwnedDevicesKnown' /\ BackoffRecorded' /\ ConfiguredKnown'
    BY <1>0, <2>1, LoadedFacts DEF OwnedDevicesKnown, BackoffRecorded, ConfiguredKnown
  <2>3. \A d \in Devices : devices'[d].paused = disk.devices[d].paused
    BY <1>0, <2>1, RegistrationKeeps
  <2>4. AckedPauseHolds'
    BY <2>1, <2>3 DEF IInv, AckedPauseHolds, PausesAgree
  <2>. QED  BY <1>0, <2>1, <2>2, <2>4
            DEF IInv, BookkeepingAgrees, BackoffHonoured
<1>14. CASE UNCHANGED vars
  BY <1>0, <1>14, <1>a DEF vars, IInv, BackoffHonoured
<1>. QED
  BY <1>1, <1>2, <1>3, <1>4, <1>5, <1>6, <1>7, <1>8, <1>9, <1>10, <1>11, <1>12,
     <1>13, <1>14
     DEF Next, Run, Tick, Serve, Command, Known

LEMMA InductiveInvariant == Spec => []IInv
BY InitIInv, NextIInv, PTL DEF Spec

(* The two records of every account never differ, failed operations included. *)
THEOREM BookkeepingAlwaysAgrees == Spec => []BookkeepingAgrees
<1>1. IInv => BookkeepingAgrees
  BY DEF IInv
<1>. QED  BY <1>1, InductiveInvariant, PTL

(* No account ever refers to a device without a record, in memory or in the *)
(* file, under any sequence of configurations.                              *)
THEOREM OwnedDevicesAlwaysKnown == Spec => []OwnedDevicesKnown
<1>1. IInv => OwnedDevicesKnown
  BY DEF IInv
<1>. QED  BY <1>1, InductiveInvariant, PTL

(* For any retry table, any number of accounts, any sharing of devices and   *)
(* any crash, an account is not called while a failure it recorded forbids   *)
(* it, unless locate_now asked for the call.                                 *)
THEOREM BackoffAlwaysHonoured == Spec => []BackoffHonoured
<1>1. IInv => BackoffHonoured
  BY DEF IInv
<1>. QED  BY <1>1, InductiveInvariant, PTL

(* A retry interval that runs is always on record, in memory and on disk. *)
THEOREM BackoffAlwaysRecorded == Spec => []BackoffRecorded
<1>1. IInv => BackoffRecorded
  BY DEF IInv
<1>. QED  BY <1>1, InductiveInvariant, PTL

(* An acknowledged pause or resume is undone by nothing but another one. *)
THEOREM AckedPauseAlwaysHolds == Spec => []AckedPauseHolds
<1>1. IInv => AckedPauseHolds
  BY DEF IInv
<1>. QED  BY <1>1, InductiveInvariant, PTL

-----------------------------------------------------------------------------
(* Accounts that a tick has found due and not called *)

\* Between ticks none is left; within one, SkippedStayDue
Skipped == (phase = "idle" => due = {}) /\ SkippedStayDue

(* One account is called, and changes devices within its reach only. *)
LEMMA CallSkips ==
  ASSUME IInv, Skipped, NEW b \in due, phase = "ticking", phase' # "idle",
         due' = due \ {b}, configured' = configured,
         \A a \in Accounts \ {b} : runtime'[a] = runtime[a],
         \A d \in Devices : devices'[d] = devices[d] \/ d \in Reach(b)'
  PROVE  Skipped'
<1>1. b \in Accounts /\ due \subseteq Accounts /\ runtime \in [Accounts -> AccountState]
  BY DEF IInv, TypeOK
<1>. SUFFICES ASSUME NEW a \in due \ {b}
              PROVE  \/ AccountIsDue(a)'
                     \/ \E c \in Accounts \ due' : Reach(c)' \cap runtime'[a].ids # {}
  BY DEF Skipped, SkippedStayDue
<1>2. runtime'[a] = runtime[a] /\ runtime[a].ids \subseteq Devices
  BY <1>1 DEF AccountState
<1>3. CASE Reach(b)' \cap runtime[a].ids # {}
  BY <1>1, <1>2, <1>3
<1>4. CASE AccountIsDue(a) /\ Reach(b)' \cap runtime[a].ids = {}
  <2>1. \A d \in runtime[a].ids : devices'[d] = devices[d]
    BY <1>2, <1>4
  <2>. QED  BY <1>2, <1>4, <2>1 DEF AccountIsDue
<1>5. CASE ~ AccountIsDue(a)
  <2>1. PICK c \in Accounts \ due : Reach(c) \cap runtime[a].ids # {}
    BY <1>5 DEF Skipped, SkippedStayDue
  <2>2. Reach(c)' = Reach(c)
    BY <2>1 DEF Reach
  <2>. QED  BY <1>2, <2>1, <2>2
<1>. QED  BY <1>3, <1>4, <1>5

LEMMA NextSkipped == IInv /\ Skipped /\ [Next]_vars => Skipped'
<1>. SUFFICES ASSUME IInv, Skipped, [Next]_vars  PROVE Skipped'
  OBVIOUS
<1>0. /\ configured \in [Accounts -> SUBSET Devices]
      /\ runtime \in [Accounts -> AccountState] /\ devices \in [Devices -> DeviceState]
      /\ due \subseteq Accounts
  BY DEF IInv, TypeOK
<1>1. CASE BeginTick
  <2>1. \A a \in Accounts : AccountIsDue(a)' = AccountIsDue(a)
    BY <1>1 DEF BeginTick, memory, AccountIsDue
  <2>. QED  BY <1>1, <2>1 DEF BeginTick, Skipped, SkippedStayDue
<1>2. ASSUME NEW b \in Accounts, RefreshAccount(b)  PROVE Skipped'
  <2>0. PICK reported \in Reports(b) : \E f \in [reported -> Intervals] :
          Refreshed(b, reported, f)
    BY <1>2 DEF RefreshAccount
  <2>1. PICK f \in [reported -> Intervals] : Refreshed(b, reported, f)
    BY <2>0
  <2>2. reported \subseteq Visible[b] /\ IdsAfter(b, reported) \subseteq Visible[b] \cup configured[b]
    BY DEF Reports, IdsAfter
  <2>3. \A a \in Accounts \ {b} : runtime'[a] = runtime[a]
    BY <1>0, <2>1 DEF Refreshed
  <2>4. \A d \in Devices :
          devices'[d] = devices[d] \/ d \in reported \/ d \in IdsAfter(b, reported)
    BY <2>1 DEF Refreshed, Recovered, Updated
  <2>5. \A d \in Devices : devices'[d] = devices[d] \/ d \in Reach(b)'
    BY <1>2, <2>2, <2>4 DEF Reach, RefreshAccount
  <2>. QED  BY <1>2, <2>3, <2>5, CallSkips DEF RefreshAccount
<1>3. ASSUME NEW b \in Accounts, NEW why \in {"sample", "sink"}, AbortRefresh(b, why)
      PROVE  Skipped'
  <2>0. PICK reported \in Reports(b) : \E applied \in SUBSET reported :
          \E f \in [applied -> Intervals] : Aborted(reported, applied, f)
    BY <1>3 DEF AbortRefresh, Aborted
  <2>1. PICK applied \in SUBSET reported :
          \E f \in [applied -> Intervals] : Aborted(reported, applied, f)
    BY <2>0
  <2>2. PICK f \in [applied -> Intervals] : Aborted(reported, applied, f)
    BY <2>1
  <2>3. reported \subseteq Visible[b]
    BY DEF Reports
  <2>4. \A d \in Devices : devices'[d] = devices[d] \/ d \in reported
    BY <2>2 DEF Aborted, Updated
  <2>5. \A d \in Devices : devices'[d] = devices[d] \/ d \in Reach(b)'
    BY <2>3, <2>4 DEF Reach
  <2>. QED  BY <1>3, <2>5, CallSkips DEF AbortRefresh
<1>4. ASSUME NEW b \in Accounts, NEW ok \in Outcomes, FailAccount(b, ok)  PROVE Skipped'
  <2>. DEFINE count == ErrorsAfter(b)
              retry == At(RetryAfter(count))
  <2>1. /\ runtime' = [runtime EXCEPT ![b] = [ids |-> runtime[b].ids, count |-> count,
                                              next |-> retry]]
        /\ devices' = FailedDevices(b, count, retry)
    BY <1>4 DEF FailAccount, RecordFailure
  <2>. HIDE DEF count, retry
  <2>2. /\ \A a \in Accounts \ {b} : runtime'[a] = runtime[a]
        /\ runtime'[b].ids = runtime[b].ids
    BY <1>0, <2>1
  <2>3. \A d \in Devices : devices'[d] = devices[d] \/ d \in runtime[b].ids
    BY <2>1 DEF FailedDevices
  <2>4. \A d \in Devices : devices'[d] = devices[d] \/ d \in Reach(b)'
    BY <2>2, <2>3 DEF Reach
  <2>. QED  BY <1>4, <2>2, <2>4, CallSkips DEF FailAccount
<1>5. CASE Elapse
  <2>1. \A a \in Accounts : /\ runtime'[a].ids = runtime[a].ids
                            /\ runtime'[a].count = runtime[a].count
                            /\ runtime'[a].next = Sooner(runtime[a].next)
    BY <1>0, <1>5 DEF Elapse, ElapsedAccounts, AccountState
  <2>2. \A d \in Devices : /\ devices'[d].paused = devices[d].paused
                           /\ devices'[d].next = Sooner(devices[d].next)
    BY <1>0, <1>5 DEF Elapse, ElapsedDevices, DeviceState
  <2>3. ASSUME NEW x \in Deadline
        PROVE  /\ x = None => Sooner(x) = None
               /\ x = 0 => Sooner(x) = 0
               /\ x # None /\ x <= Prefetch => Sooner(x) # None /\ Sooner(x) <= Prefetch
    BY <2>3, SchedulerAssumption DEF Sooner, Deadline
  <2>4. ASSUME NEW a \in Accounts, AccountIsDue(a)  PROVE AccountIsDue(a)'
    <3>1. runtime[a].next \in Deadline /\ runtime[a].ids \subseteq Devices
      BY <1>0 DEF AccountState
    <3>2. \A d \in runtime[a].ids : devices[d].next \in Deadline
      BY <1>0, <3>1 DEF DeviceState
    <3>3. CASE runtime[a].count > 0
      BY <2>1, <2>3, <2>4, <3>1, <3>3 DEF AccountIsDue
    <3>4. CASE ~ (runtime[a].count > 0) /\ runtime[a].ids = {}
      BY <2>1, <2>3, <2>4, <3>1, <3>4 DEF AccountIsDue
    <3>5. CASE ~ (runtime[a].count > 0) /\ runtime[a].ids # {}
      <4>1. PICK d \in runtime[a].ids :
              ~ devices[d].paused /\ (devices[d].next = None \/ devices[d].next <= Prefetch)
        BY <2>4, <3>5 DEF AccountIsDue
      <4>2. ~ devices'[d].paused /\ (devices'[d].next = None \/ devices'[d].next <= Prefetch)
        BY <2>2, <2>3, <3>1, <3>2, <4>1
      <4>. QED  BY <2>1, <3>5, <4>2 DEF AccountIsDue
    <3>. QED  BY <3>3, <3>4, <3>5
  <2>5. \A b \in Accounts : Reach(b)' = Reach(b)
    BY <1>5, <2>1 DEF Reach, Elapse
  <2>6. due' = due /\ phase' = phase
    BY <1>5 DEF Elapse
  <2>. QED  BY <1>0, <2>1, <2>4, <2>5, <2>6 DEF Skipped, SkippedStayDue
<1>6. CASE RequestShutdown \/ UNCHANGED vars
  <2>1. UNCHANGED <<phase, due, runtime, devices, configured>>
    BY <1>6 DEF RequestShutdown, vars, memory
  <2>. QED  BY <2>1 DEF Skipped, SkippedStayDue, AccountIsDue, Reach
<1>7. ASSUME due' = {}  PROVE Skipped'
  BY <1>7 DEF Skipped, SkippedStayDue
<1>8. ASSUME NEW ok \in Outcomes, EndTick(ok) \/ Stop(ok)  PROVE Skipped'
  BY <1>7, <1>8 DEF EndTick, Stop, Skipped
<1>9. ASSUME Continue \/ \E config \in Configurations : Restart(config)  PROVE Skipped'
  BY <1>7, <1>9 DEF Continue, Restart, Load
<1>10. CASE Command
  <2>1. phase = "idle" /\ phase' = "idle" /\ due' = due
    BY <1>10 DEF Command, Pause, Resume, Schedule, LocateNow, IngestExternal
  <2>. QED  BY <1>7, <2>1 DEF Skipped
<1>. QED
  BY <1>1, <1>2, <1>3, <1>4, <1>5, <1>6, <1>8, <1>9, <1>10 DEF Next, Run, Tick, Serve

(* An account that tick found due and did not reach, because the account     *)
(* before it ended the tick with an error, is due again at once, unless an   *)
(* account that was reached shares a device with it; whatever families the   *)
(* accounts see, whatever their devices and however long the calls take.     *)
THEOREM SkippedAlwaysStayDue == Spec => []SkippedStayDue
<1>1. Init => Skipped
  BY DEF Init, Skipped, SkippedStayDue
<1>2. Skipped => SkippedStayDue
  BY DEF Skipped
<1>. QED  BY <1>1, <1>2, NextSkipped, InductiveInvariant, PTL DEF Spec

=============================================================================
