-------------------------- MODULE RouteHistoryProofs --------------------------
(***************************************************************************)
(* Proofs about RouteHistory, for every configuration, every line of       *)
(* places, any reach of a lookup and any table size: its invariants and    *)
(* its two action properties.  The daemon and a recalculation act on what  *)
(* they read some steps ago; the inductive invariant says what is still    *)
(* true of it when they do.                                                *)
(***************************************************************************)
EXTENDS RouteHistory, LeastElements, TLAPS

Steps   == {"down", "migrate", "idle", "list", "next", "fetch"}
Clients == [errors : 0..GiveUpAfter, until : 0..Max({0} \cup Pauses), manual : BOOLEAN]
Rows    == [zone : ZoneIds, to : Destinations, estimate : Estimates]
Entries == [id : 1..MaxRows, zone : ZoneIds, to : Destinations]
Routes  == [zone : ZoneIds, at : Destinations, from : Centres, to : Destinations,
            there : BOOLEAN]

(* The types, with those of the programs' own variables. *)
Shapes ==
  /\ version \in 0..2
  /\ rows \in [DOMAIN rows -> Rows] /\ DOMAIN rows \subseteq 1..MaxRows
  /\ pc \in [Routers -> Steps]
  /\ config \in [Routers -> Configs \cup {<<>>}]
  /\ request \in [Routers -> Requests \cup {NoRequest}]
  /\ client \in [Routers -> Clients]
  /\ todo \subseteq Entries /\ failed \in Nat
  /\ routes \subseteq Routes /\ IsFiniteSet(routes) /\ Cardinality(routes) <= Devices
  /\ missed \in BOOLEAN

(* Some configuration has the zone with this centre. *)
Configured(zone, from) == \E c \in Configs : zone \in DOMAIN c /\ from = c[zone]

(* A program asks for a route that a configuration gave; a recalculation,  *)
(* for the one of its current row.                                         *)
Asking ==
  /\ \A p \in Routers : pc[p] = "fetch" =>
       request[p] \in Requests /\ Configured(request[p].zone, request[p].from)
  /\ pc["recalculate"] = "fetch" =>
       /\ todo # {}
       /\ request["recalculate"].zone = Current.zone
       /\ request["recalculate"].to = Current.to

(* A row that a recalculation still holds is the row that it read, unless  *)
(* its id was given out again.                                             *)
Held ==
  \A t \in todo : t.id \in DOMAIN rows \ recycled =>
    rows[t.id].zone = t.zone /\ rows[t.id].to = t.to

(* Between the lookup of the daemon and its insertion no row comes near.   *)
NothingNear ==
  pc["watch"] = "fetch" /\ ~ missed =>
    \A i \in DOMAIN rows : rows[i].zone = request["watch"].zone =>
      Gap(rows[i].to, request["watch"].to) > HistoryReach

(* Each route that was passed on is one of the routes of this refresh.     *)
PassedOn ==
  recycled = {} => \A s \in routes :
    /\ s.there => Gap(s.to, s.at) <= HistoryReach + ShareReach * (Cardinality(routes) - 1)
    /\ Configured(s.zone, s.from)

(* A client is paused after failures, and each of them was counted.        *)
Failures ==
  LET a == client["recalculate"]
  IN  /\ a.errors <= failed
      /\ IsPaused(a) => failed >= Min(DOMAIN PauseAfter)

IInv ==
  /\ Shapes /\ Asking /\ Held /\ NothingNear /\ PassedOn /\ Failures
  /\ EstimatesMatch /\ RowsApart


-----------------------------------------------------------------------------
(* The operators.                                                          *)

LEMMA MaxIsGreatest ==
  ASSUME NEW S, S \subseteq Nat, S # {}, IsFiniteSet(S)
  PROVE  Max(S) \in S /\ \A y \in S : Max(S) >= y
BY GreatestNatural DEF Max

LEMMA MinIsLeast ==
  ASSUME NEW S, S \subseteq Nat, S # {}
  PROVE  Min(S) \in S /\ \A y \in S : Min(S) <= y
BY LeastNatural DEF Min

LEMMA Constants ==
  /\ HistoryReach \in Nat /\ ShareReach \in Nat /\ GiveUpAfter \in Nat
  /\ Devices \in Nat /\ MaxRows \in Nat
  /\ Destinations \subseteq Nat /\ Closest \subseteq ZoneIds \X Destinations
  /\ DOMAIN PauseAfter \subseteq 1..GiveUpAfter /\ DOMAIN PauseAfter # {}
  /\ \A n \in DOMAIN PauseAfter : PauseAfter[n] \in Nat
BY RouteHistoryAssumption

(* Distances along the line. *)
LEMMA GapProperties ==
  /\ \A a, b \in Nat : Gap(a, b) \in Nat /\ Gap(a, b) = Gap(b, a) /\ Gap(a, a) = 0
  /\ \A a, b, c \in Nat : Gap(a, c) <= Gap(a, b) + Gap(b, c)
BY DEF Gap

(* A new row has an id that no row has. *)
LEMMA NextIdIsNew == ASSUME Shapes  PROVE NextId \in Nat \ {0} /\ NextId \notin DOMAIN rows
<1>1. DOMAIN rows \subseteq Nat /\ IsFiniteSet(DOMAIN rows)
  <2>1. IsFiniteSet(1..MaxRows)
    BY FS_Interval, Constants
  <2>2. DOMAIN rows \in SUBSET (1..MaxRows)
    BY DEF Shapes
  <2>3. IsFiniteSet(DOMAIN rows)
    BY <2>1, <2>2, FS_Subset
  <2>. QED  BY <2>2, <2>3
<1>2. CASE DOMAIN rows = {}
  <2>1. rows = <<>>
    BY <1>2 DEF Shapes
  <2>. QED  BY <1>2, <2>1 DEF NextId
<1>3. CASE DOMAIN rows # {}
  <2>1. rows # <<>>
    BY <1>3
  <2>2. Max(DOMAIN rows) \in DOMAIN rows /\ \A i \in DOMAIN rows : Max(DOMAIN rows) >= i
    BY <1>1, <1>3, MaxIsGreatest
  <2>3. NextId = Max(DOMAIN rows) + 1
    BY <2>1 DEF NextId
  <2>. QED  BY <1>1, <2>2, <2>3
<1>. QED  BY <1>2, <1>3

(* No pause is longer than the longest. *)
LEMMA PausesBounded ==
  /\ Max({0} \cup Pauses) \in Nat
  /\ \A n \in DOMAIN PauseAfter : PauseAfter[n] \in 0..Max({0} \cup Pauses)
<1>1. IsFiniteSet(DOMAIN PauseAfter)
  <2>1. IsFiniteSet(1..GiveUpAfter)
    BY FS_Interval, Constants
  <2>. QED  BY <2>1, FS_Subset, Constants
<1>2. PauseAfter \in Surjection(DOMAIN PauseAfter, Pauses)
  BY RouteHistoryAssumption DEF Surjection, Pauses
<1>3. IsFiniteSet({0} \cup Pauses)
  BY <1>1, <1>2, FS_Surjection, FS_Singleton, FS_Union
<1>4. {0} \cup Pauses \subseteq Nat
  BY Constants DEF Pauses
<1>5. /\ Max({0} \cup Pauses) \in {0} \cup Pauses
      /\ \A y \in {0} \cup Pauses : Max({0} \cup Pauses) >= y
  BY <1>3, <1>4, MaxIsGreatest
<1>6. \A n \in DOMAIN PauseAfter : PauseAfter[n] \in Pauses
  BY DEF Pauses
<1>. QED  BY <1>4, <1>5, <1>6

(* A lookup finds a row whenever one of the zone is near. *)
LEMMA LookupFinds ==
  ASSUME Shapes, NEW r \in Requests, NEW i \in DOMAIN rows,
         rows[i].zone = r.zone, Gap(rows[i].to, r.to) <= HistoryReach
  PROVE  Lookup(r) # {}
<1>. DEFINE near == {j \in DOMAIN rows : /\ rows[j].zone = r.zone
                                         /\ Gap(rows[j].to, r.to) <= HistoryReach}
            gaps == {Gap(rows[j].to, r.to) : j \in near}
<1>1. gaps \subseteq Nat
  BY GapProperties, Constants DEF Shapes, Rows, Requests
<1>2. gaps # {}
  OBVIOUS
<1>3. PICK g \in gaps : \A h \in gaps : g <= h
  <2>. HIDE DEF gaps
  <2>. QED  BY <1>1, <1>2, LeastNatural
<1>4. PICK j \in near : \A k \in near : Gap(rows[j].to, r.to) <= Gap(rows[k].to, r.to)
  BY <1>3
<1>5. j \in Lookup(r)
  BY <1>4 DEF Lookup
<1>. QED  BY <1>5

(* The recalculation's current row is one of its rows. *)
LEMMA CurrentIsListed == ASSUME Shapes, todo # {}  PROVE Current \in todo
<1>1. \A t \in todo : t.to \in Nat /\ t.id \in Nat
  BY Constants DEF Shapes, Entries
<1>. DEFINE places == {t.to : t \in todo}
<1>2. places \subseteq Nat /\ places # {}
  BY <1>1
<1>3. PICK p \in places : \A q \in places : p <= q
  <2>. HIDE DEF places
  <2>. QED  BY <1>2, LeastNatural
<1>. DEFINE here == {t \in todo : t.to = p}
            ids == {t.id : t \in here}
<1>4. ids \subseteq Nat /\ ids # {}
  BY <1>1
<1>5. PICK n \in ids : \A m \in ids : n <= m
  <2>. HIDE DEF ids
  <2>. QED  BY <1>4, LeastNatural
<1>6. PICK t \in here : t.id = n
  OBVIOUS
<1>7. \A u \in todo : t.to < u.to \/ (t.to = u.to /\ t.id <= u.id)
  <2>. TAKE u \in todo
  <2>1. p <= u.to /\ t.to = p /\ u.to \in Nat /\ p \in Nat
    BY <1>1, <1>3
  <2>2. CASE u.to = p
    BY <1>5, <1>6, <2>1, <2>2
  <2>. QED  BY <2>1, <2>2
<1>8. t \in todo
  OBVIOUS
<1>. QED  BY <1>7, <1>8 DEF Current

-----------------------------------------------------------------------------
(* What stays true when a step leaves its variables alone.                 *)

LEMMA AskingStays ==
  ASSUME Asking,
         \A p \in Routers : pc'[p] = "fetch" => pc[p] = "fetch" /\ request'[p] = request[p],
         pc'["recalculate"] = "fetch" => todo' = todo
  PROVE  Asking'
<1>1. "recalculate" \in Routers
  BY DEF Routers
<1>2. todo' = todo => Current' = Current
  BY DEF Current
<1>. QED  BY <1>1, <1>2 DEF Asking, Configured

LEMMA HeldStays ==
  ASSUME Held, todo' \subseteq todo, recycled \subseteq recycled',
         \A i \in DOMAIN rows' : /\ i \in DOMAIN rows
                                 /\ rows'[i].zone = rows[i].zone /\ rows'[i].to = rows[i].to
  PROVE  Held'
BY DEF Held

LEMMA NothingNearStays ==
  ASSUME NothingNear, missed' = missed,
         pc'["watch"] = "fetch" => pc["watch"] = "fetch" /\ request'["watch"] = request["watch"],
         \A i \in DOMAIN rows' : /\ i \in DOMAIN rows
                                 /\ rows'[i].zone = rows[i].zone /\ rows'[i].to = rows[i].to
  PROVE  NothingNear'
BY DEF NothingNear

LEMMA PassedOnStays ==
  ASSUME PassedOn, recycled \subseteq recycled', routes' = routes  PROVE PassedOn'
BY DEF PassedOn, Configured

LEMMA RowsStay ==
  ASSUME EstimatesMatch, RowsApart, recycled \subseteq recycled', missed \in BOOLEAN,
         missed' => TRUE, ~ missed' => ~ missed,
         \A i \in DOMAIN rows' : i \in DOMAIN rows /\ rows'[i] = rows[i]
  PROVE  EstimatesMatch' /\ RowsApart'
BY DEF EstimatesMatch, RowsApart

LEMMA FailuresStay ==
  ASSUME Failures, failed' = failed, client'["recalculate"] = client["recalculate"]
  PROVE  Failures'
BY DEF Failures, IsPaused

-----------------------------------------------------------------------------
(* Starting and stopping, and time.                                        *)

LEMMA OpenKeeps == ASSUME IInv, NEW p \in Routers, Open(p)  PROVE IInv'
<1>1. pc' \in [Routers -> Steps]
  BY DEF Open, Begin, IInv, Shapes, Steps
<1>2. config' \in [Routers -> Configs \cup {<<>>}]
  BY DEF Open, IInv, Shapes
<1>3. \A q \in Routers : pc'[q] = "fetch" => pc[q] = "fetch"
  BY DEF Open, Begin, IInv, Shapes
<1>4. Shapes'
  BY <1>1, <1>2 DEF Open, recalculation, observers, IInv, Shapes
<1>5. Asking'
  BY <1>3, AskingStays DEF Open, recalculation, IInv
<1>6. Held' /\ NothingNear' /\ PassedOn' /\ Failures'
  BY <1>3 DEF Open, recalculation, observers, IInv, Held, NothingNear, PassedOn, Configured,
     Failures, IsPaused, Routers
<1>7. EstimatesMatch' /\ RowsApart'
  BY DEF Open, observers, IInv, EstimatesMatch, RowsApart
<1>. QED  BY <1>4, <1>5, <1>6, <1>7 DEF IInv

LEMMA MigrateKeeps == ASSUME IInv, NEW p \in Routers, Migrate(p)  PROVE IInv'
<1>1. pc' \in [Routers -> Steps]
  BY DEF Migrate, Begin, IInv, Shapes, Steps
<1>2. \A q \in Routers : pc'[q] = "fetch" => pc[q] = "fetch"
  BY DEF Migrate, Begin, IInv, Shapes
<1>3. Shapes'
  BY <1>1 DEF Migrate, recalculation, observers, IInv, Shapes
<1>4. Asking'
  BY <1>2, AskingStays DEF Migrate, recalculation, IInv
<1>5. Held' /\ NothingNear' /\ PassedOn' /\ Failures'
  BY <1>2 DEF Migrate, recalculation, observers, IInv, Held, NothingNear, PassedOn, Configured,
     Failures, IsPaused, Routers
<1>6. EstimatesMatch' /\ RowsApart'
  BY DEF Migrate, observers, IInv, EstimatesMatch, RowsApart
<1>. QED  BY <1>3, <1>4, <1>5, <1>6 DEF IInv

LEMMA AvailableIsClient == Available \in Clients
BY PausesBounded, Constants DEF Available, Clients

LEMMA ExitKeeps == ASSUME IInv, NEW p \in Routers, Exit(p)  PROVE IInv'
<1>1. /\ pc' \in [Routers -> Steps] /\ config' \in [Routers -> Configs \cup {<<>>}]
      /\ request' \in [Routers -> Requests \cup {NoRequest}]
      /\ client' \in [Routers -> Clients]
  BY AvailableIsClient DEF Exit, IInv, Shapes, Steps
<1>2. /\ \A q \in Routers : pc'[q] = "fetch" => pc[q] = "fetch" /\ request'[q] = request[q]
      /\ pc'["recalculate"] = "fetch" => todo' = todo
  BY DEF Exit, recalculation, IInv, Shapes, Routers
<1>3. todo' \subseteq todo /\ failed' \in Nat
  BY DEF Exit, recalculation, IInv, Shapes
<1>4. routes' \subseteq Routes /\ IsFiniteSet(routes') /\ Cardinality(routes') <= Devices
  <2>1. routes' \in {{}, routes}
    BY DEF Exit
  <2>2. IsFiniteSet({}) /\ Cardinality({}) <= Devices
    BY FS_EmptySet, Constants
  <2>. QED  BY <2>1, <2>2 DEF IInv, Shapes
<1>5. Shapes'
  BY <1>1, <1>3, <1>4 DEF Exit, observers, IInv, Shapes
<1>6. Asking'
  BY <1>2, AskingStays DEF IInv
<1>7. Held' /\ NothingNear' /\ EstimatesMatch' /\ RowsApart'
  <2>1. UNCHANGED <<rows, missed, recycled>>
    BY DEF Exit, observers
  <2>. QED  BY <1>2, <1>3, <2>1 DEF IInv, Held, NothingNear, EstimatesMatch, RowsApart, Routers
<1>8. PassedOn'
  <2>1. recycled' = recycled /\ (routes' = {} \/ routes' = routes)
    BY DEF Exit, observers
  <2>. QED  BY <2>1 DEF IInv, PassedOn, Configured
<1>9. Failures'
  <2>1. CASE p = "recalculate"
    <3>1. failed' = 0 /\ client'["recalculate"] = Available
      BY <2>1 DEF Exit, IInv, Shapes
    <3>. QED  BY <3>1 DEF Failures, IsPaused, Available
  <2>2. CASE p # "recalculate"
    BY <2>2, FailuresStay DEF Exit, recalculation, IInv, Shapes, Routers
  <2>. QED  BY <2>1, <2>2
<1>. QED  BY <1>5, <1>6, <1>7, <1>8, <1>9 DEF IInv

LEMMA TickKeeps == ASSUME IInv, Tick  PROVE IInv'
<1>1. \A p \in Routers : client[p] \in Clients
  BY DEF IInv, Shapes
<1>2. \A p \in Routers : /\ client'[p] \in Clients
                         /\ client'[p].errors = client[p].errors
                         /\ client'[p].manual = client[p].manual
                         /\ client'[p].until > 0 => client[p].until > 0
  <2>. TAKE p \in Routers
  <2>1. client'[p] = [client[p] EXCEPT !.until = IF @ = 0 THEN 0 ELSE @ - 1]
    BY DEF Tick
  <2>. QED  BY <1>1, <2>1, PausesBounded DEF Clients
<1>3. client' \in [Routers -> Clients]
  <2>1. client' = [p \in Routers |-> client'[p]]
    BY DEF Tick
  <2>. QED  BY <1>2, <2>1
<1>4. UNCHANGED <<version, rows, pc, config, request, todo, failed, routes, missed, recycled>>
  BY DEF Tick, recalculation, observers
<1>5. Failures'
  BY <1>2, <1>4 DEF IInv, Failures, IsPaused, Routers
<1>6. Asking'
  BY <1>4, AskingStays DEF IInv
<1>7. Shapes' /\ Held' /\ NothingNear'
  BY <1>3, <1>4 DEF IInv, Shapes, Held, NothingNear
<1>8. PassedOn' /\ EstimatesMatch' /\ RowsApart'
  BY <1>4 DEF IInv, PassedOn, Configured, EstimatesMatch, RowsApart
<1>. QED  BY <1>5, <1>6, <1>7, <1>8 DEF IInv

-----------------------------------------------------------------------------
(* Answers.                                                                *)

LEMMA FailureRecorded ==
  ASSUME NEW a \in Clients
  PROVE  LET b == RecordFailure(a)
         IN  /\ b \in Clients /\ b.errors <= a.errors + 1
             /\ IsPaused(b) => IsPaused(a) \/ a.errors + 1 >= Min(DOMAIN PauseAfter)
<1>. DEFINE n == a.errors + 1
<1>1. a.errors \in 0..GiveUpAfter /\ n \in Nat /\ GiveUpAfter \in Nat
  BY Constants DEF Clients
<1>2. /\ Min(DOMAIN PauseAfter) \in 1..GiveUpAfter
      /\ \A m \in DOMAIN PauseAfter : Min(DOMAIN PauseAfter) <= m
  <2>1. DOMAIN PauseAfter \subseteq Nat
    BY Constants
  <2>. QED  BY <2>1, Constants, MinIsLeast
<1>3. CASE n > GiveUpAfter
  <2>1. RecordFailure(a) = [errors |-> 0, until |-> 0, manual |-> TRUE]
    BY <1>3 DEF RecordFailure
  <2>. QED  BY <1>1, <1>2, <1>3, <2>1, PausesBounded DEF Clients
<1>4. CASE ~(n > GiveUpAfter) /\ n \in DOMAIN PauseAfter
  <2>1. RecordFailure(a) = [a EXCEPT !.errors = n, !.until = PauseAfter[n]]
    BY <1>4 DEF RecordFailure
  <2>2. PauseAfter[n] \in 0..Max({0} \cup Pauses)
    BY <1>4, PausesBounded
  <2>3. RecordFailure(a) \in Clients /\ RecordFailure(a).errors = n
    <3>1. n \in 0..GiveUpAfter
      BY <1>1, <1>4
    <3>. HIDE DEF n
    <3>. QED  BY <2>1, <2>2, <3>1 DEF Clients
  <2>. QED  BY <1>1, <1>2, <1>4, <2>3
<1>5. CASE ~(n > GiveUpAfter) /\ n \notin DOMAIN PauseAfter
  <2>1. RecordFailure(a) = [a EXCEPT !.errors = n, !.until = a.until]
    BY <1>5 DEF RecordFailure
  <2>2. /\ RecordFailure(a) \in Clients /\ RecordFailure(a).errors = n
        /\ RecordFailure(a).until = a.until /\ RecordFailure(a).manual = a.manual
    <3>1. n \in 0..GiveUpAfter /\ a.until \in 0..Max({0} \cup Pauses)
      BY <1>1, <1>5 DEF Clients
    <3>. HIDE DEF n
    <3>. QED  BY <2>1, <3>1 DEF Clients
  <2>. QED  BY <1>1, <2>2 DEF IsPaused
<1>. QED  BY <1>3, <1>4, <1>5

LEMMA SuccessRecorded ==
  ASSUME NEW a \in Clients
  PROVE  LET b == RecordSuccess(a)
         IN  b \in Clients /\ b.errors <= a.errors /\ (IsPaused(b) => IsPaused(a))
<1>1. RecordSuccess(a) = [a EXCEPT !.errors = 0, !.until = 0]
  BY DEF RecordSuccess
<1>2. 0 \in 0..GiveUpAfter /\ 0 \in 0..Max({0} \cup Pauses) /\ a.errors >= 0
  BY PausesBounded, Constants DEF Clients
<1>3. /\ RecordSuccess(a) \in Clients /\ RecordSuccess(a).errors = 0
      /\ RecordSuccess(a).until = 0 /\ RecordSuccess(a).manual = a.manual
  BY <1>1, <1>2 DEF Clients
<1>. QED  BY <1>2, <1>3 DEF IsPaused

(* What a call of the client ends with: an estimate for what was asked,    *)
(* which is a straight line only for a client that is paused, or nothing.  *)
LEMMA Outcome ==
  ASSUME IInv, NEW p \in Routers, NEW o \in Outcomes(p)
  PROVE  /\ pc[p] = "fetch" /\ request[p] \in Requests
         /\ Configured(request[p].zone, request[p].from)
         /\ o.client \in Clients /\ o.client.errors <= client[p].errors + 1
         /\ IsPaused(o.client) =>
              IsPaused(client[p]) \/ client[p].errors + 1 >= Min(DOMAIN PauseAfter)
         /\ o \in Estimated(p) =>
              /\ o.estimate \in Estimates
              /\ o.estimate.from = request[p].from /\ o.estimate.to = request[p].to
              /\ o.estimate.status = "Paused" => IsPaused(client[p])
              /\ o.client.errors <= client[p].errors
              /\ IsPaused(o.client) => IsPaused(client[p])
<1>1. pc[p] = "fetch" /\ o \in Fetch(p)
  BY DEF Outcomes
<1>2. request[p] \in Requests /\ Configured(request[p].zone, request[p].from)
  BY <1>1 DEF IInv, Asking
<1>. DEFINE r == request[p]
            a == client[p]
<1>3. a \in Clients /\ a.errors \in Nat
  <2>1. a \in Clients
    BY DEF IInv, Shapes
  <2>. QED  BY <2>1, Constants DEF Clients
<1>4. \A status \in Statuses : /\ Estimate(r, status) \in Estimates
                               /\ Estimate(r, status).from = r.from
                               /\ Estimate(r, status).to = r.to
                               /\ Estimate(r, status).status = status
  BY <1>2 DEF Estimate, Estimates, Requests
<1>5. \/ IsPaused(a) /\ o = Line(r, "Paused", a)
      \/ o = Line(r, "OutOfRange", a)
      \/ o = Line(r, "Used", RecordSuccess(a))
      \/ o = [client |-> RecordSuccess(a), estimate |-> NoEstimate]
      \/ o = [client |-> RecordFailure(a), estimate |-> NoEstimate]
  BY <1>1 DEF Fetch
<1>6. "Paused" \in Statuses /\ "OutOfRange" \in Statuses /\ "Used" \in Statuses
  BY DEF Statuses
<1>7. CASE IsPaused(a) /\ o = Line(r, "Paused", a)
  BY <1>1, <1>2, <1>3, <1>4, <1>6, <1>7 DEF Line
<1>8. CASE o = Line(r, "OutOfRange", a)
  BY <1>1, <1>2, <1>3, <1>4, <1>6, <1>8 DEF Line
<1>9. CASE o = Line(r, "Used", RecordSuccess(a))
  <2>1. /\ RecordSuccess(a) \in Clients /\ RecordSuccess(a).errors \in Nat
        /\ RecordSuccess(a).errors <= a.errors
        /\ IsPaused(RecordSuccess(a)) => IsPaused(a)
    BY <1>3, SuccessRecorded DEF Clients
  <2>2. o.client = RecordSuccess(a) /\ o.estimate = Estimate(r, "Used")
    BY <1>9 DEF Line
  <2>. QED  BY <1>1, <1>2, <1>3, <1>4, <1>6, <2>1, <2>2
<1>10. CASE o = [client |-> RecordSuccess(a), estimate |-> NoEstimate]
  <2>1. /\ RecordSuccess(a) \in Clients /\ RecordSuccess(a).errors \in Nat
        /\ RecordSuccess(a).errors <= a.errors
        /\ IsPaused(RecordSuccess(a)) => IsPaused(a)
    BY <1>3, SuccessRecorded DEF Clients
  <2>2. o.client = RecordSuccess(a) /\ o \notin Estimated(p)
    BY <1>10 DEF Estimated
  <2>. QED  BY <1>1, <1>2, <1>3, <2>1, <2>2
<1>11. CASE o = [client |-> RecordFailure(a), estimate |-> NoEstimate]
  <2>1. o.client = RecordFailure(a) /\ o \notin Estimated(p)
    BY <1>11 DEF Estimated
  <2>. QED  BY <1>1, <1>2, <1>3, <2>1, FailureRecorded
<1>. QED  BY <1>5, <1>7, <1>8, <1>9, <1>10, <1>11

-----------------------------------------------------------------------------
(* The routes of a refresh.                                                *)

LEMMA UseKeepsShape ==
  ASSUME IInv, NEW r \in Requests, NEW from \in Centres, NEW to \in Destinations,
         NEW there \in BOOLEAN, Use(r, from, to, there)
  PROVE  routes' \subseteq Routes /\ IsFiniteSet(routes') /\ Cardinality(routes') <= Devices
<1>. DEFINE e == [zone |-> r.zone, at |-> r.to, from |-> from, to |-> to, there |-> there]
<1>1. routes' = routes \cup {e} /\ Cardinality(routes) < Devices
  BY DEF Use
<1>2. e \in Routes
  BY DEF Routes, Requests
<1>. HIDE DEF e
<1>3. IsFiniteSet(routes) /\ routes \subseteq Routes /\ Cardinality(routes) \in Nat
  BY FS_CardinalityType DEF IInv, Shapes
<1>4. /\ IsFiniteSet(routes \cup {e})
      /\ Cardinality(routes \cup {e}) =
           IF e \in routes THEN Cardinality(routes) ELSE Cardinality(routes) + 1
  BY <1>3, FS_AddElement
<1>. QED  BY <1>1, <1>2, <1>3, <1>4, Constants

(* A route for a place that is near, or passed on by a device that is, keeps *)
(* the routes near: one more device, one more step.                          *)
LEMMA UseKeepsNear ==
  ASSUME IInv, NEW r \in Requests, NEW from \in Centres, NEW to \in Destinations,
         NEW there \in BOOLEAN, Use(r, from, to, there), recycled \subseteq recycled',
         recycled = {} =>
           /\ Configured(r.zone, from)
           /\ \/ ~ there
              \/ Gap(to, r.to) <= HistoryReach
              \/ \E s \in routes : s.there /\ s.to = to /\ Gap(s.at, r.to) <= ShareReach
  PROVE  PassedOn'
<1>. DEFINE e == [zone |-> r.zone, at |-> r.to, from |-> from, to |-> to, there |-> there]
            n == Cardinality(routes)
            bound(k) == HistoryReach + ShareReach * (k - 1)
<1>. SUFFICES ASSUME recycled' = {}
              PROVE  \A s \in routes' : /\ s.there => Gap(s.to, s.at) <= bound(Cardinality(routes'))
                                        /\ Configured(s.zone, s.from)
  BY DEF PassedOn, Configured
<1>1. routes' = routes \cup {e} /\ recycled = {}
  BY DEF Use
<1>2. IsFiniteSet(routes) /\ n \in Nat /\ routes \subseteq Routes
  BY FS_CardinalityType DEF IInv, Shapes
<1>3. \A s \in routes : /\ s.there => Gap(s.to, s.at) <= bound(n)
                        /\ Configured(s.zone, s.from)
                        /\ s.to \in Nat /\ s.at \in Nat
  BY <1>1, <1>2, Constants DEF IInv, PassedOn, Routes
<1>4. e.to = to /\ e.at = r.to /\ e.zone = r.zone /\ e.from = from /\ e.there = there
  OBVIOUS
<1>. HIDE DEF e
<1>5. CASE e \in routes
  <2>1. routes' = routes
    BY <1>1, <1>5
  <2>. QED  BY <1>3, <2>1
<1>6. CASE e \notin routes
  <2>1. Cardinality(routes') = n + 1
    BY <1>1, <1>2, <1>6, FS_AddElement
  <2>2. /\ bound(n + 1) = bound(n) + ShareReach /\ bound(n + 1) >= HistoryReach
        /\ bound(n) \in Int /\ bound(n + 1) \in Int /\ ShareReach \in Nat /\ HistoryReach \in Nat
    <3>1. ShareReach * (n + 1 - 1) = ShareReach * (n - 1) + ShareReach /\ ShareReach * n >= 0
      BY <1>2, Constants
    <3>. QED  BY <1>2, <3>1, Constants
  <2>3. to \in Nat /\ r.to \in Nat
    BY Constants DEF Requests
  <2>. HIDE DEF bound, n
  <2>4. there => Gap(to, r.to) <= bound(n + 1)
    <3>. SUFFICES ASSUME there  PROVE Gap(to, r.to) <= bound(n + 1)
      OBVIOUS
    <3>1. CASE Gap(to, r.to) <= HistoryReach
      <4>1. Gap(to, r.to) \in Nat
        BY <2>3, GapProperties
      <4>. QED  BY <2>2, <3>1, <4>1
    <3>2. ASSUME NEW s \in routes, s.there, s.to = to, Gap(s.at, r.to) <= ShareReach
          PROVE  Gap(to, r.to) <= bound(n + 1)
      <4>1. Gap(to, r.to) <= Gap(to, s.at) + Gap(s.at, r.to)
        BY <1>3, <2>3, <3>2, GapProperties
      <4>2. Gap(to, s.at) <= bound(n)
        BY <1>3, <3>2
      <4>3. Gap(to, s.at) \in Nat /\ Gap(s.at, r.to) \in Nat /\ Gap(to, r.to) \in Nat
        BY <1>3, <2>3, GapProperties
      <4>. QED  BY <2>2, <3>2, <4>1, <4>2, <4>3
    <3>. QED  BY <1>1, <3>1, <3>2
  <2>5. \A s \in routes : s.there => Gap(s.to, s.at) <= bound(n + 1)
    <3>. TAKE s \in routes
    <3>. HAVE s.there
    <3>1. Gap(s.to, s.at) <= bound(n) /\ Gap(s.to, s.at) \in Nat
      BY <1>3, GapProperties
    <3>. QED  BY <2>2, <3>1
  <2>. QED  BY <1>1, <1>3, <1>4, <2>1, <2>4, <2>5
<1>. QED  BY <1>5, <1>6

-----------------------------------------------------------------------------
(* The daemon.                                                             *)

LEMMA ObservedAreRequests ==
  ASSUME IInv, NEW r \in Observed
  PROVE  r \in Requests /\ Configured(r.zone, r.from)
<1>. DEFINE c == config["watch"]
<1>1. c \in Configs \cup {<<>>}
  BY DEF IInv, Shapes, Routers
<1>2. PICK k \in Closest : /\ k[1] \in DOMAIN c
                           /\ r = [zone |-> k[1], from |-> c[k[1]], to |-> k[2]]
  BY DEF Observed
<1>3. c \in Configs
  BY <1>1, <1>2
<1>4. k[1] \in ZoneIds /\ k[2] \in Destinations
  BY Constants
<1>5. c[k[1]] \in Centres
  BY <1>2, <1>3 DEF Centres
<1>. HIDE DEF c
<1>. QED  BY <1>2, <1>3, <1>4, <1>5 DEF Requests, Configured

(* A step that changes nothing but the routes of the refresh. *)
LEMMA OnlyRoutes ==
  ASSUME IInv,
         UNCHANGED <<version, rows, pc, config, request, client, todo, failed, missed, recycled>>,
         routes' \subseteq Routes, IsFiniteSet(routes'), Cardinality(routes') <= Devices,
         PassedOn'
  PROVE  IInv'
<1>1. Shapes'
  BY DEF IInv, Shapes
<1>2. Asking'
  BY AskingStays DEF IInv
<1>3. Held' /\ NothingNear' /\ Failures' /\ EstimatesMatch' /\ RowsApart'
  BY DEF IInv, Held, NothingNear, Failures, EstimatesMatch, RowsApart
<1>. QED  BY <1>1, <1>2, <1>3 DEF IInv

LEMMA RefreshKeeps == ASSUME IInv, Refresh  PROVE IInv'
<1>1. UNCHANGED <<version, rows, pc, config, request, client, todo, failed, missed, recycled>>
  BY DEF Refresh, Watching, recalculation, observers
<1>2. routes' = {}
  BY DEF Refresh
<1>3. IsFiniteSet(routes') /\ Cardinality(routes') <= Devices
  BY <1>2, FS_EmptySet, Constants
<1>4. PassedOn'
  BY <1>2 DEF PassedOn
<1>. QED  BY <1>1, <1>2, <1>3, <1>4, OnlyRoutes

LEMMA ShareKeeps == ASSUME IInv, Share  PROVE IInv'
<1>1. UNCHANGED <<version, rows, pc, config, request, client, todo, failed, missed, recycled>>
  BY DEF Share, Watching, recalculation, observers
<1>2. PICK r \in Observed, s \in routes :
        s.zone = r.zone /\ Gap(s.at, r.to) <= ShareReach /\ Use(r, s.from, s.to, s.there)
  BY DEF Share
<1>3. r \in Requests
  BY ObservedAreRequests
<1>4. s \in Routes /\ s.from \in Centres /\ s.to \in Destinations /\ s.there \in BOOLEAN
  BY DEF IInv, Shapes, Routes
<1>5. recycled = {} => Configured(r.zone, s.from)
  BY <1>2 DEF IInv, PassedOn
<1>6. PassedOn'
  BY <1>1, <1>2, <1>3, <1>4, <1>5, UseKeepsNear
<1>. QED  BY <1>1, <1>2, <1>3, <1>4, <1>6, UseKeepsShape, OnlyRoutes

LEMMA LookupHitKeeps == ASSUME IInv, LookupHit  PROVE IInv'
<1>1. UNCHANGED <<version, rows, pc, config, request, client, todo, failed, missed, recycled>>
  BY DEF LookupHit, Watching, recalculation, observers
<1>2. PICK r \in Observed : \E i \in Lookup(r) :
        Use(r, rows[i].estimate.from, rows[i].estimate.to, TRUE)
  BY DEF LookupHit
<1>3. PICK i \in Lookup(r) : Use(r, rows[i].estimate.from, rows[i].estimate.to, TRUE)
  BY <1>2
<1>4. r \in Requests
  BY ObservedAreRequests
<1>5. i \in DOMAIN rows /\ rows[i].zone = r.zone /\ Gap(rows[i].to, r.to) <= HistoryReach
  BY DEF Lookup
<1>6. rows[i] \in Rows /\ rows[i].estimate \in Estimates
  BY <1>5 DEF IInv, Shapes, Rows
<1>. DEFINE from == rows[i].estimate.from
            to == rows[i].estimate.to
<1>7. from \in Centres /\ to \in Destinations
  BY <1>6 DEF Estimates
<1>8. recycled = {} => Configured(r.zone, from) /\ Gap(to, r.to) <= HistoryReach
  BY <1>5 DEF IInv, EstimatesMatch, Configured
<1>. HIDE DEF from, to
<1>9. PassedOn'
  BY <1>1, <1>3, <1>4, <1>7, <1>8, UseKeepsNear DEF from, to
<1>10. routes' \subseteq Routes /\ IsFiniteSet(routes') /\ Cardinality(routes') <= Devices
  BY <1>3, <1>4, <1>7, UseKeepsShape DEF from, to
<1>. QED  BY <1>1, <1>9, <1>10, OnlyRoutes

LEMMA LookupMissesKeeps == ASSUME IInv, LookupMisses  PROVE IInv'
<1>1. PICK r \in Observed, fails \in BOOLEAN :
        /\ fails \/ Lookup(r) = {}
        /\ missed' = (missed \/ fails)
        /\ request' = [request EXCEPT !["watch"] = r]
  BY DEF LookupMisses
<1>2. /\ UNCHANGED <<version, rows, config, client, todo, failed, routes, recycled>>
      /\ pc["watch"] = "idle" /\ pc' = [pc EXCEPT !["watch"] = "fetch"]
  BY DEF LookupMisses, Watching, recalculation
<1>3. r \in Requests /\ Configured(r.zone, r.from)
  BY ObservedAreRequests
<1>4. /\ pc'["watch"] = "fetch" /\ request'["watch"] = r
      /\ pc'["recalculate"] = pc["recalculate"]
      /\ request'["recalculate"] = request["recalculate"]
  BY <1>1, <1>2 DEF IInv, Shapes, Routers
<1>5. Shapes'
  <2>1. pc' \in [Routers -> Steps] /\ request' \in [Routers -> Requests \cup {NoRequest}]
    BY <1>1, <1>2, <1>3 DEF IInv, Shapes, Steps
  <2>2. missed' \in BOOLEAN
    BY <1>1
  <2>. QED  BY <1>2, <2>1, <2>2 DEF IInv, Shapes
<1>6. Asking'
  <2>1. \A p \in Routers : pc'[p] = "fetch" =>
          request'[p] \in Requests /\ Configured(request'[p].zone, request'[p].from)
    BY <1>3, <1>4 DEF IInv, Asking, Routers
  <2>2. Current' = Current
    BY <1>2 DEF Current
  <2>. QED  BY <1>2, <1>4, <2>1, <2>2 DEF IInv, Asking, Configured
<1>7. NothingNear'
  <2>. SUFFICES ASSUME ~ missed', NEW i \in DOMAIN rows, rows[i].zone = r.zone
                PROVE  Gap(rows[i].to, r.to) > HistoryReach
    BY <1>2, <1>4 DEF NothingNear
  <2>1. Lookup(r) = {}
    BY <1>1
  <2>2. ~(Gap(rows[i].to, r.to) <= HistoryReach)
    BY <1>3, <2>1, LookupFinds DEF IInv
  <2>3. Gap(rows[i].to, r.to) \in Nat
    <3>1. rows[i].to \in Nat /\ r.to \in Nat
      BY <1>3, Constants DEF IInv, Shapes, Rows, Requests
    <3>. QED  BY <3>1, GapProperties
  <2>. QED  BY <2>2, <2>3, Constants
<1>8. Held' /\ PassedOn' /\ Failures'
  BY <1>2 DEF IInv, Held, PassedOn, Configured, Failures
<1>9. EstimatesMatch' /\ RowsApart'
  <2>1. ~ missed' => ~ missed
    BY <1>1
  <2>. QED  BY <1>2, <2>1 DEF IInv, EstimatesMatch, RowsApart
<1>. QED  BY <1>5, <1>6, <1>7, <1>8, <1>9 DEF IInv

(* The end of a request of the daemon, whatever becomes of the answer. *)
LEMMA DaemonEnds ==
  ASSUME IInv, NEW o \in Outcomes("watch"), DaemonAnswered(o),
         rows' \in [DOMAIN rows' -> Rows], DOMAIN rows' \subseteq 1..MaxRows,
         routes' \subseteq Routes, IsFiniteSet(routes'), Cardinality(routes') <= Devices,
         missed' \in BOOLEAN,
         Held', PassedOn', EstimatesMatch', RowsApart'
  PROVE  IInv'
<1>1. /\ UNCHANGED <<version, config, todo, failed>>
      /\ pc' = [pc EXCEPT !["watch"] = "idle"]
      /\ client' = [client EXCEPT !["watch"] = o.client]
      /\ request' = [request EXCEPT !["watch"] = NoRequest]
  BY DEF DaemonAnswered, Answered, Watching, recalculation
<1>2. "watch" \in Routers /\ "recalculate" \in Routers /\ "watch" # "recalculate"
  BY DEF Routers
<1>3. o.client \in Clients
  BY <1>2, Outcome
<1>4. Shapes'
  BY <1>1, <1>3 DEF IInv, Shapes, Steps
<1>5. Asking'
  <2>1. \A p \in Routers : pc'[p] = "fetch" => pc[p] = "fetch" /\ request'[p] = request[p]
    BY <1>1, <1>2 DEF IInv, Shapes
  <2>. QED  BY <1>1, <2>1, AskingStays DEF IInv
<1>6. NothingNear'
  BY <1>1, <1>2 DEF IInv, Shapes, NothingNear
<1>7. Failures'
  BY <1>1, <1>2, FailuresStay DEF IInv, Shapes
<1>. QED  BY <1>4, <1>5, <1>6, <1>7 DEF IInv

(* The answer that the daemon uses is for the very place. *)
LEMMA UseAnswerKeeps ==
  ASSUME IInv, NEW o \in Estimated("watch"), UseAnswer(o), recycled \subseteq recycled'
  PROVE  /\ routes' \subseteq Routes /\ IsFiniteSet(routes') /\ Cardinality(routes') <= Devices
         /\ PassedOn'
<1>. DEFINE r == request["watch"]
<1>1. o \in Outcomes("watch") /\ "watch" \in Routers
  BY DEF Estimated, Routers
<1>2. /\ r \in Requests /\ Configured(r.zone, r.from)
      /\ o.estimate.from = r.from /\ o.estimate.to = r.to
  BY <1>1, Outcome
<1>3. r.from \in Centres /\ r.to \in Destinations
  BY <1>2 DEF Requests
<1>4. Use(r, r.from, r.to, TRUE)
  BY <1>2 DEF UseAnswer
<1>. HIDE DEF r
<1>5. Gap(r.to, r.to) <= HistoryReach
  <2>1. r.to \in Nat /\ HistoryReach \in Nat
    BY <1>3, Constants
  <2>2. Gap(r.to, r.to) = 0
    BY <2>1, GapProperties
  <2>. QED  BY <2>1, <2>2
<1>. QED  BY <1>2, <1>3, <1>4, <1>5, UseKeepsShape, UseKeepsNear

LEMMA StoreRouteKeeps == ASSUME IInv, StoreRoute  PROVE IInv'
<1>. DEFINE r == request["watch"]
<1>1. PICK o \in Estimated("watch") :
        DaemonAnswered(o) /\ UseAnswer(o) /\ Insert(r, o.estimate) /\ UNCHANGED missed
  BY DEF StoreRoute
<1>2. o \in Outcomes("watch") /\ "watch" \in Routers
  BY DEF Estimated, Routers
<1>3. /\ pc["watch"] = "fetch" /\ r \in Requests /\ Configured(r.zone, r.from)
      /\ o.estimate \in Estimates /\ o.estimate.from = r.from /\ o.estimate.to = r.to
  BY <1>2, Outcome
<1>. DEFINE id == NextId
            e == [zone |-> r.zone, to |-> r.to, estimate |-> o.estimate]
<1>4. id \in 1..MaxRows /\ id \notin DOMAIN rows
  BY <1>1, NextIdIsNew, Constants DEF Insert, IInv
<1>5. /\ rows' = [i \in DOMAIN rows \cup {id} |-> IF i = id THEN e ELSE rows[i]]
      /\ recycled \subseteq recycled' /\ ((\E t \in todo : t.id = id) => id \in recycled')
      /\ todo' = todo /\ missed' = missed
  BY <1>1 DEF Insert, DaemonAnswered, Watching, recalculation
<1>6. e \in Rows /\ e.zone = r.zone /\ e.to = r.to /\ e.estimate = o.estimate
  BY <1>3 DEF Rows, Requests
<1>. HIDE DEF id, e, r
<1>7. /\ DOMAIN rows' = DOMAIN rows \cup {id} /\ rows'[id] = e
      /\ \A i \in DOMAIN rows : rows'[i] = rows[i]
  BY <1>4, <1>5
<1>8. rows' \in [DOMAIN rows' -> Rows] /\ DOMAIN rows' \subseteq 1..MaxRows
  BY <1>4, <1>5, <1>6 DEF IInv, Shapes
<1>9. Held'
  BY <1>5, <1>7 DEF IInv, Held
<1>10. EstimatesMatch'
  <2>1. \A i \in DOMAIN rows \ recycled' :
          /\ rows[i].estimate.to = rows[i].to
          /\ Configured(rows[i].zone, rows[i].estimate.from)
    BY <1>5 DEF IInv, EstimatesMatch, Configured
  <2>2. e.estimate.to = e.to /\ Configured(e.zone, e.estimate.from)
    BY <1>3, <1>6
  <2>3. \A i \in DOMAIN rows' \ recycled' :
          /\ rows'[i].estimate.to = rows'[i].to
          /\ Configured(rows'[i].zone, rows'[i].estimate.from)
    BY <1>7, <2>1, <2>2
  <2>. QED  BY <2>3 DEF EstimatesMatch, Configured
<1>11. RowsApart'
  <2>. SUFFICES ASSUME ~ missed', NEW i \in DOMAIN rows', NEW j \in DOMAIN rows',
                       i # j, rows'[i].zone = rows'[j].zone
                PROVE  Gap(rows'[i].to, rows'[j].to) > HistoryReach
    BY DEF RowsApart
  <2>. ~ missed /\ i \in DOMAIN rows \cup {id} /\ j \in DOMAIN rows \cup {id}
    BY <1>5, <1>7
  <2>1. \A k \in DOMAIN rows : rows[k].zone = r.zone => Gap(rows[k].to, r.to) > HistoryReach
    BY <1>3 DEF IInv, NothingNear, r
  <2>2. \A k \in DOMAIN rows : rows[k].to \in Nat
    BY Constants DEF IInv, Shapes, Rows
  <2>3. r.to \in Nat
    BY <1>3, Constants DEF Requests
  <2>4. CASE i = id
    BY <1>4, <1>6, <1>7, <2>1, <2>2, <2>3, <2>4, GapProperties
  <2>5. CASE j = id
    BY <1>4, <1>6, <1>7, <2>1, <2>2, <2>3, <2>5
  <2>6. CASE i \in DOMAIN rows /\ j \in DOMAIN rows
    BY <1>7, <2>6 DEF IInv, RowsApart
  <2>. QED  BY <2>4, <2>5, <2>6
<1>12. missed' \in BOOLEAN
  BY <1>5 DEF IInv, Shapes
<1>. QED  BY <1>1, <1>2, <1>5, <1>8, <1>9, <1>10, <1>11, <1>12, UseAnswerKeeps, DaemonEnds

LEMMA StoreRouteFailsKeeps == ASSUME IInv, StoreRouteFails  PROVE IInv'
<1>1. PICK o \in Estimated("watch") :
        DaemonAnswered(o) /\ UseAnswer(o) /\ missed' = TRUE /\ UNCHANGED <<rows, recycled>>
  BY DEF StoreRouteFails
<1>2. o \in Outcomes("watch")
  BY DEF Estimated
<1>3. todo' = todo
  BY <1>1 DEF DaemonAnswered, Watching, recalculation
<1>4. rows' \in [DOMAIN rows' -> Rows] /\ DOMAIN rows' \subseteq 1..MaxRows
  BY <1>1 DEF IInv, Shapes
<1>5. Held' /\ EstimatesMatch' /\ RowsApart'
  BY <1>1, <1>3 DEF IInv, Held, EstimatesMatch, RowsApart
<1>. QED  BY <1>1, <1>2, <1>4, <1>5, UseAnswerKeeps, DaemonEnds

(* A route that a device keeps for another place may be of any place.       *)
LEMMA KeepRouteKeeps ==
  ASSUME IInv, NEW place \in Destinations, KeepRoute(place), recycled' = recycled
  PROVE  /\ routes' \subseteq Routes /\ IsFiniteSet(routes') /\ Cardinality(routes') <= Devices
         /\ PassedOn'
<1>1. PICK s \in routes : Use([s EXCEPT !.to = place], s.from, s.to, FALSE)
  BY DEF KeepRoute
<1>2. s \in Routes /\ s.from \in Centres /\ s.to \in Destinations /\ s.zone \in ZoneIds
  BY DEF IInv, Shapes, Routes
<1>. DEFINE r == [zone |-> s.zone, from |-> s.from, to |-> place]
<1>3. r \in Requests /\ r.zone = s.zone
  BY <1>2 DEF Requests
<1>4. Use(r, s.from, s.to, FALSE)
  <2>1. [s EXCEPT !.to = place].zone = s.zone /\ [s EXCEPT !.to = place].to = place
    BY <1>2 DEF Routes
  <2>. QED  BY <1>1, <2>1 DEF Use
<1>5. recycled = {} => Configured(r.zone, s.from)
  BY <1>3 DEF IInv, PassedOn
<1>. HIDE DEF r
<1>. QED  BY <1>2, <1>3, <1>4, <1>5, UseKeepsShape, UseKeepsNear

LEMMA RouteRefusedKeeps == ASSUME IInv, RouteRefused  PROVE IInv'
<1>1. PICK o \in Refused("watch") :
        /\ DaemonAnswered(o) /\ UNCHANGED <<rows, observers>>
        /\ UNCHANGED routes \/ KeepRoute(request["watch"].to)
  BY DEF RouteRefused
<1>2. o \in Outcomes("watch") /\ "watch" \in Routers
  BY DEF Refused, Routers
<1>3. UNCHANGED <<rows, missed, recycled, todo>>
  BY <1>1 DEF DaemonAnswered, Watching, recalculation, observers
<1>4. request["watch"].to \in Destinations
  BY <1>2, Outcome DEF Requests
<1>5. /\ routes' \subseteq Routes /\ IsFiniteSet(routes') /\ Cardinality(routes') <= Devices
      /\ PassedOn'
  <2>1. CASE UNCHANGED routes
    BY <1>3, <2>1, PassedOnStays DEF IInv, Shapes
  <2>2. CASE KeepRoute(request["watch"].to)
    BY <1>3, <1>4, <2>2, KeepRouteKeeps
  <2>. QED  BY <1>1, <2>1, <2>2
<1>6. /\ rows' \in [DOMAIN rows' -> Rows] /\ DOMAIN rows' \subseteq 1..MaxRows
      /\ missed' \in BOOLEAN
  BY <1>3 DEF IInv, Shapes
<1>7. Held' /\ EstimatesMatch' /\ RowsApart'
  BY <1>3 DEF IInv, Held, EstimatesMatch, RowsApart
<1>. QED  BY <1>1, <1>2, <1>5, <1>6, <1>7, DaemonEnds


-----------------------------------------------------------------------------
(* The recalculation.                                                      *)

LEMMA ListEntriesKeeps == ASSUME IInv, ListEntries  PROVE IInv'
<1>. DEFINE entry(i) == [id |-> i, zone |-> rows[i].zone, to |-> rows[i].to]
<1>1. todo' = {entry(i) : i \in DOMAIN rows}
  BY DEF ListEntries
<1>2. /\ UNCHANGED <<version, rows, config, request, client, failed, routes, missed, recycled>>
      /\ pc' = [pc EXCEPT !["recalculate"] = "next"]
  BY DEF ListEntries, Recalculating
<1>3. \A i \in DOMAIN rows : /\ entry(i) \in Entries /\ entry(i).id = i
                             /\ entry(i).zone = rows[i].zone /\ entry(i).to = rows[i].to
  <2>. TAKE i \in DOMAIN rows
  <2>1. i \in 1..MaxRows /\ rows[i].zone \in ZoneIds /\ rows[i].to \in Destinations
    BY DEF IInv, Shapes, Rows
  <2>. QED  BY <2>1 DEF Entries
<1>. HIDE DEF entry
<1>4. Shapes'
  <2>1. pc' \in [Routers -> Steps] /\ todo' \subseteq Entries
    BY <1>1, <1>2, <1>3 DEF IInv, Shapes, Steps
  <2>. QED  BY <1>2, <2>1 DEF IInv, Shapes
<1>5. Asking'
  <2>1. /\ \A p \in Routers : pc'[p] = "fetch" => pc[p] = "fetch" /\ request'[p] = request[p]
        /\ pc'["recalculate"] # "fetch"
    BY <1>2 DEF IInv, Shapes, Routers
  <2>. QED  BY <2>1, AskingStays DEF IInv
<1>6. Held'
  BY <1>1, <1>2, <1>3 DEF Held
<1>7. NothingNear'
  BY <1>2, NothingNearStays DEF IInv, Shapes, Routers
<1>8. PassedOn' /\ Failures' /\ EstimatesMatch' /\ RowsApart'
  BY <1>2 DEF IInv, PassedOn, Configured, Failures, EstimatesMatch, RowsApart
<1>. QED  BY <1>4, <1>5, <1>6, <1>7, <1>8 DEF IInv

LEMMA NoOriginKeeps == ASSUME IInv, NoOrigin  PROVE IInv'
<1>1. /\ UNCHANGED <<version, rows, pc, config, request, client, routes, missed, recycled>>
      /\ todo' \subseteq todo /\ failed' = failed + 1 /\ pc["recalculate"] = "next"
  BY DEF NoOrigin, Recalculating
<1>2. Shapes'
  BY <1>1 DEF IInv, Shapes
<1>3. Asking'
  BY <1>1, AskingStays DEF IInv
<1>4. Held' /\ NothingNear' /\ PassedOn' /\ EstimatesMatch' /\ RowsApart'
  BY <1>1 DEF IInv, Held, NothingNear, PassedOn, Configured, EstimatesMatch, RowsApart
<1>5. Failures'
  <2>1. client["recalculate"].errors \in Nat /\ failed \in Nat /\ Min(DOMAIN PauseAfter) \in Nat
    <3>1. client["recalculate"] \in Clients
      BY DEF IInv, Shapes, Routers
    <3>2. DOMAIN PauseAfter \subseteq Nat /\ DOMAIN PauseAfter # {}
      BY Constants
    <3>3. Min(DOMAIN PauseAfter) \in Nat
      BY <3>2, MinIsLeast
    <3>. QED  BY <3>1, <3>3, Constants DEF IInv, Shapes, Clients
  <2>. QED  BY <1>1, <2>1 DEF IInv, Failures
<1>. QED  BY <1>2, <1>3, <1>4, <1>5 DEF IInv

LEMMA AskAgainKeeps == ASSUME IInv, AskAgain  PROVE IInv'
<1>. DEFINE c == config["recalculate"]
            r == [zone |-> Current.zone, from |-> c[Current.zone], to |-> Current.to]
<1>1. /\ UNCHANGED <<version, rows, config, client, todo, failed, routes, missed, recycled>>
      /\ pc["recalculate"] = "next" /\ pc' = [pc EXCEPT !["recalculate"] = "fetch"]
      /\ request' = [request EXCEPT !["recalculate"] = r]
      /\ todo # {} /\ Current.zone \in DOMAIN c
  BY DEF AskAgain, Recalculating
<1>2. Current.zone \in ZoneIds /\ Current.to \in Destinations
  BY <1>1, CurrentIsListed DEF IInv, Shapes, Entries
<1>3. c \in Configs
  <2>1. c \in Configs \cup {<<>>}
    BY DEF IInv, Shapes, Routers
  <2>. QED  BY <1>1, <2>1
<1>4. c[Current.zone] \in Centres
  BY <1>1, <1>3 DEF Centres
<1>5. r \in Requests /\ Configured(r.zone, r.from) /\ r.zone = Current.zone /\ r.to = Current.to
  <2>. HIDE DEF c
  <2>. QED  BY <1>1, <1>2, <1>3, <1>4 DEF Requests, Configured
<1>. HIDE DEF r
<1>6. /\ request'["recalculate"] = r /\ request'["watch"] = request["watch"]
      /\ pc'["watch"] = pc["watch"]
  BY <1>1 DEF IInv, Shapes, Routers
<1>7. Shapes'
  <2>1. pc' \in [Routers -> Steps] /\ request' \in [Routers -> Requests \cup {NoRequest}]
    BY <1>1, <1>5 DEF IInv, Shapes, Steps
  <2>. QED  BY <1>1, <2>1 DEF IInv, Shapes
<1>8. Asking'
  <2>1. \A p \in Routers : pc'[p] = "fetch" =>
          request'[p] \in Requests /\ Configured(request'[p].zone, request'[p].from)
    BY <1>5, <1>6 DEF IInv, Asking, Routers
  <2>2. Current' = Current
    BY <1>1 DEF Current
  <2>. QED  BY <1>1, <1>5, <1>6, <2>1, <2>2 DEF Asking, Configured
<1>9. NothingNear'
  BY <1>1, <1>6, NothingNearStays DEF IInv
<1>10. Held' /\ PassedOn' /\ Failures' /\ EstimatesMatch' /\ RowsApart'
  BY <1>1 DEF IInv, Held, PassedOn, Configured, Failures, EstimatesMatch, RowsApart
<1>. QED  BY <1>7, <1>8, <1>9, <1>10 DEF IInv

(* The end of a request of the recalculation: the rows are the same rows,  *)
(* some with another estimate.                                             *)
LEMMA RecordEnds ==
  ASSUME IInv, NEW o \in Outcomes("recalculate"), RecalculationAnswered(o),
         rows' \in [DOMAIN rows -> Rows],
         \A i \in DOMAIN rows : rows'[i].zone = rows[i].zone /\ rows'[i].to = rows[i].to,
         failed' \in Nat, EstimatesMatch', Failures'
  PROVE  IInv'
<1>1. /\ UNCHANGED <<version, config, routes, missed, recycled>>
      /\ pc' = [pc EXCEPT !["recalculate"] = "next"]
      /\ client' = [client EXCEPT !["recalculate"] = o.client]
      /\ request' = [request EXCEPT !["recalculate"] = NoRequest]
      /\ todo' \subseteq todo
  BY DEF RecalculationAnswered, Answered, Recalculating
<1>2. o.client \in Clients
  BY Outcome DEF Routers
<1>3. DOMAIN rows' = DOMAIN rows
  OBVIOUS
<1>4. Shapes'
  BY <1>1, <1>2, <1>3 DEF IInv, Shapes, Steps
<1>5. /\ \A p \in Routers : pc'[p] = "fetch" => pc[p] = "fetch" /\ request'[p] = request[p]
      /\ pc'["recalculate"] # "fetch"
  BY <1>1 DEF IInv, Shapes, Routers
<1>6. Asking'
  BY <1>5, AskingStays DEF IInv
<1>7. Held'
  BY <1>1, <1>3, HeldStays DEF IInv
<1>8. NothingNear'
  BY <1>1, <1>3, <1>5, NothingNearStays DEF IInv, Routers
<1>9. PassedOn'
  BY <1>1, PassedOnStays DEF IInv
<1>10. RowsApart'
  BY <1>1, <1>3 DEF IInv, RowsApart
<1>. QED  BY <1>4, <1>6, <1>7, <1>8, <1>9, <1>10 DEF IInv

(* The row that is updated is the one that was asked about, if its id was  *)
(* not given out again.                                                    *)
LEMMA UpdateRowKeeps == ASSUME IInv, UpdateRow  PROVE IInv'
<1>. DEFINE r == request["recalculate"]
            id == Current.id
<1>1. PICK o \in Estimated("recalculate") :
        RecalculationAnswered(o) /\ UpdateEstimate(id, o.estimate) /\ UNCHANGED failed
  BY DEF UpdateRow
<1>2. o \in Outcomes("recalculate") /\ "recalculate" \in Routers
  BY DEF Estimated, Routers
<1>3. /\ pc["recalculate"] = "fetch" /\ Configured(r.zone, r.from)
      /\ o.estimate \in Estimates /\ o.estimate.from = r.from /\ o.estimate.to = r.to
      /\ o.client.errors <= client["recalculate"].errors
      /\ IsPaused(o.client) => IsPaused(client["recalculate"])
      /\ o.client \in Clients
  BY <1>2, Outcome
<1>4. Current \in todo /\ r.zone = Current.zone /\ r.to = Current.to
  BY <1>3, CurrentIsListed DEF IInv, Asking
<1>5. /\ recycled' = recycled /\ failed' = failed
      /\ client'["recalculate"] = o.client
  BY <1>1, <1>2 DEF RecalculationAnswered, Answered, IInv, Shapes
<1>. HIDE DEF r, id
<1>6. /\ rows' \in [DOMAIN rows -> Rows]
      /\ \A i \in DOMAIN rows : /\ rows'[i].zone = rows[i].zone /\ rows'[i].to = rows[i].to
                                /\ i # id => rows'[i] = rows[i]
                                /\ i = id => rows'[i].estimate = o.estimate
  <2>1. rows \in [DOMAIN rows -> Rows]
    BY DEF IInv, Shapes
  <2>2. CASE id \notin DOMAIN rows
    BY <1>1, <2>1, <2>2 DEF UpdateEstimate
  <2>3. CASE id \in DOMAIN rows
    <3>1. rows' = [rows EXCEPT ![id] = [rows[id] EXCEPT !.estimate = o.estimate]]
      BY <1>1, <2>3 DEF UpdateEstimate
    <3>2. [rows[id] EXCEPT !.estimate = o.estimate] \in Rows
      BY <1>3, <2>1, <2>3 DEF Rows
    <3>3. rows[id] \in Rows
      BY <2>1, <2>3
    <3>4. /\ [rows[id] EXCEPT !.estimate = o.estimate].zone = rows[id].zone
          /\ [rows[id] EXCEPT !.estimate = o.estimate].to = rows[id].to
          /\ [rows[id] EXCEPT !.estimate = o.estimate].estimate = o.estimate
      BY <3>3 DEF Rows
    <3>. QED  BY <2>1, <2>3, <3>1, <3>2, <3>4
  <2>. QED  BY <2>2, <2>3
<1>7. EstimatesMatch'
  <2>. SUFFICES ASSUME NEW i \in DOMAIN rows' \ recycled'
                PROVE  /\ rows'[i].estimate.to = rows'[i].to
                       /\ Configured(rows'[i].zone, rows'[i].estimate.from)
    BY DEF EstimatesMatch, Configured
  <2>1. i \in DOMAIN rows \ recycled
    BY <1>5, <1>6
  <2>2. CASE i # id
    BY <1>6, <2>1, <2>2 DEF IInv, EstimatesMatch, Configured
  <2>3. CASE i = id
    <3>1. rows[i].zone = r.zone /\ rows[i].to = r.to
      BY <1>4, <2>1, <2>3 DEF IInv, Held, id
    <3>2. rows'[i].estimate = o.estimate /\ rows'[i].zone = r.zone /\ rows'[i].to = r.to
      BY <1>6, <2>1, <2>3, <3>1
    <3>. QED  BY <1>3, <3>2
  <2>. QED  BY <2>2, <2>3
<1>8. Failures'
  <2>1. client["recalculate"] \in Clients
    BY <1>2 DEF IInv, Shapes
  <2>2. o.client.errors \in Nat /\ client["recalculate"].errors \in Nat
    BY <1>3, <2>1, Constants DEF Clients
  <2>. QED  BY <1>3, <1>5, <2>2 DEF IInv, Shapes, Failures, IsPaused
<1>. QED  BY <1>1, <1>2, <1>5, <1>6, <1>7, <1>8, RecordEnds DEF IInv, Shapes

LEMMA RecalculationRefusedKeeps == ASSUME IInv, RecalculationRefused  PROVE IInv'
<1>1. PICK o \in Refused("recalculate") :
        RecalculationAnswered(o) /\ failed' = failed + 1 /\ UNCHANGED rows
  BY DEF RecalculationRefused
<1>2. o \in Outcomes("recalculate") /\ "recalculate" \in Routers
  BY DEF Refused, Routers
<1>. DEFINE a == client["recalculate"]
            least == Min(DOMAIN PauseAfter)
<1>3. /\ o.client \in Clients /\ o.client.errors <= a.errors + 1
      /\ IsPaused(o.client) => IsPaused(a) \/ a.errors + 1 >= least
  BY <1>2, Outcome
<1>4. a.errors \in Nat /\ o.client.errors \in Nat /\ failed \in Nat /\ least \in Nat
  <2>1. a \in Clients
    BY <1>2 DEF IInv, Shapes
  <2>2. DOMAIN PauseAfter \subseteq Nat /\ DOMAIN PauseAfter # {}
    BY Constants
  <2>3. least \in Nat
    BY <2>2, MinIsLeast
  <2>. QED  BY <1>3, <2>1, <2>3, Constants DEF IInv, Shapes, Clients
<1>5. client'["recalculate"] = o.client /\ recycled' = recycled
  BY <1>1, <1>2 DEF RecalculationAnswered, Answered, IInv, Shapes
<1>6. Failures'
  <2>1. a.errors <= failed /\ (IsPaused(a) => failed >= least)
    BY DEF IInv, Failures
  <2>2. o.client.errors <= failed + 1 /\ (IsPaused(o.client) => failed + 1 >= least)
    <3>. HIDE DEF a, least
    <3>. QED  BY <1>3, <1>4, <2>1
  <2>. QED  BY <1>1, <1>5, <2>2 DEF Failures, IsPaused
<1>7. EstimatesMatch'
  BY <1>1, <1>5 DEF IInv, EstimatesMatch
<1>8. rows' \in [DOMAIN rows -> Rows] /\ failed' \in Nat
  BY <1>1, <1>4 DEF IInv, Shapes
<1>. QED  BY <1>1, <1>2, <1>6, <1>7, <1>8, RecordEnds

-----------------------------------------------------------------------------
(* Maintenance, and the next state.                                        *)

LEMMA MaintainKeeps == ASSUME IInv, Maintain  PROVE IInv'
<1>1. /\ UNCHANGED <<version, pc, config, request, client, todo, failed, routes,
                     missed, recycled>>
      /\ rows' = [i \in {j \in DOMAIN rows : ~ Duplicate(j)} |-> rows[i]]
  BY DEF Maintain, recalculation, observers
<1>2. \A i \in DOMAIN rows' : i \in DOMAIN rows /\ rows'[i] = rows[i]
  BY <1>1
<1>3. Shapes'
  BY <1>1 DEF IInv, Shapes
<1>4. Asking'
  BY <1>1, AskingStays DEF IInv
<1>5. Held' /\ NothingNear'
  BY <1>1, <1>2, HeldStays, NothingNearStays DEF IInv
<1>6. PassedOn' /\ Failures'
  BY <1>1 DEF IInv, PassedOn, Configured, Failures
<1>7. EstimatesMatch' /\ RowsApart'
  BY <1>1, <1>2, RowsStay DEF IInv, Shapes
<1>. QED  BY <1>3, <1>4, <1>5, <1>6, <1>7 DEF IInv

LEMMA InitIInv == Init => IInv
<1>. SUFFICES ASSUME Init  PROVE IInv
  OBVIOUS
<1>1. Shapes
  <2>1. IsFiniteSet({}) /\ Cardinality({}) <= Devices
    BY FS_EmptySet, Constants
  <2>2. client \in [Routers -> Clients]
    BY AvailableIsClient DEF Init
  <2>3. rows = <<>> /\ DOMAIN rows = {}
    BY DEF Init
  <2>4. rows \in [DOMAIN rows -> Rows] /\ DOMAIN rows \subseteq 1..MaxRows
    BY <2>3
  <2>. QED  BY <2>1, <2>2, <2>4 DEF Init, Shapes, Steps
<1>2. Asking /\ Held /\ NothingNear /\ PassedOn /\ EstimatesMatch /\ RowsApart
  BY DEF Init, Asking, Held, NothingNear, PassedOn, EstimatesMatch, RowsApart, Routers
<1>3. Failures
  BY DEF Init, Failures, IsPaused, Available, Routers
<1>. QED  BY <1>1, <1>2, <1>3 DEF IInv

LEMMA NextIInv == IInv /\ [Next]_vars => IInv'
<1>. SUFFICES ASSUME IInv, [Next]_vars  PROVE IInv'
  OBVIOUS
<1>1. CASE Daemon
  BY <1>1, RefreshKeeps, ShareKeeps, LookupHitKeeps, LookupMissesKeeps, StoreRouteKeeps,
     StoreRouteFailsKeeps, RouteRefusedKeeps DEF Daemon
<1>2. CASE Recalculation
  <2>1. CASE RecalculationEnds
    BY <2>1, ExitKeeps DEF RecalculationEnds, Routers
  <2>. QED  BY <1>2, <2>1, ListEntriesKeeps, NoOriginKeeps, AskAgainKeeps, UpdateRowKeeps,
            RecalculationRefusedKeeps DEF Recalculation
<1>3. CASE Maintain
  BY <1>3, MaintainKeeps
<1>4. CASE \E p \in Routers : Open(p) \/ Migrate(p) \/ Stop(p)
  BY <1>4, OpenKeeps, MigrateKeeps, ExitKeeps DEF Stop
<1>5. CASE Tick
  BY <1>5, TickKeeps
<1>6. CASE UNCHANGED vars
  <2>1. UNCHANGED <<version, rows, pc, config, request, client, todo, failed, missed, recycled,
                    routes>>
    BY <1>6 DEF vars, recalculation, observers
  <2>2. Shapes' /\ PassedOn'
    BY <2>1 DEF IInv, Shapes, PassedOn, Configured
  <2>. QED  BY <2>1, <2>2, OnlyRoutes DEF Shapes
<1>. QED  BY <1>1, <1>2, <1>3, <1>4, <1>5, <1>6 DEF Next

LEMMA InductiveInvariant == Spec => []IInv
BY InitIInv, NextIInv, PTL DEF Spec


-----------------------------------------------------------------------------
(* The theorems.                                                           *)

(* The tables, the programs and their clients are well formed, whatever is *)
(* in the files, however the programs interleave and wherever they stop.   *)
THEOREM TypeCorrect == Spec => []TypeOK
<1>1. IInv => TypeOK
  BY DEF IInv, Shapes, TypeOK, Rows, Clients, Routes
<1>. QED  BY <1>1, InductiveInvariant, PTL

(* A row has the estimate of its own zone and destination: a recalculation *)
(* may write to a row that it read long before, and that others deleted    *)
(* meanwhile (update_estimate_sync).                                       *)
THEOREM EstimatesAlwaysMatch == Spec => []EstimatesMatch
BY InductiveInvariant, PTL DEF IInv

(* The daemon keeps the rows of a zone more than a lookup's reach apart.   *)
THEOREM RowsAlwaysApart == Spec => []RowsApart
BY InductiveInvariant, PTL DEF IInv

(* What the daemon uses is near, however often it was passed on: for any   *)
(* number of devices.                                                      *)
THEOREM AlwaysUsedNear == Spec => []UsedIsNear
<1>1. IInv => UsedIsNear
  <2>. SUFFICES ASSUME IInv, recycled = {}, NEW s \in routes
                PROVE  /\ s.there => Gap(s.to, s.at) <= HistoryReach + ShareReach * (Devices - 1)
                       /\ Configured(s.zone, s.from)
    BY DEF UsedIsNear, Configured
  <2>. DEFINE n == Cardinality(routes)
  <2>1. /\ s.there => Gap(s.to, s.at) <= HistoryReach + ShareReach * (n - 1)
        /\ Configured(s.zone, s.from)
    BY DEF IInv, PassedOn
  <2>2. n \in Nat /\ n <= Devices
    BY FS_CardinalityType DEF IInv, Shapes
  <2>3. s.to \in Nat /\ s.at \in Nat
    BY Constants DEF IInv, Shapes, Routes
  <2>4. Gap(s.to, s.at) \in Nat
    BY <2>3, GapProperties
  <2>. HIDE DEF n
  <2>5. ShareReach * (n - 1) <= ShareReach * (Devices - 1)
    <3>1. ShareReach * (Devices - 1) = ShareReach * (n - 1) + ShareReach * (Devices - n)
      BY <2>2, Constants
    <3>2. Devices - n \in Nat
      BY <2>2, Constants
    <3>3. ShareReach * (Devices - n) \in Nat /\ ShareReach * (n - 1) \in Int
      BY <2>2, <3>2, Constants
    <3>. QED  BY <3>1, <3>3
  <2>6. ShareReach * (n - 1) \in Int /\ ShareReach * (Devices - 1) \in Int
    BY <2>2, Constants
  <2>. QED  BY <2>1, <2>4, <2>5, <2>6, Constants
<1>. QED  BY <1>1, InductiveInvariant, PTL

(* A client of a recalculation that answers with a straight line is paused, *)
(* and every failure that paused it was counted.                            *)
THEOREM DurationsAlwaysKept == Spec => DurationsKept
<1>. DEFINE kept == \A i \in DOMAIN rows \cap DOMAIN rows' :
                      /\ rows[i].estimate.status = "Used"
                      /\ rows'[i].estimate.status = "Paused"
                      => failed >= Min(DOMAIN PauseAfter)
            same == \A i \in DOMAIN rows \cap DOMAIN rows' : rows'[i] = rows[i]
<1>1. same => kept
  OBVIOUS
<1>2. ASSUME UNCHANGED rows  PROVE same
  BY <1>2
<1>3. ASSUME IInv, UpdateRow  PROVE kept
  <2>1. PICK o \in Estimated("recalculate") : UpdateEstimate(Current.id, o.estimate)
    BY <1>3 DEF UpdateRow
  <2>2. o \in Outcomes("recalculate") /\ "recalculate" \in Routers
    BY DEF Estimated, Routers
  <2>3. o.estimate.status = "Paused" => IsPaused(client["recalculate"])
    BY <1>3, <2>2, Outcome
  <2>. SUFFICES ASSUME NEW i \in DOMAIN rows \cap DOMAIN rows',
                       rows[i].estimate.status = "Used", rows'[i].estimate.status = "Paused"
                PROVE  failed >= Min(DOMAIN PauseAfter)
    OBVIOUS
  <2>4. rows[i] \in Rows /\ rows \in [DOMAIN rows -> Rows]
    BY <1>3 DEF IInv, Shapes
  <2>5. i = Current.id /\ rows' = [rows EXCEPT ![i] = [rows[i] EXCEPT !.estimate = o.estimate]]
    BY <2>1, <2>4 DEF UpdateEstimate
  <2>6. rows'[i].estimate = o.estimate
    <3>1. rows'[i] = [rows[i] EXCEPT !.estimate = o.estimate]
      BY <2>4, <2>5
    <3>. QED  BY <2>4, <3>1 DEF Rows
  <2>. QED  BY <1>3, <2>3, <2>6 DEF IInv, Failures
<1>4. ASSUME IInv, StoreRoute  PROVE same
  BY <1>4, NextIdIsNew DEF StoreRoute, Insert, IInv
<1>5. ASSUME Maintain  PROVE same
  BY <1>5 DEF Maintain
<1>6. IInv /\ [Next]_vars => [kept]_vars
  <2>. SUFFICES ASSUME IInv, Next  PROVE kept
    OBVIOUS
  <2>. HIDE DEF kept, same
  <2>1. CASE Daemon
    BY <1>1, <1>2, <1>4, <2>1 DEF Daemon, Refresh, Share, LookupHit, LookupMisses,
       StoreRouteFails, RouteRefused
  <2>2. CASE Recalculation
    BY <1>1, <1>2, <1>3, <2>2 DEF Recalculation, ListEntries, NoOrigin, AskAgain,
       RecalculationRefused, RecalculationEnds, Exit
  <2>3. CASE Maintain
    BY <1>1, <1>5, <2>3
  <2>4. CASE (\E p \in Routers : Open(p) \/ Migrate(p) \/ Stop(p)) \/ Tick
    BY <1>1, <1>2, <2>4 DEF Open, Migrate, Stop, Exit, Tick
  <2>. QED  BY <2>1, <2>2, <2>3, <2>4 DEF Next
<1>. QED  BY <1>6, InductiveInvariant, PTL DEF Spec, DurationsKept

(* The oldest row of a cell survives the maintenance, and nothing else     *)
(* deletes rows; a new row takes no id that is in use.                     *)
THEOREM CellsAlwaysKept == Spec => CellsKept
<1>. DEFINE kept == \A i \in DOMAIN rows : \E j \in DOMAIN rows' :
                      rows'[j].zone = rows[i].zone /\ rows'[j].to = rows[i].to
            there == \A i \in DOMAIN rows :
                       i \in DOMAIN rows' /\ rows'[i].zone = rows[i].zone
                                          /\ rows'[i].to = rows[i].to
<1>1. there => kept
  OBVIOUS
<1>2. ASSUME UNCHANGED rows  PROVE there
  BY <1>2
<1>3. ASSUME IInv, UpdateRow  PROVE there
  <2>1. PICK o \in Estimated("recalculate") : UpdateEstimate(Current.id, o.estimate)
    BY <1>3 DEF UpdateRow
  <2>2. CASE Current.id \notin DOMAIN rows
    BY <2>1, <2>2 DEF UpdateEstimate
  <2>3. CASE Current.id \in DOMAIN rows
    <3>. DEFINE id == Current.id
    <3>1. rows \in [DOMAIN rows -> Rows] /\ rows[id] \in Rows
      BY <1>3, <2>3 DEF IInv, Shapes
    <3>2. rows' = [rows EXCEPT ![id] = [rows[id] EXCEPT !.estimate = o.estimate]]
      BY <2>1, <2>3 DEF UpdateEstimate
    <3>3. /\ [rows[id] EXCEPT !.estimate = o.estimate].zone = rows[id].zone
          /\ [rows[id] EXCEPT !.estimate = o.estimate].to = rows[id].to
      BY <3>1 DEF Rows
    <3>. HIDE DEF id
    <3>. QED  BY <3>1, <3>2, <3>3
  <2>. QED  BY <2>2, <2>3
<1>4. ASSUME IInv, StoreRoute  PROVE there
  BY <1>4, NextIdIsNew DEF StoreRoute, Insert, IInv
<1>5. ASSUME IInv, Maintain  PROVE kept
  <2>. SUFFICES ASSUME NEW i \in DOMAIN rows
                PROVE  \E j \in DOMAIN rows' :
                         rows'[j].zone = rows[i].zone /\ rows'[j].to = rows[i].to
    OBVIOUS
  <2>. DEFINE cell == {j \in DOMAIN rows : rows[j].zone = rows[i].zone /\ rows[j].to = rows[i].to}
  <2>1. cell \subseteq Nat /\ cell # {}
    BY <1>5 DEF IInv, Shapes
  <2>2. PICK j \in cell : \A k \in cell : j <= k
    <3>. HIDE DEF cell
    <3>. QED  BY <2>1, LeastNatural
  <2>3. ~ Duplicate(j)
    <3>. SUFFICES ASSUME NEW k \in DOMAIN rows, k < j,
                         rows[k].zone = rows[j].zone, rows[k].to = rows[j].to
                  PROVE  FALSE
      BY DEF Duplicate
    <3>1. k \in cell
      OBVIOUS
    <3>2. k \in Nat /\ j \in Nat
      BY <2>1, <3>1
    <3>. QED  BY <2>2, <3>1, <3>2
  <2>4. j \in DOMAIN rows' /\ rows'[j] = rows[j]
    BY <1>5, <2>3 DEF Maintain
  <2>. QED  BY <2>4
<1>6. IInv /\ [Next]_vars => [kept]_vars
  <2>. SUFFICES ASSUME IInv, Next  PROVE kept
    OBVIOUS
  <2>. HIDE DEF kept, there
  <2>1. CASE Daemon
    BY <1>1, <1>2, <1>4, <2>1 DEF Daemon, Refresh, Share, LookupHit, LookupMisses,
       StoreRouteFails, RouteRefused
  <2>2. CASE Recalculation
    BY <1>1, <1>2, <1>3, <2>2 DEF Recalculation, ListEntries, NoOrigin, AskAgain,
       RecalculationRefused, RecalculationEnds, Exit
  <2>3. CASE Maintain
    BY <1>5, <2>3
  <2>4. CASE (\E p \in Routers : Open(p) \/ Migrate(p) \/ Stop(p)) \/ Tick
    BY <1>1, <1>2, <2>4 DEF Open, Migrate, Stop, Exit, Tick
  <2>. QED  BY <2>1, <2>2, <2>3, <2>4 DEF Next
<1>. QED  BY <1>6, InductiveInvariant, PTL DEF Spec, CellsKept
===============================================================================
