----------------------------- MODULE RouteHistory -----------------------------
(***************************************************************************)
(* Routes: the Waze client with its pauses, the SQLite history of the      *)
(* estimates it gave (crates/icloud-waze/src/lib.rs), and the programs     *)
(* that share the history: the daemon, which looks a route up before it    *)
(* asks for one (src/runtime.rs), and the commands `waze history           *)
(* recalculate' and `maintain' (src/main.rs).  Each is a process of its    *)
(* own, with a client of its own; they interleave between the statements   *)
(* they send to the database, and any of them may stop at any step.  The   *)
(* Waze service is external and may fail, or answer without a route.       *)
(*                                                                         *)
(* A place is a number, in units of 25 metres along a line, and the cell   *)
(* of its own that rounding its coordinates to 4 decimals gives.  An       *)
(* estimate is what it was computed for and its status; a straight line    *)
(* (Paused, OutOfRange) has no duration.                                   *)
(***************************************************************************)
EXTENDS Integers, FiniteSets, FiniteSetsExt

CONSTANTS
  Destinations,       \* where a device is seen
  Closest,            \* <<zone, destination>>: the zone may be its tracking zone
  Configs,            \* contents of the configuration file: zone id -> centre
  OutOfRange,         \* <<centre, destination>> outside of the configured bounds
  HistoryReach,       \* maximum_distance_meters of a lookup: 100 m
  ShareReach,         \* two devices share a route within 25 m
  PauseAfter,         \* errors in a row -> length of the pause
  GiveUpAfter,        \* more errors in a row than this pause the client for good
  Devices,            \* devices of a refresh, once for each account that reports them
  MaxRows             \* bound: the largest row id of the instance

Routers  == {"watch", "recalculate"}
ZoneIds  == UNION {DOMAIN c : c \in Configs}
Centres  == UNION {{c[z] : z \in DOMAIN c} : c \in Configs}
Pauses   == {PauseAfter[n] : n \in DOMAIN PauseAfter}
Gap(a, b) == IF a < b THEN b - a ELSE a - b

ASSUME RouteHistoryAssumption ==
  /\ Destinations \subseteq Nat /\ Closest \subseteq ZoneIds \X Destinations
  /\ {HistoryReach, ShareReach, GiveUpAfter, Devices, MaxRows} \subseteq Nat
  /\ DOMAIN PauseAfter # {} /\ DOMAIN PauseAfter \subseteq 1..GiveUpAfter
  /\ PauseAfter \in [DOMAIN PauseAfter -> Nat]

VARIABLES
  version,            \* user_version of the database: 0 is a new file
  rows,               \* the table `routes': id -> zone, destination, estimate
  pc,                 \* of each program: its step
  config,             \* of each router: the configuration it read, <<>> if down
  request,            \* and the route it asks for
  client,             \* WazeAvailability of each router's client
  todo, failed,       \* the recalculation: rows to do, failed records
  routes,             \* of the refresh in progress: for which zone and place, from
                      \* which centre to which place they are, and whether the
                      \* device was still at the place when it was last seen
  missed,             \* a lookup or an insertion failed
  recycled            \* ids given out again while a recalculation held them

recalculation == <<todo, failed>>
observers == <<missed, recycled>>
vars == <<version, rows, pc, config, request, client, recalculation,
          routes, observers>>

Statuses == {"Used", "Paused", "OutOfRange"}
Estimates == [status : Statuses, from : Centres, to : Destinations]
Requests  == [zone : ZoneIds, from : Centres, to : Destinations]
NoRequest == [zone |-> "", from |-> "", to |-> 0]
NoEstimate == [status |-> "None", from |-> "", to |-> 0]
Available == [errors |-> 0, until |-> 0, manual |-> FALSE]

Estimate(r, status) == [status |-> status, from |-> r.from, to |-> r.to]

-----------------------------------------------------------------------------
(* WazeAvailability.  `until' counts what is left of a pause.             *)

IsPaused(a) == a.manual \/ a.until > 0

\* A bug: the errors are counted on, the client never gives up.
RecordFailureOn(a) ==
  LET errors == a.errors + 1
  IN  [a EXCEPT !.errors = errors,
                !.until = IF errors \in DOMAIN PauseAfter
                          THEN PauseAfter[errors] ELSE @]

RecordFailure(a) ==
  LET errors == a.errors + 1
  IN  IF errors > GiveUpAfter
      THEN [errors |-> 0, until |-> 0, manual |-> TRUE]
      ELSE [a EXCEPT !.errors = errors,
                     !.until = IF errors \in DOMAIN PauseAfter
                               THEN PauseAfter[errors] ELSE @]

RecordSuccess(a) == [a EXCEPT !.errors = 0, !.until = 0]

-----------------------------------------------------------------------------
(* The statements of the history.                                         *)

\* lookup_sync: the row of the zone nearest to the destination.
\* A bug: the row may be a row of another zone.
LookupAnyZone(r) ==
  LET near == {i \in DOMAIN rows : Gap(rows[i].to, r.to) <= HistoryReach}
  IN  {i \in near : \A j \in near : Gap(rows[i].to, r.to) <= Gap(rows[j].to, r.to)}

\* A bug: the row must be of the very place.
LookupExact(r) == {i \in DOMAIN rows : rows[i].zone = r.zone /\ rows[i].to = r.to}

Lookup(r) ==
  LET near == {i \in DOMAIN rows : /\ rows[i].zone = r.zone
                                   /\ Gap(rows[i].to, r.to) <= HistoryReach}
  IN  {i \in near : \A j \in near : Gap(rows[i].to, r.to) <= Gap(rows[j].to, r.to)}

\* INTEGER PRIMARY KEY without AUTOINCREMENT: the largest id in use, plus one.
NextId == IF rows = <<>> THEN 1 ELSE Max(DOMAIN rows) + 1

\* store_sync
Insert(r, e) ==
  /\ NextId <= MaxRows
  /\ rows' = [i \in DOMAIN rows \cup {NextId} |->
                IF i = NextId THEN [zone |-> r.zone, to |-> r.to, estimate |-> e]
                              ELSE rows[i]]
  /\ recycled' = IF \E t \in todo : t.id = NextId
                 THEN recycled \cup {NextId} ELSE recycled

\* maintain_sync: one row of each zone and cell stays, the oldest.
\* A bug: the rows are grouped by zone alone.
DuplicatesOfZone(i) == \E j \in DOMAIN rows : j < i /\ rows[j].zone = rows[i].zone

Duplicate(i) ==
  \E j \in DOMAIN rows : j < i /\ rows[j].zone = rows[i].zone /\ rows[j].to = rows[i].to

\* update_estimate_sync: no row, no effect.
\* A bug: the statement has lost its WHERE clause.
UpdateAll(id, e) == rows' = [i \in DOMAIN rows |-> [rows[i] EXCEPT !.estimate = e]]

UpdateEstimate(id, e) ==
  rows' = IF id \in DOMAIN rows THEN [rows EXCEPT ![id].estimate = e] ELSE rows

-----------------------------------------------------------------------------
(* Starting and stopping.                                                  *)

\* The first statement of a program.
Begin(p) == IF p = "watch" THEN "idle" ELSE "list"

\* SqliteRouteHistoryStore::open and migrate_history: a database of another
\* version is refused.  Two programs may both read version 0.
Open(p) ==
  /\ pc[p] = "down" /\ version \in {0, 1}
  /\ pc' = [pc EXCEPT ![p] = IF version = 0 THEN "migrate" ELSE Begin(p)]
  /\ \E c \in Configs : config' = [config EXCEPT ![p] = c]
  /\ UNCHANGED <<version, rows, request, client, recalculation,
                 routes, observers>>

\* The table exists by now: CREATE TABLE fails, and the program with it.
Migrate(p) ==
  /\ pc[p] = "migrate"
  /\ version' = 1
  /\ pc' = [pc EXCEPT ![p] = IF version = 0 THEN Begin(p) ELSE "down"]
  /\ UNCHANGED <<rows, config, request, client,
                 recalculation, routes, observers>>

\* The end of a program, by itself or at any step: its memory is gone.
Exit(p) ==
  /\ pc' = [pc EXCEPT ![p] = "down"]
  /\ config' = [config EXCEPT ![p] = <<>>]
  /\ request' = [request EXCEPT ![p] = NoRequest]
  /\ client' = [client EXCEPT ![p] = Available]
  /\ IF p = "watch" THEN routes' = {} ELSE UNCHANGED routes
  /\ IF p = "recalculate" THEN todo' = {} /\ failed' = 0
                          ELSE UNCHANGED recalculation
  /\ UNCHANGED <<version, rows, observers>>

Stop(p) == pc[p] # "down" /\ Exit(p)

\* One unit of every pause passes.
Tick ==
  /\ client' = [p \in Routers |-> [client[p] EXCEPT !.until = IF @ = 0 THEN 0 ELSE @ - 1]]
  /\ UNCHANGED <<version, rows, pc, config, request,
                 recalculation, routes, observers>>

-----------------------------------------------------------------------------
(* WazeClient::fetch: up to REQUEST_ATTEMPTS attempts, of which only the   *)
(* client hears; one task owns a client, so a call is one step of it.      *)

Line(r, status, a) == [client |-> a, estimate |-> Estimate(r, status)]

\* A call ends with the client's availability and an estimate, if any.  An
\* envelope that was decoded means that the client is well, even if it holds
\* no route or lacks a segment's time.
\* A bug: the last failure is answered with a straight line.
FetchFallsBack(p) ==
  LET r == request[p]
      a == client[p]
  IN  IF IsPaused(a) THEN {Line(r, "Paused", a)}
      ELSE IF <<r.from, r.to>> \in OutOfRange THEN {Line(r, "OutOfRange", a)}
      ELSE {Line(r, "Used", RecordSuccess(a)), Line(r, "Paused", RecordFailure(a))}

Fetch(p) ==
  LET r == request[p]
      a == client[p]
  IN  IF IsPaused(a) THEN {Line(r, "Paused", a)}
      ELSE IF <<r.from, r.to>> \in OutOfRange THEN {Line(r, "OutOfRange", a)}
      ELSE {Line(r, "Used", RecordSuccess(a)),
            [client |-> RecordSuccess(a), estimate |-> NoEstimate],
            [client |-> RecordFailure(a), estimate |-> NoEstimate]}

\* The call of p ends with this outcome.
Answered(p, outcome) ==
  /\ client' = [client EXCEPT ![p] = outcome.client]
  /\ request' = [request EXCEPT ![p] = NoRequest]

Outcomes(p) == IF pc[p] = "fetch" THEN Fetch(p) ELSE {}
Estimated(p) == {o \in Outcomes(p) : o.estimate # NoEstimate}
Refused(p) == Outcomes(p) \ Estimated(p)

-----------------------------------------------------------------------------
(* The daemon: one device after another of a refresh.                      *)

Watching == <<version, config, recalculation>>

\* The next refresh begins: `route_updated_at' is of an earlier one.
Refresh ==
  /\ pc["watch"] = "idle" /\ routes # {}
  /\ routes' = {}
  /\ UNCHANGED <<rows, pc, request, client, observers, Watching>>

\* A route becomes that of a device, and may be shared.
Use(r, from, to, there) ==
  /\ Cardinality(routes) < Devices
  /\ routes' = routes \cup
       {[zone |-> r.zone, at |-> r.to, from |-> from, to |-> to, there |-> there]}

Observed == {[zone |-> c[1], from |-> config["watch"][c[1]], to |-> c[2]] :
               c \in {k \in Closest : k[1] \in DOMAIN config["watch"]}}

\* Another device at most 25 m away, in this refresh, for the same zone.
Share ==
  /\ pc["watch"] = "idle"
  /\ \E r \in Observed, s \in routes :
       /\ s.zone = r.zone /\ Gap(s.at, r.to) <= ShareReach
       /\ Use(r, s.from, s.to, s.there)
  /\ UNCHANGED <<rows, pc, request, client, observers, Watching>>

LookupHit ==
  /\ pc["watch"] = "idle"
  /\ \E r \in Observed : \E i \in Lookup(r) :
       Use(r, rows[i].estimate.from, rows[i].estimate.to, TRUE)
  /\ UNCHANGED <<rows, pc, request, client, observers, Watching>>

\* No row, or the statement failed: a warning, and the client is asked.
LookupMisses ==
  /\ pc["watch"] = "idle" /\ Cardinality(routes) < Devices
  /\ \E r \in Observed, fails \in BOOLEAN :
       /\ fails \/ Lookup(r) = {}
       /\ missed' = (missed \/ fails)
       /\ request' = [request EXCEPT !["watch"] = r]
  /\ pc' = [pc EXCEPT !["watch"] = "fetch"]
  /\ UNCHANGED <<rows, client, routes, recycled, Watching>>

DaemonAnswered(o) ==
  /\ Answered("watch", o)
  /\ pc' = [pc EXCEPT !["watch"] = "idle"]
  /\ UNCHANGED Watching

UseAnswer(o) == Use(request["watch"], o.estimate.from, o.estimate.to, TRUE)

\* The estimate is stored, whatever its status, and used; a store that
\* fails is a warning.
StoreRoute ==
  \E o \in Estimated("watch") :
    /\ DaemonAnswered(o) /\ UseAnswer(o)
    /\ Insert(request["watch"], o.estimate)
    /\ UNCHANGED missed

StoreRouteFails ==
  \E o \in Estimated("watch") :
    /\ DaemonAnswered(o) /\ UseAnswer(o)
    /\ missed' = TRUE
    /\ UNCHANGED <<rows, recycled>>

\* A device that another account reported earlier in the refresh has moved, and
\* keeps the route it was given then: others may share it where it is now.
KeepRoute(place) ==
  \E s \in routes : Use([s EXCEPT !.to = place], s.from, s.to, FALSE)

RouteRefused ==
  \E o \in Refused("watch") :
    /\ DaemonAnswered(o)
    /\ UNCHANGED routes \/ KeepRoute(request["watch"].to)
    /\ UNCHANGED <<rows, observers>>

-----------------------------------------------------------------------------
(* waze history recalculate: the rows are read once.                       *)

Recalculating == <<version, config, routes, missed>>

ListEntries ==
  /\ pc["recalculate"] = "list"
  /\ todo' = {[id |-> i, zone |-> rows[i].zone, to |-> rows[i].to] : i \in DOMAIN rows}
  /\ pc' = [pc EXCEPT !["recalculate"] = "next"]
  /\ UNCHANGED <<rows, request, client, failed, recycled, Recalculating>>

\* In the order of the list: by destination, then by id.
Current == CHOOSE t \in todo : \A u \in todo :
             t.to < u.to \/ (t.to = u.to /\ t.id <= u.id)

\* The zone is not in the configuration: one more failed record.
NoOrigin ==
  /\ pc["recalculate"] = "next" /\ todo # {}
  /\ Current.zone \notin DOMAIN config["recalculate"]
  /\ todo' = todo \ {Current} /\ failed' = failed + 1
  /\ UNCHANGED <<rows, pc, request, client, recycled, Recalculating>>

AskAgain ==
  /\ pc["recalculate"] = "next" /\ todo # {}
  /\ Current.zone \in DOMAIN config["recalculate"]
  /\ request' = [request EXCEPT !["recalculate"] =
       [zone |-> Current.zone, from |-> config["recalculate"][Current.zone],
        to |-> Current.to]]
  /\ pc' = [pc EXCEPT !["recalculate"] = "fetch"]
  /\ UNCHANGED <<rows, client, todo, failed, recycled, Recalculating>>

RecalculationAnswered(o) ==
  /\ Answered("recalculate", o)
  /\ todo' = todo \ {Current}
  /\ pc' = [pc EXCEPT !["recalculate"] = "next"]
  /\ UNCHANGED <<recycled, Recalculating>>

UpdateRow ==
  \E o \in Estimated("recalculate") :
    /\ RecalculationAnswered(o)
    /\ UpdateEstimate(Current.id, o.estimate)
    /\ UNCHANGED failed

RecalculationRefused ==
  \E o \in Refused("recalculate") :
    /\ RecalculationAnswered(o)
    /\ failed' = failed + 1
    /\ UNCHANGED rows

\* All done, or a statement failed: the command ends.
RecalculationEnds ==
  /\ pc["recalculate"] = "next" /\ todo = {}
  /\ Exit("recalculate")

-----------------------------------------------------------------------------
(* waze history maintain: it opens the history, deletes, and VACUUMs; only  *)
(* the deletion changes anything, and it commits by itself.                *)

Maintain ==
  /\ version = 1
  /\ rows' = [i \in {j \in DOMAIN rows : ~ Duplicate(j)} |-> rows[i]]
  /\ UNCHANGED <<version, pc, config, request, client, recalculation, routes,
                 observers>>

-----------------------------------------------------------------------------
Init ==
  /\ version \in 0..2 /\ rows = <<>>
  /\ pc = [p \in Routers |-> "down"]
  /\ config = [p \in Routers |-> <<>>]
  /\ request = [p \in Routers |-> NoRequest]
  /\ client = [p \in Routers |-> Available]
  /\ todo = {} /\ failed = 0
  /\ routes = {} /\ missed = FALSE /\ recycled = {}

Daemon == \/ Refresh \/ Share \/ LookupHit \/ LookupMisses
          \/ StoreRoute \/ StoreRouteFails \/ RouteRefused

Recalculation == \/ ListEntries \/ NoOrigin \/ AskAgain \/ UpdateRow
                 \/ RecalculationRefused \/ RecalculationEnds

Next ==
  \/ Daemon \/ Recalculation \/ Maintain
  \/ \E p \in Routers : Open(p) \/ Migrate(p) \/ Stop(p)
  \/ Tick

Spec == Init /\ [][Next]_vars

-----------------------------------------------------------------------------
(* Properties.                                                             *)

\* The tables, the programs' steps and the clients are well formed.
TypeOK ==
  /\ version \in 0..2
  /\ DOMAIN rows \subseteq 1..MaxRows
  /\ \A i \in DOMAIN rows :
       rows[i] \in [zone : ZoneIds, to : Destinations, estimate : Estimates]
  /\ \A p \in Routers :
       /\ config[p] \in Configs \cup {<<>>}
       /\ request[p] \in Requests \cup {NoRequest}
       /\ client[p] \in [errors : 0..GiveUpAfter, until : 0..Max({0} \cup Pauses),
                         manual : BOOLEAN]
  /\ Cardinality(routes) <= Devices
  /\ routes \subseteq [zone : ZoneIds, at : Destinations, from : Centres,
                      to : Destinations, there : BOOLEAN]

\* A row keeps the estimate of its own zone and destination: neither a
\* recalculation that held the row while others deleted and inserted rows,
\* nor a deletion, mixes two routes (only an id given out again can).
EstimatesMatch ==
  \A i \in DOMAIN rows \ recycled :
    /\ rows[i].estimate.to = rows[i].to
    /\ \E c \in Configs : /\ rows[i].zone \in DOMAIN c
                          /\ rows[i].estimate.from = c[rows[i].zone]

\* The estimate the daemon uses is for the zone it asked about and, unless it
\* was kept by a device that has moved since, for a place at most 100 m away,
\* 25 m more for each device that passed it on.
UsedIsNear ==
  recycled = {} => \A s \in routes :
    /\ s.there => Gap(s.to, s.at) <= HistoryReach + ShareReach * (Devices - 1)
    /\ \E c \in Configs : s.zone \in DOMAIN c /\ s.from = c[s.zone]

\* As long as no statement failed, the daemon keeps the rows of a zone more
\* than 100 m apart: the table does not grow with every observation.
RowsApart ==
  ~ missed => \A i, j \in DOMAIN rows :
    i # j /\ rows[i].zone = rows[j].zone => Gap(rows[i].to, rows[j].to) > HistoryReach

\* A recalculation replaces a known travel time by a straight line only
\* after as many records in a row failed as pause the client, or for a
\* destination that is out of range.
DurationsKept ==
  [][\A i \in DOMAIN rows \cap DOMAIN rows' :
       /\ rows[i].estimate.status = "Used"
       /\ rows'[i].estimate.status = "Paused"
       => failed >= Min(DOMAIN PauseAfter)]_vars

\* No step empties a cell of a zone: maintenance removes duplicates only.
CellsKept ==
  [][\A i \in DOMAIN rows : \E j \in DOMAIN rows' :
       rows'[j].zone = rows[i].zone /\ rows'[j].to = rows[i].to]_vars

===============================================================================
