--------------------------- MODULE LocationQuality ---------------------------
(***************************************************************************)
(* What becomes of a location sample: LocationQualityPolicy::evaluate      *)
(* (crates/icloud-tracking/src/quality.rs), DeviceTrackingState::apply_    *)
(* location (state.rs) and ExternalArbitrationPolicy::arbitrate            *)
(* (external.rs).                                                          *)
(*                                                                         *)
(* A sample's timestamp is its age, negative when it lies in the future.   *)
(* The threshold of age, which calculate_old_location_threshold derives    *)
(* from the device's recent history, is any member of Thresholds.          *)
(***************************************************************************)
EXTENDS Integers

CONSTANTS
  Devices, Places,
  MaxAge,        \* no sample arrives older than this
  MaxAhead,      \* nor further in the future than this
  Thresholds,    \* ages beyond which a sample may count as old
  GraceUpdates,  \* policy.grace_updates
  NewerBy,       \* how much newer an external sample has to be
  None

VARIABLES
  location,      \* location[d]: the place and the age of the selected sample, or None
  bad            \* bad[d]: consecutive_bad_updates, counted up to GraceUpdates

qualityVars == <<location, bad>>

\* Beyond this age a selected sample compares with every other as if it had it
AgeLimit == MaxAge + NewerBy + 1

\* accurate: within the accuracy threshold; flagged: Apple's own is_old;
\* wide: its accuracy radius reaches zones the place is outside of
Sample == [place : Places, age : -MaxAhead..MaxAge, accurate : BOOLEAN,
           flagged : BOOLEAN, wide : BOOLEAN]

QualityTypeOK ==
  /\ location \in [Devices -> [place : Places, age : -MaxAhead..AgeLimit] \cup {None}]
  /\ bad \in [Devices -> 0..GraceUpdates]

QualityInit ==
  /\ location = [d \in Devices |-> None]
  /\ bad = [d \in Devices |-> 0]

OutOfOrder(d, s) == location[d] # None /\ s.age > location[d].age
Doubtful(s, threshold) == s.flagged \/ s.age > threshold \/ ~s.accurate

\* A bug: samples are taken in the order they come in
VerdictInAnyOrder(d, s, threshold) ==
  IF ~Doubtful(s, threshold) THEN "good"
  ELSE IF bad[d] < GraceUpdates THEN "grace" ELSE "rejected"

\* A bug: the last grace update is followed by another one
VerdictOneMore(d, s, threshold) ==
  IF OutOfOrder(d, s) THEN "rejected"
  ELSE IF ~Doubtful(s, threshold) THEN "good"
  ELSE IF bad[d] <= GraceUpdates THEN "grace" ELSE "rejected"

Verdict(d, s, threshold) ==
  IF OutOfOrder(d, s) THEN "rejected"
  ELSE IF ~Doubtful(s, threshold) THEN "good"
  ELSE IF bad[d] < GraceUpdates THEN "grace" ELSE "rejected"

Judge(d, s, verdict) ==
  /\ location' = IF verdict = "rejected" THEN location
                 ELSE [location EXCEPT ![d] = [place |-> s.place, age |-> s.age]]
  /\ bad' = [bad EXCEPT ![d] = IF verdict = "good" THEN 0
                               ELSE IF @ < GraceUpdates THEN @ + 1 ELSE @]

\* An external sample is handed on when it is accurate and newer by enough
Arbitrated(d, s) ==
  /\ s.accurate
  /\ location[d] # None => location[d].age - s.age > NewerBy

QualityAge ==
  /\ location' = [d \in Devices |->
       IF location[d] = None \/ location[d].age = AgeLimit THEN location[d]
       ELSE [location[d] EXCEPT !.age = @ + 1]]
  /\ UNCHANGED bad

=============================================================================
