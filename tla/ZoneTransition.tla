--------------------------- MODULE ZoneTransition ---------------------------
(***************************************************************************)
(* ZoneTransitionState::update (crates/icloud-tracking/src/zone_state.rs): *)
(* from the zones selected for a device's samples to the zone it is in,    *)
(* with the delay that keeps zones merely passed through out of it.        *)
(***************************************************************************)
EXTENDS Naturals

CONSTANTS
  Devices,
  Delay,        \* pass_through.delay_seconds
  TrackedFrom,  \* zones entered without delay, by name
  Prefixed,     \* and by the prefix of theirs: stationary_zone_prefix; none if it is empty
  None

VARIABLES
  current,      \* current[d]: the zone d has entered and not left
  pending       \* pending[d]: the zone d may be passing, and for how long still

transitionVars == <<current, pending>>

TransitionInit ==
  /\ current = [d \in Devices |-> None]
  /\ pending = [d \in Devices |-> None]

ShouldDelay(z) == Delay > 0 /\ z \notin TrackedFrom /\ z \notin Prefixed

Awaits(d, z) == pending[d] # None /\ pending[d].zone = z

\* A bug: any pending zone confirms the one now selected
ConfirmedByAny(d, z) == pending[d] # None /\ pending[d].left = 0

Confirmed(d, z) == Awaits(d, z) /\ pending[d].left = 0

Remains(d, selected) ==
  /\ current[d] = selected
  /\ pending' = [pending EXCEPT ![d] = None]
  /\ UNCHANGED current

Waits(d, selected) ==
  /\ current[d] = None /\ selected # None
  /\ ShouldDelay(selected) /\ ~Confirmed(d, selected)
  /\ pending' = [pending EXCEPT ![d] =
       IF Awaits(d, selected) THEN @ ELSE [zone |-> selected, left |-> Delay]]
  /\ UNCHANGED current

Moves(d, selected) ==
  /\ current[d] # selected
  /\ current[d] # None \/ ~ShouldDelay(selected) \/ Confirmed(d, selected)
  /\ current' = [current EXCEPT ![d] = selected]
  /\ pending' = [pending EXCEPT ![d] = None]

Update(d, selected) ==
  Remains(d, selected) \/ Waits(d, selected) \/ Moves(d, selected)

TransitionAge ==
  /\ pending' = [d \in Devices |->
       IF pending[d] = None \/ pending[d].left = 0 THEN pending[d]
       ELSE [pending[d] EXCEPT !.left = @ - 1]]
  /\ UNCHANGED current

=============================================================================
