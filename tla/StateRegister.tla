---------------------------- MODULE StateRegister ----------------------------
(***************************************************************************)
(* What the durable state store promises (TrackingStateStore,              *)
(* crates/icloud-tracking/src/state.rs): "Atomically replaces durable      *)
(* tracking state."  The file is a register.  A save replaces all of it or *)
(* nothing, a program that stops changes nothing, and a power loss takes   *)
(* back what was not flushed.  Only saves that overlap can damage it, and  *)
(* only while one of them goes on.                                         *)
(***************************************************************************)
CONSTANTS
  Writers,      \* the programs that save
  States,       \* what they save
  Values        \* what the file may hold: a state, nothing, or neither

VARIABLES
  value,        \* what the file holds
  flushed,      \* what it holds after a power loss
  saving        \* of each writer that is saving: the state, and whether another
                \* save was under way during this one

vars == <<value, flushed, saving>>

Without(w) == [v \in DOMAIN saving \ {w} |-> saving[v]]

Init == value \in Values /\ flushed = value /\ saving = [w \in {} |-> <<>>]

Begin(w, s) ==
  /\ w \notin DOMAIN saving
  /\ saving' = [v \in DOMAIN saving \cup {w} |->
                  IF v = w THEN [state |-> s, raced |-> DOMAIN saving # {}]
                           ELSE [state |-> saving[v].state, raced |-> TRUE]]
  /\ UNCHANGED <<value, flushed>>

Finish(w) ==
  /\ w \in DOMAIN saving
  /\ value' = saving[w].state
  /\ saving' = Without(w)
  /\ UNCHANGED flushed

\* The save failed, or its program stopped.
Fail(w) == w \in DOMAIN saving /\ saving' = Without(w) /\ UNCHANGED <<value, flushed>>

\* Of saves that overlapped anything may come.
Scramble(w) ==
  /\ w \in DOMAIN saving /\ saving[w].raced
  /\ {value', flushed'} \subseteq Values
  /\ saving' \in {saving, Without(w)}

Flush == flushed' = value /\ UNCHANGED <<value, saving>>

PowerLoss ==
  /\ value' = flushed
  /\ saving' = [w \in {} |-> <<>>]
  /\ UNCHANGED flushed

Next ==
  \/ \E w \in Writers :
       \/ \E s \in States : Begin(w, s)
       \/ Finish(w) \/ Fail(w) \/ Scramble(w)
  \/ Flush \/ PowerLoss

Spec == Init /\ [][Next]_vars
===============================================================================
