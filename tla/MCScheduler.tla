---------------------------- MODULE MCScheduler ----------------------------
(* Instances of Scheduler small enough for TLC *)
EXTENDS Scheduler

CONSTANTS A, B, d1, d2

\* B's provider also reports d1: the family sharing of two members
SharedFamily == [a \in Accounts |-> IF a = A THEN {d1} ELSE Devices]

\* A is configured with d1 or with a device it no longer reports; B discovers
FixedOrDiscover ==
  {[a \in Accounts |-> IF a = A THEN {d1} ELSE {}],
   [a \in Accounts |-> IF a = A THEN {} ELSE {d1}]}

Table == [n \in 1..MaxErrors |-> n]
Flat == [n \in 1..MaxErrors |-> 2]

\* A file that predates account records, left while d1 was failing
BackoffFile ==
  {[d \in Devices |-> IF d = d1 THEN [known |-> TRUE, paused |-> FALSE, count |-> 1, next |-> 1]
                      ELSE [known |-> FALSE, paused |-> FALSE, count |-> 0, next |-> None]]}

\* The same, and one in which d1 was paused before it ever had a deadline
OlderFiles ==
  BackoffFile \cup
  {[d \in Devices |-> [known |-> d = d1, paused |-> d = d1, count |-> 0, next |-> None]]}
============================================================================
