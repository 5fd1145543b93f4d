---------------------------- MODULE MCStateStore ----------------------------
(* A daemon and two commands at the same time, one of which comes with a later *)
(* version of the program.                                                     *)
EXTENDS StateStore

CONSTANTS pause, schedule

MCCommands == {pause, schedule}
MCLater == {schedule}
===============================================================================
