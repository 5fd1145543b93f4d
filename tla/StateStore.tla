----------------------------- MODULE StateStore ------------------------------
(***************************************************************************)
(* The tracking state file and the programs that share it, without a lock: *)
(* JsonTrackingStore (crates/icloud-tracking/src/state.rs), which writes a *)
(* temporary file of one fixed name, syncs it and renames it; the daemon   *)
(* `watch', which loads the state once and saves it at every tick; and the *)
(* commands pause, resume and schedule (src/main.rs), which load, change   *)
(* and save it once.                                                       *)
(*                                                                         *)
(* Programs of this version and of a later one (the same code, with one    *)
(* more version of the state) may be started in any order and run side by  *)
(* side.                                                                   *)
(*                                                                         *)
(* A state is the set of the changes that went into it.  A file is called  *)
(* by what it is: the state file, the temporary file, the state file that  *)
(* a power loss brings back (directories are never synced), or one without *)
(* a name that a program still has open.  A file that is created again     *)
(* while another program has it open is the same file, and a rename moves  *)
(* whatever has the temporary name.                                        *)
(***************************************************************************)
EXTENDS FiniteSets

CONSTANTS
  Daemons,      \* programs that save again and again
  Commands,     \* programs that save once; a command stands for its change
  Ticks,        \* the changes of the daemons
  Later         \* programs whose CURRENT_STATE_VERSION is the next one

Programs == Daemons \cup Commands

ASSUME StateStoreAssumption ==
  Daemons \cap Commands = {} /\ Commands \cap Ticks = {} /\ Later \subseteq Programs

VARIABLES
  file,         \* the files: content, and whether two programs had it open at a time
  synced,       \* the name of the state file has reached the disk
  pc,           \* off, loaded, created (the temporary file), written (and synced)
  memory,       \* self.state of a program that runs
  handle,       \* the file a program has open
  alone,        \* observer: the program that loaded while no other ran, until one does
  raced,        \* observer: programs whose save overlapped another
  done,         \* commands that reported success
  acked,        \* observer: those that ran alone, and that no power loss undid
  upgraded      \* observer: the file is a later program's, which saved it while it
                \* ran alone, and no power loss undid that

disk == <<file, synced>>
vars == <<file, synced, pc, memory, handle, alone, raced, done, acked, upgraded>>

Changes == Commands \cup Ticks
Content(kind, changes) == [kind |-> kind, changes |-> changes]
Torn    == Content("torn", {})
Missing == Content("missing", {})
Contents == [kind : {"old", "current", "later", "torn", "missing"}, changes : SUBSET Changes]

\* TrackingState with the version of the program that writes it
Saved(p, changes) == Content(IF p \in Later THEN "later" ELSE "current", changes)

NoFile  == [content |-> Missing, shared |-> FALSE]
Names   == {"state", "temporary", "flushed"}
Handles == Names \cup {"nameless", "closed"}

File == file["state"].content
Flushed == IF synced THEN File ELSE file["flushed"].content
Savers == {p \in Programs : pc[p] \in {"created", "written"}}
Off(p) == pc[p] = "off"

-----------------------------------------------------------------------------
(* Loading.                                                                *)

\* A bug: the version is not looked at.
ReadableAny(p, content) == content.kind # "torn"

\* migrate_state: older versions become the program's, a later one is refused;
\* a file that was cut is no JSON; no file is the empty state.
Readable(p, content) ==
  content.kind \in {"old", "current", "missing"} \cup (IF p \in Later THEN {"later"} ELSE {})

\* JsonTrackingStore::load, by TrackingRuntime::new.  A file that cannot be
\* read ends the program, which is as if it had not started.
Load(p) ==
  /\ Off(p) /\ p \notin done /\ Readable(p, File)
  /\ pc' = [pc EXCEPT ![p] = "loaded"]
  /\ memory' = [memory EXCEPT ![p] = File.changes]
  /\ alone' = IF \A q \in Programs \ {p} : Off(q) THEN {p} ELSE {}
  /\ UNCHANGED <<disk, handle, raced, done, acked, upgraded>>

Exit(p) ==
  /\ pc' = [pc EXCEPT ![p] = "off"]
  /\ memory' = [memory EXCEPT ![p] = {}]
  /\ alone' = alone \ {p}
  /\ raced' = raced \ {p}

\* update_pause_state and schedule_state refuse a state without the device.
NoDevice(p) ==
  /\ p \in Commands /\ pc[p] = "loaded" /\ memory[p] = {}
  /\ Exit(p)
  /\ UNCHANGED <<disk, handle, done, acked, upgraded>>

-----------------------------------------------------------------------------
(* Saving.                                                                 *)

\* A tick, or the change of the command.
Changed(p) ==
  IF p \in Commands THEN {memory[p] \cup {p}} ELSE {memory[p] \cup {t} : t \in Ticks}

\* create_private_file: the file is there, empty, for whoever had it open too.
Open(p, name) ==
  /\ file' = [file EXCEPT ![name] =
                [content |-> Torn, shared |-> \E q \in Programs \ {p} : handle[q] = name]]
  /\ handle' = [handle EXCEPT ![p] = name]

\* A bug: the state file itself is opened.
OpenTemporaryInPlace(p) == Open(p, "state")

OpenTemporary(p) == Open(p, "temporary")

\* JsonTrackingStore::save, up to the temporary file, created or truncated.
Create(p) ==
  /\ pc[p] = "loaded" /\ (p \in Commands => memory[p] # {})
  /\ \E changes \in Changed(p) : memory' = [memory EXCEPT ![p] = changes]
  /\ OpenTemporary(p)
  /\ pc' = [pc EXCEPT ![p] = "created"]
  /\ raced' = IF Savers = {} THEN raced \ {p} ELSE raced \cup Savers \cup {p}
  /\ UNCHANGED <<synced, alone, done, acked, upgraded>>

\* Success is reported, to be kept if nobody else was there.
Report(p) ==
  /\ done' = done \cup ({p} \cap Commands)
  /\ acked' = acked \cup ({p} \cap Commands \cap alone)
  /\ upgraded' = (upgraded \/ p \in alone \cap Later)

Close(p) == handle' = [handle EXCEPT ![p] = "closed"]

\* What two programs write into one file may end up mixed.
WriteContent(p) ==
  /\ pc[p] = "created"
  /\ \E content \in {Saved(p, memory[p])}
         \cup (IF handle[p] \in Names /\ file[handle[p]].shared THEN {Torn} ELSE {}) :
       file' = [n \in Names |-> IF n = handle[p] THEN [file[n] EXCEPT !.content = content]
                                                ELSE file[n]]
  /\ pc' = [pc EXCEPT ![p] = "written"]
  /\ UNCHANGED <<synced, memory, alone, raced>>

\* A bug: the file is not closed.
WriteLeavesOpen(p) ==
  WriteContent(p) /\ UNCHANGED <<handle, done, acked, upgraded>>

\* A bug: the command reports before the rename.
WriteReports(p) == WriteContent(p) /\ Close(p) /\ Report(p)

\* Written, flushed, synced and closed.
Write(p) == WriteContent(p) /\ Close(p) /\ UNCHANGED <<done, acked, upgraded>>

\* What the open files are called after a rename, or after their names
\* reached the disk.
Renamed(name) ==
  CASE name = "temporary" -> "state"
    [] name = "state" -> IF synced THEN "flushed" ELSE "nameless"
    [] name \notin {"temporary", "state"} -> name

\* The file of the temporary name, whoever wrote it, becomes the state file.
Rename(p) ==
  /\ pc[p] = "written" /\ file["temporary"] # NoFile
  /\ file' = [file EXCEPT !["state"] = file["temporary"], !["temporary"] = NoFile,
                          !["flushed"] = IF synced THEN file["state"] ELSE @]
  /\ synced' = FALSE
  /\ handle' = [q \in Programs |-> Renamed(handle[q])]
  /\ Report(p)
  /\ IF p \in Commands THEN Exit(p)
     ELSE /\ pc' = [pc EXCEPT ![p] = "loaded"]
          /\ raced' = raced \ {p}
          /\ UNCHANGED <<memory, alone>>

\* The program is killed or told to stop, or its save fails: on a full disk,
\* or because another program renamed the temporary file.
Stop(p) ==
  /\ ~ Off(p)
  /\ Exit(p) /\ Close(p)
  /\ UNCHANGED <<disk, done, acked, upgraded>>

-----------------------------------------------------------------------------
(* The machine.                                                            *)

\* The names reach the disk.
Flush ==
  /\ synced' = TRUE
  /\ file' = [file EXCEPT !["flushed"] = NoFile]
  /\ handle' = [q \in Programs |-> IF handle[q] = "flushed" THEN "nameless" ELSE handle[q]]
  /\ UNCHANGED <<pc, memory, alone, raced, done, acked, upgraded>>

\* What may be left of the temporary file is truncated by the next save.
PowerLoss ==
  /\ file' = [[n \in Names |-> NoFile] EXCEPT
                !["state"] = IF synced THEN file["state"] ELSE file["flushed"]]
  /\ synced' = TRUE
  /\ pc' = [p \in Programs |-> "off"]
  /\ memory' = [p \in Programs |-> {}]
  /\ handle' = [p \in Programs |-> "closed"]
  /\ alone' = {} /\ raced' = {}
  /\ acked' = acked \cap Flushed.changes
  /\ upgraded' = (upgraded /\ Flushed.kind = "later")
  /\ UNCHANGED done

Init ==
  /\ \E content \in {Missing, Content("old", Ticks), Content("current", Ticks),
                      Content("later", Ticks)} :
       /\ file = [[n \in Names |-> NoFile] EXCEPT !["state"].content = content]
       /\ upgraded = (content.kind = "later")
  /\ synced = TRUE
  /\ pc = [p \in Programs |-> "off"]
  /\ memory = [p \in Programs |-> {}]
  /\ handle = [p \in Programs |-> "closed"]
  /\ alone = {} /\ raced = {} /\ done = {} /\ acked = {}

Next ==
  \/ \E p \in Programs :
       Load(p) \/ NoDevice(p) \/ Create(p) \/ Write(p) \/ Rename(p) \/ Stop(p)
  \/ Flush \/ PowerLoss

Spec == Init /\ [][Next]_vars

-----------------------------------------------------------------------------
(* Properties.                                                             *)

\* The files and the programs are well formed; a program has a file open
\* exactly while it writes, and the flushed file is one of the past.
TypeOK ==
  /\ file \in [Names -> [content : Contents, shared : BOOLEAN]] /\ synced \in BOOLEAN
  /\ synced => file["flushed"] = NoFile
  /\ pc \in [Programs -> {"off", "loaded", "created", "written"}]
  /\ memory \in [Programs -> SUBSET Changes]
  /\ handle \in [Programs -> Handles]
  /\ \A p \in Programs : handle[p] # "closed" <=> pc[p] = "created"
  /\ {alone, raced} \subseteq SUBSET Programs /\ acked \subseteq done /\ done \subseteq Commands
  /\ upgraded \in BOOLEAN

\* What a command reported while no other program ran is not lost: whatever
\* is started, stopped and saved after it, the state file holds the change,
\* unless overlapping saves destroyed the file.
AckedHolds == \A c \in acked : File = Torn \/ c \in File.changes

\* "Future rejection" (docs/PARITY_MATRIX.md): once a later program has saved the
\* state with nobody else there, no sequence of programs of both ages, their
\* crashes and their overlapping saves brings the older version back.  (An older
\* program that already runs does write over the file, when it saves next.)
UpgradeHolds == upgraded => File = Torn \/ File.kind = "later"

\* "Atomically replaces durable tracking state" (state.rs:361): the store
\* implements the register.  A save replaces the whole file or nothing at
\* whatever point its program or the power fails; no program sees half a
\* state, unless saves overlap.
Register == INSTANCE StateRegister WITH
  Writers <- Programs,
  States  <- [kind : {"current", "later"}, changes : SUBSET Changes],
  Values  <- Contents,
  value   <- File,
  flushed <- Flushed,
  saving  <- [p \in Savers |-> [state |-> Saved(p, memory[p]), raced |-> p \in raced]]

Implements == Register!Spec
===============================================================================
