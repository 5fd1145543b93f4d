--------------------------- MODULE StateStoreProofs ---------------------------
(* Invariance proofs about StateStore, and the proof that it implements    *)
(* StateRegister, for any programs and any changes                         *)
EXTENDS StateStore, TLAPS

-----------------------------------------------------------------------------
(* The inductive invariant.                                                *)

\* What was flushed is open under the name of the flushed file only.
HandlesTyped == synced => \A p \in Programs : handle[p] # "flushed"

\* A program that is alone is the only one that is not off.
AloneIsAlone == \A p \in alone : ~ Off(p) /\ \A q \in Programs \ {p} : Off(q)

\* Savers that meet know of one another.
RacedTogether == \A p, q \in Savers : p # q => {p, q} \subseteq raced

\* A save that met no other has its own temporary file.
OwnTemporary ==
  \A p \in Savers \ raced :
    /\ pc[p] = "created" => handle[p] = "temporary" /\ ~ file["temporary"].shared
    /\ pc[p] = "written" => file["temporary"].content = Saved(p, memory[p])

\* A file without content is no file, and no command saves without its change.
WellFormed ==
  /\ file["temporary"].content = Missing => file["temporary"] = NoFile
  /\ \A p \in Commands \cap Savers : p \in memory[p]

\* A file that holds the change of c, or that nothing can be read from.
Keeps(content, c) == content = Torn \/ c \in content.changes

\* The change of c will be in whatever replaces the state file.
TemporaryKeeps(c) == file["temporary"] = NoFile \/ Keeps(file["temporary"].content, c)

\* What was acknowledged is in the file, known to all that run, and in
\* whatever they save; so is the change of a command about to be.
AckedKept ==
  /\ \A c \in acked :
       /\ Keeps(File, c)
       /\ \A p \in Programs : ~ Off(p) => c \in memory[p]
       /\ Savers # {} => TemporaryKeeps(c)
  /\ \A c \in alone \cap Commands \cap Savers : TemporaryKeeps(c)

\* Nothing is there, or nothing that a program of this version reads.
Upgraded(content) == content = Torn \/ content.kind = "later"
TemporaryUpgraded == file["temporary"] = NoFile \/ Upgraded(file["temporary"].content)

\* After an upgrade later programs alone run, and what they leave is theirs; so
\* is what a later program leaves that is about to upgrade.
UpgradeKept ==
  /\ upgraded => /\ Upgraded(File)
                 /\ \A p \in Programs : ~ Off(p) => p \in Later
                 /\ Savers # {} => TemporaryUpgraded
  /\ alone \cap Later \cap Savers # {} => TemporaryUpgraded

IInv == /\ TypeOK /\ HandlesTyped /\ AloneIsAlone /\ RacedTogether /\ OwnTemporary
        /\ WellFormed /\ AckedKept /\ UpgradeKept

-----------------------------------------------------------------------------
(* The invariant holds to begin with.                                      *)

LEMMA ContentTypes ==
  /\ Torn \in Contents /\ Missing \in Contents /\ Torn # Missing
  /\ NoFile \in [content : Contents, shared : BOOLEAN] /\ NoFile.content = Missing
  /\ Torn.kind = "torn" /\ Missing.kind = "missing" /\ Upgraded(Torn)
BY DEF Contents, Torn, Missing, Content, NoFile, Upgraded

LEMMA SavedTypes ==
  ASSUME NEW p \in Programs, NEW changes \in SUBSET Changes
  PROVE  /\ Saved(p, changes) \in Contents
         /\ Saved(p, changes) \in [kind : {"current", "later"}, changes : SUBSET Changes]
         /\ Saved(p, changes) # Torn /\ Saved(p, changes) # Missing
         /\ Saved(p, changes).changes = changes
         /\ p \in Later => Upgraded(Saved(p, changes))
BY DEF Contents, Torn, Missing, Saved, Content, Upgraded

LEMMA InitIInv == Init => IInv
<1>. SUFFICES ASSUME Init  PROVE IInv
  OBVIOUS
<1>1. PICK content \in {Missing, Content("old", Ticks), Content("current", Ticks),
                         Content("later", Ticks)} :
        /\ file = [[n \in Names |-> NoFile] EXCEPT !["state"].content = content]
        /\ upgraded = (content.kind = "later")
  BY DEF Init
<1>2. content \in Contents
  BY DEF Contents, Missing, Content, Changes
<1>3. /\ file \in [Names -> [content : Contents, shared : BOOLEAN]]
      /\ file["flushed"] = NoFile /\ file["temporary"] = NoFile
  BY <1>1, <1>2, ContentTypes DEF Names, NoFile
<1>4. /\ synced = TRUE
      /\ pc = [p \in Programs |-> "off"] /\ memory = [p \in Programs |-> {}]
      /\ handle = [p \in Programs |-> "closed"]
      /\ alone = {} /\ raced = {} /\ done = {} /\ acked = {}
  BY DEF Init
<1>5. Savers = {} /\ \A p \in Programs : Off(p)
  BY <1>4 DEF Savers, Off
<1>6. TypeOK
  BY <1>1, <1>3, <1>4 DEF TypeOK, Handles, Names
<1>7. UpgradeKept
  <2>1. File = content
    BY <1>1 DEF File, Names, NoFile
  <2>. QED  BY <1>1, <1>4, <1>5, <2>1 DEF UpgradeKept, Upgraded
<1>. QED
  BY <1>3, <1>4, <1>5, <1>6, <1>7
     DEF IInv, HandlesTyped, AloneIsAlone, RacedTogether, OwnTemporary, WellFormed, AckedKept

-----------------------------------------------------------------------------
(* Every step keeps it.                                                    *)

(* A program that starts has read the file, and with it what was           *)
(* acknowledged.                                                           *)
LEMMA LoadKeeps == ASSUME IInv, NEW p \in Programs, Load(p)  PROVE IInv'
<1>1. /\ pc' = [pc EXCEPT ![p] = "loaded"] /\ memory' = [memory EXCEPT ![p] = File.changes]
      /\ alone' = IF \A q \in Programs \ {p} : Off(q) THEN {p} ELSE {}
      /\ file' = file /\ synced' = synced /\ handle' = handle /\ raced' = raced
      /\ done' = done /\ acked' = acked /\ upgraded' = upgraded 
      /\ Off(p) /\ Readable(p, File)
  BY DEF Load, disk
<1>2. /\ Savers' = Savers /\ p \notin Savers
      /\ \A q \in Programs : Off(q)' <=> q # p /\ Off(q)
      /\ \A q \in Programs \ {p} : memory'[q] = memory[q]
      /\ memory'[p] = File.changes
      /\ \A q \in Savers : pc'[q] = pc[q] /\ memory'[q] = memory[q]
  BY <1>1 DEF IInv, TypeOK, Savers, Off
<1>3. File.changes \in SUBSET Changes /\ File # Torn /\ (File.kind = "later" => p \in Later)
  BY <1>1 DEF IInv, TypeOK, Contents, File, Names, Readable, Torn, Content
<1>4. TypeOK'
  BY <1>1, <1>3 DEF IInv, TypeOK, Off
<1>5. AckedKept'
  BY <1>1, <1>2, <1>3 DEF IInv, AckedKept, Keeps, TemporaryKeeps, File
<1>6. UpgradeKept'
  BY <1>1, <1>2, <1>3 DEF IInv, UpgradeKept, Upgraded, TemporaryUpgraded, File
<1>. QED
  BY <1>1, <1>2, <1>3, <1>4, <1>5, <1>6
     DEF IInv, HandlesTyped, AloneIsAlone, RacedTogether, OwnTemporary, WellFormed

(* A program that ends, by itself or by force, its save done or not. *)
LEMMA ExitKeeps ==
  ASSUME IInv, NEW p \in Programs, Exit(p), Close(p), UNCHANGED <<disk, done, acked, upgraded>>
  PROVE  IInv'
<1>1. /\ pc' = [pc EXCEPT ![p] = "off"] /\ memory' = [memory EXCEPT ![p] = {}]
      /\ alone' = alone \ {p} /\ raced' = raced \ {p}
      /\ handle' = [handle EXCEPT ![p] = "closed"]
      /\ file' = file /\ synced' = synced /\ done' = done /\ acked' = acked /\ upgraded' = upgraded
  BY DEF Exit, Close, disk
<1>2. /\ Savers' = Savers \ {p}
      /\ \A q \in Programs : Off(q)' <=> q = p \/ Off(q)
      /\ \A q \in Programs \ {p} : pc'[q] = pc[q] /\ memory'[q] = memory[q] /\ handle'[q] = handle[q]
  BY <1>1 DEF IInv, TypeOK, Savers, Off
<1>3. TypeOK'
  BY <1>1 DEF IInv, TypeOK, Handles
<1>4. HandlesTyped'
  BY <1>1, <1>2 DEF IInv, HandlesTyped, TypeOK
<1>5. AloneIsAlone' /\ RacedTogether'
  BY <1>1, <1>2 DEF IInv, TypeOK, AloneIsAlone, RacedTogether
<1>6. OwnTemporary'
  BY <1>1, <1>2 DEF IInv, OwnTemporary, Savers
<1>7. WellFormed'
  BY <1>1, <1>2 DEF IInv, WellFormed, Savers
<1>8. AckedKept'
  BY <1>1, <1>2 DEF IInv, TypeOK, AckedKept, Keeps, TemporaryKeeps, File
<1>9. UpgradeKept'
  BY <1>1, <1>2 DEF IInv, UpgradeKept, TemporaryUpgraded, File
<1>. QED  BY <1>3, <1>4, <1>5, <1>6, <1>7, <1>8, <1>9 DEF IInv

LEMMA NoDeviceKeeps == ASSUME IInv, NEW p \in Programs, NoDevice(p)  PROVE IInv'
<1>1. handle[p] = "closed" /\ handle \in [Programs -> Handles]
  BY DEF NoDevice, IInv, TypeOK, Handles, Names
<1>2. Close(p)
  BY <1>1 DEF NoDevice, Close
<1>. QED  BY <1>2, ExitKeeps DEF NoDevice

LEMMA StopKeeps == ASSUME IInv, NEW p \in Programs, Stop(p)  PROVE IInv'
BY ExitKeeps DEF Stop

(* A program that creates the temporary file, which is empty then. *)
LEMMA CreateKeeps == ASSUME IInv, NEW p \in Programs, Create(p)  PROVE IInv'
<1>1. PICK changes \in Changed(p) : memory' = [memory EXCEPT ![p] = changes]
  BY DEF Create
<1>2. changes \in SUBSET Changes /\ memory[p] \subseteq changes /\ (p \in Commands => p \in changes)
  BY <1>1 DEF Changed, Changes, IInv, TypeOK
<1>. DEFINE shared == \E q \in Programs \ {p} : handle[q] = "temporary"
<1>3. /\ file' = [file EXCEPT !["temporary"] = [content |-> Torn, shared |-> shared]]
      /\ handle' = [handle EXCEPT ![p] = "temporary"]
      /\ pc[p] = "loaded" /\ pc' = [pc EXCEPT ![p] = "created"]
      /\ raced' = IF Savers = {} THEN raced \ {p} ELSE raced \cup Savers \cup {p}
      /\ synced' = synced /\ alone' = alone /\ done' = done /\ acked' = acked /\ upgraded' = upgraded
  BY DEF Create, OpenTemporary, Open
<1>4. shared \in BOOLEAN
  OBVIOUS
<1>5. shared => Savers # {}
  BY DEF IInv, TypeOK, Savers
<1>. HIDE DEF shared
<1>6. /\ Savers' = Savers \cup {p} /\ p \notin Savers
      /\ \A q \in Programs : Off(q)' <=> Off(q)
      /\ \A q \in Programs \ {p} : pc'[q] = pc[q] /\ memory'[q] = memory[q] /\ handle'[q] = handle[q]
      /\ memory'[p] = changes /\ handle'[p] = "temporary" /\ pc'[p] = "created"
  BY <1>1, <1>3 DEF IInv, TypeOK, Savers, Off
<1>7. /\ file'["state"] = file["state"] /\ file'["flushed"] = file["flushed"]
      /\ file'["temporary"].content = Torn /\ file'["temporary"].shared = shared
  BY <1>3 DEF IInv, TypeOK, Names
<1>8. TypeOK'
  BY <1>1, <1>2, <1>3, <1>4, ContentTypes DEF IInv, TypeOK, Names, Handles, Savers
<1>9. HandlesTyped' /\ AloneIsAlone'
  BY <1>3, <1>6 DEF IInv, TypeOK, HandlesTyped, AloneIsAlone
<1>10. RacedTogether' /\ OwnTemporary'
  BY <1>3, <1>5, <1>6, <1>7 DEF IInv, RacedTogether, OwnTemporary, Savers
<1>11. WellFormed'
  BY <1>1, <1>2, <1>3, <1>6, <1>7, ContentTypes DEF IInv, WellFormed
<1>12. AckedKept'
  BY <1>2, <1>3, <1>6, <1>7 DEF IInv, AckedKept, Keeps, TemporaryKeeps, File
<1>13. UpgradeKept'
  BY <1>3, <1>6, <1>7, ContentTypes DEF IInv, UpgradeKept, TemporaryUpgraded, File
<1>. QED  BY <1>8, <1>9, <1>10, <1>11, <1>12, <1>13 DEF IInv

(* A program that writes what it saves into the file it has open, whatever *)
(* that is called by now.                                                  *)
LEMMA WriteKeeps == ASSUME IInv, NEW p \in Programs, Write(p)  PROVE IInv'
<1>1. PICK content \in {Saved(p, memory[p])}
             \cup (IF handle[p] \in Names /\ file[handle[p]].shared THEN {Torn} ELSE {}) :
        file' = [n \in Names |-> IF n = handle[p] THEN [file[n] EXCEPT !.content = content]
                                                  ELSE file[n]]
  BY DEF Write, WriteContent
<1>2. /\ pc[p] = "created" /\ pc' = [pc EXCEPT ![p] = "written"]
      /\ handle' = [handle EXCEPT ![p] = "closed"]
      /\ synced' = synced /\ memory' = memory /\ alone' = alone /\ raced' = raced
      /\ done' = done /\ acked' = acked /\ upgraded' = upgraded
  BY DEF Write, WriteContent, Close
<1>3. /\ content \in Contents /\ content # Missing
      /\ content = Torn \/ content.changes = memory[p]
      /\ p \in Later => Upgraded(content)
  BY ContentTypes, SavedTypes DEF IInv, TypeOK
<1>4. /\ Savers' = Savers /\ p \in Savers
      /\ \A q \in Programs : Off(q)' <=> Off(q)
      /\ \A q \in Programs \ {p} : pc'[q] = pc[q] /\ handle'[q] = handle[q]
      /\ pc'[p] = "written" /\ handle'[p] = "closed"
  BY <1>2 DEF IInv, TypeOK, Savers, Off
<1>5. \A n \in Names :
        /\ file'[n] \in [content : Contents, shared : BOOLEAN]
        /\ n # handle[p] => file'[n] = file[n]
        /\ n = handle[p] => file'[n].content = content
  BY <1>1, <1>3 DEF IInv, TypeOK
<1>6. file' \in [Names -> [content : Contents, shared : BOOLEAN]]
  BY <1>1, <1>5
<1>7. TypeOK'
  <2>1. synced => file'["flushed"] = NoFile
    BY <1>5 DEF IInv, TypeOK, HandlesTyped, Names
  <2>. QED  BY <1>2, <1>6, <2>1 DEF IInv, TypeOK, Handles
<1>8. HandlesTyped' /\ AloneIsAlone' /\ RacedTogether'
  BY <1>2, <1>4 DEF IInv, TypeOK, HandlesTyped, AloneIsAlone, RacedTogether
<1>9. OwnTemporary'
  <2>. SUFFICES ASSUME NEW q \in Savers \ raced
                PROVE  /\ pc'[q] = "created" => handle'[q] = "temporary" /\ ~ file'["temporary"].shared
                       /\ pc'[q] = "written" => file'["temporary"].content = Saved(q, memory[q])
    BY <1>2, <1>4 DEF OwnTemporary
  <2>1. q = p
    BY <1>4 DEF IInv, RacedTogether
  <2>2. handle[p] = "temporary" /\ ~ file["temporary"].shared
    BY <1>2, <2>1 DEF IInv, OwnTemporary
  <2>3. content = Saved(p, memory[p])
    BY <2>2
  <2>. QED  BY <1>4, <1>5, <2>1, <2>2, <2>3 DEF Names
<1>10. WellFormed'
  <2>1. file'["temporary"].content = Missing => file'["temporary"] = NoFile
    BY <1>3, <1>5 DEF IInv, WellFormed, Names
  <2>. QED  BY <1>2, <1>4, <2>1 DEF IInv, WellFormed
<1>11. AckedKept'
  <2>1. ASSUME NEW c, c \in memory[p], NEW n \in Names, Keeps(file[n].content, c)
        PROVE  Keeps(file'[n].content, c)
    BY <1>3, <1>5, <2>1 DEF Keeps
  <2>2. ASSUME NEW c, c \in memory[p], TemporaryKeeps(c)
        PROVE  TemporaryKeeps(c)'
    BY <1>3, <1>5, <2>1, <2>2 DEF TemporaryKeeps, Keeps, Names
  <2>3. \A c \in acked : c \in memory[p]
    BY <1>2 DEF IInv, AckedKept, Off
  <2>4. \A c \in alone \cap Commands \cap Savers : c = p /\ c \in memory[p]
    BY <1>2 DEF IInv, AloneIsAlone, WellFormed, Off
  <2>. QED
    BY <1>2, <1>4, <2>1, <2>2, <2>3, <2>4 DEF IInv, AckedKept, File, Names
<1>12. UpgradeKept'
  <2>1. ASSUME p \in Later, NEW n \in Names, Upgraded(file[n].content)
        PROVE  Upgraded(file'[n].content)
    BY <1>3, <1>5, <2>1
  <2>2. ASSUME p \in Later, TemporaryUpgraded  PROVE TemporaryUpgraded'
    BY <1>3, <1>5, <2>2 DEF TemporaryUpgraded, Names
  <2>3. upgraded => p \in Later
    BY <1>2 DEF IInv, UpgradeKept, Off
  <2>4. alone \cap Later \cap Savers # {} => p \in Later
    BY <1>2 DEF IInv, AloneIsAlone, Off
  <2>. QED
    BY <1>2, <1>4, <2>1, <2>2, <2>3, <2>4 DEF IInv, UpgradeKept, File, Names
<1>. QED  BY <1>7, <1>8, <1>9, <1>10, <1>11, <1>12 DEF IInv

(* A program that ends its save by renaming the temporary file. *)
LEMMA RenameKeeps == ASSUME IInv, NEW p \in Programs, Rename(p)  PROVE IInv'
<1>1. /\ pc[p] = "written" /\ file["temporary"] # NoFile
      /\ file' = [file EXCEPT !["state"] = file["temporary"], !["temporary"] = NoFile,
                              !["flushed"] = IF synced THEN file["state"] ELSE @]
      /\ synced' = FALSE
      /\ handle' = [q \in Programs |-> Renamed(handle[q])]
      /\ done' = done \cup ({p} \cap Commands)
      /\ acked' = acked \cup ({p} \cap Commands \cap alone)
      /\ upgraded' = (upgraded \/ p \in alone \cap Later)
      /\ raced' = raced \ {p}
  BY DEF Rename, Report, Exit
<1>2. /\ pc' = [pc EXCEPT ![p] = IF p \in Commands THEN "off" ELSE "loaded"]
      /\ memory' = [memory EXCEPT ![p] = IF p \in Commands THEN {} ELSE @]
      /\ alone' = IF p \in Commands THEN alone \ {p} ELSE alone
  BY DEF Rename, Exit, IInv, TypeOK
<1>3. /\ Savers' = Savers \ {p} /\ p \in Savers
      /\ \A q \in Programs : Off(q)' <=> Off(q) \/ (q = p /\ p \in Commands)
      /\ \A q \in Programs \ {p} : pc'[q] = pc[q] /\ memory'[q] = memory[q]
      /\ p \notin Commands => memory' = memory
      /\ ~ Off(p)
  BY <1>1, <1>2 DEF IInv, TypeOK, Savers, Off
<1>4. /\ file'["state"] = file["temporary"] /\ file'["temporary"] = NoFile
      /\ file'["flushed"] = IF synced THEN file["state"] ELSE file["flushed"]
      /\ file' \in [Names -> [content : Contents, shared : BOOLEAN]]
  BY <1>1, ContentTypes DEF IInv, TypeOK, Names
<1>5. \A q \in Programs : /\ handle'[q] \in Handles
                          /\ handle'[q] = "closed" <=> handle[q] = "closed"
  <2>. SUFFICES ASSUME NEW q \in Programs
                PROVE  /\ Renamed(handle[q]) \in Handles
                       /\ Renamed(handle[q]) = "closed" <=> handle[q] = "closed"
    BY <1>1
  <2>. QED  BY DEF Renamed, Handles, Names, IInv, TypeOK
<1>6. TypeOK'
  <2>1. \A q \in Programs : handle'[q] # "closed" <=> pc'[q] = "created"
    BY <1>1, <1>2, <1>3, <1>5 DEF IInv, TypeOK
  <2>2. handle' \in [Programs -> Handles]
    BY <1>1, <1>5
  <2>3. /\ pc' \in [Programs -> {"off", "loaded", "created", "written"}]
        /\ memory' \in [Programs -> SUBSET Changes]
    BY <1>2 DEF IInv, TypeOK
  <2>4. {alone', raced'} \subseteq SUBSET Programs /\ acked' \subseteq done' /\ done' \subseteq Commands
    BY <1>1, <1>2 DEF IInv, TypeOK
  <2>. QED  BY <1>1, <1>4, <2>1, <2>2, <2>3, <2>4 DEF TypeOK
<1>7. HandlesTyped'
  BY <1>1 DEF HandlesTyped
<1>8. AloneIsAlone' /\ RacedTogether'
  BY <1>1, <1>2, <1>3 DEF IInv, TypeOK, AloneIsAlone, RacedTogether
<1>9. OwnTemporary'
  <2>1. \A q \in Savers \ {p} : q \in raced
    BY <1>3 DEF IInv, RacedTogether
  <2>. QED  BY <1>1, <1>3, <2>1 DEF OwnTemporary
<1>10. WellFormed'
  BY <1>3, <1>4 DEF IInv, WellFormed, Programs
<1>11. AckedKept'
  <2>1. \A c \in acked' : Keeps(file["temporary"].content, c)
    BY <1>1, <1>3 DEF IInv, AckedKept, TemporaryKeeps
  <2>2. \A c \in acked', q \in Programs : ~ Off(q)' => c \in memory'[q]
    BY <1>1, <1>3 DEF IInv, TypeOK, AckedKept, AloneIsAlone
  <2>3. \A c \in acked' : Keeps(File, c)'
    BY <1>4, <2>1 DEF Keeps, File
  <2>. QED  BY <1>4, <2>2, <2>3 DEF AckedKept, TemporaryKeeps
<1>12. UpgradeKept'
  <2>1. ASSUME upgraded'
        PROVE  /\ Upgraded(file["temporary"].content)
               /\ \A q \in Programs : ~ Off(q)' => q \in Later
    BY <1>1, <1>3, <2>1 DEF IInv, UpgradeKept, TemporaryUpgraded, AloneIsAlone
  <2>. QED  BY <1>4, <2>1 DEF UpgradeKept, TemporaryUpgraded, File
<1>. QED  BY <1>6, <1>7, <1>8, <1>9, <1>10, <1>11, <1>12 DEF IInv

(* The names of the files reach the disk. *)
LEMMA FlushKeeps == ASSUME IInv, Flush  PROVE IInv'
<1>1. /\ synced' = TRUE /\ file' = [file EXCEPT !["flushed"] = NoFile]
      /\ handle' = [q \in Programs |-> IF handle[q] = "flushed" THEN "nameless" ELSE handle[q]]
      /\ pc' = pc /\ memory' = memory /\ alone' = alone /\ raced' = raced
      /\ done' = done /\ acked' = acked /\ upgraded' = upgraded
  BY DEF Flush
<1>2. /\ Savers' = Savers /\ \A q \in Programs : Off(q)' <=> Off(q)
  BY <1>1 DEF Savers, Off
<1>3. /\ file'["state"] = file["state"] /\ file'["temporary"] = file["temporary"]
      /\ file'["flushed"] = NoFile
      /\ file' \in [Names -> [content : Contents, shared : BOOLEAN]]
  BY <1>1, ContentTypes DEF IInv, TypeOK, Names
<1>4. /\ handle' \in [Programs -> Handles]
      /\ \A q \in Programs : /\ handle'[q] # "flushed"
                             /\ handle'[q] = "closed" <=> handle[q] = "closed"
                             /\ handle[q] = "temporary" => handle'[q] = "temporary"
  BY <1>1 DEF IInv, TypeOK, Handles, Names
<1>5. TypeOK'
  BY <1>1, <1>3, <1>4 DEF IInv, TypeOK
<1>6. HandlesTyped' /\ AloneIsAlone' /\ RacedTogether' /\ OwnTemporary'
  BY <1>1, <1>2, <1>3, <1>4
     DEF IInv, TypeOK, HandlesTyped, AloneIsAlone, RacedTogether, OwnTemporary, Savers
<1>7. WellFormed'
  BY <1>1, <1>2, <1>3 DEF IInv, WellFormed
<1>8. AckedKept'
  BY <1>1, <1>2, <1>3 DEF IInv, AckedKept, TemporaryKeeps, File
<1>9. UpgradeKept'
  BY <1>1, <1>2, <1>3 DEF IInv, UpgradeKept, TemporaryUpgraded, File
<1>. QED  BY <1>5, <1>6, <1>7, <1>8, <1>9 DEF IInv

(* A power loss leaves the state file or the one before it, whole. *)
LEMMA PowerLossKeeps == ASSUME IInv, PowerLoss  PROVE IInv'
<1>1. /\ file' = [[n \in Names |-> NoFile] EXCEPT
                    !["state"] = IF synced THEN file["state"] ELSE file["flushed"]]
      /\ synced' = TRUE
      /\ pc' = [p \in Programs |-> "off"] /\ memory' = [p \in Programs |-> {}]
      /\ handle' = [p \in Programs |-> "closed"]
      /\ alone' = {} /\ raced' = {}
      /\ acked' = acked \cap Flushed.changes /\ done' = done
      /\ upgraded' = (upgraded /\ Flushed.kind = "later")
  BY DEF PowerLoss
<1>2. Savers' = {} /\ \A p \in Programs : Off(p)'
  BY <1>1 DEF Savers, Off
<1>3. /\ file'["state"] = IF synced THEN file["state"] ELSE file["flushed"]
      /\ file'["temporary"] = NoFile /\ file'["flushed"] = NoFile
      /\ file' \in [Names -> [content : Contents, shared : BOOLEAN]]
  BY <1>1, ContentTypes DEF IInv, TypeOK, Names
<1>4. File' = Flushed
  BY <1>3 DEF File, Flushed
<1>5. TypeOK'
  BY <1>1, <1>3 DEF IInv, TypeOK, Handles
<1>6. UpgradeKept'
  BY <1>1, <1>2, <1>4 DEF UpgradeKept, Upgraded
<1>7. AckedKept'
  BY <1>1, <1>2, <1>4 DEF AckedKept, Keeps
<1>. QED
  BY <1>1, <1>2, <1>3, <1>5, <1>6, <1>7
     DEF IInv, HandlesTyped, AloneIsAlone, RacedTogether, OwnTemporary, WellFormed

LEMMA NextIInv == IInv /\ [Next]_vars => IInv'
<1>. SUFFICES ASSUME IInv, [Next]_vars  PROVE IInv'
  OBVIOUS
<1>1. CASE UNCHANGED vars
  BY <1>1 DEF vars, IInv, TypeOK, HandlesTyped, AloneIsAlone, RacedTogether, OwnTemporary,
              WellFormed, AckedKept, Keeps, TemporaryKeeps, UpgradeKept, TemporaryUpgraded,
              File, Savers, Off
<1>. QED
  BY <1>1, LoadKeeps, NoDeviceKeeps, CreateKeeps, WriteKeeps, RenameKeeps, StopKeeps,
     FlushKeeps, PowerLossKeeps DEF Next

LEMMA InductiveInvariant == Spec => []IInv
BY InitIInv, NextIInv, PTL DEF Spec

-----------------------------------------------------------------------------
(* What the programs and their commands may rely on.                       *)

(* The files and the programs are well formed, and a program has a file    *)
(* open exactly while it writes: JsonTrackingStore::save closes it before  *)
(* the rename.                                                             *)
THEOREM TypeCorrect == Spec => []TypeOK
<1>1. IInv => TypeOK
  BY DEF IInv
<1>. QED  BY <1>1, InductiveInvariant, PTL

(* What a command of main.rs reported while it ran alone is kept by every  *)
(* program that runs after it, however many daemons and commands there are *)
(* and wherever they stop.                                                 *)
THEOREM AckedAlwaysHolds == Spec => []AckedHolds
<1>1. IInv => AckedHolds
  BY DEF IInv, AckedKept, Keeps, AckedHolds
<1>. QED  BY <1>1, InductiveInvariant, PTL

(* The state file of a later version, once a later program has saved it    *)
(* alone, is never one of the older version again, for any number of       *)
(* programs of both that load, save, crash and overlap (migrate_state      *)
(* refuses the older ones, and a rename moves what a later one left).      *)
THEOREM UpgradeAlwaysHolds == Spec => []UpgradeHolds
<1>1. IInv => UpgradeHolds
  BY DEF IInv, UpgradeKept, Upgraded, UpgradeHolds
<1>. QED  BY <1>1, InductiveInvariant, PTL

-----------------------------------------------------------------------------
(* The store implements the register.                                      *)

\* What the register takes for the saves in progress.
Saving == [p \in Savers |-> [state |-> Saved(p, memory[p]), raced |-> p \in raced]]

LEMMA InitRefines == Init => Register!Init
<1>. SUFFICES ASSUME Init  PROVE Register!Init
  OBVIOUS
<1>1. File \in Contents
  BY InitIInv DEF IInv, TypeOK, File, Names
<1>2. Flushed = File
  BY DEF Init, Flushed, File
<1>3. Savers = {}
  BY DEF Init, Savers
<1>4. Saving = [w \in {} |-> <<>>]
  BY <1>3 DEF Saving
<1>. QED  BY <1>1, <1>2, <1>4 DEF Register!Init, Saving

(* A step after which the files look the same and no save begins or ends   *)
(* is none of the register.                                                *)
LEMMA NothingSeen ==
  ASSUME File' = File, Flushed' = Flushed, Savers' = Savers,
         \A q \in Savers : memory'[q] = memory[q] /\ (q \in raced' <=> q \in raced)
  PROVE  UNCHANGED Register!vars
<1>1. Saving' = Saving
  BY DEF Saving
<1>. QED  BY <1>1 DEF Register!vars, Saving

(* Saves that end leave the others as they are. *)
LEMMA SaveEnds ==
  ASSUME NEW p \in Savers, Savers' = Savers \ {p}, raced' = raced \ {p},
         \A q \in Savers \ {p} : memory'[q] = memory[q]
  PROVE  Register!Without(p) = Saving' /\ DOMAIN Saving = Savers
BY DEF Register!Without, Saving

LEMMA CreateBegins ==
  ASSUME IInv, NEW p \in Programs, Create(p)
  PROVE  \E s \in [kind : {"current", "later"}, changes : SUBSET Changes] : Register!Begin(p, s)
<1>1. /\ pc[p] = "loaded" /\ pc' = [pc EXCEPT ![p] = "created"]
      /\ raced' = IF Savers = {} THEN raced \ {p} ELSE raced \cup Savers \cup {p}
      /\ synced' = synced
  BY DEF Create
<1>2. PICK changes \in Changed(p) : memory' = [memory EXCEPT ![p] = changes]
  BY DEF Create
<1>3. /\ Savers' = Savers \cup {p} /\ p \notin Savers
      /\ \A q \in Savers : memory'[q] = memory[q]
  BY <1>1, <1>2 DEF IInv, TypeOK, Savers
<1>4. file'["state"] = file["state"] /\ file'["flushed"] = file["flushed"]
  BY DEF Create, OpenTemporary, Open, IInv, TypeOK, Names
<1>5. memory'[p] = changes /\ changes \in SUBSET Changes
  BY <1>2, CreateKeeps DEF IInv, TypeOK
<1>. DEFINE s == Saved(p, changes)
<1>6. Saving' = [v \in Savers \cup {p} |->
                   IF v = p THEN [state |-> s, raced |-> Savers # {}]
                            ELSE [state |-> Saving[v].state, raced |-> TRUE]]
  <2>1. \A v \in Savers : Saving'[v] = [state |-> Saving[v].state, raced |-> TRUE] /\ v # p
    <3>. TAKE v \in Savers
    <3>1. /\ Saving[v] = [state |-> Saved(v, memory[v]), raced |-> v \in raced]
          /\ Saving'[v] = [state |-> Saved(v, memory[v]), raced |-> v \in raced']
      BY <1>3 DEF Saving
    <3>2. (v \in raced') = TRUE /\ v # p
      BY <1>1, <1>3
    <3>3. Saving[v].state = Saved(v, memory[v])
      BY <3>1
    <3>. QED  BY <3>1, <3>2, <3>3
  <2>2. Saving'[p] = [state |-> s, raced |-> Savers # {}]
    <3>1. Saving'[p] = [state |-> s, raced |-> p \in raced']
      BY <1>3, <1>5 DEF Saving
    <3>2. p \in raced' <=> Savers # {}
      BY <1>1
    <3>. QED  BY <3>1, <3>2
  <2>3. Saving' = [v \in Savers \cup {p} |-> Saving'[v]]
    BY <1>3 DEF Saving
  <2>. HIDE DEF s
  <2>4. \A v \in Savers \cup {p} :
          Saving'[v] = IF v = p THEN [state |-> s, raced |-> Savers # {}]
                                ELSE [state |-> Saving[v].state, raced |-> TRUE]
    BY <2>1, <2>2
  <2>. QED  BY <2>3, <2>4, Zenon
<1>7. DOMAIN Saving = Savers
  BY DEF Saving
<1>8. File' = File /\ Flushed' = Flushed
  BY <1>1, <1>4 DEF File, Flushed
<1>9. Register!Begin(p, s)
  BY <1>3, <1>6, <1>7, <1>8 DEF Register!Begin, Saving
<1>. HIDE DEF s
<1>10. s \in [kind : {"current", "later"}, changes : SUBSET Changes]
  BY <1>5, SavedTypes DEF s
<1>. QED  BY <1>9, <1>10

(* What a file holds is a value of the register, always. *)
LEMMA FileValues == ASSUME IInv  PROVE {File, Flushed} \subseteq Contents
BY DEF IInv, TypeOK, File, Flushed, Names

(* Writing changes the state file, or the one before it, only when another *)
(* save has renamed the file that is being written.                        *)
LEMMA WriteScrambles ==
  ASSUME IInv, NEW p \in Programs, Write(p)
  PROVE  Register!Scramble(p) \/ UNCHANGED Register!vars
<1>1. /\ pc[p] = "created" /\ pc' = [pc EXCEPT ![p] = "written"]
      /\ synced' = synced /\ memory' = memory /\ raced' = raced
  BY DEF Write, WriteContent
<1>2. Savers' = Savers /\ p \in Savers
  BY <1>1 DEF IInv, TypeOK, Savers
<1>3. Saving' = Saving /\ DOMAIN Saving = Savers /\ Saving[p].raced = (p \in raced)
  BY <1>1, <1>2 DEF Saving
<1>4. {File', Flushed'} \subseteq Contents
  <2>1. IInv'
    BY WriteKeeps
  <2>. QED  BY <2>1 DEF IInv, TypeOK, File, Flushed, Names
<1>5. CASE p \in raced
  BY <1>2, <1>3, <1>4, <1>5 DEF Register!Scramble, Saving
<1>6. CASE p \notin raced
  <2>1. handle[p] = "temporary"
    BY <1>1, <1>2, <1>6 DEF IInv, OwnTemporary
  <2>2. file'["state"] = file["state"] /\ file'["flushed"] = file["flushed"]
    BY <2>1 DEF Write, WriteContent, Names
  <2>. QED  BY <1>1, <1>2, <2>2, NothingSeen DEF File, Flushed
<1>. QED  BY <1>5, <1>6

(* A rename replaces the state file by what its own program saved, if no   *)
(* other save overlapped.                                                  *)
LEMMA RenameFinishes ==
  ASSUME IInv, NEW p \in Programs, Rename(p)
  PROVE  Register!Finish(p) \/ Register!Scramble(p)
<1>1. /\ pc[p] = "written"
      /\ file' = [file EXCEPT !["state"] = file["temporary"], !["temporary"] = NoFile,
                              !["flushed"] = IF synced THEN file["state"] ELSE @]
      /\ synced' = FALSE
      /\ raced' = raced \ {p}
      /\ pc' = [pc EXCEPT ![p] = IF p \in Commands THEN "off" ELSE "loaded"]
      /\ memory' = [memory EXCEPT ![p] = IF p \in Commands THEN {} ELSE @]
  BY DEF Rename, Exit, IInv, TypeOK
<1>2. /\ p \in Savers /\ Savers' = Savers \ {p}
      /\ \A q \in Savers \ {p} : memory'[q] = memory[q]
  BY <1>1 DEF IInv, TypeOK, Savers
<1>3. /\ Saving' = Register!Without(p) /\ DOMAIN Saving = Savers
      /\ Saving[p].raced = (p \in raced) /\ Saving[p].state = Saved(p, memory[p])
  BY <1>1, <1>2, SaveEnds DEF Saving
<1>4. File' = file["temporary"].content /\ Flushed' = Flushed
  BY <1>1 DEF File, Flushed, IInv, TypeOK, Names
<1>5. {File', Flushed'} \subseteq Contents
  BY <1>4, FileValues DEF IInv, TypeOK, Names
<1>6. CASE p \in raced
  BY <1>2, <1>3, <1>5, <1>6 DEF Register!Scramble, Saving
<1>7. CASE p \notin raced
  <2>1. File' = Saved(p, memory[p])
    BY <1>1, <1>2, <1>4, <1>7 DEF IInv, OwnTemporary
  <2>. QED  BY <1>2, <1>3, <1>4, <2>1 DEF Register!Finish, Saving
<1>. QED  BY <1>6, <1>7

LEMMA ExitSeen ==
  ASSUME IInv, NEW p \in Programs, Exit(p), UNCHANGED disk
  PROVE  Register!Fail(p) \/ UNCHANGED Register!vars
<1>1. /\ pc' = [pc EXCEPT ![p] = "off"] /\ memory' = [memory EXCEPT ![p] = {}]
      /\ raced' = raced \ {p} /\ File' = File /\ Flushed' = Flushed
  BY DEF Exit, disk, File, Flushed
<1>2. Savers' = Savers \ {p} /\ \A q \in Savers \ {p} : memory'[q] = memory[q]
  BY <1>1 DEF IInv, TypeOK, Savers
<1>3. CASE p \in Savers
  BY <1>1, <1>2, <1>3, SaveEnds DEF Register!Fail, Saving
<1>4. CASE p \notin Savers
  BY <1>1, <1>2, <1>4, NothingSeen
<1>. QED  BY <1>3, <1>4

LEMMA NextRefines == IInv /\ [Next]_vars => [Register!Next]_(Register!vars)
<1>. SUFFICES ASSUME IInv, [Next]_vars  PROVE Register!Next \/ UNCHANGED Register!vars
  OBVIOUS
<1>1. ASSUME NEW p \in Programs, Load(p)  PROVE UNCHANGED Register!vars
  <2>1. Savers' = Savers /\ \A q \in Savers : memory'[q] = memory[q]
    BY <1>1 DEF Load, IInv, TypeOK, Savers, Off
  <2>. QED  BY <1>1, <2>1, NothingSeen DEF Load, disk, File, Flushed
<1>2. ASSUME NEW p \in Programs, NoDevice(p) \/ Stop(p)
      PROVE  Register!Fail(p) \/ UNCHANGED Register!vars
  BY <1>2, ExitSeen DEF NoDevice, Stop
<1>3. ASSUME NEW p \in Programs, Create(p)  PROVE Register!Next
  BY <1>3, CreateBegins DEF Register!Next
<1>4. CASE Flush
  <2>1. /\ File' = File /\ Flushed' = File' /\ Savers' = Savers
        /\ memory' = memory /\ raced' = raced
    BY <1>4 DEF Flush, File, Flushed, Savers, IInv, TypeOK, Names
  <2>2. Saving' = Saving
    BY <2>1 DEF Saving
  <2>. QED  BY <2>1, <2>2 DEF Register!Next, Register!Flush, Saving
<1>5. CASE PowerLoss
  <2>1. File' = Flushed /\ Flushed' = Flushed
    BY <1>5 DEF PowerLoss, File, Flushed, Names
  <2>2. Savers' = {}
    BY <1>5 DEF PowerLoss, Savers
  <2>3. Saving' = [w \in {} |-> <<>>]
    BY <2>2 DEF Saving
  <2>. QED  BY <2>1, <2>3 DEF Register!Next, Register!PowerLoss, Saving
<1>6. CASE UNCHANGED vars
  BY <1>6, NothingSeen DEF vars, File, Flushed, Savers
<1>. QED
  BY <1>1, <1>2, <1>3, <1>4, <1>5, <1>6, WriteScrambles, RenameFinishes DEF Next, Register!Next

(* "Atomically replaces durable tracking state" (TrackingStateStore,       *)
(* state.rs): for any number of programs, whatever is killed and whenever  *)
(* the power fails, the state file is a register that saves replace whole  *)
(* or not at all, but for saves that overlap.                              *)
THEOREM StoreImplementsRegister == Spec => Implements
<1>1. IInv /\ [Next]_vars => [Register!Next]_(Register!vars)
  BY NextRefines
<1>. QED  BY InitRefines, <1>1, InductiveInvariant, PTL DEF Spec, Implements, Register!Spec
===============================================================================
