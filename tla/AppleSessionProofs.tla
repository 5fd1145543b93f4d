-------------------------- MODULE AppleSessionProofs --------------------------
(***************************************************************************)
(* Proofs about AppleSession, for every set of hosts, either way of        *)
(* keeping a session and every call of a library host: its type invariant, *)
(* and the four safety invariants of the run.  They follow from one        *)
(* inductive invariant, which says for each place a call can have reached  *)
(* what is in memory, what is in the two files and what was sent.          *)
(***************************************************************************)
EXTENDS AppleSession, TLAPS

(* The files hold what is in memory. *)
Synced == store = "disk" => saved = [owner |-> "mine", session |-> mem, cookie |-> cookie]

(* An answer was received and saved: an answer that was lost is not, and   *)
(* neither are challenge details whose save failed.                        *)
Captured ==
  /\ at \in Requests \cup {"conclude"}
  /\ reply \notin {"none", "lost"}
  /\ ~(at = "details" /\ reply = "error")

(* A process that does not run makes no call; the host decides how the     *)
(* session is kept; the files are those of this account.                   *)
Owned ==
  /\ host = "down" => at = "idle" /\ status = "none"
  /\ host = "library" => store = "memory"
  /\ store = "disk" => saved.owner = "mine"

(* The session file is written before the cookie file, both before the     *)
(* call goes on, and the files are removed by a reset only.                *)
SavedInOrder ==
  /\ at = "idle" => saving = "no"
  /\ saving = "cookies" /\ store = "disk" => saved.session = mem
  /\ saving = "no" /\ (Captured \/ at \in {"return", "trusted", "signIn"}) => Synced
  /\ saving = "remove" => at = "cleared"
  /\ at = "cleared" => saving \in {"remove", "no"}
  /\ at = "cleared" /\ saving = "no" /\ store = "disk" => saved = Nothing

(* What a call is about to report holds in memory already; the challenge   *)
(* of a second factor stands when the login returns.                       *)
Reports ==
  /\ at \in {"return", "trusted", "idle"} /\ status = "authenticated"
       => account /\ ~challenge /\ mem.url
  /\ at \in {"trusted", "idle"} /\ status = "twofactor" => challenge

(* The answer being judged is one that its request has. *)
Answered == at \in Requests => reply \in Answers(at) \cup {"none", "lost"}

(* How often a call has asked for the devices or for an action, by the     *)
(* place it has reached.                                                   *)
Sends ==
  /\ sent.refresh <= (IF at = "refresh1" /\ reply = "none" THEN 0
                      ELSE IF at = "idle" \/ (at = "refresh2" /\ reply # "none") THEN 2
                      ELSE 1)
  /\ sent.action <= (IF at = "action" /\ reply = "none" THEN 0 ELSE 1)
  /\ at = "refresh2" => account /\ ~challenge /\ mem.url
  /\ host = "sound" /\ at = "action" => account /\ ~challenge

(* Tokens are dropped in memory first; `dropped` says that the files       *)
(* followed.                                                               *)
Dropping ==
  /\ at = "signIn" => mem.token = "none"
  /\ op = "untrust" => at \in {"return", "idle"}
  /\ op = "untrust" /\ at = "return" => mem.token = "none"

(* Everything but the types. *)
Places ==
  /\ Owned /\ SavedInOrder /\ Answered /\ Reports /\ Sends /\ Dropping
  /\ ReportedIsSaved /\ DroppedStaysDropped

IInv == TypeOK /\ Places

-----------------------------------------------------------------------------
(* The types.                                                              *)

(* The sessions the client makes are sessions: the empty one, one without  *)
(* its tokens, and one with fields replaced.                               *)
LEMMA EmptyIsSession == EmptySession \in Session
BY DEF EmptySession, Session, Tokens

LEMMA ClearedIsSession ==
  ASSUME NEW s \in Session  PROVE ClearAuthentication(s) \in Session
<1>1. s.trustedAt \in BOOLEAN
  BY DEF Session
<1>. QED  BY <1>1, EmptyIsSession DEF ClearAuthentication, Session

LEMMA SessionWith ==
  ASSUME NEW s \in Session, NEW t \in Tokens, NEW b \in BOOLEAN
  PROVE  /\ [s EXCEPT !.token = t] \in Session
         /\ [s EXCEPT !.trust = b] \in Session
         /\ [s EXCEPT !.url = b] \in Session
         /\ [s EXCEPT !.terms = b] \in Session
         /\ [s EXCEPT !.trustedAt = b] \in Session
BY DEF Session

LEMMA SessionFlags ==
  ASSUME TypeOK
  PROVE  /\ mem \in Session
         /\ [mem EXCEPT !.terms = FALSE] \in Session
         /\ [mem EXCEPT !.trustedAt = TRUE] \in Session
<1>1. mem \in Session
  BY DEF TypeOK
<1>. QED  BY <1>1 DEF Session

(* Starting a call keeps the types. *)
LEMMA BeginTypes == ASSUME TypeOK, Begin  PROVE TypeOK'
<1>. USE DEF StartCall, Starting, Goto, End, SignIn, Authenticate, Validate,
             TypeOK, Requests, Ops, Statuses
<1>1. CASE BeginAuthenticate            BY <1>1 DEF BeginAuthenticate
<1>2. CASE RefreshSession               BY <1>2 DEF RefreshSession
<1>3. CASE ValidateSession              BY <1>3 DEF ValidateSession
<1>4. CASE ValidateCredentials          BY <1>4 DEF ValidateCredentials
<1>5. CASE RequestVerificationCode      BY <1>5 DEF RequestVerificationCode
<1>6. CASE VerifyVerificationCode       BY <1>6 DEF VerifyVerificationCode
<1>7. CASE AuthenticateWithSecurityKey  BY <1>7 DEF AuthenticateWithSecurityKey
<1>8. CASE AcceptTerms                  BY <1>8 DEF AcceptTerms
<1>9. CASE LocateDevices                BY <1>9 DEF LocateDevices
<1>10. CASE SendFindMyAction            BY <1>10 DEF SendFindMyAction
<1>11. CASE RestoreTrustedSession
  <2>1. PICK snapshot \in [token : Tokens, trust : BOOLEAN, url : BOOLEAN] :
          IF snapshot.trust
            THEN /\ mem' = [mem EXCEPT !.token = snapshot.token, !.trust = TRUE,
                                       !.url = snapshot.url]
                 /\ dropped' = (dropped /\ snapshot.token = "none")
                 /\ SaveThen("login", "none")
            ELSE End("failed") /\ UNCHANGED <<mem, dropped>>
    BY <1>11 DEF RestoreTrustedSession
  <2>2. snapshot.url \in BOOLEAN
    OBVIOUS
  <2>3. mem' \in Session
    <3>1. [mem EXCEPT !.token = snapshot.token] \in Session
      BY DEF Session, Tokens
    <3>2. [[mem EXCEPT !.token = snapshot.token] EXCEPT !.trust = TRUE] \in Session
      BY <3>1 DEF Session
    <3>3. [[[mem EXCEPT !.token = snapshot.token] EXCEPT !.trust = TRUE]
             EXCEPT !.url = snapshot.url] \in Session
      BY <3>2, <2>2 DEF Session
    <3>. QED  BY <2>1, <3>3
  <2>4. dropped' \in BOOLEAN
    BY <2>1
  <2>. QED  BY <2>1, <2>3, <2>4, <1>11 DEF RestoreTrustedSession, SaveThen, Persist
<1>12. CASE UntrustSession
  <2>1. mem' \in Session
    BY <1>12, ClearedIsSession DEF UntrustSession
  <2>2. sent' \in [refresh : 0..3, action : 0..3]
    BY <1>12 DEF UntrustSession
  <2>. QED  BY <2>1, <2>2, <1>12 DEF UntrustSession, SaveThen, Persist, Cookies
<1>13. CASE ClearSession                BY <1>13 DEF ClearSession
<1>. QED  BY <1>1, <1>2, <1>3, <1>4, <1>5, <1>6, <1>7, <1>8, <1>9, <1>10,
             <1>11, <1>12, <1>13 DEF Begin

(* An exchange keeps the types. *)
LEMMA ExchangeTypes == ASSUME TypeOK, Exchange  PROVE TypeOK'
<1>1. PICK g \in Gains :
        /\ Capture(g)
        /\ \/ \E a \in Answers(at) : reply' = a /\ Persist
           \/ reply' = "lost" /\ saving' = "no"
  BY DEF Exchange
<1>3. mem' \in Session /\ cookie' \in Cookies /\ dropped' \in BOOLEAN
  <2>1. mem' \in Session
    BY <1>1 DEF Capture, Gains, TypeOK, Session, Tokens
  <2>2. cookie' \in Cookies
    BY <1>1 DEF Capture, Gains, TypeOK, Cookies
  <2>3. dropped' \in BOOLEAN
    BY <1>1 DEF Capture
  <2>. QED  BY <2>1, <2>2, <2>3
<1>4. sent' \in [refresh : 0..3, action : 0..3]
  BY DEF Exchange, Counted, TypeOK
<1>5. reply' \in Failures \cup LoginData \cup {"ok", "none"} /\ saving' \in {"no", "state", "cookies", "remove"}
  BY <1>1 DEF Answers, Failures, LoginData, Persist
<1>. QED  BY <1>3, <1>4, <1>5 DEF Exchange, TypeOK

(* Judging an answer keeps the types. *)
LEMMA JudgeTypes == ASSUME TypeOK, Judge  PROVE TypeOK'
<1>. USE DEF Judging, Judged, Goto, End, SignIn, Authenticate, SaveThen, Persist,
             TypeOK, Requests, Statuses
<1>1. CASE DropExpired       BY <1>1, ClearedIsSession DEF DropExpired
<1>2. CASE SignInAfterDrop   BY <1>2 DEF SignInAfterDrop
<1>3. CASE RecoverRead       BY <1>3 DEF RecoverRead
<1>4. CASE Fail              BY <1>4 DEF Fail
<1>5. CASE Advance
  <2>1. at \in DOMAIN NextRequest => NextRequest[at] \in Requests
    BY DEF NextRequest
  <2>. QED  BY <2>1, <1>5 DEF Advance
<1>6. CASE FinishLogin
  <2>1. mem' \in Session
    BY <1>6 DEF FinishLogin, Session
  <2>. QED  BY <2>1, <1>6 DEF FinishLogin
<1>7. CASE Challenge         BY <1>7 DEF Challenge
<1>8. CASE LoggedIn
  <2>1. mem' = mem \/ mem' = [mem EXCEPT !.terms = FALSE]
    BY <1>8 DEF LoggedIn
  <2>2. mem' \in Session
    BY <2>1, SessionFlags
  <2>. QED  BY <2>2, <1>8 DEF LoggedIn
<1>9. CASE Return
  <2>1. mem' = mem \/ mem' = [mem EXCEPT !.trustedAt = TRUE]
    BY <1>9 DEF Return
  <2>2. mem' \in Session
    BY <2>1, SessionFlags
  <2>. QED  BY <2>2, <1>9 DEF Return
<1>10. CASE ReturnTrusted    BY <1>10 DEF ReturnTrusted
<1>11. CASE ReturnCleared    BY <1>11, EmptyIsSession DEF ReturnCleared, Cookies
<1>. QED  BY <1>1, <1>2, <1>3, <1>4, <1>5, <1>6, <1>7, <1>8, <1>9, <1>10, <1>11
          DEF Judge

(* Saving, and whatever the program and the user do, keep the types. *)
LEMMA SaveTypes == ASSUME TypeOK, Save  PROVE TypeOK'
<1>. USE DEF client, calls, End, TypeOK, Cookies
<1>1. CASE SaveState    BY <1>1 DEF SaveState
<1>2. CASE SaveCookies  BY <1>2 DEF SaveCookies
<1>3. CASE RemoveFile   BY <1>3, EmptyIsSession DEF RemoveFile
<1>4. CASE Removed      BY <1>4 DEF Removed
<1>5. CASE SaveFails    BY <1>5 DEF SaveFails, Failures, Statuses
<1>. QED  BY <1>1, <1>2, <1>3, <1>4, <1>5 DEF Save

LEMMA ProcessTypes ==
  ASSUME TypeOK, (\E h \in Hosts : Build(h)) \/ SetPassword \/ Export \/ Stop \/ Age
  PROVE  TypeOK'
<1>. USE DEF client, calls, End, TypeOK, Cookies
<1>1. ASSUME NEW h \in Hosts, Build(h)  PROVE TypeOK'
  <2>1. mem' \in Session /\ cookie' \in Cookies
    BY <1>1, EmptyIsSession DEF Build, LoadedCookie
  <2>2. dropped' \in BOOLEAN
    BY <1>1 DEF Build
  <2>. QED  BY <1>1, <2>1, <2>2 DEF Build
<1>2. CASE SetPassword  BY <1>2 DEF SetPassword
<1>3. CASE Export       BY <1>3 DEF Export
<1>4. CASE Stop
  <2>1. sent' \in [refresh : 0..3, action : 0..3]
    BY <1>4 DEF Stop
  <2>. QED  BY <2>1, <1>4, EmptyIsSession DEF Stop, Statuses
<1>5. CASE Age
  <2>1. \A c \in Cookies : Older(c) \in Cookies
    BY DEF Older
  <2>. QED  BY <2>1, <1>5 DEF Age
<1>. QED  BY <1>1, <1>2, <1>3, <1>4, <1>5

-----------------------------------------------------------------------------
(* The places of a call.                                                   *)

(* A call that starts reports nothing new, has sent nothing, and has the   *)
(* tokens it found.                                                        *)
LEMMA BeginPlaces == ASSUME IInv, Begin  PROVE Places'
<1>. USE DEF StartCall, Starting, Goto, End, SignIn, Authenticate, Validate,
             IInv, TypeOK, Places, Owned, SavedInOrder, Synced, Captured, Answered, Answers, Reports, Sends,
             Dropping, ReportedIsSaved, DroppedStaysDropped,
             Requests, Succeeded
<1>1. CASE BeginAuthenticate            BY <1>1 DEF BeginAuthenticate
<1>2. CASE RefreshSession               BY <1>2 DEF RefreshSession
<1>3. CASE ValidateSession              BY <1>3 DEF ValidateSession
<1>4. CASE ValidateCredentials          BY <1>4 DEF ValidateCredentials
<1>5. CASE RequestVerificationCode      BY <1>5 DEF RequestVerificationCode
<1>6. CASE VerifyVerificationCode       BY <1>6 DEF VerifyVerificationCode
<1>7. CASE AuthenticateWithSecurityKey  BY <1>7 DEF AuthenticateWithSecurityKey
<1>8. CASE AcceptTerms                  BY <1>8 DEF AcceptTerms
<1>9. CASE LocateDevices                BY <1>9 DEF LocateDevices
<1>10. CASE SendFindMyAction
  BY <1>10 DEF SendFindMyAction, May, After, First
<1>11. CASE RestoreTrustedSession
  <2>2. dropped' => dropped /\ (mem' = mem \/ mem'.token = "none")
    <3>1. PICK snapshot \in [token : Tokens, trust : BOOLEAN, url : BOOLEAN] :
            \/ /\ mem' = [mem EXCEPT !.token = snapshot.token, !.trust = TRUE,
                                     !.url = snapshot.url]
               /\ dropped' = (dropped /\ snapshot.token = "none")
            \/ mem' = mem /\ dropped' = dropped
      BY <1>11 DEF RestoreTrustedSession
    <3>2. [mem EXCEPT !.token = snapshot.token, !.trust = TRUE,
                      !.url = snapshot.url].token = snapshot.token
      BY DEF Session
    <3>. QED  BY <3>1, <3>2, Zenon
  <2>3. /\ \/ at' = "login" /\ status' = "none" /\ Persist
           \/ at' = "idle" /\ status' = "failed" /\ saving' = "no"
        /\ reply' = "none"
        /\ UNCHANGED <<cookie, account, challenge>>
    BY <1>11 DEF RestoreTrustedSession, SaveThen
  <2>. QED  BY <2>2, <2>3, <1>11 DEF RestoreTrustedSession, Persist
<1>12. CASE UntrustSession
  BY <1>12 DEF UntrustSession, SaveThen, Persist, ClearAuthentication, EmptySession
<1>13. CASE ClearSession
  BY <1>13 DEF ClearSession
<1>. QED  BY <1>1, <1>2, <1>3, <1>4, <1>5, <1>6, <1>7, <1>8, <1>9, <1>10,
             <1>11, <1>12, <1>13 DEF Begin

(* An answer is saved before it is judged, or lost. *)
LEMMA ExchangePlaces == ASSUME IInv, Exchange  PROVE Places'
<1>. USE DEF Exchange, Capture, Persist, Counted,
             IInv, TypeOK, Places, Owned, SavedInOrder, Synced, Captured, Answered, Answers, Reports, Sends,
             Dropping, ReportedIsSaved, DroppedStaysDropped,
             Requests, Session, LoginRequests
<1>1. Sends'
  <2>1. sent'.refresh <= (IF at = "refresh1" THEN 1 ELSE IF at = "refresh2" THEN 2 ELSE 1)
    OBVIOUS
  <2>2. sent'.action <= 1
    OBVIOUS
  <2>3. mem'.url = mem.url
    OBVIOUS
  <2>4. at' = at /\ at # "idle" /\ reply' # "none" /\ UNCHANGED <<account, challenge, host>>
    BY DEF LoginData
  <2>. QED  BY <2>1, <2>2, <2>3, <2>4
<1>2. Owned' /\ SavedInOrder' /\ Answered' /\ Reports' /\ Dropping'
  OBVIOUS
<1>3. ReportedIsSaved' /\ DroppedStaysDropped'
  OBVIOUS
<1>. QED  BY <1>1, <1>2, <1>3

(* Judging an answer goes on with the call, or ends it with a report that  *)
(* the files agree with.                                                   *)
LEMMA JudgePlaces == ASSUME IInv, Judge  PROVE Places'
<1>. USE DEF Judging, Judged, Goto, End, SignIn, Authenticate, SaveThen, Persist,
             IInv, TypeOK, Places, Owned, SavedInOrder, Synced, Captured, Answered, Answers, Reports, Sends,
             Dropping, ReportedIsSaved, DroppedStaysDropped,
             Requests, Succeeded, Failures, LoginData, LoginRequests, Session
<1>1. CASE DropExpired
  BY <1>1 DEF DropExpired, ClearAuthentication, EmptySession
<1>2. CASE SignInAfterDrop   BY <1>2 DEF SignInAfterDrop
<1>3. CASE RecoverRead       BY <1>3 DEF RecoverRead
<1>4. CASE Fail              BY <1>4 DEF Fail
<1>5. CASE Advance           BY <1>5 DEF Advance, NextRequest
<1>6. CASE FinishLogin
  <2>1. /\ mem'.token = mem.token /\ (mem.url => mem'.url)
        /\ at' \in {"return", "idle", "details", "conclude"}
        /\ at' = "return" => status' = "terms"
        /\ at' = "idle" => status' = "failed" /\ saving' = "no"
        /\ at' # "idle" => Persist
        /\ sent' = sent /\ op' = op
    BY <1>6 DEF FinishLogin
  <2>2. Sends'
    BY <2>1, <1>6 DEF FinishLogin
  <2>3. Owned' /\ SavedInOrder' /\ Answered' /\ Reports' /\ Dropping'
    BY <2>1, <1>6 DEF FinishLogin
  <2>4. ReportedIsSaved' /\ DroppedStaysDropped'
    BY <2>1, <1>6 DEF FinishLogin
  <2>. QED  BY <2>2, <2>3, <2>4
<1>7. CASE Challenge         BY <1>7 DEF Challenge
<1>8. CASE LoggedIn          BY <1>8 DEF LoggedIn
<1>9. CASE Return
  <2>1. mem'.token = mem.token /\ mem'.url = mem.url
    BY <1>9 DEF Return
  <2>2. \/ at' = "idle" /\ status' = "failed" /\ mem' = mem /\ saving' = "no"
        \/ at' = "idle" /\ status' = status /\ mem' = mem /\ saving' = "no"
        \/ at' = "refresh2" /\ status' = status /\ status = "authenticated"
             /\ mem' = mem /\ saving' = "no" /\ op = "locate"
        \/ at' = "trusted" /\ status' = status /\ Persist /\ op \in {"key", "verify"}
    BY <1>9 DEF Return, TrustRecorded
  <2>3. reply' = "none" /\ challenge' = (challenge \/ status = "twofactor")
    BY <1>9 DEF Return
  <2>4. Sends'
    BY <2>1, <2>2, <2>3, <1>9 DEF Return
  <2>5. Owned' /\ SavedInOrder' /\ Answered' /\ Reports'
    BY <2>1, <2>2, <2>3, <1>9 DEF Return
  <2>6. Dropping'
    BY <2>1, <2>2, <1>9 DEF Return
  <2>7. ReportedIsSaved'
    BY <2>1, <2>2, <2>3, <1>9 DEF Return
  <2>8. DroppedStaysDropped'
    BY <2>1, <2>2, <1>9 DEF Return
  <2>. QED  BY <2>4, <2>5, <2>6, <2>7, <2>8
<1>10. CASE ReturnTrusted    BY <1>10 DEF ReturnTrusted
<1>11. CASE ReturnCleared    BY <1>11 DEF ReturnCleared, EmptySession, Nothing
<1>. QED  BY <1>1, <1>2, <1>3, <1>4, <1>5, <1>6, <1>7, <1>8, <1>9, <1>10, <1>11
          DEF Judge

(* Writing a file brings it nearer to memory; a failed write ends the call *)
(* without a report.                                                       *)
LEMMA SavePlaces == ASSUME IInv, Save  PROVE Places'
<1>. USE DEF client, calls, End,
             IInv, TypeOK, Places, Owned, SavedInOrder, Synced, Captured, Answered, Answers, Reports, Sends,
             Dropping, ReportedIsSaved, DroppedStaysDropped,
             Requests, Succeeded
<1>1. CASE SaveState    BY <1>1 DEF SaveState
<1>2. CASE SaveCookies  BY <1>2 DEF SaveCookies
<1>3. CASE RemoveFile   BY <1>3 DEF RemoveFile, EmptySession
<1>4. CASE Removed      BY <1>4 DEF Removed
<1>5. CASE SaveFails    BY <1>5 DEF SaveFails
<1>. QED  BY <1>1, <1>2, <1>3, <1>4, <1>5 DEF Save

(* Between calls: a client is built from files of its own account, and an  *)
(* archive is what the host was told is saved.                             *)
LEMMA ProcessPlaces ==
  ASSUME IInv, (\E h \in Hosts : Build(h)) \/ SetPassword \/ Export \/ Stop \/ Age
  PROVE  Places'
<1>. USE DEF client, calls, End,
             IInv, TypeOK, Places, Owned, SavedInOrder, Synced, Captured, Answered, Answers, Reports, Sends,
             Dropping, ReportedIsSaved, DroppedStaysDropped,
             Requests, Succeeded, EmptySession
<1>1. ASSUME NEW h \in Hosts, Build(h)  PROVE Places'
  <2>1. host = "down" /\ at = "idle" /\ status = "none" /\ saving = "no"
    BY <1>1 DEF Build
  <2>2. \/ mem' = saved.session /\ saved.owner = "mine"
             /\ (dropped' => dropped /\ store = "disk")
        \/ mem' = EmptySession /\ store = "memory" /\ (dropped' => dropped)
    BY <1>1 DEF Build
  <2>3. ((store = "memory") <=> (h = "library")) /\ host' = h
    BY <1>1 DEF Build
  <2>4. Owned' /\ SavedInOrder' /\ Answered' /\ Reports' /\ Sends' /\ Dropping'
    BY <2>1, <2>2, <2>3, <1>1 DEF Build
  <2>5. ReportedIsSaved'
    BY <2>1, <1>1 DEF Build
  <2>6. DroppedStaysDropped'
    <3>1. saved' = saved /\ store' = store
      BY <1>1 DEF Build
    <3>2. "none" # "other" /\ EmptySession.token = "none"
      OBVIOUS
    <3>. QED  BY <2>2, <3>1, <3>2
  <2>. QED  BY <2>4, <2>5, <2>6
<1>2. CASE SetPassword  BY <1>2 DEF SetPassword
<1>3. CASE Export       BY <1>3 DEF Export
<1>4. CASE Stop         BY <1>4 DEF Stop
<1>5. CASE Age          BY <1>5 DEF Age
<1>. QED  BY <1>1, <1>2, <1>3, <1>4, <1>5

-----------------------------------------------------------------------------
(* The theorems.                                                           *)

LEMMA InitIInv == ASSUME Init  PROVE IInv
<1>1. saved \in [owner : {"mine", "other"}, session : Session, cookie : Cookies]
  <2>1. Nothing \in [owner : {"mine", "other"}, session : Session, cookie : Cookies]
    BY EmptyIsSession DEF Nothing, Cookies
  <2>2. AlienArchive.session \in Session
    <3>1. [EmptySession EXCEPT !.token = "other"] \in Session
      BY EmptyIsSession DEF Session, Tokens
    <3>2. [[EmptySession EXCEPT !.token = "other"] EXCEPT !.trust = TRUE] \in Session
      BY <3>1 DEF Session
    <3>. QED  BY <3>2 DEF AlienArchive, Session
  <2>3. AlienArchive \in [owner : {"mine", "other"}, session : Session, cookie : Cookies]
    BY <2>2 DEF AlienArchive, Cookies
  <2>. QED  BY <2>1, <2>3 DEF Init
<1>2. sent \in [refresh : 0..3, action : 0..3]
  BY DEF Init
<1>3. TypeOK
  BY <1>1, <1>2, EmptyIsSession DEF Init, TypeOK, Cookies, Statuses
<1>4. Places
  BY DEF Init, Places, Owned, SavedInOrder, Synced, Captured, Answered, Answers, Reports, Sends, Requests, Succeeded,
         Dropping, ReportedIsSaved, DroppedStaysDropped,
         Nothing, AlienArchive, EmptySession
<1>. QED  BY <1>3, <1>4 DEF IInv

LEMMA NextIInv == ASSUME IInv, [Next]_vars  PROVE IInv'
<1>1. CASE Begin     BY <1>1, BeginTypes, BeginPlaces DEF IInv
<1>2. CASE Exchange  BY <1>2, ExchangeTypes, ExchangePlaces DEF IInv
<1>3. CASE Judge     BY <1>3, JudgeTypes, JudgePlaces DEF IInv
<1>4. CASE Save      BY <1>4, SaveTypes, SavePlaces DEF IInv
<1>5. CASE (\E h \in Hosts : Build(h)) \/ SetPassword \/ Export \/ Stop \/ Age
  BY <1>5, ProcessTypes, ProcessPlaces DEF IInv
<1>6. CASE UNCHANGED vars
  BY <1>6 DEF vars, client, calls, IInv, TypeOK, Places, Owned, SavedInOrder, Synced,
              Captured, Answered, Reports, Sends, Dropping, ReportedIsSaved, DroppedStaysDropped
<1>. QED  BY <1>1, <1>2, <1>3, <1>4, <1>5, <1>6 DEF Next

(* The invariant above holds in every state of every run. *)
LEMMA InductiveInvariant == Spec => []IInv
BY InitIInv, NextIInv, PTL DEF Spec

(* The variables of the client, of its calls and of the two files (client.rs, *)
(* session.rs) always have their types.                                       *)
THEOREM TypeCorrect == Spec => []TypeOK
<1>1. IInv => TypeOK
  BY DEF IInv
<1>. QED  BY <1>1, InductiveInvariant, PTL

(* One call sends a read at most twice, the second time signed in, and an    *)
(* action at most once, whatever Apple answers and wherever a save fails     *)
(* (locate_devices, send_find_my_action).                                    *)
THEOREM ReadAlwaysReplayedOnce == Spec => []ReadReplayedOnce
<1>1. IInv => ReadReplayedOnce
  BY DEF IInv, TypeOK, Places, Sends, ReadReplayedOnce
<1>. QED  BY <1>1, InductiveInvariant, PTL

(* A call that reports success leaves, on disk, both files equal to the      *)
(* session in memory and to what it reported (finish_account_login, save).   *)
THEOREM ReportedAlwaysSaved == Spec => []ReportedIsSaved
<1>1. IInv => ReportedIsSaved
  BY DEF IInv, Places
<1>. QED  BY <1>1, InductiveInvariant, PTL

(* Tokens that untrust, reset or expiry dropped stay dropped through crashes *)
(* and restarts, until Apple sends others or a snapshot is restored.         *)
THEOREM DroppedAlwaysStay == Spec => []DroppedStaysDropped
<1>1. IInv => DroppedStaysDropped
  BY DEF IInv, Places
<1>. QED  BY <1>1, InductiveInvariant, PTL

(* The sound command acts on a device only once it was told that it is       *)
(* signed in (require_authenticated).                                        *)
THEOREM SoundAlwaysAuthenticated == Spec => []SoundAuthenticated
<1>1. IInv => SoundAuthenticated
  BY DEF IInv, Places, Sends, SoundAuthenticated
<1>. QED  BY <1>1, InductiveInvariant, PTL
===============================================================================
