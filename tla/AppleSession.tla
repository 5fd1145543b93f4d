---------------------------- MODULE AppleSession ----------------------------
(***************************************************************************)
(* The Apple account client of crates/icloud-findmy (client.rs,            *)
(* session.rs) with the programs that own one: the commands and the        *)
(* daemon of src/main.rs, and an embedding library host.  A public call of *)
(* the client is a sequence of HTTP exchanges; each answer is captured in  *)
(* memory and saved to two files before it is judged, and the process may  *)
(* stop before any of these steps.                                         *)
(*                                                                         *)
(* A session is what its tokens allow: `token` (session token, with scnt,  *)
(* session id and country), `trust` (trust token), `url` (Find My service  *)
(* URL, with dsid and name), `terms` (terms to accept), `trustedAt`.  The  *)
(* server is external and answers anything.                                *)
(***************************************************************************)
EXTENDS Naturals

CONSTANTS Hosts,        \* the programs that may own a client
          Stores,       \* how a session may be kept: "disk", "memory"
          LibraryOps    \* the calls a stateless host makes, one per client

Commands == {"login", "status", "devices", "sound", "logout", "validate",
             "credentials", "refresh", "untrust", "terms"}

Ops == {"authenticate", "refresh", "validate", "credentials", "request",
        "verify", "key", "terms", "restore", "locate", "action", "untrust",
        "clear"}
ASSUME AppleSessionAssumption ==
  /\ Hosts \subseteq Commands \cup {"daemon", "library"}
  /\ Stores \subseteq {"disk", "memory"}
  /\ LibraryOps \subseteq Ops

VARIABLES
  store,                \* SessionPersistence, chosen by the host
  host,                 \* the running program, or "down"
  password,             \* a password is known to the client
  mem, cookie,          \* ICloudClient.session and the trust cookie of its jar
  account, challenge,   \* ICloudClient.account and .challenge are Some
  saved,                \* session.json and cookies.json, or the host's archive
  op, at,               \* the call in progress or last made, and its next exchange
  reply,                \* the answer being handled
  saving,               \* how far persist() has come
  status,               \* what the last call returned, or is about to
  sent,                 \* requests of this call that read or change devices
  dropped               \* the tokens were dropped and none was received since

calls  == <<op, at, reply, saving, status, sent>>
client == <<mem, cookie, account, challenge, password>>
vars   == <<store, host, client, saved, calls, dropped>>

Requests == {"init", "complete", "tokenLogin", "login", "validate", "details",
             "request", "code", "options", "assert", "trust", "getTerms",
             "repair", "refresh1", "refresh2", "action"}
Statuses == {"none", "authenticated", "twofactor", "terms", "ok",
             "credentials", "failed"}
Succeeded == {"authenticated", "twofactor", "terms", "ok"}

Tokens  == {"none", "mine", "other"}
Session == [token : Tokens, trust : BOOLEAN, url : BOOLEAN,
            terms : BOOLEAN, trustedAt : BOOLEAN]
Cookies == {"none", "fresh", "near", "expired"}
EmptySession == [token |-> "none", trust |-> FALSE, url |-> FALSE,
                 terms |-> FALSE, trustedAt |-> FALSE]
Nothing == [owner |-> "mine", session |-> EmptySession, cookie |-> "none"]
AlienArchive ==
  [owner   |-> "other", cookie |-> "fresh",
   session |-> [EmptySession EXCEPT !.token = "other", !.trust = TRUE, !.url = TRUE]]

-----------------------------------------------------------------------------
(* What the session remembers.                                             *)

HasSessionToken == mem.token # "none"

ClearAuthentication(s) == [EmptySession EXCEPT !.trustedAt = s.trustedAt]

\* trust_cookie_status: a cookie at most 45 days from its expiry, or past it.
ReauthenticationRecommended == cookie \in {"near", "expired"}

\* save writes expired cookies too, load drops them (an archive keeps them).
LoadedCookie(c) == IF store = "disk" /\ c = "expired" THEN "none" ELSE c

\* capture_session_headers: any answer may carry tokens, which replace those
\* there are, whatever its status; the jar takes the cookie.
Gains == [token : BOOLEAN, trust : BOOLEAN, cookie : BOOLEAN]
\* A bug: a header that is missing empties its field.
CaptureEmpties(g) ==
  /\ mem' = [mem EXCEPT !.token = IF g.token THEN "mine" ELSE "",
                        !.trust = @ \/ g.trust]
  /\ cookie' = IF g.cookie THEN "fresh" ELSE cookie
  /\ dropped' = (dropped /\ ~g.token)

Capture(g) ==
  /\ mem' = [mem EXCEPT !.token = IF g.token THEN "mine" ELSE @,
                        !.trust = @ \/ g.trust]
  /\ cookie' = IF g.cookie THEN "fresh" ELSE cookie
  /\ dropped' = (dropped /\ ~g.token)

\* persist(): two renames on disk, nothing in memory.
Persist == saving' = IF store = "disk" THEN "state" ELSE "no"

-----------------------------------------------------------------------------
(* The answers: the failures and the login data the code tells apart.     *)

LoginRequests == {"tokenLogin", "login", "validate"}
LoginData == {"terms", "locked", "two", "in", "inNoUrl"}
Failures == {"expired", "error", "lost"}

\* authentication_expired is asked of three requests only.
Answers(r) ==
  {"error"} \cup (IF r \in LoginRequests THEN LoginData ELSE {"ok"})
            \cup (IF r \in {"tokenLogin", "refresh1", "action"} THEN {"expired"} ELSE {})

-----------------------------------------------------------------------------
(* Ends and continuations of a call.                                       *)

End(s)  == at' = "idle" /\ reply' = "none" /\ saving' = "no" /\ status' = s
Goto(r) == at' = r /\ reply' = "none" /\ saving' = "no" /\ UNCHANGED status

\* authenticate_with_password, up to its first exchange.
SignIn == IF password THEN Goto("init") ELSE End("credentials")

\* authenticate_at: a saved token is tried first, unless its trust cookie is
\* about to expire and there is a password to renew it.
Authenticate ==
  IF HasSessionToken /\ ~(password /\ ReauthenticationRecommended)
    THEN Goto("tokenLogin") ELSE SignIn

\* finish_account_login asks for challenge details after a password or a
\* validation, not after a saved token or a verification.
FetchDetails ==
  \/ at = "validate"
  \/ at = "login" /\ op \in {"authenticate", "refresh", "locate"}

SaveThen(step, s) ==
  at' = step /\ reply' = "none" /\ Persist /\ status' = s

-----------------------------------------------------------------------------
(* A call starts: what the program that owns the client may call next.     *)

First == op = "none"
After(o, s) == op = o /\ status = s
Retry(o) == First \/ (After(o, "credentials") /\ password)

LoginMay(o) ==
  \/ o = "authenticate"       /\ Retry("authenticate")
  \/ o \in {"request", "key"} /\ After("authenticate", "twofactor")
  \/ o = "verify"             /\ After("request", "ok")

\* A bug: the sound command takes a challenge for a sign-in.
MayUnchecked(o) ==
  \/ host = "sound" /\ o = "authenticate" /\ First
  \/ host = "sound" /\ o = "action" /\ op = "authenticate" /\ status \in Succeeded
  \/ host = "login" /\ o = "authenticate" /\ First

May(o) ==
  \/ host = "library" /\ o \in LibraryOps /\ Retry(o)
  \/ host = "daemon"  /\ o = "locate"
  \/ host = "login"   /\ LoginMay(o)
  \/ host \in {"status", "devices", "sound"} /\ o = "authenticate" /\ First
  \/ host = "devices" /\ o = "locate" /\ After("authenticate", "authenticated")
  \/ host = "sound"   /\ o = "action" /\ After("authenticate", "authenticated")
  \/ host = "credentials" /\ o = "credentials" /\ Retry("credentials")
  \/ host = "logout"  /\ o = "clear" /\ First
  \/ host \in {"validate", "refresh", "untrust", "terms"} /\ o = host /\ First

Starting(o) ==
  /\ host # "down" /\ at = "idle" /\ May(o)
  /\ op' = o /\ sent' = [refresh |-> 0, action |-> 0]
  /\ UNCHANGED <<store, host, saved, password>>

StartCall(o, first) ==
  /\ Starting(o)
  /\ first
  /\ UNCHANGED <<mem, cookie, account, challenge, dropped>>

Validate == IF HasSessionToken THEN Goto("validate") ELSE End("failed")

BeginAuthenticate    == StartCall("authenticate", Authenticate)
RefreshSession       == StartCall("refresh", IF password THEN SignIn ELSE Validate)
ValidateSession      == StartCall("validate", Validate)
ValidateCredentials  == StartCall("credentials", SignIn)

RequestVerificationCode     == StartCall("request", Goto("request"))
VerifyVerificationCode      == StartCall("verify", Goto("code"))
AuthenticateWithSecurityKey == StartCall("key", Goto("options"))
AcceptTerms                 == StartCall("terms", Goto("getTerms"))

LocateDevices    == StartCall("locate", IF mem.url THEN Goto("refresh1") ELSE Authenticate)
SendFindMyAction == StartCall("action", IF mem.url THEN Goto("action") ELSE End("failed"))

\* restore_trusted_session: whatever account the snapshot is of, and without a
\* session token as well, if it has a trust token.
RestoreTrustedSession ==
  \E snapshot \in [token : Tokens, trust : BOOLEAN, url : BOOLEAN] :
    /\ Starting("restore")
    /\ IF snapshot.trust
         THEN /\ mem' = [mem EXCEPT !.token = snapshot.token, !.trust = TRUE,
                                    !.url = snapshot.url]
              /\ dropped' = (dropped /\ snapshot.token = "none")
              /\ SaveThen("login", "none")
         ELSE End("failed") /\ UNCHANGED <<mem, dropped>>
    /\ UNCHANGED <<cookie, account, challenge>>

\* A bug: the cleared session is not saved.
UntrustUnsaved ==
  /\ Starting("untrust")
  /\ mem' = ClearAuthentication(mem) /\ cookie' = "none"
  /\ account' = FALSE /\ challenge' = FALSE
  /\ Goto("return")
  /\ UNCHANGED dropped

UntrustSession ==
  /\ Starting("untrust")
  /\ mem' = ClearAuthentication(mem) /\ cookie' = "none"
  /\ account' = FALSE /\ challenge' = FALSE
  /\ SaveThen("return", "ok")
  /\ UNCHANGED dropped

ClearSession ==
  /\ Starting("clear")
  /\ at' = "cleared" /\ reply' = "none" /\ UNCHANGED status
  /\ saving' = IF store = "disk" THEN "remove" ELSE "no"
  /\ UNCHANGED <<mem, cookie, account, challenge, dropped>>

-----------------------------------------------------------------------------
(* One exchange.  send_json captures the headers, reads the body and saves *)
(* before it judges the status; a connection that fails loses the answer,  *)
(* and one that fails in the body loses it after the capture.              *)

Counted(r) ==
  IF r \in {"refresh1", "refresh2"} /\ sent.refresh < 3
    THEN [sent EXCEPT !.refresh = @ + 1]
  ELSE IF r = "action" /\ sent.action < 3 THEN [sent EXCEPT !.action = @ + 1]
  ELSE sent

Exchange ==
  /\ at \in Requests /\ saving = "no" /\ reply = "none"
  /\ sent' = Counted(at)
  /\ \E g \in Gains :
       /\ Capture(g)
       /\ \/ \E a \in Answers(at) : reply' = a /\ Persist
          \/ reply' = "lost" /\ saving' = "no"
  /\ UNCHANGED <<store, host, account, challenge, password, saved, op, at, status>>

Judging == reply # "none" /\ saving = "no" /\ at \in Requests
Judged  == UNCHANGED <<store, host, password, saved, op, sent>>

\* An expired saved token is dropped, on disk as well, before the sign-in.
DropExpired ==
  /\ Judging /\ at = "tokenLogin" /\ reply = "expired"
  /\ mem' = ClearAuthentication(mem)
  /\ SaveThen("signIn", status)
  /\ Judged /\ UNCHANGED <<cookie, account, challenge, dropped>>

SignInAfterDrop ==
  /\ at = "signIn" /\ saving = "no"
  /\ SignIn
  /\ dropped' = TRUE
  /\ Judged /\ UNCHANGED <<mem, cookie, account, challenge>>

\* A bug: an action is replayed like a read.
RecoverAnything ==
  /\ Judging /\ reply = "expired"
  /\ \/ at = "refresh1" /\ Authenticate
     \/ at = "action" /\ Goto("action")
  /\ Judged /\ UNCHANGED <<mem, cookie, account, challenge, dropped>>

\* locate_devices: an expired read signs in, once, and is sent again.
RecoverRead ==
  /\ Judging /\ at = "refresh1" /\ reply = "expired"
  /\ Authenticate
  /\ Judged /\ UNCHANGED <<mem, cookie, account, challenge, dropped>>

Fail ==
  /\ Judging /\ reply \in Failures /\ at # "details"
  /\ ~(reply = "expired" /\ at \in {"tokenLogin", "refresh1"})
  /\ End("failed")
  /\ Judged /\ UNCHANGED <<mem, cookie, account, challenge, dropped>>

\* The assertion of the security key may fail between its two exchanges.
NextRequest ==
  [init |-> "complete", code |-> "trust", options |-> "assert", assert |-> "trust",
   trust |-> "login", getTerms |-> "repair", repair |-> "login"]

Advance ==
  /\ Judging /\ reply = "ok"
  /\ \/ at \in DOMAIN NextRequest /\ Goto(NextRequest[at])
     \/ at = "options" /\ End("failed")
     \/ at = "complete" /\ IF op = "credentials" THEN End("ok") ELSE Goto("login")
     \/ at \in {"request", "refresh1", "refresh2", "action"} /\ End("ok")
  /\ Judged /\ UNCHANGED <<mem, cookie, account, challenge, dropped>>

-----------------------------------------------------------------------------
(* finish_account_login, and what each call does with its answer.          *)

FinishLogin ==
  /\ Judging /\ reply \in LoginData
  /\ \/ /\ reply = "terms"
        /\ mem' = [mem EXCEPT !.terms = TRUE]
        /\ SaveThen("return", "terms")
     \/ /\ reply = "locked"
        /\ End("failed") /\ UNCHANGED mem
     \/ /\ reply \in {"two", "in", "inNoUrl"}
        /\ \E url \in BOOLEAN :
             /\ url = (reply = "in") \/ reply = "two"
             /\ mem' = [mem EXCEPT !.url = @ \/ url]
        /\ Persist /\ UNCHANGED status
        /\ IF reply = "two" /\ FetchDetails
             THEN at' = "details" /\ reply' = "none"
             ELSE at' = "conclude" /\ UNCHANGED reply
  /\ Judged /\ UNCHANGED <<cookie, account, challenge, dropped>>

\* Two-factor: the challenge is saved with whatever details are known, and
\* stands once it is saved.
Challenge ==
  /\ saving = "no" /\ reply # "none"
  /\ at = "details" \/ (at = "conclude" /\ reply = "two")
  /\ SaveThen("return", "twofactor")
  /\ Judged /\ UNCHANGED <<mem, cookie, account, challenge, dropped>>

\* A bug: the accepted terms are cleared in memory only.
LoggedInUnsaved ==
  /\ at = "conclude" /\ saving = "no" /\ reply \in {"in", "inNoUrl"}
  /\ IF mem.url
       THEN /\ account' = TRUE /\ challenge' = FALSE
            /\ mem' = [mem EXCEPT !.terms = FALSE]
            /\ at' = "return" /\ reply' = "none" /\ status' = "authenticated"
            /\ UNCHANGED saving
       ELSE End("failed") /\ UNCHANGED <<mem, account, challenge>>
  /\ Judged /\ UNCHANGED <<cookie, dropped>>

LoggedIn ==
  /\ at = "conclude" /\ saving = "no" /\ reply \in {"in", "inNoUrl"}
  /\ IF mem.url
       THEN /\ account' = TRUE /\ challenge' = FALSE
            /\ mem' = [mem EXCEPT !.terms = FALSE]
            /\ SaveThen("return", "authenticated")
       ELSE End("failed") /\ UNCHANGED <<mem, account, challenge>>
  /\ Judged /\ UNCHANGED <<cookie, dropped>>

TrustRecorded ==
  \/ op = "key"
  \/ op = "verify" /\ status # "twofactor"

\* A bug: the read starts over after each sign-in.
ReturnToFirst ==
  /\ at = "return" /\ saving = "no"
  /\ IF op = "locate" /\ status = "authenticated"
       THEN Goto("refresh1") ELSE End(status)
  /\ challenge' = (challenge \/ status = "twofactor")
  /\ UNCHANGED <<mem, dropped>>
  /\ Judged /\ UNCHANGED <<cookie, account>>

Return ==
  /\ at = "return" /\ saving = "no"
  /\ IF TrustRecorded
       THEN mem' = [mem EXCEPT !.trustedAt = TRUE] /\ SaveThen("trusted", status)
       ELSE /\ UNCHANGED mem
            /\ CASE op = "verify" -> End("failed")
                 [] op = "terms" /\ status = "terms" -> End("failed")
                 [] op = "locate" -> IF status = "authenticated"
                                       THEN Goto("refresh2") ELSE End("failed")
                 [] OTHER -> End(status)
  /\ challenge' = (challenge \/ status = "twofactor")
  /\ dropped' = (dropped \/ op = "untrust")
  /\ Judged /\ UNCHANGED <<cookie, account>>

ReturnTrusted ==
  /\ at = "trusted" /\ saving = "no"
  /\ End(status)
  /\ Judged /\ UNCHANGED <<mem, cookie, account, challenge, dropped>>

ReturnCleared ==
  /\ at = "cleared" /\ saving = "no"
  /\ mem' = EmptySession /\ cookie' = "none"
  /\ account' = FALSE /\ challenge' = FALSE /\ dropped' = TRUE
  /\ End("ok")
  /\ Judged

-----------------------------------------------------------------------------
(* The two files.  Each is written beside its target and renamed.          *)

SaveState ==
  /\ saving = "state"
  /\ saved' = [saved EXCEPT !.session = mem] /\ saving' = "cookies"
  /\ UNCHANGED <<store, host, client, op, at, reply, status, sent, dropped>>

SaveCookies ==
  /\ saving = "cookies"
  /\ saved' = [saved EXCEPT !.cookie = cookie] /\ saving' = "no"
  /\ UNCHANGED <<store, host, client, op, at, reply, status, sent, dropped>>

\* remove_dir_all takes the files in any order.
RemoveFile ==
  /\ saving = "remove"
  /\ \/ saved.session # EmptySession /\ saved' = [saved EXCEPT !.session = EmptySession]
     \/ saved.cookie # "none" /\ saved' = [saved EXCEPT !.cookie = "none"]
  /\ UNCHANGED <<store, host, client, calls, dropped>>

Removed ==
  /\ saving = "remove" /\ saved = Nothing /\ saving' = "no"
  /\ UNCHANGED <<store, host, client, saved, op, at, reply, status, sent, dropped>>

\* An error of the file system ends the call, except that an error of the
\* challenge-details request is ignored with the request.
SaveFails ==
  /\ saving # "no"
  /\ IF at = "details" /\ reply # "none"
       THEN reply' = "error" /\ saving' = "no" /\ UNCHANGED <<at, status>>
       ELSE End("failed")
  /\ UNCHANGED <<store, host, client, saved, op, sent, dropped>>

-----------------------------------------------------------------------------
(* The process.                                                            *)

\* build(): a client starts from what was saved, if it is of its account, or
\* (in memory) from nothing.
Build(h) ==
  /\ host = "down" /\ host' = h
  /\ (store = "memory") = (h = "library")
  /\ password' \in BOOLEAN
  /\ \/ /\ saved.owner = "mine"
        /\ mem' = saved.session /\ cookie' = LoadedCookie(saved.cookie)
        /\ dropped' = (dropped /\ store = "disk")
     \/ /\ store = "memory"
        /\ mem' = EmptySession /\ cookie' = "none" /\ UNCHANGED dropped
  /\ UNCHANGED <<store, account, challenge, saved, calls>>

\* The login and credentials commands (and a library host) ask for a password when one is needed.
SetPassword ==
  /\ at = "idle" /\ ~password
  /\ host \in {"login", "credentials", "library"} /\ status = "credentials"
  /\ password' = TRUE
  /\ UNCHANGED <<store, host, mem, cookie, account, challenge, saved, calls, dropped>>

\* export_portable_session after an operation whose state must survive: the
\* host keeps the archive.
Export ==
  /\ host = "library" /\ at = "idle" /\ status \in Succeeded
  /\ saved' = [owner |-> "mine", session |-> mem, cookie |-> cookie]
  /\ UNCHANGED <<store, host, client, calls, dropped>>

\* The process ends, in the middle of a call or after it.
Stop ==
  /\ host # "down" /\ host' = "down"
  /\ mem' = EmptySession /\ cookie' = "none" /\ password' = FALSE
  /\ account' = FALSE /\ challenge' = FALSE
  /\ op' = "none" /\ sent' = [refresh |-> 0, action |-> 0] /\ End("none")
  /\ UNCHANGED <<store, saved, dropped>>

\* Time passes for every copy of the trust cookie alike.
Older(c) == CASE c = "fresh" -> "near" [] c = "near" -> "expired" [] OTHER -> c
Age ==
  /\ at = "idle"
  /\ cookie' = Older(cookie) /\ saved' = [saved EXCEPT !.cookie = Older(@)]
  /\ UNCHANGED <<store, host, mem, account, challenge, password, calls, dropped>>

-----------------------------------------------------------------------------
Init ==
  /\ store \in Stores
  /\ saved \in {Nothing} \cup {a \in {AlienArchive} : store = "memory"}
  /\ host = "down" /\ password = FALSE
  /\ mem = EmptySession /\ cookie = "none"
  /\ account = FALSE /\ challenge = FALSE /\ dropped = FALSE
  /\ op = "none" /\ at = "idle" /\ reply = "none" /\ saving = "no"
  /\ status = "none" /\ sent = [refresh |-> 0, action |-> 0]

Begin == \/ BeginAuthenticate \/ RefreshSession \/ ValidateSession \/ ValidateCredentials
         \/ RequestVerificationCode \/ VerifyVerificationCode
         \/ AuthenticateWithSecurityKey \/ AcceptTerms
         \/ LocateDevices \/ SendFindMyAction
         \/ RestoreTrustedSession \/ UntrustSession \/ ClearSession

Judge == \/ DropExpired \/ SignInAfterDrop \/ RecoverRead \/ Fail \/ Advance
         \/ FinishLogin \/ Challenge \/ LoggedIn
         \/ Return \/ ReturnTrusted \/ ReturnCleared

Save == SaveState \/ SaveCookies \/ RemoveFile \/ Removed \/ SaveFails

Next == \/ Begin \/ Exchange \/ Judge \/ Save
        \/ \E h \in Hosts : Build(h)
        \/ SetPassword \/ Export \/ Stop \/ Age

\* The HTTP client has a timeout (ClientBuilder.timeout) and file operations
\* return; nothing is assumed of the host or of what Apple answers.
Fairness == WF_vars(Exchange) /\ WF_vars(Judge) /\ WF_vars(Save)

Spec == Init /\ [][Next]_vars /\ Fairness

-----------------------------------------------------------------------------
(* Properties.                                                             *)

\* Type correctness of client.rs' ICloudClient and of the two files.
TypeOK ==
  /\ store \in Stores /\ host \in Hosts \cup {"down"}
  /\ password \in BOOLEAN /\ account \in BOOLEAN /\ challenge \in BOOLEAN
  /\ mem \in Session /\ cookie \in Cookies
  /\ saved \in [owner : {"mine", "other"}, session : Session, cookie : Cookies]
  /\ op \in Ops \cup {"none"}
  /\ at \in Requests \cup {"idle", "signIn", "conclude", "return", "trusted", "cleared"}
  /\ reply \in Failures \cup LoginData \cup {"ok", "none"}
  /\ saving \in {"no", "state", "cookies", "remove"}
  /\ status \in Statuses /\ dropped \in BOOLEAN
  /\ sent \in [refresh : 0..3, action : 0..3]

\* One call sends a read at most twice, the second time signed in, and an
\* action at most once, whatever Apple answers and wherever a save fails
\* (locate_devices, send_find_my_action).
ReadReplayedOnce ==
  /\ sent.refresh <= 2 /\ sent.action <= 1
  /\ at = "refresh2" => account /\ ~challenge /\ mem.url

\* What a successful call reports is what the next process finds: both files
\* agree with memory, and with what was reported (finish_account_login, save).
ReportedIsSaved ==
  at = "idle" /\ status \in Succeeded =>
    /\ store = "disk" => saved = [owner |-> "mine", session |-> mem, cookie |-> cookie]
    /\ status = "authenticated" => account /\ ~challenge /\ mem.url
    /\ status = "twofactor" => challenge

\* Tokens dropped by untrust, reset or expiry stay dropped through crashes and
\* restarts until Apple sends others or a snapshot is restored.
DroppedStaysDropped ==
  dropped => mem.token = "none" /\ (store = "disk" => saved.session.token = "none")

\* A command changes a device only after this process was told that it is
\* signed in (require_authenticated).
SoundAuthenticated ==
  host = "sound" /\ at = "action" => account /\ ~challenge

\* Every call returns, or the process ends, however long Apple keeps
\* refusing (the recovery of a read signs in once).
CallsEnd == at # "idle" ~> at = "idle"

\* "Returns an error for [...] an incomplete account login" (doc comment of
\* authenticate_with_security_key): when it returns without an error, the login
\* after it did not ask for a second factor again.
KeyCompletesLogin == op = "key" /\ at = "idle" => status # "twofactor"

=============================================================================
