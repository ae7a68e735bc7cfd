---- MODULE AuthSession ----
(***************************************************************************)
(* The authenticated session of the wallet application.                    *)
(*                                                                         *)
(* The Rust core keeps the live credentials in an auth store that the HTTP *)
(* client (muon, external) rewrites whenever it refreshes the tokens; the  *)
(* store then spawns a task that calls back into Dart, which saves the     *)
(* session in the secure storage one field at a time.  The Dart side reads *)
(* the same fields back, one at a time, to build or to update the client,  *)
(* and erases them when the user logs out.  Writers, readers and erasers   *)
(* interleave at every await; the process may be killed at any point.      *)
(***************************************************************************)
EXTENDS Naturals, Sequences

CONSTANTS
    Platforms,     \* of "mobile" and "desktop", whose sign-in flows differ
    MaxLogins,     \* bound: server sessions (uids) ever opened
    MaxTokens,     \* bound, for each platform: token generations the server ever issues
    MaxClients,    \* bound: ProtonAPIService objects built in one process
    MaxRestarts,   \* bound: kills of the process
    PatientUser    \* TRUE: nobody signs in while a logout is still running

ASSUME BoundsAssumption ==
    /\ MaxLogins \in Nat /\ MaxTokens \in [Platforms -> Nat]
    /\ MaxClients \in Nat /\ MaxRestarts \in Nat
    /\ Platforms \subseteq {"mobile", "desktop"}
    /\ PatientUser \in BOOLEAN

VARIABLES
    platform,      \* the sign-in flow the build has
    server,        \* server[u]: generation of the tokens session u accepts
    issued,        \* number of token generations issued so far
    logins,        \* number of sessions opened so far
    storage,       \* secure storage: one value per field, 0 when absent
    auth,          \* auth[c]: the credentials in client c's auth store
    answer,        \* answer[c]: server answer that muon has not stored yet
    changed,       \* changed[c]: credentials stored, notification pending
    callback,      \* GLOBAL_SESSION_DART_CALLBACK holds the Dart closure
    initializing,  \* API_CLIENT_INITIALIZING
    savers,        \* spawned callback tasks inside saveSession
    protonApi,     \* PROTON_API: client of the Rust-side calls, 0 for None
    apiService,    \* _apiService of ProtonApiServiceManager, 0 for null
    clients,       \* number of clients built in this process
    writer,        \* progress of UserManager.trySaveUserInfo
    pc,            \* where the Dart main flow is
    caller,        \* who called initalOldApiService
    form,          \* the client SigninViewModel was built with, 0 for none
    pos, got,      \* progress and result of initalOldApiService's reads
    logout,        \* where the logout that nobody awaits is
    restarts,      \* kills so far
    loggedOut,     \* a logout has completed and nothing was started since
    history        \* what has gone wrong so far (observes, never guards)

session == <<server, issued, logins, storage, auth, answer, changed,
          callback, initializing, savers, protonApi, apiService, clients,
          writer, pc, caller, form, pos, got, logout, restarts, loggedOut, history>>
vars == <<platform, session>>

Uids == 1..MaxLogins
Clients == 1..MaxClients

----
(* Credentials: one value per stored field; 0 stands for the empty string. *)
(* userId and scopes are the same for the whole life of a session, so they *)
(* would only repeat what sessionId says and are left out.                 *)

Fields == {"sessionId", "accessToken", "refreshToken"}
Creds == [Fields -> Nat]

\* Auth::None, and a storage that holds nothing.
NoCreds == [f \in Fields |-> 0]

\* The credentials of session u with token generation g.
Session(u, g) == [f \in Fields |-> IF f = "sessionId" THEN u ELSE g]

\* The order of the awaits in saveSession and trySaveUserInfo, which is also
\* the order of the reads in initalOldApiService.
FieldOrder == <<"sessionId", "accessToken", "refreshToken">>

\* A task that is saving creds and has come to FieldOrder[pos].
Saver == [creds : Creds, pos : 1..3]
NoWriter == [creds |-> NoCreds, pos |-> 1]
Writing == writer # NoWriter

----
(* What can have gone wrong, recorded as it happens: "raced" two users of  *)
(* the storage overlapped with different contents, or one was cut off;     *)
(* "skipped" a change of the credentials was not reported; "lost" tokens   *)
(* the server issued never reached the client or died with the process;    *)
(* "late" a logout finished with a refresh still on its way.               *)

Mishaps == {"raced", "skipped", "lost", "late"}

\* Somebody other than a task saving c is using the storage.
Contended(c) ==
    \/ \E s \in savers : s.creds # c
    \/ Writing /\ writer.creds # c
    \/ pc = "reading"

Busy == savers # {} \/ Writing
RefreshPending == \E c \in Clients : answer[c] # NoCreds \/ changed[c] # NoCreds

Note(event, happened) == IF happened THEN {event} ELSE {}

\* deleteAll leaves a clean storage unless somebody is writing to it.
AfterErase(h) == IF Busy THEN h \union {"raced"} ELSE h \ {"raced", "skipped", "lost"}

serverVars == <<server, issued, logins>>
clientVars == <<auth, answer, changed, callback, initializing, protonApi, apiService, clients>>
flowVars == <<pc, caller, form, pos, got>>
ghostVars == <<loggedOut, history>>

Init ==
    /\ platform \in Platforms
    /\ server = [u \in Uids |-> 0] /\ issued = 0 /\ logins = 0
    /\ storage = NoCreds
    /\ auth = [c \in Clients |-> NoCreds]
    /\ answer = [c \in Clients |-> NoCreds]
    /\ changed = [c \in Clients |-> NoCreds]
    /\ callback = FALSE /\ initializing = FALSE
    /\ savers = {} /\ writer = NoWriter
    /\ protonApi = 0 /\ apiService = 0 /\ clients = 0
    /\ pc = "start" /\ caller = "boot" /\ form = 0 /\ pos = 1 /\ got = NoCreds
    /\ logout = "idle" /\ restarts = 0
    /\ loggedOut = FALSE /\ history = {}

----
(* Faulty variants: what a plausible slip in the code would turn the      *)
(* definition named beside it into.  The specification never uses them.   *)

UidChanged(previous, updated) ==                           \* SessionChanged
    updated # NoCreds /\ previous["sessionId"] # updated["sessionId"]
SaverNeverDone(s) ==                                       \* SaverAfter
    IF s.pos <= 3 THEN {[s EXCEPT !.pos = s.pos + 1]} ELSE {}
LoginNotAwaited == TRUE                                    \* LoginSaved
AuthKept == auth                                           \* AuthAfterLogout
ProtonApiKept == protonApi                                 \* ProtonApiAfterLogout

----
(* Rust: muon and the auth store of client c. *)

\* auth_session_changed; the caller never passes Auth::None as the update.
SessionChanged(previous, updated) ==
    /\ updated # NoCreds
    /\ previous # updated

\* A request of client c is refused and muon refreshes: the server rotates
\* the tokens if the refresh token it is given is its latest one.
Refresh(c) ==
    /\ issued < MaxTokens[platform]
    /\ answer[c] = NoCreds /\ changed[c] = NoCreds
    /\ auth[c]["sessionId"] \in Uids
    /\ auth[c]["refreshToken"] = server[auth[c]["sessionId"]]
    /\ issued' = issued + 1
    /\ server' = [server EXCEPT ![auth[c]["sessionId"]] = issued + 1]
    /\ answer' = [answer EXCEPT ![c] =
           [auth[c] EXCEPT !["accessToken"] = issued + 1, !["refreshToken"] = issued + 1]]
    /\ UNCHANGED <<logins, storage, auth, changed, callback, initializing,
                   savers, protonApi, apiService, clients, writer, flowVars, logout,
                   restarts, ghostVars>>

\* The answer is lost on the way: the server has rotated, the client has not.
RefreshLost(c) ==
    /\ answer[c] # NoCreds
    /\ ~(pc = "signing" /\ c = form)
    /\ answer' = [answer EXCEPT ![c] = NoCreds]
    /\ history' = history \union {"lost"}
    /\ UNCHANGED <<serverVars, storage, auth, changed, callback, initializing,
                   savers, protonApi, apiService, clients, writer, flowVars, logout,
                   restarts, loggedOut>>

\* CallbackWalletAuthStore::set_auth up to its first suspension: store the
\* answer and compare it with what was there.
SetAuth(c) ==
    /\ answer[c] # NoCreds
    /\ auth' = [auth EXCEPT ![c] = answer[c]]
    /\ answer' = [answer EXCEPT ![c] = NoCreds]
    /\ changed' = [changed EXCEPT ![c] =
           IF SessionChanged(auth[c], answer[c]) THEN answer[c] ELSE NoCreds]
    /\ UNCHANGED <<serverVars, storage, callback, initializing, savers,
                   protonApi, apiService, clients, writer, flowVars, logout, restarts,
                   ghostVars>>

\* notify_auth_session_changed and refresh_auth_credential: unless a client
\* is being built, spawn a task that hands the session to the callback.
Notify(c) ==
    /\ changed[c] # NoCreds
    /\ changed' = [changed EXCEPT ![c] = NoCreds]
    /\ IF initializing \/ ~callback
       THEN /\ history' = history \union {"skipped"}
            /\ UNCHANGED savers
       ELSE /\ savers' = savers \union {[creds |-> changed[c], pos |-> 1]}
            /\ history' = (IF c = apiService THEN history \ {"skipped"} ELSE history)
                              \union Note("raced", Contended(changed[c]))
    /\ UNCHANGED <<serverVars, storage, auth, answer, callback, initializing,
                   protonApi, apiService, clients, writer, flowVars, logout, restarts,
                   loggedOut>>

SaverAfter(s) == IF s.pos < 3 THEN {[s EXCEPT !.pos = s.pos + 1]} ELSE {}

\* One await of ProtonApiServiceManager.saveSession.
SaveField(s) ==
    /\ storage' = [storage EXCEPT ![FieldOrder[s.pos]] = s.creds[FieldOrder[s.pos]]]
    /\ savers' = (savers \ {s}) \union SaverAfter(s)
    /\ UNCHANGED <<serverVars, clientVars, writer, flowVars, logout, restarts,
                   ghostVars>>

----
(* Dart: starting, signing in, building the client. *)

\* initalOldApiService is called by the start of the application ("boot"),
\* by the login after the native screens ("native") or after the sign-in
\* form ("form"), and before that form is shown ("signin").
Callers == {"boot", "native", "form", "signin"}

\* The screen it leads to, and the one a failure leaves the user on: the
\* start of the application fails with no screen at all, the form shows the
\* error, and the welcome screen stays.
Screen(c) == IF c = "signin" THEN "signin" ELSE "home"
OnFailure(c) == CASE c = "boot" -> "stuck"
                  [] c = "form" -> "signin"
                  [] OTHER -> "welcome"

GoReadStorage(c) ==
    /\ pc' = "reading" /\ caller' = c /\ pos' = 1 /\ got' = NoCreds
    /\ UNCHANGED form

Goto(label) ==
    /\ pc' = label
    /\ UNCHANGED <<caller, form, pos, got>>

\* AppViewModelImpl.loadData: ProtonApiServiceManager.init registers the
\* callback, then sessionExists decides between home and welcome.
AppStart ==
    /\ pc = "start"
    /\ callback' = TRUE
    /\ IF storage["sessionId"] # 0 THEN GoReadStorage("boot") ELSE Goto("welcome")
    /\ UNCHANGED <<serverVars, storage, auth, answer, changed, initializing, savers,
                   protonApi, apiService, clients, writer, logout, restarts, ghostVars>>

MaySignIn == pc = "welcome" /\ (PatientUser => logout = "idle")

\* The server opens a session for the user who signs in.
OpenSession ==
    /\ logins < MaxLogins /\ issued < MaxTokens[platform]
    /\ logins' = logins + 1
    /\ issued' = issued + 1
    /\ server' = [server EXCEPT ![logins + 1] = issued + 1]

\* Mobile: the native screens hand over a session and WelcomeViewModel
\* awaits UserManager.nativeLogin, which starts trySaveUserInfo.
NativeLogin ==
    /\ platform = "mobile" /\ MaySignIn
    /\ OpenSession
    /\ writer' = [creds |-> Session(logins + 1, issued + 1), pos |-> 1]
    /\ history' = history \union
           Note("raced", Contended(Session(logins + 1, issued + 1)) \/ Writing)
    /\ loggedOut' = FALSE
    /\ Goto("saving")
    /\ UNCHANGED <<storage, clientVars, savers, logout, restarts>>

\* One await of UserManager.trySaveUserInfo (fields no session flow reads
\* are left out).
WriteField ==
    /\ Writing
    /\ storage' = [storage EXCEPT ![FieldOrder[writer.pos]] =
                                      writer.creds[FieldOrder[writer.pos]]]
    /\ writer' = IF writer.pos = 3 THEN NoWriter
                 ELSE [writer EXCEPT !.pos = writer.pos + 1]
    /\ UNCHANGED <<serverVars, clientVars, savers, flowVars, logout, restarts,
                   ghostVars>>

\* WelcomeViewModel awaits nativeLogin, which awaits trySaveUserInfo.
LoginSaved == ~Writing

\* nativeLogin is done: ManagerFactory.login reaches initalOldApiService.
NativeLoginSaved ==
    /\ pc = "saving" /\ LoginSaved
    /\ GoReadStorage("native")
    /\ history' = history \union Note("raced", savers # {})
    /\ UNCHANGED <<serverVars, storage, clientVars, savers, writer, logout,
                   restarts, loggedOut>>

\* Desktop: WelcomeViewModel builds the client before it shows the form.
OpenSigninForm ==
    /\ platform = "desktop" /\ MaySignIn
    /\ GoReadStorage("signin")
    /\ history' = history \union Note("raced", Busy)
    /\ loggedOut' = FALSE
    /\ UNCHANGED <<serverVars, storage, clientVars, savers, writer, logout,
                   restarts>>

\* SigninViewModel.signIn: the client logs in and muon gets a new session.
SignIn ==
    /\ pc = "signin" /\ form # 0
    /\ answer[form] = NoCreds /\ changed[form] = NoCreds
    /\ OpenSession
    /\ answer' = [answer EXCEPT ![form] = Session(logins + 1, issued + 1)]
    /\ Goto("signing")
    /\ UNCHANGED <<storage, auth, changed, callback, initializing, savers,
                   protonApi, apiService, clients, writer, logout, restarts, ghostVars>>

\* The login call failed, before or after muon stored the new session; a
\* refresh of that session may go unanswered with it.
SignInFailed ==
    /\ pc = "signing"
    /\ answer' = [answer EXCEPT ![form] = NoCreds]
    /\ Goto("signin")
    /\ history' = history \union Note("lost", answer[form] # NoCreds
                            /\ answer[form]["sessionId"] = auth[form]["sessionId"])
    /\ UNCHANGED <<serverVars, storage, auth, changed, callback, initializing, savers,
                   protonApi, apiService, clients, writer, logout, restarts, loggedOut>>

\* The login call returned; flutterLogin starts trySaveUserInfo without
\* awaiting it while ManagerFactory.login reads the same fields.
SignedIn ==
    /\ pc = "signing"
    /\ answer[form] = NoCreds /\ changed[form] = NoCreds
    /\ writer' = [creds |-> auth[form], pos |-> 1]
    /\ GoReadStorage("form")
    /\ history' = history \union {"raced"}
    /\ UNCHANGED <<serverVars, storage, clientVars, savers, logout, restarts,
                   loggedOut>>

\* One await of the reads of initalOldApiService.
ReadField ==
    /\ pc = "reading"
    /\ got' = [got EXCEPT ![FieldOrder[pos]] = storage[FieldOrder[pos]]]
    /\ IF pos < 3 THEN pos' = pos + 1 /\ pc' = pc
                  ELSE pos' = 1 /\ pc' = "install"
    /\ UNCHANGED <<serverVars, storage, clientVars, savers, writer, caller, form, logout,
                   restarts, ghostVars>>

\* The client exists: ProtonAPIService::update_auth replaces its credentials.
UpdateAuth ==
    /\ pc = "install" /\ apiService # 0
    /\ auth' = [auth EXCEPT ![apiService] = got]
    /\ pc' = "publish" /\ got' = NoCreds /\ UNCHANGED <<caller, form, pos>>
    /\ UNCHANGED <<serverVars, storage, answer, changed, callback, initializing,
                   savers, protonApi, apiService, clients, writer, logout, restarts,
                   ghostVars>>

\* There is none: from_session, set_auth_dart_callback, and
\* ProtonAPIService::new up to its network calls.
CreateClient ==
    /\ pc = "install" /\ apiService = 0 /\ clients < MaxClients
    /\ clients' = clients + 1
    /\ auth' = [auth EXCEPT ![clients + 1] = got]
    /\ callback' = TRUE
    /\ initializing' = TRUE
    /\ pc' = "connecting" /\ got' = NoCreds /\ UNCHANGED <<caller, form, pos>>
    /\ UNCHANGED <<serverVars, storage, answer, changed, savers, protonApi,
                   apiService, writer, logout, restarts, ghostVars>>

\* from_config_async succeeded: the guard clears the flag on return.
ClientReady ==
    /\ pc = "connecting"
    /\ initializing' = FALSE
    /\ apiService' = clients
    /\ Goto("publish")
    /\ UNCHANGED <<serverVars, storage, auth, answer, changed, callback, savers,
                   protonApi, clients, writer, logout, restarts, ghostVars>>

\* It failed: the guard clears the flag, the error ends the login, and the
\* store that was built for this client is dropped.
ClientFailed ==
    /\ pc = "connecting"
    /\ initializing' = FALSE
    /\ auth' = [auth EXCEPT ![clients] = NoCreds]
    /\ answer' = [answer EXCEPT ![clients] = NoCreds]
    /\ changed' = [changed EXCEPT ![clients] = NoCreds]
    /\ history' = history \union Note("lost", answer[clients] # NoCreds \/ changed[clients] # NoCreds)
    /\ Goto(OnFailure(caller))
    /\ UNCHANGED <<serverVars, storage, callback, savers, protonApi, apiService,
                   clients, writer, logout, restarts, loggedOut>>

\* _apiService?.setProtonApi(); the sign-in form is then built with the client.
SetProtonApi ==
    /\ pc = "publish"
    /\ protonApi' = IF apiService # 0 THEN apiService ELSE protonApi
    /\ pc' = Screen(caller)
    /\ form' = IF caller = "signin" THEN apiService ELSE 0
    /\ UNCHANGED <<caller, pos, got>>
    /\ UNCHANGED <<serverVars, storage, auth, answer, changed, callback,
                   initializing, savers, apiService, clients, writer, logout, restarts,
                   ghostVars>>

----
(* Logging out, and the end of the process. *)

\* HomeViewModel.logout: UserManager.logout erases the storage first.
EraseAtHome ==
    /\ pc = "home"
    /\ storage' = NoCreds
    /\ history' = AfterErase(history)
    /\ Goto("leaving")
    /\ UNCHANGED <<serverVars, clientVars, savers, writer, logout, restarts,
                   loggedOut>>

\* HomeCoordinator.logout calls ManagerFactory.logout without awaiting it
\* and shows the welcome screen.
LeaveHome ==
    /\ pc = "leaving"
    /\ logout' = "storage"
    /\ Goto("welcome")
    /\ UNCHANGED <<serverVars, storage, clientVars, savers, writer, restarts,
                   ghostVars>>

\* SecureStorageManager.logout, the first manager in registration order.
LogoutStorage ==
    /\ logout = "storage"
    /\ storage' = NoCreds
    /\ history' = AfterErase(history)
    /\ logout' = "api"
    /\ UNCHANGED <<serverVars, clientVars, savers, writer, flowVars, restarts,
                   loggedOut>>

AuthAfterLogout == [c \in Clients |-> IF c = apiService THEN NoCreds ELSE auth[c]]
ProtonApiAfterLogout == IF apiService # 0 THEN 0 ELSE protonApi

\* ProtonApiServiceManager.logout: ProtonAPIService::logout, if there is one.
LogoutApi ==
    /\ logout = "api"
    /\ auth' = AuthAfterLogout
    /\ protonApi' = ProtonApiAfterLogout
    /\ logout' = "drop"
    /\ history' = history \union Note("late", RefreshPending)
    /\ UNCHANGED <<serverVars, storage, answer, changed, callback, initializing,
                   savers, apiService, clients, writer, flowVars, restarts, loggedOut>>

\* ... and then `_apiService = null`.
LogoutDropClient ==
    /\ logout = "drop"
    /\ apiService' = 0
    /\ logout' = "user"
    /\ UNCHANGED <<serverVars, storage, auth, answer, changed, callback,
                   initializing, savers, protonApi, clients, writer, flowVars, restarts,
                   ghostVars>>

\* UserManager.logout erases the storage a last time.
LogoutUser ==
    /\ logout = "user"
    /\ storage' = NoCreds
    /\ logout' = "idle"
    /\ loggedOut' = (pc = "welcome")
    /\ history' = AfterErase(history) \union Note("late", Busy \/ RefreshPending)
    /\ UNCHANGED <<serverVars, clientVars, savers, writer, flowVars, restarts>>

\* The process is killed and started again: only the storage and the server
\* survive.
Restart ==
    /\ restarts < MaxRestarts
    /\ restarts' = restarts + 1
    /\ auth' = [c \in Clients |-> NoCreds]
    /\ answer' = [c \in Clients |-> NoCreds]
    /\ changed' = [c \in Clients |-> NoCreds]
    /\ callback' = FALSE /\ initializing' = FALSE
    /\ savers' = {} /\ writer' = NoWriter
    /\ protonApi' = 0 /\ apiService' = 0 /\ clients' = 0
    /\ pc' = "start" /\ caller' = "boot" /\ form' = 0 /\ pos' = 1 /\ got' = NoCreds
    /\ logout' = "idle" /\ loggedOut' = FALSE
    /\ history' = (history \ {"late"})
           \union Note("raced", Busy)
           \union Note("lost", RefreshPending)
    /\ UNCHANGED <<serverVars, storage>>

----
Muon == \E c \in Clients : Refresh(c) \/ RefreshLost(c) \/ SetAuth(c) \/ Notify(c)

Dart ==
    \/ AppStart \/ NativeLogin \/ WriteField \/ NativeLoginSaved
    \/ OpenSigninForm \/ SignIn \/ SignInFailed \/ SignedIn
    \/ ReadField \/ UpdateAuth \/ CreateClient \/ ClientReady \/ ClientFailed \/ SetProtonApi
    \/ EraseAtHome \/ LeaveHome
    \/ LogoutStorage \/ LogoutApi \/ LogoutDropClient \/ LogoutUser
    \/ \E s \in savers : SaveField(s)

Next == (Muon \/ Dart \/ Restart) /\ UNCHANGED platform

Spec == Init /\ [][Next]_vars

\* Answers that arrived are stored, spawned tasks and awaited calls run to
\* their end; users, refreshes, losses and kills are never forced.
Fairness ==
    /\ \A c \in Clients : WF_session(SetAuth(c)) /\ WF_session(Notify(c))
    /\ WF_session(\E s \in savers : SaveField(s))
    /\ WF_session(WriteField) /\ WF_session(NativeLoginSaved) /\ WF_session(SignedIn)
    /\ WF_session(ReadField) /\ WF_session(UpdateAuth) /\ WF_session(ClientReady)
    /\ WF_session(SetProtonApi)

FairSpec == Spec /\ Fairness

----
Labels == {"start", "welcome", "saving", "signin", "signing", "reading", "install",
           "connecting", "publish", "home", "leaving", "stuck"}

ServerOK == server \in [Uids -> Nat] /\ issued \in Nat /\ logins \in 0..MaxLogins
StorageOK == storage \in Creds /\ savers \subseteq Saver /\ writer \in Saver
StoresOK ==
    auth \in [Clients -> Creds] /\ answer \in [Clients -> Creds] /\ changed \in [Clients -> Creds]
HandlesOK ==
    /\ callback \in BOOLEAN /\ initializing \in BOOLEAN
    /\ protonApi \in 0..MaxClients /\ apiService \in 0..MaxClients
    /\ clients \in 0..MaxClients
FlowOK ==
    /\ pc \in Labels /\ caller \in Callers /\ pos \in 1..3 /\ got \in Creds
    /\ form \in 0..MaxClients /\ (pc = "signing" => form # 0)
EndOK ==
    /\ logout \in {"idle", "storage", "api", "drop", "user"}
    /\ restarts \in Nat /\ loggedOut \in BOOLEAN /\ history \subseteq Mishaps

StateOK == ServerOK /\ StorageOK /\ StoresOK /\ HandlesOK /\ FlowOK /\ EndOK

TypeOK == platform \in Platforms /\ StateOK

\* The client the application uses and the client the Rust entry points use
\* are the same: PROTON_API never outlives a logout or a failed start.
OneClient ==
    /\ protonApi # 0 => protonApi = apiService
    /\ pc \in {"home", "signin", "signing"} => protonApi # 0

\* Once a logout has completed, no live client and no stored field holds a
\* session until somebody signs in, unless a refresh was on its way.
LogoutLeavesNothing ==
    (loggedOut /\ "late" \notin history) =>
        storage = NoCreds /\ \A c \in Clients : auth[c] = NoCreds

\* initalOldApiService hands one session, whole, to the client at a login,
\* unless two users of the storage overlapped or one was cut off.
LoginReadsWholeSession ==
    (pc = "install" /\ caller # "signin" /\ "raced" \notin history) =>
        \E u \in Uids, g \in 1..MaxTokens[platform] : got = Session(u, g)

\* No refresh is forgotten: the credentials of the live client are stored,
\* being saved, or about to be reported.
NoLostRefresh ==
    (pc = "home" /\ history \intersect {"raced", "skipped", "late"} = {}) =>
        \/ storage = auth[apiService]
        \/ changed[apiService] # NoCreds
        \/ \E s \in savers : s.creds = auth[apiService]

\* The storage catches up with the server again and again while a user is
\* logged in and nothing went wrong, so that a kill costs no session.
StoredTokensCatchUp ==
    []<>(pc = "home" /\ history = {} =>
            storage["refreshToken"] = server[storage["sessionId"]])

----
(* What the comments of the code promise and the code does not keep. *)

\* api.service.manager.dart: logout "is global clean up in rust layer" and
\* resets "the AuthStore session".
LogoutIsGlobalCleanUp ==
    loggedOut => storage = NoCreds /\ \A c \in Clients : auth[c] = NoCreds

\* api.service.manager.dart and user.manager.dart: the save and the reads of
\* the session "in parallel make sure await each other".
SaveAndReadAwaitEachOther ==
    (pc = "install" /\ caller # "signin") =>
        \E u \in Uids, g \in 1..MaxTokens[platform] : got = Session(u, g)
====
