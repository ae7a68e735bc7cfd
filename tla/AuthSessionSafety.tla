---- MODULE AuthSessionSafety ----
(***************************************************************************)
(* The safety of AuthSession, proved for every number of logins, tokens,   *)
(* clients and restarts, as long as nobody signs in while a logout is      *)
(* still running: what a logout leaves, what a login reads, and that no    *)
(* refresh is forgotten, unless a mishap that the history records happened.*)
(***************************************************************************)
EXTENDS AuthSessionProofs

\* The credentials of the sessions the server opens, at every generation.
Sessions == {Session(u, g) : u \in Uids, g \in 1..MaxTokens[platform]}

\* Nothing in the store of client c, and nothing on its way there.
Empty(c) == auth[c] = NoCreds /\ answer[c] = NoCreds /\ changed[c] = NoCreds

\* The client the application has, or is building, until a logout resets it.
Live(c) ==
    /\ c = clients /\ (apiService # 0 \/ pc = "connecting")
    /\ logout \notin {"drop", "user"}

\* What the server answers is a session, and so is what is reported and saved.
AnswersInv ==
    /\ \A c \in Clients :
        /\ answer[c] \in Sessions \union {NoCreds} /\ changed[c] \in Sessions \union {NoCreds}
        /\ answer[c] # NoCreds => changed[c] = NoCreds
    /\ \A s \in savers : s.creds \in Sessions

\* The client is built last, and there is none before a login or after a logout.
BuiltInv ==
    /\ apiService \in {0, clients}
    /\ pc = "welcome" /\ logout = "idle" => apiService = 0
    /\ pc \in {"start", "saving"} => apiService = 0
    /\ pc \in {"reading", "install"} /\ caller # "form" => apiService = 0
    /\ logout = "user" => apiService = 0
    /\ pc \in {"signin", "signing"} => form = apiService
    /\ initializing <=> pc = "connecting"

\* A new process has nothing under way.
StartInv ==
    pc = "start" =>
        savers = {} /\ ~Writing /\ logout = "idle" /\ \A c \in Clients : Empty(c)

\* Only the live client has credentials, unless a refresh outlived a logout.
LiveInv ==
    "late" \notin history => \A c \in Clients : ~Live(c) => Empty(c)

\* A logout that has completed left nobody who could still write.
QuietInv ==
    loggedOut /\ "late" \notin history =>
        /\ savers = {} /\ ~Writing /\ storage = NoCreds
        /\ pc = "welcome" /\ logout = "idle"

\* The fields that a task saving s has come past are its own.
SavedPart(s) == \A i \in 1..3 : i < s.pos => storage[FieldOrder[i]] = s.creds[FieldOrder[i]]

\* All who write to the storage write the same, and once nobody writes it holds
\* one whole session or nothing.
StorageInv ==
    "raced" \notin history =>
        /\ \A s \in savers : SavedPart(s) /\ \A t \in savers : t.creds = s.creds
        /\ Writing =>
            /\ SavedPart(writer) /\ writer.creds \in Sessions /\ pc = "saving"
            /\ \A s \in savers : s.creds = writer.creds
        /\ ~Busy =>
            /\ storage \in Sessions \union {NoCreds}
            /\ pc = "saving" => storage \in Sessions

\* Nobody writes while the session is read.
ReadInv ==
    "raced" \notin history =>
        /\ pc \in {"reading", "install"} => caller # "form"
        /\ pc = "reading" =>
            /\ ~Busy /\ \A i \in 1..3 : i < pos => got[FieldOrder[i]] = storage[FieldOrder[i]]
            /\ caller # "signin" => storage \in Sessions
        /\ pc = "install" =>
            /\ caller # "signin" => got \in Sessions
            /\ "late" \notin history => ~Busy /\ got = storage

InUse == {"connecting", "publish", "home"}

\* What the live client has is stored, being saved or about to be reported.
KeptInv ==
    pc \in InUse /\ history \intersect {"raced", "late"} = {} =>
        /\ changed[clients] \in {NoCreds, auth[clients]}
        /\ "skipped" \notin history /\ changed[clients] = NoCreds =>
            /\ \A s \in savers : s.creds = auth[clients]
            /\ savers = {} => storage = auth[clients]

IInv ==
    /\ TypeOK /\ ClientInv /\ AnswersInv /\ BuiltInv /\ StartInv /\ LiveInv /\ QuietInv
    /\ StorageInv /\ ReadInv /\ KeptInv

----
\* What a session is, and what it is not.
LEMMA SessionFacts ==
    ASSUME TypeOK
    PROVE  /\ NoCreds \notin Sessions
           /\ \A c \in Sessions : c \in Creds /\ c["sessionId"] \in Uids /\ c # NoCreds
           /\ NoCreds["sessionId"] \notin Uids
<1>1. ASSUME NEW u \in Uids, NEW g \in 1..MaxTokens[platform]
      PROVE  Session(u, g) \in Creds /\ Session(u, g)["sessionId"] = u
  BY BoundsAssumption DEF Session, Creds, Fields, Uids
<1>2. NoCreds["sessionId"] = 0 /\ 0 \notin Uids
  BY BoundsAssumption DEF NoCreds, Fields, Uids
<1>3. ASSUME NEW c \in Sessions
      PROVE  c \in Creds /\ c["sessionId"] \in Uids
  <2>1. PICK u \in Uids, g \in 1..MaxTokens[platform] : c = Session(u, g)
    BY DEF Sessions
  <2> QED
    BY <1>1, <2>1
<1> QED
  BY <1>2, <1>3

\* The tokens of the next generation make a session of the same user.
LEMMA NextSession ==
    ASSUME TypeOK, issued < MaxTokens[platform], NEW u \in Uids
    PROVE  /\ Session(u, issued + 1) \in Sessions
           /\ \A c \in Creds : c["sessionId"] = u =>
                [c EXCEPT !["accessToken"] = issued + 1, !["refreshToken"] = issued + 1]
                    = Session(u, issued + 1)
<1>1. issued \in Nat /\ MaxTokens[platform] \in Nat
  BY BoundsAssumption DEF TypeOK, StateOK, ServerOK
<1>2. issued + 1 \in 1..MaxTokens[platform]
  BY <1>1
<1>3. ASSUME NEW c \in Creds, c["sessionId"] = u
      PROVE  [c EXCEPT !["accessToken"] = issued + 1, !["refreshToken"] = issued + 1]
                = Session(u, issued + 1)
  BY <1>3 DEF Creds, Session, Fields
<1> QED
  BY <1>2, <1>3 DEF Sessions

\* The platform never changes, so neither do the sessions there can be.
LEMMA SessionsStay ==
    ASSUME [Next]_vars
    PROVE  Sessions' = Sessions /\ platform' = platform
  BY DEF Next, vars, Sessions

\* A mishap is only forgotten when the storage is erased, and a late refresh
\* when the process ends.
LEMMA HistoryKept ==
    ASSUME [Next]_vars
    PROVE  /\ ~EraseAtHome /\ ~LogoutStorage /\ ~LogoutUser =>
                ("raced" \in history => "raced" \in history')
           /\ ~Restart => ("late" \in history => "late" \in history')
<1>1. CASE Muon
  BY <1>1 DEF Muon, Refresh, RefreshLost, SetAuth, Notify, ghostVars
<1>2. CASE AppStart \/ NativeLogin \/ WriteField \/ NativeLoginSaved \/ OpenSigninForm
           \/ SignIn \/ SignInFailed \/ SignedIn
  BY <1>2 DEF AppStart, NativeLogin, WriteField, NativeLoginSaved, OpenSigninForm, SignIn,
     SignInFailed, SignedIn, ghostVars
<1>3. CASE ReadField \/ UpdateAuth \/ CreateClient \/ ClientReady \/ ClientFailed
           \/ SetProtonApi \/ LeaveHome \/ \E s \in savers : SaveField(s)
  BY <1>3 DEF ReadField, UpdateAuth, CreateClient, ClientReady, ClientFailed, SetProtonApi,
     LeaveHome, SaveField, ghostVars
<1>4. CASE EraseAtHome \/ LogoutStorage \/ LogoutUser
  BY <1>4 DEF EraseAtHome, LogoutStorage, LogoutUser, AfterErase
<1>5. CASE LogoutApi \/ LogoutDropClient
  BY <1>5 DEF LogoutApi, LogoutDropClient, ghostVars
<1>6. CASE Restart
  BY <1>6 DEF Restart
<1>7. CASE UNCHANGED vars
  BY <1>7 DEF vars, session
<1> QED
  BY <1>1, <1>2, <1>3, <1>4, <1>5, <1>6, <1>7 DEF Next, Dart

\* Erasing the storage while nobody writes to it.
LEMMA CleanErase ==
    ASSUME PatientUser = TRUE, ClientInv, EraseAtHome \/ LogoutStorage \/ LogoutUser,
           "raced" \notin history'
    PROVE  /\ ~Busy /\ savers' = savers /\ writer' = writer /\ storage' = NoCreds
           /\ pc' \in {"leaving", "welcome"}
<1>1. CASE EraseAtHome
  BY <1>1 DEF EraseAtHome, AfterErase, Goto
<1>2. CASE LogoutStorage
  BY <1>2 DEF LogoutStorage, AfterErase, flowVars, ClientInv
<1>3. CASE LogoutUser
  BY <1>3 DEF LogoutUser, AfterErase, flowVars, ClientInv
<1> QED
  BY <1>1, <1>2, <1>3

\* The stores are not touched by what only Dart does.
LEMMA StoresFrame ==
    ASSUME [Next]_vars, ~Muon, ~SignIn, ~SignInFailed, ~UpdateAuth, ~CreateClient,
           ~ClientFailed, ~LogoutApi, ~Restart
    PROVE  UNCHANGED <<auth, answer, changed>>
  BY DEF Next, Dart, AppStart, NativeLogin, WriteField, NativeLoginSaved, OpenSigninForm,
     SignedIn, ReadField, ClientReady, SetProtonApi, EraseAtHome, LeaveHome, LogoutStorage,
     LogoutDropClient, LogoutUser, SaveField, clientVars, vars, session

\* Only a notification starts a saver.
LEMMA SaversFrame ==
    ASSUME [Next]_vars, \A c \in Clients : ~Notify(c), \A s \in savers : ~SaveField(s), ~Restart
    PROVE  savers' = savers
  BY DEF Next, Muon, Dart, Refresh, RefreshLost, SetAuth, AppStart, NativeLogin, WriteField,
     NativeLoginSaved, OpenSigninForm, SignIn, SignInFailed, SignedIn, ReadField, UpdateAuth,
     CreateClient, ClientReady, ClientFailed, SetProtonApi, EraseAtHome, LeaveHome,
     LogoutStorage, LogoutApi, LogoutDropClient, LogoutUser, vars, session

\* A saver goes on with the credentials it was given.
LEMMA SaverGoesOn ==
    ASSUME NEW s \in savers, SaveField(s), StateOK
    PROVE  \A t \in savers' : \/ t \in savers
                              \/ t.creds = s.creds /\ t.pos = s.pos + 1 /\ s.pos < 3
<1>1. s \in Saver
  BY DEF StateOK, StorageOK
<1> QED
  BY <1>1 DEF SaveField, SaverAfter, Saver

\* The server answers with sessions, and a client reports one at a time.
LEMMA AnswersStep ==
    ASSUME IInv, [Next]_vars
    PROVE  AnswersInv'
<1>0. /\ TypeOK /\ AnswersInv /\ StateOK /\ Sessions' = Sessions
      /\ \A c \in Clients : auth[c] \in Creds
      /\ auth \in [Clients -> Creds] /\ answer \in [Clients -> Creds]
      /\ changed \in [Clients -> Creds]
  BY SessionsStay DEF IInv, TypeOK, StateOK, StoresOK
<1>1. ASSUME NEW c \in Clients, Refresh(c)
      PROVE  AnswersInv'
  <2>1. answer' = [answer EXCEPT ![c] = answer'[c]] /\ answer'[c] \in Sessions
    BY <1>0, <1>1, NextSession DEF Refresh
  <2> QED
    BY <1>0, <1>1, <2>1 DEF Refresh, AnswersInv
<1>2. ASSUME NEW c \in Clients, RefreshLost(c)
      PROVE  AnswersInv'
  BY <1>0, <1>2 DEF RefreshLost, AnswersInv
<1>3. ASSUME NEW c \in Clients, SetAuth(c)
      PROVE  AnswersInv'
  BY <1>0, <1>3 DEF SetAuth, AnswersInv
<1>4. ASSUME NEW c \in Clients, Notify(c)
      PROVE  AnswersInv'
  <2>1. \A s \in savers' : s \in savers \/ s.creds = changed[c]
    BY <1>4 DEF Notify
  <2> QED
    BY <1>0, <1>4, <2>1 DEF Notify, AnswersInv
<1>5. CASE SignIn
  <2>1. form \in Clients
    BY <1>0, <1>5 DEF SignIn, StateOK, FlowOK, Clients
  <2>2. Session(logins + 1, issued + 1) \in Sessions
    <3>1. logins + 1 \in Uids /\ issued < MaxTokens[platform]
      BY <1>0, <1>5, BoundsAssumption DEF SignIn, OpenSession, StateOK, ServerOK, Uids
    <3> QED
      BY <1>0, <3>1, NextSession
  <2> QED
    BY <1>0, <1>5, <2>1, <2>2 DEF SignIn, AnswersInv
<1>6. CASE SignInFailed \/ UpdateAuth \/ CreateClient \/ ClientFailed \/ LogoutApi
  <2>1. savers' = savers
    BY <1>6 DEF SignInFailed, UpdateAuth, CreateClient, ClientFailed, LogoutApi
  <2>2. \A c \in Clients : answer'[c] \in {answer[c], NoCreds} /\ changed'[c] \in {changed[c], NoCreds}
    BY <1>0, <1>6 DEF SignInFailed, UpdateAuth, CreateClient, ClientFailed, LogoutApi
  <2> QED
    BY <1>0, <2>1, <2>2 DEF AnswersInv
<1>7. CASE Restart
  BY <1>7 DEF Restart, AnswersInv
<1>8. ASSUME NEW s \in savers, SaveField(s)
      PROVE  AnswersInv'
  BY <1>0, <1>8, SaverGoesOn DEF SaveField, clientVars, AnswersInv
<1>9. CASE UNCHANGED <<answer, changed, savers>>
  BY <1>0, <1>9 DEF AnswersInv
<1> QED
  BY <1>1, <1>2, <1>3, <1>4, <1>5, <1>6, <1>7, <1>8, <1>9, StoresFrame, SaversFrame DEF Muon

\* Who has a client, and where the flow of Dart may be with one.
LEMMA BuiltStep ==
    ASSUME PatientUser = TRUE, IInv, [Next]_vars
    PROVE  BuiltInv'
<1>0. /\ BuiltInv /\ ClientInv /\ HandlesOK /\ initializing \in BOOLEAN
      /\ logout # "idle" => pc = "welcome"
  BY DEF IInv, TypeOK, StateOK, HandlesOK, ClientInv
<1>1. CASE AppStart \/ NativeLogin \/ NativeLoginSaved \/ OpenSigninForm \/ SignIn
           \/ SignInFailed \/ SignedIn
  <2>1. UNCHANGED <<apiService, clients, logout, initializing>>
    BY <1>1 DEF AppStart, NativeLogin, NativeLoginSaved, OpenSigninForm, SignIn,
       SignInFailed, SignedIn, clientVars
  <2>2. CASE AppStart
    BY <1>0, <2>1, <2>2 DEF AppStart, GoReadStorage, Goto, BuiltInv
  <2>3. CASE NativeLogin \/ NativeLoginSaved \/ OpenSigninForm
    BY PatientUser = TRUE, <1>0, <2>1, <2>3 DEF NativeLogin, NativeLoginSaved, OpenSigninForm,
       MaySignIn, GoReadStorage, Goto, BuiltInv
  <2>4. CASE SignIn \/ SignInFailed \/ SignedIn
    BY <1>0, <2>1, <2>4 DEF SignIn, SignInFailed, SignedIn, GoReadStorage, Goto, BuiltInv
  <2> QED
    BY <1>1, <2>2, <2>3, <2>4
<1>2. CASE ReadField \/ UpdateAuth
  <2>1. UNCHANGED <<apiService, clients, logout, initializing, caller, form>>
    BY <1>2 DEF ReadField, UpdateAuth, clientVars
  <2>2. \/ pc = "reading" /\ pc' \in {"reading", "install"}
        \/ pc = "install" /\ pc' = "publish"
    BY <1>2 DEF ReadField, UpdateAuth
  <2> QED
    BY <1>0, <2>1, <2>2 DEF BuiltInv
<1>3. CASE CreateClient
  BY <1>0, <1>3 DEF CreateClient, BuiltInv
<1>4. CASE ClientReady
  BY <1>0, <1>4 DEF ClientReady, Goto, BuiltInv, ClientInv
<1>5. CASE ClientFailed
  <2>1. pc' \in {"stuck", "welcome"} /\ UNCHANGED <<apiService, clients, logout, form>>
    BY <1>0, <1>5 DEF ClientFailed, Goto, OnFailure, ClientInv
  <2>2. apiService = 0 /\ initializing' = FALSE
    BY <1>0, <1>5 DEF ClientFailed, ClientInv
  <2> QED
    BY <1>0, <2>1, <2>2 DEF BuiltInv
<1>6. CASE SetProtonApi
  <2>1. UNCHANGED <<apiService, clients, logout, initializing>> /\ pc = "publish"
    BY <1>6 DEF SetProtonApi
  <2>2. caller = "signin" => pc' = "signin" /\ form' = apiService
    BY <1>6 DEF SetProtonApi, Screen
  <2>3. caller # "signin" => pc' = "home"
    BY <1>6 DEF SetProtonApi, Screen
  <2> QED
    BY <1>0, <2>1, <2>2, <2>3 DEF BuiltInv
<1>7. CASE EraseAtHome \/ LeaveHome
  BY <1>0, <1>7 DEF EraseAtHome, LeaveHome, clientVars, Goto, BuiltInv
<1>8. CASE LogoutDropClient \/ LogoutUser
  BY <1>0, <1>8 DEF LogoutDropClient, LogoutUser, clientVars, flowVars, BuiltInv
<1>9. CASE LogoutStorage \/ LogoutApi
  BY <1>0, <1>9 DEF LogoutStorage, LogoutApi, clientVars, flowVars, BuiltInv
<1>10. CASE Restart
  BY <1>0, <1>10 DEF Restart, BuiltInv
<1>11. CASE UNCHANGED <<apiService, clients, logout, initializing, pc, caller, form>>
  BY <1>0, <1>11 DEF BuiltInv
<1>12. CASE Muon
  BY <1>11, <1>12 DEF Muon, Refresh, RefreshLost, SetAuth, Notify, flowVars
<1>13. CASE WriteField \/ \E s \in savers : SaveField(s)
  BY <1>11, <1>13 DEF WriteField, SaveField, clientVars, flowVars
<1> QED
  BY <1>1, <1>2, <1>3, <1>4, <1>5, <1>6, <1>7, <1>8, <1>9, <1>10, <1>11, <1>12, <1>13
     DEF Next, Dart, vars, session

\* Only a client with a session refreshes, and only one with an answer or a
\* change goes on, so an empty store stays empty.
LEMMA EmptyStays ==
    ASSUME TypeOK, NEW c \in Clients, Empty(c)
    PROVE  ~Refresh(c) /\ ~RefreshLost(c) /\ ~SetAuth(c) /\ ~Notify(c)
  BY SessionFacts DEF Empty, Refresh, RefreshLost, SetAuth, Notify

\* Nothing happens in a new process before the application starts.
LEMMA StartStep ==
    ASSUME PatientUser = TRUE, IInv, [Next]_vars
    PROVE  StartInv'
<1>1. CASE Restart
  BY <1>1, SessionFacts DEF Restart, StartInv, Writing, Empty, IInv
<1>2. ASSUME ~Restart, pc' = "start"
      PROVE  pc = "start" /\ UNCHANGED vars
  <2>1. pc = "start"
    BY <1>2 DEF Next, Muon, Dart, Refresh, RefreshLost, SetAuth, Notify, AppStart, NativeLogin,
       WriteField, NativeLoginSaved, OpenSigninForm, SignIn, SignInFailed, SignedIn, ReadField,
       UpdateAuth, CreateClient, ClientReady, ClientFailed, SetProtonApi, EraseAtHome, LeaveHome,
       LogoutStorage, LogoutApi, LogoutDropClient, LogoutUser, SaveField, GoReadStorage, Goto,
       Screen, OnFailure, flowVars, vars, session
  <2>2. ~Muon
    BY <2>1, EmptyStays DEF Muon, StartInv, IInv
  <2>3. ~Dart
    BY <1>2, <2>1 DEF IInv, StartInv, Dart, AppStart, NativeLogin, WriteField, NativeLoginSaved,
       OpenSigninForm, SignIn, SignInFailed, SignedIn, ReadField, UpdateAuth, CreateClient,
       ClientReady, ClientFailed, SetProtonApi, EraseAtHome, LeaveHome, LogoutStorage,
       LogoutApi, LogoutDropClient, LogoutUser, GoReadStorage, Goto, MaySignIn
  <2> QED
    BY <1>2, <2>1, <2>2, <2>3 DEF Next
<1>3. CASE UNCHANGED vars
  BY <1>3 DEF IInv, StartInv, vars, session, Writing, Empty
<1> QED
  BY <1>1, <1>2, <1>3 DEF StartInv

\* Every other client is empty, if no refresh outlived a logout.
LEMMA LiveStep ==
    ASSUME PatientUser = TRUE, IInv, [Next]_vars
    PROVE  LiveInv'
<1>0. /\ TypeOK /\ ClientInv /\ BuiltInv /\ LiveInv /\ clients \in Nat /\ form \in Nat
      /\ auth \in [Clients -> Creds] /\ answer \in [Clients -> Creds]
      /\ changed \in [Clients -> Creds]
      /\ logout # "idle" => pc = "welcome"
  BY BoundsAssumption DEF IInv, TypeOK, StateOK, StoresOK, HandlesOK, FlowOK, ClientInv
<1>1. CASE Restart
  BY <1>1 DEF Restart, LiveInv, Empty
<1>2. CASE "late" \in history'
  BY <1>2 DEF LiveInv
<1>3. SUFFICES ASSUME ~Restart, "late" \notin history', NEW c \in Clients, ~Live(c)'
               PROVE  Empty(c)'
  BY <1>1, <1>2 DEF LiveInv
<1>4. "late" \notin history /\ (~Live(c) => Empty(c))
  BY <1>0, <1>3, HistoryKept DEF LiveInv
<1>5. CASE ~Live(c) /\ UNCHANGED <<auth[c], answer[c], changed[c]>>
  BY <1>4, <1>5 DEF Empty
<1>6. ASSUME NEW d \in Clients, Refresh(d) \/ RefreshLost(d) \/ SetAuth(d) \/ Notify(d)
      PROVE  Empty(c)'
  <2>1. UNCHANGED <<clients, apiService, logout, pc>>
    BY <1>6 DEF Refresh, RefreshLost, SetAuth, Notify, flowVars
  <2>2. ~Live(c) /\ Empty(c) /\ c # d
    BY <1>0, <1>3, <1>4, <1>6, <2>1, EmptyStays DEF Live
  <2>3. auth'[c] = auth[c] /\ answer'[c] = answer[c] /\ changed'[c] = changed[c]
    BY <1>0, <1>6, <2>2 DEF Refresh, RefreshLost, SetAuth, Notify
  <2> QED
    BY <2>2, <2>3 DEF Empty
<1>7. CASE SignIn
  <2>1. form = clients /\ form \in Clients
    BY <1>0, <1>7 DEF SignIn, BuiltInv, ClientInv, TypeOK, StateOK, FlowOK, Clients
  <2>2. ~Live(c) /\ c # clients
    BY <1>0, <1>3, <1>7, <2>1 DEF SignIn, Live, Goto, BuiltInv
  <2>3. auth'[c] = auth[c] /\ answer'[c] = answer[c] /\ changed'[c] = changed[c]
    BY <1>0, <1>7, <2>1, <2>2 DEF SignIn
  <2> QED
    BY <1>4, <2>2, <2>3 DEF Empty
<1>8. CASE SignInFailed
  <2>1. ~Live(c)
    BY <1>3, <1>8 DEF SignInFailed, Live, Goto
  <2>2. auth' = auth /\ changed' = changed /\ answer'[c] \in {answer[c], NoCreds}
    BY <1>0, <1>8 DEF SignInFailed
  <2> QED
    BY <1>4, <2>1, <2>2 DEF Empty
<1>9. CASE UpdateAuth
  <2>1. ~Live(c) /\ c # apiService
    BY <1>0, <1>3, <1>9 DEF UpdateAuth, Live, BuiltInv
  <2>2. auth'[c] = auth[c] /\ answer' = answer /\ changed' = changed
    BY <1>0, <1>9, <2>1 DEF UpdateAuth
  <2> QED
    BY <1>4, <2>1, <2>2 DEF Empty
<1>10. CASE CreateClient
  <2>1. ~Live(c) /\ c # clients + 1
    BY <1>0, <1>3, <1>10 DEF CreateClient, Live
  <2>2. auth'[c] = auth[c] /\ answer' = answer /\ changed' = changed
    BY <1>0, <1>10, <2>1 DEF CreateClient
  <2> QED
    BY <1>4, <2>1, <2>2 DEF Empty
<1>11. CASE ClientFailed
  <2>1. CASE c = clients
    BY <1>0, <1>11, <2>1 DEF ClientFailed, Empty
  <2>2. CASE c # clients
    <3>1. Empty(c)
      BY <1>4, <2>2 DEF Live
    <3> QED
      BY <1>0, <1>11, <2>2, <3>1 DEF ClientFailed, Empty
  <2> QED
    BY <2>1, <2>2
<1>12. CASE LogoutApi
  <2>1. answer[c] = NoCreds /\ changed[c] = NoCreds
    BY <1>3, <1>12 DEF LogoutApi, Note, RefreshPending
  <2>2. auth'[c] = NoCreds
    <3>1. auth'[c] = IF c = apiService THEN NoCreds ELSE auth[c]
      BY <1>12 DEF LogoutApi, AuthAfterLogout
    <3>2. c # apiService => ~Live(c)
      BY <1>0, <1>12 DEF LogoutApi, Live, BuiltInv
    <3> QED
      BY <1>4, <3>1, <3>2 DEF Empty
  <2> QED
    BY <1>12, <2>1, <2>2 DEF LogoutApi, Empty
<1>13. CASE LogoutDropClient \/ LogoutUser
  <2>1. ~Live(c)
    BY <1>13 DEF LogoutDropClient, LogoutUser, Live
  <2> QED
    BY <1>4, <1>13, <2>1 DEF LogoutDropClient, LogoutUser, clientVars, Empty
<1>14. CASE LogoutStorage \/ LeaveHome
  <2>1. ~Live(c)
    BY <1>3, <1>14 DEF LogoutStorage, LeaveHome, Live, clientVars, flowVars, Goto
  <2> QED
    BY <1>4, <1>14, <2>1 DEF LogoutStorage, LeaveHome, clientVars, Empty
<1>15. CASE ClientReady
  <2>1. ~Live(c)
    BY <1>0, <1>3, <1>15 DEF ClientReady, Goto, Live, ClientInv, Clients
  <2> QED
    BY <1>4, <1>15, <2>1 DEF ClientReady, Empty
<1>16. CASE AppStart \/ NativeLogin \/ WriteField \/ NativeLoginSaved \/ OpenSigninForm
            \/ SignedIn \/ ReadField \/ SetProtonApi \/ EraseAtHome \/ \E s \in savers : SaveField(s)
  <2>1. UNCHANGED <<clients, apiService, logout, auth, answer, changed>>
    BY <1>16 DEF AppStart, NativeLogin, WriteField, NativeLoginSaved, OpenSigninForm, SignedIn,
       ReadField, SetProtonApi, EraseAtHome, SaveField, clientVars
  <2>2. pc = "connecting" => pc' = "connecting"
    BY <1>16 DEF AppStart, NativeLogin, WriteField, NativeLoginSaved, OpenSigninForm, SignedIn,
       ReadField, SetProtonApi, EraseAtHome, SaveField, MaySignIn, flowVars
  <2> QED
    BY <1>3, <1>4, <2>1, <2>2 DEF Live, Empty
<1>17. CASE UNCHANGED vars
  BY <1>3, <1>4, <1>17 DEF vars, session, Live, Empty
<1> QED
  BY <1>3, <1>6, <1>7, <1>8, <1>9, <1>10, <1>11, <1>12, <1>13, <1>14, <1>15, <1>16, <1>17
     DEF Next, Muon, Dart

\* Once a logout has completed, nothing moves until somebody signs in.
LEMMA QuietStep ==
    ASSUME PatientUser = TRUE, IInv, [Next]_vars
    PROVE  QuietInv'
<1>0. /\ TypeOK /\ ClientInv /\ BuiltInv /\ LiveInv /\ QuietInv
      /\ logout # "idle" => pc = "welcome"
  BY DEF IInv, ClientInv
<1>1. CASE LogoutUser
  <2>1. loggedOut' = (pc = "welcome") /\ pc' = pc /\ logout' = "idle" /\ storage' = NoCreds
        /\ savers' = savers /\ writer' = writer
    BY <1>1 DEF LogoutUser, flowVars
  <2>2. Busy => "late" \in history'
    BY <1>1 DEF LogoutUser, Note
  <2> QED
    BY <2>1, <2>2 DEF QuietInv, Busy, Writing
<1>2. CASE Restart
  BY <1>2 DEF Restart, QuietInv
<1>3. CASE NativeLogin \/ OpenSigninForm
  BY <1>3 DEF NativeLogin, OpenSigninForm, QuietInv
<1>4. CASE UNCHANGED vars
  BY <1>0, <1>4 DEF vars, session, QuietInv, Writing
<1>5. CASE ~LogoutUser /\ ~Restart /\ ~NativeLogin /\ ~OpenSigninForm /\ Next
  <2>1. loggedOut' = loggedOut
    BY <1>5 DEF Next, Muon, Dart, Refresh, RefreshLost, SetAuth, Notify, AppStart, WriteField,
       NativeLoginSaved, SignIn, SignInFailed, SignedIn, ReadField, UpdateAuth, CreateClient,
       ClientReady, ClientFailed, SetProtonApi, EraseAtHome, LeaveHome, LogoutStorage,
       LogoutApi, LogoutDropClient, SaveField, ghostVars
  <2>2. SUFFICES ASSUME loggedOut = TRUE, "late" \notin history
                 PROVE  FALSE
    <3>1. CASE "late" \in history
      BY <1>5, <3>1, HistoryKept DEF QuietInv
    <3>2. CASE loggedOut # TRUE
      <4>1. loggedOut = FALSE
        BY <1>0, <3>2 DEF TypeOK, StateOK, EndOK
      <4> QED
        BY <2>1, <4>1 DEF QuietInv
    <3> QED
      BY <2>2, <3>1, <3>2
  <2>3. savers = {} /\ ~Writing /\ pc = "welcome" /\ logout = "idle"
    BY <1>0, <2>2 DEF QuietInv
  <2>4. \A c \in Clients : Empty(c)
    BY <1>0, <2>2, <2>3 DEF LiveInv, Live, BuiltInv
  <2>5. ~Muon
    BY <1>0, <2>4, EmptyStays DEF Muon
  <2>6. ~Dart
    BY <1>5, <2>3 DEF Dart, AppStart, WriteField, NativeLoginSaved, SignIn, SignInFailed,
       SignedIn, ReadField, UpdateAuth, CreateClient, ClientReady, ClientFailed, SetProtonApi,
       EraseAtHome, LeaveHome, LogoutStorage, LogoutApi, LogoutDropClient
  <2> QED
    BY <1>5, <2>5, <2>6 DEF Next
<1> QED
  BY <1>1, <1>2, <1>3, <1>4, <1>5

\* Credentials are known by the three fields that are saved and read.
LEMMA SameCreds ==
    ASSUME NEW c \in Creds, NEW d \in Creds, \A i \in 1..3 : c[FieldOrder[i]] = d[FieldOrder[i]]
    PROVE  c = d
<1>1. c[FieldOrder[1]] = d[FieldOrder[1]] /\ c[FieldOrder[2]] = d[FieldOrder[2]]
      /\ c[FieldOrder[3]] = d[FieldOrder[3]]
  OBVIOUS
<1>2. \A f \in Fields : c[f] = d[f]
  BY <1>1 DEF FieldOrder, Fields
<1> QED
  BY <1>2 DEF Creds

\* Saving field i of credentials d completes the part that was saved before.
LEMMA SavedMore ==
    ASSUME StateOK, NEW d \in Creds, NEW i \in 1..3,
           storage' = [storage EXCEPT ![FieldOrder[i]] = d[FieldOrder[i]]]
    PROVE  /\ storage' \in Creds
           /\ \A j \in 1..3 : j = i \/ storage[FieldOrder[j]] = d[FieldOrder[j]] =>
                storage'[FieldOrder[j]] = d[FieldOrder[j]]
<1>1. storage \in Creds /\ \A j \in 1..3 : FieldOrder[j] \in Fields
  BY FieldFacts DEF StateOK, StorageOK
<1>2. storage' \in Creds
  BY <1>1, FieldValue
<1> QED
  BY <1>1, <1>2 DEF Creds

\* The last await of a save leaves the whole session in the storage.
LEMMA SaverFinishes ==
    ASSUME StateOK, NEW s \in savers, SavedPart(s), SaveField(s), savers' = {}
    PROVE  storage' = s.creds
<1>1. s \in Saver /\ s.creds \in Creds /\ s.pos \in 1..3
  BY DEF StateOK, StorageOK, Saver
<1>2. s.pos < 3 => [s EXCEPT !.pos = s.pos + 1] \in savers'
  BY DEF SaveField, SaverAfter
<1>3. s.pos = 3
  BY <1>1, <1>2
<1>4. /\ storage' \in Creds
      /\ \A j \in 1..3 : j = s.pos \/ storage[FieldOrder[j]] = s.creds[FieldOrder[j]] =>
            storage'[FieldOrder[j]] = s.creds[FieldOrder[j]]
  <2>1. storage' = [storage EXCEPT ![FieldOrder[s.pos]] = s.creds[FieldOrder[s.pos]]]
    BY DEF SaveField
  <2> QED
    BY <1>1, <2>1, SavedMore
<1>5. \A i \in 1..3 : i = 3 \/ i < 3
  OBVIOUS
<1>6. \A i \in 1..3 : storage'[FieldOrder[i]] = s.creds[FieldOrder[i]]
  BY <1>3, <1>4, <1>5 DEF SavedPart
<1> QED
  BY <1>1, <1>4, <1>6, SameCreds

\* All who write to the storage write the same session.
LEMMA StorageStep ==
    ASSUME PatientUser = TRUE, IInv, [Next]_vars
    PROVE  StorageInv'
<1>0. /\ TypeOK /\ StateOK /\ ClientInv /\ AnswersInv /\ StartInv /\ StorageInv
      /\ Sessions' = Sessions /\ savers \subseteq Saver /\ writer \in Saver
  BY SessionsStay DEF IInv, TypeOK, StateOK, StorageOK
<1>1. CASE "raced" \in history'
  BY <1>1 DEF StorageInv
<1>2. CASE EraseAtHome \/ LogoutStorage \/ LogoutUser
  <2>1. SUFFICES ASSUME "raced" \notin history'
                 PROVE  StorageInv'
    BY <1>1
  <2>2. savers' = {} /\ writer' = NoWriter /\ storage' = NoCreds /\ pc' # "saving"
    BY <1>0, <1>2, <2>1, CleanErase DEF Busy, Writing
  <2> QED
    BY <2>2 DEF StorageInv, Writing
<1>3. CASE Restart
  <2>1. savers' = {} /\ writer' = NoWriter /\ storage' = storage /\ pc' = "start"
    BY <1>3 DEF Restart
  <2>2. "raced" \notin history' => "raced" \notin history /\ ~Busy
    BY <1>3 DEF Restart, Note
  <2> QED
    BY <1>0, <2>1, <2>2 DEF StorageInv, Writing
<1>4. SUFFICES ASSUME "raced" \notin history', "raced" \notin history, ~Restart
               PROVE  StorageInv'
  BY <1>1, <1>2, <1>3, HistoryKept
<1>5. ASSUME UNCHANGED <<storage, savers, writer>>, pc' = "saving" <=> pc = "saving"
      PROVE  StorageInv'
  BY <1>0, <1>4, <1>5 DEF StorageInv, SavedPart, Writing, Busy
<1>6. ASSUME NEW c \in Clients, Notify(c)
      PROVE  StorageInv'
  <2>1. UNCHANGED <<storage, writer, pc>>
    BY <1>6 DEF Notify, flowVars
  <2>2. CASE savers' = savers
    BY <1>5, <2>1, <2>2
  <2>3. CASE savers' # savers
    <3>1. /\ savers' = savers \union {[creds |-> changed[c], pos |-> 1]}
          /\ ~Contended(changed[c])
      BY <1>4, <1>6, <2>3 DEF Notify, Note
    <3>2. /\ \A s \in savers' : s.creds = changed[c]
          /\ \A s \in savers' : s \in savers \/ s.pos = 1
          /\ Writing => writer.creds = changed[c]
      BY <3>1 DEF Contended
    <3>3. \A s \in savers' : SavedPart(s)'
      BY <1>0, <1>4, <2>1, <3>2 DEF StorageInv, SavedPart
    <3>4. Busy'
      BY <3>1 DEF Busy
    <3> QED
      BY <1>0, <1>4, <2>1, <3>2, <3>3, <3>4 DEF StorageInv, Writing, SavedPart
  <2> QED
    BY <2>2, <2>3
<1>7. ASSUME NEW s \in savers, SaveField(s)
      PROVE  StorageInv'
  <2>1. UNCHANGED <<writer, pc>> /\ s.creds \in Creds /\ s.pos \in 1..3 /\ s.creds \in Sessions
        /\ storage' = [storage EXCEPT ![FieldOrder[s.pos]] = s.creds[FieldOrder[s.pos]]]
    BY <1>0, <1>7 DEF SaveField, flowVars, Saver, AnswersInv
  <2>2. \A t \in savers : t.creds = s.creds /\ SavedPart(t)
    BY <1>0, <1>4 DEF StorageInv
  <2>3. ASSUME NEW t, t.creds = s.creds, SavedPart(t)
        PROVE  SavedPart(t)'
    BY <1>0, <2>1, <2>3, SavedMore DEF SavedPart
  <2>4. ASSUME NEW t \in savers'
        PROVE  t.creds = s.creds /\ SavedPart(t)'
    <3>1. CASE t \in savers
      BY <2>2, <2>3, <3>1
    <3>2. CASE t.creds = s.creds /\ t.pos = s.pos + 1
      <4>1. ASSUME NEW i \in 1..3, i < t.pos
            PROVE  i = s.pos \/ storage[FieldOrder[i]] = s.creds[FieldOrder[i]]
        <5>1. i = s.pos \/ i < s.pos
          BY <2>1, <3>2, <4>1
        <5> QED
          BY <2>2, <4>1, <5>1 DEF SavedPart
      <4>2. \A j \in 1..3 : j = s.pos \/ storage[FieldOrder[j]] = s.creds[FieldOrder[j]] =>
                storage'[FieldOrder[j]] = s.creds[FieldOrder[j]]
        BY <1>0, <2>1, SavedMore
      <4> QED
        BY <3>2, <4>1, <4>2 DEF SavedPart
    <3> QED
      BY <1>0, <1>7, <3>1, <3>2, SaverGoesOn
  <2>5. Writing' => /\ SavedPart(writer)' /\ writer'.creds = s.creds
                    /\ writer'.creds \in Sessions /\ pc' = "saving"
    BY <1>0, <1>4, <2>1, <2>3 DEF StorageInv, Writing, SavedPart
  <2>6. ~Busy' => storage' \in Sessions
    BY <1>0, <1>7, <2>1, <2>2, SaverFinishes DEF Busy
  <2> QED
    BY <1>0, <2>4, <2>5, <2>6 DEF StorageInv
<1>8. CASE WriteField
  <2>0. Writing /\ writer.creds \in Creds /\ writer.pos \in 1..3
    BY <1>0, <1>8 DEF WriteField, Saver
  <2>1. /\ UNCHANGED <<savers, pc>> /\ SavedPart(writer) /\ writer.creds \in Sessions
        /\ pc = "saving" /\ \A s \in savers : s.creds = writer.creds /\ SavedPart(s)
        /\ storage' = [storage EXCEPT ![FieldOrder[writer.pos]] =
                                          writer.creds[FieldOrder[writer.pos]]]
    BY <1>0, <1>4, <1>8, <2>0 DEF StorageInv, WriteField, flowVars
  <2>2. storage' \in Creds
        /\ \A j \in 1..3 : j = writer.pos \/ storage[FieldOrder[j]] = writer.creds[FieldOrder[j]] =>
              storage'[FieldOrder[j]] = writer.creds[FieldOrder[j]]
    BY <1>0, <2>0, <2>1, SavedMore
  <2>3. \A s \in savers : SavedPart(s)'
    BY <2>1, <2>2 DEF SavedPart
  <2>4. CASE writer.pos = 3
    <3>1. writer' = NoWriter
      BY <1>8, <2>4 DEF WriteField
    <3>2. \A i \in 1..3 : storage'[FieldOrder[i]] = writer.creds[FieldOrder[i]]
      BY <2>1, <2>2, <2>4 DEF SavedPart
    <3>3. storage' = writer.creds
      BY <2>0, <2>2, <3>2, SameCreds
    <3> QED
      BY <1>0, <2>1, <2>3, <3>1, <3>3 DEF StorageInv, Writing, Busy
  <2>5. CASE writer.pos # 3
    <3>1. writer'.creds = writer.creds /\ writer'.pos = writer.pos + 1
      BY <1>0, <1>8, <2>5 DEF WriteField, Saver
    <3>2. Writing'
      BY <2>0, <3>1 DEF Writing, NoWriter
    <3>3. ASSUME NEW i \in 1..3, i < writer'.pos
          PROVE  storage'[FieldOrder[i]] = writer'.creds[FieldOrder[i]]
      <4>1. i = writer.pos \/ i < writer.pos
        BY <2>0, <3>1, <3>3
      <4> QED
        BY <2>1, <2>2, <3>1, <4>1 DEF SavedPart
    <3>4. SavedPart(writer)'
      BY <3>3 DEF SavedPart
    <3> QED
      BY <1>0, <2>1, <2>3, <3>1, <3>2, <3>4 DEF StorageInv, Busy
  <2> QED
    BY <2>4, <2>5
<1>9. CASE NativeLogin
  <2>1. Session(logins + 1, issued + 1) \in Sessions
    <3>1. logins + 1 \in Uids /\ issued < MaxTokens[platform]
      BY <1>0, <1>9, BoundsAssumption DEF NativeLogin, OpenSession, StateOK, ServerOK, Uids
    <3> QED
      BY <1>0, <3>1, NextSession
  <2>2. /\ writer' = [creds |-> Session(logins + 1, issued + 1), pos |-> 1]
        /\ UNCHANGED <<storage, savers>> /\ pc' = "saving"
        /\ \A s \in savers : s.creds = Session(logins + 1, issued + 1)
    BY <1>4, <1>9 DEF NativeLogin, Note, Contended, Goto
  <2>3. /\ Writing' /\ writer'.creds = Session(logins + 1, issued + 1) /\ writer'.pos = 1
        /\ Session(logins + 1, issued + 1) # NoCreds
    BY <1>0, <2>1, <2>2, SessionFacts DEF Writing, NoWriter
  <2>4. Busy' /\ SavedPart(writer)' /\ \A s \in savers : SavedPart(s)'
    BY <1>0, <1>4, <2>2, <2>3 DEF StorageInv, Busy, SavedPart
  <2> QED
    BY <1>0, <2>1, <2>2, <2>3, <2>4 DEF StorageInv
<1>10. CASE NativeLoginSaved \/ OpenSigninForm
  <2>1. ~Writing /\ UNCHANGED <<storage, savers, writer>> /\ pc' = "reading"
    BY <1>0, <1>4, <1>10 DEF NativeLoginSaved, LoginSaved, OpenSigninForm, MaySignIn,
       StorageInv, GoReadStorage
  <2> QED
    BY <1>0, <1>4, <2>1 DEF StorageInv, SavedPart, Writing, Busy
<1>11. CASE SignedIn
  BY <1>4, <1>11 DEF SignedIn
<1>12. CASE Muon
  BY <1>5, <1>6, <1>12 DEF Muon, Refresh, RefreshLost, SetAuth, flowVars
<1>13. CASE AppStart \/ SignIn \/ SignInFailed \/ ReadField \/ UpdateAuth \/ CreateClient
            \/ ClientReady \/ ClientFailed \/ SetProtonApi \/ LeaveHome
  <2>1. UNCHANGED <<storage, savers, writer>> /\ pc # "saving" /\ pc' # "saving"
    BY <1>13 DEF AppStart, SignIn, SignInFailed, ReadField, UpdateAuth, CreateClient, ClientReady,
       ClientFailed, SetProtonApi, LeaveHome, GoReadStorage, Goto, Screen, OnFailure
  <2> QED
    BY <1>5, <2>1
<1>14. CASE LogoutApi \/ LogoutDropClient
  BY <1>5, <1>14 DEF LogoutApi, LogoutDropClient, flowVars
<1>15. CASE UNCHANGED vars
  BY <1>5, <1>15 DEF vars, session
<1> QED
  BY <1>2, <1>4, <1>7, <1>8, <1>9, <1>10, <1>11, <1>12, <1>13, <1>14, <1>15 DEF Next, Dart

\* The flow that reads the session only gets there by the steps named here.
LEMMA ReadsBegin ==
    ASSUME [Next]_vars, pc' \in {"reading", "install"},
           ~AppStart, ~NativeLoginSaved, ~OpenSigninForm, ~SignedIn, ~ReadField
    PROVE  pc' = pc /\ UNCHANGED <<caller, pos, got>>
<1>1. CASE NativeLogin \/ SignIn \/ SignInFailed \/ UpdateAuth \/ CreateClient \/ ClientReady
           \/ ClientFailed \/ SetProtonApi \/ EraseAtHome \/ LeaveHome \/ Restart
  BY <1>1 DEF NativeLogin, SignIn, SignInFailed, UpdateAuth, CreateClient, ClientReady,
     ClientFailed, SetProtonApi, EraseAtHome, LeaveHome, Restart, Goto, Screen, OnFailure
<1>2. CASE Muon \/ WriteField \/ LogoutStorage \/ LogoutApi \/ LogoutDropClient \/ LogoutUser
           \/ \E s \in savers : SaveField(s)
  BY <1>2 DEF Muon, Refresh, RefreshLost, SetAuth, Notify, WriteField, LogoutStorage, LogoutApi,
     LogoutDropClient, LogoutUser, SaveField, flowVars
<1>3. CASE UNCHANGED vars
  BY <1>3 DEF vars, session
<1> QED
  BY <1>1, <1>2, <1>3 DEF Next, Dart

\* A login reads the storage while nobody writes to it.
LEMMA ReadStep ==
    ASSUME PatientUser = TRUE, IInv, [Next]_vars
    PROVE  ReadInv'
<1>0. /\ TypeOK /\ StateOK /\ ClientInv /\ AnswersInv /\ BuiltInv /\ StartInv /\ LiveInv
      /\ StorageInv /\ ReadInv
      /\ Sessions' = Sessions /\ storage \in Creds /\ got \in Creds /\ pos \in 1..3
      /\ logout # "idle" => pc = "welcome"
  BY SessionsStay DEF IInv, TypeOK, StateOK, StorageOK, FlowOK, ClientInv
<1>1. CASE pc' \notin {"reading", "install"} \/ "raced" \in history'
  BY <1>1 DEF ReadInv
<1>2. CASE EraseAtHome \/ LogoutStorage \/ LogoutUser \/ Restart
  BY <1>0, <1>1, <1>2 DEF EraseAtHome, LogoutStorage, LogoutUser, Restart, Goto, flowVars
<1>3. SUFFICES ASSUME pc' \in {"reading", "install"}, "raced" \notin history',
                      "raced" \notin history, ~Restart,
                      "late" \in history => "late" \in history'
               PROVE  ReadInv'
  BY <1>1, <1>2, HistoryKept
<1>4. CASE AppStart
  <2>1. /\ pc = "start" /\ pc' = "reading" /\ caller' = "boot" /\ pos' = 1
        /\ UNCHANGED <<storage, savers, writer>> /\ storage["sessionId"] # 0
    BY <1>3, <1>4 DEF AppStart, GoReadStorage, Goto
  <2>2. ~Busy /\ storage \in Sessions \union {NoCreds}
    BY <1>0, <1>3, <2>1 DEF StartInv, StorageInv, Busy
  <2>3. storage \in Sessions
    BY <2>1, <2>2 DEF NoCreds, Fields
  <2> QED
    BY <1>0, <2>1, <2>2, <2>3 DEF ReadInv, Busy, Writing
<1>5. CASE NativeLoginSaved
  <2>1. /\ pc = "saving" /\ pc' = "reading" /\ caller' = "native" /\ pos' = 1 /\ ~Busy
        /\ UNCHANGED <<storage, savers, writer>>
    BY <1>3, <1>5 DEF NativeLoginSaved, LoginSaved, GoReadStorage, Note, Busy
  <2>2. storage \in Sessions
    BY <1>0, <1>3, <2>1 DEF StorageInv
  <2> QED
    BY <1>0, <2>1, <2>2 DEF ReadInv, Busy, Writing
<1>6. CASE OpenSigninForm
  <2>1. /\ pc' = "reading" /\ caller' = "signin" /\ pos' = 1 /\ ~Busy
        /\ UNCHANGED <<storage, savers, writer>>
    BY <1>3, <1>6 DEF OpenSigninForm, GoReadStorage, Note
  <2> QED
    BY <1>0, <2>1 DEF ReadInv, Busy, Writing
<1>7. CASE SignedIn
  BY <1>3, <1>7 DEF SignedIn
<1>8. CASE ReadField
  <2>1. /\ pc = "reading" /\ ~Busy /\ caller # "form" /\ (caller # "signin" => storage \in Sessions)
        /\ UNCHANGED <<storage, savers, writer, caller>>
        /\ got' = [got EXCEPT ![FieldOrder[pos]] = storage[FieldOrder[pos]]]
        /\ \A i \in 1..3 : i < pos => got[FieldOrder[i]] = storage[FieldOrder[i]]
    BY <1>0, <1>3, <1>8 DEF ReadInv, ReadField
  <2>2. got' \in Creds /\ \A i \in 1..3 : FieldOrder[i] \in Fields
    BY <1>0, <2>1, FieldFacts, FieldValue
  <2>3. ASSUME NEW i \in 1..3, i <= pos
        PROVE  got'[FieldOrder[i]] = storage[FieldOrder[i]]
    <3>1. i = pos \/ i < pos
      BY <1>0, <2>3
    <3> QED
      BY <1>0, <2>1, <2>2, <3>1 DEF Creds
  <2>4. CASE pos < 3
    <3>1. pc' = "reading" /\ pos' = pos + 1
      BY <1>8, <2>1, <2>4 DEF ReadField
    <3>2. \A i \in 1..3 : i < pos + 1 => i <= pos
      BY <1>0
    <3>3. ~Busy'
      BY <2>1 DEF Busy, Writing
    <3>4. \A i \in 1..3 : i < pos' => got'[FieldOrder[i]] = storage'[FieldOrder[i]]
      BY <2>1, <2>3, <3>1, <3>2
    <3> QED
      BY <1>0, <2>1, <3>1, <3>3, <3>4 DEF ReadInv
  <2>5. CASE pos >= 3
    <3>1. pos = 3 /\ pc' = "install"
      BY <1>0, <1>8, <2>5 DEF ReadField
    <3>2. got' = storage
      BY <1>0, <2>2, <2>3, <3>1, SameCreds
    <3>3. ~Busy'
      BY <2>1 DEF Busy, Writing
    <3> QED
      BY <1>0, <2>1, <3>1, <3>2, <3>3 DEF ReadInv
  <2> QED
    BY <1>0, <2>4, <2>5
<1>9. CASE ~AppStart /\ ~NativeLoginSaved /\ ~OpenSigninForm /\ ~SignedIn /\ ~ReadField
  <2>1. pc' = pc /\ UNCHANGED <<caller, pos, got>>
    BY <1>3, <1>9, ReadsBegin
  <2>2. ASSUME UNCHANGED <<storage, savers, writer>>
        PROVE  ReadInv'
    BY <1>0, <1>3, <2>1, <2>2 DEF ReadInv, Busy, Writing
  <2>3. ASSUME NEW c \in Clients, Notify(c)
        PROVE  ReadInv'
    <3>1. UNCHANGED <<storage, writer>>
      BY <2>3 DEF Notify
    <3>2. CASE savers' = savers
      BY <2>2, <3>1, <3>2
    <3>3. CASE pc = "reading"
      BY <1>3, <2>2, <2>3, <3>1, <3>3 DEF Notify, Note, Contended
    <3>4. CASE pc = "install" /\ "late" \notin history
      <4>1. ~Live(c)
        BY <1>0, <1>3, <3>4 DEF Live, BuiltInv, ReadInv
      <4> QED
        BY <1>0, <2>3, <3>4, <4>1, EmptyStays DEF LiveInv
    <3>5. CASE pc = "install" /\ "late" \in history
      BY <1>0, <1>3, <2>1, <3>5 DEF ReadInv
    <3> QED
      BY <1>3, <2>1, <3>3, <3>4, <3>5
  <2>4. CASE WriteField
    BY <1>0, <1>3, <2>1, <2>4 DEF WriteField, StorageInv
  <2>5. ASSUME NEW s \in savers, SaveField(s)
        PROVE  ReadInv'
    <3>1. Busy
      BY DEF Busy
    <3>2. pc = "install" /\ "late" \in history
      BY <1>0, <1>3, <2>1, <3>1 DEF ReadInv
    <3> QED
      BY <1>0, <1>3, <2>1, <3>2 DEF ReadInv
  <2>6. CASE NativeLogin \/ EraseAtHome \/ LogoutStorage \/ LogoutUser
    BY <1>0, <1>3, <2>1, <2>6 DEF NativeLogin, EraseAtHome, LogoutStorage, LogoutUser, Goto
  <2>7. CASE UNCHANGED vars
    BY <2>2, <2>7 DEF vars, session
  <2>8. CASE Muon
    BY <2>2, <2>3, <2>8 DEF Muon, Refresh, RefreshLost, SetAuth
  <2>9. CASE SignIn \/ SignInFailed \/ UpdateAuth \/ CreateClient \/ ClientReady \/ ClientFailed
             \/ SetProtonApi \/ LeaveHome \/ LogoutApi \/ LogoutDropClient
    BY <2>2, <2>9 DEF SignIn, SignInFailed, UpdateAuth, CreateClient, ClientReady, ClientFailed,
       SetProtonApi, LeaveHome, LogoutApi, LogoutDropClient
  <2> QED
    BY <1>3, <1>9, <2>4, <2>5, <2>6, <2>7, <2>8, <2>9 DEF Next, Dart
<1> QED
  BY <1>4, <1>5, <1>6, <1>7, <1>8, <1>9

\* While the client is in use it is the one that was built last.
LEMMA InUseFacts ==
    ASSUME IInv, pc \in InUse
    PROVE  /\ clients \in Clients /\ (pc # "connecting" => apiService = clients)
           /\ (pc = "connecting" => apiService = 0)
<1>0. ClientInv /\ BuiltInv /\ HandlesOK
  BY DEF IInv, TypeOK, StateOK
<1>1. CASE pc = "connecting"
  BY <1>0, <1>1 DEF ClientInv
<1>2. CASE pc \in {"publish", "home"}
  <2>1. apiService # 0
    BY <1>0, <1>2 DEF ClientInv, OneClient
  <2>2. apiService = clients /\ clients \in 0..MaxClients
    BY <1>0, <2>1 DEF BuiltInv, HandlesOK
  <2> QED
    BY <1>2, <2>1, <2>2, BoundsAssumption DEF Clients
<1> QED
  BY <1>1, <1>2 DEF InUse

\* The flow comes to use a client by the steps named here.
LEMMA UseBegins ==
    ASSUME [Next]_vars, pc' \in InUse, ~UpdateAuth, ~CreateClient
    PROVE  pc \in InUse /\ clients' = clients /\ ~Restart /\ ~EraseAtHome
           /\ ~NativeLogin /\ ~SignInFailed /\ ~SignIn /\ ~SignedIn /\ ~ClientFailed
<1>1. CASE NativeLogin \/ SignIn \/ SignInFailed \/ SignedIn \/ ClientFailed \/ AppStart
           \/ NativeLoginSaved \/ OpenSigninForm \/ ReadField \/ EraseAtHome \/ LeaveHome \/ Restart
  <2>1. ~NativeLogin /\ ~SignIn /\ ~SignInFailed /\ ~SignedIn /\ ~NativeLoginSaved
        /\ ~OpenSigninForm /\ ~EraseAtHome /\ ~LeaveHome /\ ~Restart
    BY DEF NativeLogin, SignIn, SignInFailed, SignedIn, NativeLoginSaved, OpenSigninForm,
       EraseAtHome, LeaveHome, Restart, Goto, GoReadStorage, InUse
  <2>2. ~ClientFailed
    BY DEF ClientFailed, Goto, OnFailure, InUse
  <2>3. ~AppStart
    BY DEF AppStart, Goto, GoReadStorage, InUse
  <2>4. ~ReadField
    BY DEF ReadField, InUse
  <2> QED
    BY <1>1, <2>1, <2>2, <2>3, <2>4
<1>2. CASE ClientReady \/ SetProtonApi
  <2>1. pc \in {"connecting", "publish"} /\ clients' = clients
    BY <1>2 DEF ClientReady, SetProtonApi
  <2>2. ~EraseAtHome /\ ~NativeLogin /\ ~SignInFailed /\ ~SignIn /\ ~SignedIn
    BY <2>1 DEF EraseAtHome, NativeLogin, MaySignIn, SignInFailed, SignIn, SignedIn
  <2>3. ~ClientFailed /\ ~Restart
    <3>1. CASE ClientFailed
      BY <3>1 DEF ClientFailed, Goto, OnFailure, InUse
    <3>2. CASE Restart
      BY <3>2 DEF Restart, InUse
    <3> QED
      BY <3>1, <3>2
  <2> QED
    BY <2>1, <2>2, <2>3 DEF InUse
<1>3. CASE Muon \/ WriteField \/ LogoutStorage \/ LogoutApi \/ LogoutDropClient \/ LogoutUser
           \/ \E s \in savers : SaveField(s)
  <2>1. pc' = pc /\ clients' = clients
    BY <1>3 DEF Muon, Refresh, RefreshLost, SetAuth, Notify, WriteField, LogoutStorage, LogoutApi,
       LogoutDropClient, LogoutUser, SaveField, clientVars, flowVars
  <2> QED
    BY <1>1, <2>1
<1>4. CASE UNCHANGED vars
  BY <1>1, <1>4 DEF vars, session
<1> QED
  BY <1>1, <1>2, <1>3, <1>4 DEF Next, Dart

\* What the client in use has is stored, being saved or about to be reported.
LEMMA KeptStep ==
    ASSUME PatientUser = TRUE, IInv, [Next]_vars
    PROVE  KeptInv'
<1>0. /\ TypeOK /\ StateOK /\ ClientInv /\ AnswersInv /\ BuiltInv /\ LiveInv
      /\ StorageInv /\ ReadInv /\ KeptInv /\ clients \in Nat
      /\ auth \in [Clients -> Creds] /\ answer \in [Clients -> Creds]
      /\ changed \in [Clients -> Creds]
      /\ logout # "idle" => pc = "welcome"
  BY BoundsAssumption DEF IInv, TypeOK, StateOK, StoresOK, HandlesOK, ClientInv
<1>1. CASE pc' \notin InUse \/ "raced" \in history' \/ "late" \in history'
  BY <1>1 DEF KeptInv
<1>2. CASE EraseAtHome \/ LogoutStorage \/ LogoutUser \/ Restart
  BY <1>0, <1>1, <1>2 DEF EraseAtHome, LogoutStorage, LogoutUser, Restart, Goto, flowVars, InUse
<1>3. SUFFICES ASSUME pc' \in InUse, "raced" \notin history', "late" \notin history',
                      "raced" \notin history, "late" \notin history,
                      ~EraseAtHome, ~LogoutStorage, ~LogoutUser, ~Restart
               PROVE  KeptInv'
  BY <1>1, <1>2, HistoryKept
<1>4. CASE UpdateAuth
  BY <1>0, <1>3, <1>4 DEF UpdateAuth, BuiltInv, ReadInv
<1>5. CASE CreateClient
  <2>1. /\ pc = "install" /\ apiService = 0 /\ clients' = clients + 1 /\ clients + 1 \in Clients
        /\ auth' = [auth EXCEPT ![clients + 1] = got]
        /\ UNCHANGED <<storage, savers, writer, answer, changed>>
    BY <1>0, <1>5, BoundsAssumption DEF CreateClient, StateOK, HandlesOK, Clients
  <2>2. ~Busy /\ got = storage
    BY <1>0, <1>3, <2>1 DEF ReadInv
  <2>3. changed[clients + 1] = NoCreds
    <3>1. ~Live(clients + 1)
      BY <1>0 DEF Live
    <3> QED
      BY <1>0, <1>3, <2>1, <3>1 DEF LiveInv, Empty
  <2>4. auth'[clients'] = storage' /\ savers' = {} /\ changed'[clients'] = NoCreds
    BY <1>0, <2>1, <2>2, <2>3 DEF Busy
  <2> QED
    BY <2>4 DEF KeptInv
<1>6. CASE ~UpdateAuth /\ ~CreateClient
  <2>1. pc \in InUse /\ clients' = clients /\ clients \in Clients
        /\ ~NativeLogin /\ ~SignInFailed /\ ~SignIn /\ ~SignedIn /\ ~ClientFailed
    BY <1>3, <1>6, UseBegins, InUseFacts
  <2>2. /\ changed[clients] \in {NoCreds, auth[clients]}
        /\ "skipped" \notin history /\ changed[clients] = NoCreds =>
              /\ \A s \in savers : s.creds = auth[clients]
              /\ savers = {} => storage = auth[clients]
    BY <1>0, <1>3, <2>1 DEF KeptInv
  <2>3. ASSUME UNCHANGED <<storage, savers, auth[clients], changed[clients]>>,
               "skipped" \in history => "skipped" \in history'
        PROVE  KeptInv'
    BY <2>1, <2>2, <2>3 DEF KeptInv
  <2>4. \A c \in Clients : c # clients => Empty(c)
    BY <1>0, <1>3 DEF LiveInv, Live
  <2>5. ASSUME NEW c \in Clients, Refresh(c) \/ RefreshLost(c)
        PROVE  KeptInv'
    BY <2>3, <2>5 DEF Refresh, RefreshLost, ghostVars
  <2>6. ASSUME NEW c \in Clients, SetAuth(c)
        PROVE  KeptInv'
    <3>1. c = clients /\ answer[clients] # NoCreds /\ changed[clients] = NoCreds
      BY <1>0, <2>1, <2>4, <2>6 DEF SetAuth, Empty, AnswersInv
    <3>2. /\ auth'[clients] = answer[clients] /\ UNCHANGED <<storage, savers, history>>
          /\ changed'[clients] = IF SessionChanged(auth[clients], answer[clients])
                                 THEN answer[clients] ELSE NoCreds
      BY <1>0, <2>1, <2>6, <3>1 DEF SetAuth, ghostVars
    <3>3. CASE auth[clients] # answer[clients]
      <4>1. changed'[clients] = auth'[clients] /\ changed'[clients] # NoCreds
        BY <3>1, <3>2, <3>3 DEF SessionChanged
      <4> QED
        BY <2>1, <4>1 DEF KeptInv
    <3>4. CASE auth[clients] = answer[clients]
      <4>1. auth'[clients] = auth[clients] /\ changed'[clients] = changed[clients]
        BY <3>1, <3>2, <3>4 DEF SessionChanged
      <4> QED
        BY <2>1, <2>3, <3>2, <4>1
    <3> QED
      BY <3>3, <3>4
  <2>7. ASSUME NEW c \in Clients, Notify(c)
        PROVE  KeptInv'
    <3>1. c = clients
      BY <2>4, <2>7 DEF Notify, Empty
    <3>2. /\ UNCHANGED <<auth, storage>> /\ changed'[clients] = NoCreds
          /\ changed[clients] = auth[clients]
      BY <1>0, <2>1, <2>2, <2>7, <3>1 DEF Notify
    <3>3. CASE initializing \/ ~callback
      BY <2>1, <2>7, <3>2, <3>3 DEF Notify, KeptInv
    <3>4. CASE ~(initializing \/ ~callback)
      <4>1. /\ savers' = savers \union {[creds |-> changed[clients], pos |-> 1]}
            /\ ~Contended(changed[clients])
        BY <1>3, <2>7, <3>1, <3>4 DEF Notify, Note
      <4>2. \A s \in savers' : s.creds = auth[clients]
        BY <3>2, <4>1 DEF Contended
      <4>3. savers' # {}
        BY <4>1
      <4> QED
        BY <2>1, <3>2, <4>2, <4>3 DEF KeptInv
    <3> QED
      BY <3>3, <3>4
  <2>8. ASSUME NEW s \in savers, SaveField(s)
        PROVE  KeptInv'
    <3>1. UNCHANGED <<auth, changed, history>>
      BY <2>8 DEF SaveField, clientVars, ghostVars
    <3>2. CASE "skipped" \notin history /\ changed[clients] = NoCreds
      <4>1. \A t \in savers' : t.creds = auth[clients]
        BY <1>0, <2>2, <2>8, <3>2, SaverGoesOn
      <4>2. savers' = {} => storage' = auth[clients]
        BY <1>0, <1>3, <2>2, <2>8, <3>2, SaverFinishes DEF StorageInv
      <4> QED
        BY <2>1, <2>2, <3>1, <4>1, <4>2 DEF KeptInv
    <3>3. CASE ~("skipped" \notin history /\ changed[clients] = NoCreds)
      BY <2>1, <2>2, <3>1, <3>3 DEF KeptInv
    <3> QED
      BY <3>2, <3>3
  <2>9. CASE WriteField
    BY <1>0, <1>3, <2>1, <2>9 DEF WriteField, StorageInv, InUse
  <2>10. CASE LogoutApi
    BY <2>1, <2>10, <1>0 DEF LogoutApi, InUse
  <2>11. CASE AppStart \/ NativeLoginSaved \/ OpenSigninForm \/ ReadField \/ LeaveHome
              \/ LogoutDropClient
    BY <1>0, <2>1, <2>11 DEF AppStart, NativeLoginSaved, OpenSigninForm, ReadField, LeaveHome,
       LogoutDropClient, MaySignIn, InUse
  <2>12. CASE ClientReady \/ SetProtonApi
    BY <2>3, <2>12 DEF ClientReady, SetProtonApi, ghostVars
  <2>13. CASE UNCHANGED vars
    BY <2>3, <2>13 DEF vars, session
  <2> QED
    BY <1>3, <1>6, <2>1, <2>5, <2>6, <2>7, <2>8, <2>9, <2>10, <2>11, <2>12, <2>13
       DEF Next, Muon, Dart
<1> QED
  BY <1>4, <1>5, <1>6

\* A process that has just been installed has nothing to lose.
LEMMA SafeAtStart == Init => IInv
<1>1. SUFFICES ASSUME Init
               PROVE  IInv
  OBVIOUS
<1>2. TypeOK
  <2>1. platform \in Platforms
    BY <1>1 DEF Init
  <2> QED
    BY <1>1, <2>1, StateAtStart DEF TypeOK
<1>3. ClientInv
  BY <1>1 DEF Init, ClientInv, OneClient
<1>4. AnswersInv
  BY <1>1 DEF Init, AnswersInv
<1>5. BuiltInv
  BY <1>1 DEF Init, BuiltInv
<1>6. StartInv
  BY <1>1 DEF Init, StartInv, Writing, Empty
<1>7. LiveInv
  BY <1>1 DEF Init, LiveInv, Empty
<1>8. QuietInv
  BY <1>1 DEF Init, QuietInv
<1>9. StorageInv
  BY <1>1 DEF Init, StorageInv, Writing
<1>10. ReadInv
  BY <1>1 DEF Init, ReadInv
<1>11. KeptInv
  BY <1>1 DEF Init, KeptInv, InUse
<1> QED
  BY <1>2, <1>3, <1>4, <1>5, <1>6, <1>7, <1>8, <1>9, <1>10, <1>11 DEF IInv

\* The invariant that the three properties below follow from.
THEOREM SafetyInductive ==
    ASSUME PatientUser = TRUE
    PROVE  Spec => []IInv
<1>1. IInv /\ [Next]_vars => IInv'
  <2>1. SUFFICES ASSUME IInv, [Next]_vars
                 PROVE  IInv'
    OBVIOUS
  <2>2. TypeOK'
    <3>1. StateOK' /\ platform' = platform
      BY <2>1, StateKept, SessionsStay DEF IInv, TypeOK
    <3> QED
      BY <2>1, <3>1 DEF IInv, TypeOK
  <2>3. ClientInv'
    BY <2>1, ClientsKept DEF IInv, TypeOK
  <2>4. AnswersInv' /\ BuiltInv' /\ StartInv' /\ LiveInv' /\ QuietInv'
    BY <2>1, AnswersStep, BuiltStep, StartStep, LiveStep, QuietStep
  <2>5. StorageInv' /\ ReadInv' /\ KeptInv'
    BY <2>1, StorageStep, ReadStep, KeptStep
  <2> QED
    BY <2>2, <2>3, <2>4, <2>5 DEF IInv
<1> QED
  BY <1>1, SafeAtStart, PTL DEF Spec

\* Once a logout has completed, neither the storage nor any client holds a
\* session until somebody signs in, unless a refresh was on its way: the
\* three erasures of the storage and the reset of the client leave no gap.
THEOREM LogoutErasesAll ==
    ASSUME PatientUser = TRUE
    PROVE  Spec => []LogoutLeavesNothing
<1>1. ASSUME IInv
      PROVE  LogoutLeavesNothing
  <2>1. SUFFICES ASSUME loggedOut, "late" \notin history
                 PROVE  storage = NoCreds /\ \A c \in Clients : auth[c] = NoCreds
    BY DEF LogoutLeavesNothing
  <2>2. storage = NoCreds /\ pc = "welcome" /\ logout = "idle"
    BY <1>1, <2>1 DEF IInv, QuietInv
  <2>3. \A c \in Clients : ~Live(c)
    BY <1>1, <2>2 DEF IInv, BuiltInv, Live
  <2> QED
    BY <1>1, <2>1, <2>2, <2>3 DEF IInv, LiveInv, Empty
<1> QED
  BY <1>1, SafetyInductive, PTL

\* The reads that a login does one field at a time give it one session, whole,
\* unless two users of the storage overlapped or one was cut off.
THEOREM LoginReadsOneSession ==
    ASSUME PatientUser = TRUE
    PROVE  Spec => []LoginReadsWholeSession
<1>1. ASSUME IInv
      PROVE  LoginReadsWholeSession
  BY <1>1 DEF IInv, ReadInv, LoginReadsWholeSession, Sessions
<1> QED
  BY <1>1, SafetyInductive, PTL

\* While a user is logged in, the credentials the client refreshed are stored,
\* being saved, or about to be reported, unless two users of the storage
\* overlapped or a change came while a client was being built.
THEOREM RefreshesKept ==
    ASSUME PatientUser = TRUE
    PROVE  Spec => []NoLostRefresh
<1>1. ASSUME IInv
      PROVE  NoLostRefresh
  <2>1. SUFFICES ASSUME pc = "home", history \intersect {"raced", "skipped", "late"} = {},
                        changed[apiService] = NoCreds
                 PROVE  \/ storage = auth[apiService]
                        \/ \E s \in savers : s.creds = auth[apiService]
    BY DEF NoLostRefresh
  <2>2. apiService = clients
    BY <1>1, <2>1, InUseFacts DEF InUse
  <2>3. /\ \A s \in savers : s.creds = auth[clients]
        /\ savers = {} => storage = auth[clients]
    BY <1>1, <2>1, <2>2 DEF IInv, KeptInv, InUse
  <2> QED
    BY <2>2, <2>3
<1> QED
  BY <1>1, SafetyInductive, PTL
====
