---- MODULE AuthSessionProofs ----
(***************************************************************************)
(* What the runs of AuthSession check on small bounds, proved for every    *)
(* number of logins, tokens, clients and restarts.                         *)
(***************************************************************************)
EXTENDS AuthSession, TLAPS

\* The states a saver and the storage can hold, as facts the provers can use.
LEMMA FieldFacts ==
    /\ \A i \in 1..3 : FieldOrder[i] \in Fields
    /\ NoCreds \in Creds /\ NoWriter \in Saver
    /\ \A u, g \in Nat : Session(u, g) \in Creds
    /\ \A c \in Creds : [creds |-> c, pos |-> 1] \in Saver
  BY DEF FieldOrder, Fields, NoCreds, NoWriter, Session, Creds, Saver

\* One await of a save or a read moves one field of one set of credentials
\* into another.
LEMMA FieldValue ==
    ASSUME NEW c \in Creds, NEW d \in Creds, NEW i \in 1..3
    PROVE  [c EXCEPT ![FieldOrder[i]] = d[FieldOrder[i]]] \in Creds
<1>1. FieldOrder[i] \in Fields
  BY FieldFacts
<1> QED
  BY <1>1 DEF Creds

\* The types hold at the start.
LEMMA StateAtStart ==
    ASSUME Init
    PROVE  StateOK
<1>1. ServerOK
  BY BoundsAssumption DEF Init, ServerOK
<1>2. HandlesOK
  <2>1. protonApi = 0 /\ apiService = 0 /\ clients = 0
    BY DEF Init
  <2>2. callback \in BOOLEAN /\ initializing \in BOOLEAN
    BY DEF Init
  <2> QED
    BY <2>1, <2>2, BoundsAssumption DEF HandlesOK
<1>3. StorageOK /\ StoresOK
  BY FieldFacts DEF Init, StorageOK, StoresOK
<1>4. FlowOK
  <2>1. pc = "start" /\ caller = "boot" /\ form = 0 /\ pos = 1 /\ got = NoCreds
    BY DEF Init
  <2> QED
    BY <2>1, FieldFacts, BoundsAssumption DEF FlowOK, Labels, Callers
<1>5. EndOK
  BY DEF Init, EndOK
<1> QED
  BY <1>1, <1>2, <1>3, <1>4, <1>5 DEF StateOK

\* Every step keeps them.
LEMMA StateKept ==
    ASSUME StateOK, [Next]_vars
    PROVE  StateOK'
<1> USE BoundsAssumption, FieldFacts
<1>0. ServerOK /\ StorageOK /\ StoresOK /\ HandlesOK /\ FlowOK /\ EndOK
  BY DEF StateOK
<1>1. ASSUME NEW c \in Clients, Refresh(c)
      PROVE  StateOK'
  <2>1. ServerOK'
    BY <1>0, <1>1 DEF Refresh, ServerOK, Uids, serverVars
  <2>2. StoresOK'
    <3>1. auth[c] \in Creds
      BY <1>0 DEF StoresOK
    <3>2. issued + 1 \in Nat
      BY <1>0 DEF ServerOK
    <3>3. [auth[c] EXCEPT !["accessToken"] = issued + 1,
                          !["refreshToken"] = issued + 1] \in Creds
      BY <3>1, <3>2 DEF Creds
    <3> QED
      BY <1>0, <1>1, <3>3 DEF Refresh, StoresOK
  <2>3. StorageOK' /\ HandlesOK' /\ FlowOK' /\ EndOK'
    BY <1>0, <1>1 DEF Refresh, StorageOK, HandlesOK, FlowOK, EndOK, serverVars, clientVars, flowVars, ghostVars
  <2> QED
    BY <2>1, <2>2, <2>3 DEF StateOK
<1>2. ASSUME NEW c \in Clients, RefreshLost(c)
      PROVE  StateOK'
  <2>1. StoresOK'
    BY <1>0, <1>2 DEF RefreshLost, StoresOK, clientVars
  <2>2. EndOK'
    BY <1>0, <1>2 DEF RefreshLost, Mishaps, EndOK, ghostVars
  <2>3. ServerOK' /\ StorageOK' /\ HandlesOK' /\ FlowOK'
    BY <1>0, <1>2 DEF RefreshLost, ServerOK, StorageOK, HandlesOK, FlowOK, serverVars, clientVars, flowVars, ghostVars
  <2> QED
    BY <2>1, <2>2, <2>3 DEF StateOK
<1>3. ASSUME NEW c \in Clients, SetAuth(c)
      PROVE  StateOK'
  <2>1. StoresOK'
    BY <1>0, <1>3 DEF SetAuth, StoresOK, clientVars
  <2>2. ServerOK' /\ StorageOK' /\ HandlesOK' /\ FlowOK' /\ EndOK'
    BY <1>0, <1>3 DEF SetAuth, ServerOK, StorageOK, HandlesOK, FlowOK, EndOK, serverVars, clientVars, flowVars, ghostVars
  <2> QED
    BY <2>1, <2>2 DEF StateOK
<1>4. ASSUME NEW c \in Clients, Notify(c)
      PROVE  StateOK'
  <2>1. StorageOK'
    <3>1. [creds |-> changed[c], pos |-> 1] \in Saver
      BY <1>0 DEF StoresOK
    <3> QED
      BY <1>0, <1>4, <3>1 DEF Notify, StorageOK
  <2>2. StoresOK'
    BY <1>0, <1>4 DEF Notify, StoresOK, clientVars
  <2>3. EndOK'
    BY <1>0, <1>4 DEF Notify, Note, Mishaps, EndOK, ghostVars
  <2>4. ServerOK' /\ HandlesOK' /\ FlowOK'
    BY <1>0, <1>4 DEF Notify, ServerOK, HandlesOK, FlowOK, serverVars, clientVars, flowVars, ghostVars
  <2> QED
    BY <2>1, <2>2, <2>3, <2>4 DEF StateOK
<1>5. ASSUME AppStart
      PROVE  StateOK'
  <2>1. HandlesOK'
    BY <1>0, <1>5 DEF AppStart, HandlesOK, clientVars
  <2>2. FlowOK'
    BY <1>0, <1>5 DEF AppStart, GoReadStorage, Goto, Labels, Callers, FlowOK, flowVars
  <2>3. ServerOK' /\ StorageOK' /\ StoresOK' /\ EndOK'
    BY <1>0, <1>5 DEF AppStart, ServerOK, StorageOK, StoresOK, EndOK, serverVars, clientVars, flowVars, ghostVars
  <2> QED
    BY <2>1, <2>2, <2>3 DEF StateOK
<1>6. ASSUME NativeLogin
      PROVE  StateOK'
  <2>1. ServerOK'
    BY <1>0, <1>6 DEF NativeLogin, OpenSession, ServerOK, Uids, serverVars
  <2>2. StorageOK'
    <3>1. Session(logins + 1, issued + 1) \in Creds
      BY <1>0 DEF ServerOK
    <3> QED
      BY <1>0, <1>6, <3>1 DEF NativeLogin, StorageOK
  <2>3. FlowOK'
    BY <1>0, <1>6 DEF NativeLogin, Goto, Labels, FlowOK, flowVars
  <2>4. EndOK'
    BY <1>0, <1>6 DEF NativeLogin, Note, Mishaps, EndOK, ghostVars
  <2>5. StoresOK' /\ HandlesOK'
    BY <1>0, <1>6 DEF NativeLogin, StoresOK, HandlesOK, serverVars, clientVars, flowVars, ghostVars
  <2> QED
    BY <2>1, <2>2, <2>3, <2>4, <2>5 DEF StateOK
<1>7. ASSUME WriteField
      PROVE  StateOK'
  <2>1. StorageOK'
    <3>1. writer.creds \in Creds /\ writer.pos \in 1..3
      BY <1>0 DEF StorageOK, Saver
    <3>2. storage' \in Creds
      BY <1>0, <1>7, <3>1, FieldValue DEF WriteField, StorageOK
    <3>3. writer.pos # 3 => [writer EXCEPT !.pos = writer.pos + 1] \in Saver
      BY <1>0, <3>1 DEF StorageOK, Saver
    <3> QED
      BY <1>0, <1>7, <3>2, <3>3 DEF WriteField, StorageOK
  <2>2. ServerOK' /\ StoresOK' /\ HandlesOK' /\ FlowOK' /\ EndOK'
    BY <1>0, <1>7 DEF WriteField, ServerOK, StoresOK, HandlesOK, FlowOK, EndOK, serverVars, clientVars, flowVars, ghostVars
  <2> QED
    BY <2>1, <2>2 DEF StateOK
<1>8. ASSUME NativeLoginSaved
      PROVE  StateOK'
  <2>1. FlowOK'
    BY <1>0, <1>8 DEF NativeLoginSaved, GoReadStorage, Labels, Callers, FlowOK, flowVars
  <2>2. EndOK'
    BY <1>0, <1>8 DEF NativeLoginSaved, Note, Mishaps, EndOK, ghostVars
  <2>3. ServerOK' /\ StorageOK' /\ StoresOK' /\ HandlesOK'
    BY <1>0, <1>8 DEF NativeLoginSaved, ServerOK, StorageOK, StoresOK, HandlesOK, serverVars, clientVars, flowVars, ghostVars
  <2> QED
    BY <2>1, <2>2, <2>3 DEF StateOK
<1>9. ASSUME OpenSigninForm
      PROVE  StateOK'
  <2>1. FlowOK'
    BY <1>0, <1>9 DEF OpenSigninForm, GoReadStorage, Labels, Callers, FlowOK, flowVars
  <2>2. EndOK'
    BY <1>0, <1>9 DEF OpenSigninForm, Note, Mishaps, EndOK, ghostVars
  <2>3. ServerOK' /\ StorageOK' /\ StoresOK' /\ HandlesOK'
    BY <1>0, <1>9 DEF OpenSigninForm, ServerOK, StorageOK, StoresOK, HandlesOK, serverVars, clientVars, flowVars, ghostVars
  <2> QED
    BY <2>1, <2>2, <2>3 DEF StateOK
<1>10. ASSUME SignIn
      PROVE  StateOK'
  <2>1. ServerOK'
    BY <1>0, <1>10 DEF SignIn, OpenSession, ServerOK, Uids, serverVars
  <2>2. StoresOK'
    <3>1. Session(logins + 1, issued + 1) \in Creds
      BY <1>0 DEF ServerOK
    <3> QED
      BY <1>0, <1>10, <3>1 DEF SignIn, StoresOK
  <2>3. FlowOK'
    BY <1>0, <1>10 DEF SignIn, Goto, Labels, FlowOK, flowVars
  <2>4. StorageOK' /\ HandlesOK' /\ EndOK'
    BY <1>0, <1>10 DEF SignIn, StorageOK, HandlesOK, EndOK, serverVars, clientVars, flowVars, ghostVars
  <2> QED
    BY <2>1, <2>2, <2>3, <2>4 DEF StateOK
<1>11. ASSUME SignInFailed
      PROVE  StateOK'
  <2>1. StoresOK'
    BY <1>0, <1>11 DEF SignInFailed, StoresOK, clientVars
  <2>2. FlowOK'
    BY <1>0, <1>11 DEF SignInFailed, Goto, Labels, FlowOK, flowVars
  <2>3. EndOK'
    BY <1>0, <1>11 DEF SignInFailed, Note, Mishaps, EndOK, ghostVars
  <2>4. ServerOK' /\ StorageOK' /\ HandlesOK'
    BY <1>0, <1>11 DEF SignInFailed, ServerOK, StorageOK, HandlesOK, serverVars, clientVars, flowVars, ghostVars
  <2> QED
    BY <2>1, <2>2, <2>3, <2>4 DEF StateOK
<1>12. ASSUME SignedIn
      PROVE  StateOK'
  <2>1. StorageOK'
    <3>1. auth[form] \in Creds
      <4>1. form \in Clients
        BY <1>0, <1>12 DEF SignedIn, FlowOK, Clients
      <4> QED
        BY <1>0, <4>1 DEF StoresOK
    <3> QED
      BY <1>0, <1>12, <3>1 DEF SignedIn, StorageOK
  <2>2. FlowOK'
    BY <1>0, <1>12 DEF SignedIn, GoReadStorage, Labels, Callers, FlowOK, flowVars
  <2>3. EndOK'
    BY <1>0, <1>12 DEF SignedIn, Mishaps, EndOK, ghostVars
  <2>4. ServerOK' /\ StoresOK' /\ HandlesOK'
    BY <1>0, <1>12 DEF SignedIn, ServerOK, StoresOK, HandlesOK, serverVars, clientVars, flowVars, ghostVars
  <2> QED
    BY <2>1, <2>2, <2>3, <2>4 DEF StateOK
<1>13. ASSUME ReadField
      PROVE  StateOK'
  <2>1. FlowOK'
    <3>1. got' \in Creds
      BY <1>0, <1>13, FieldValue DEF ReadField, FlowOK, StorageOK
    <3>2. pc' \in Labels /\ pos' \in 1..3 /\ caller' \in Callers
      BY <1>0, <1>13 DEF ReadField, FlowOK, Labels
    <3>3. form' \in 0..MaxClients /\ pc' # "signing"
      BY <1>0, <1>13 DEF ReadField, FlowOK
    <3> QED
      BY <3>1, <3>2, <3>3 DEF FlowOK
  <2>2. ServerOK' /\ StorageOK' /\ StoresOK' /\ HandlesOK' /\ EndOK'
    BY <1>0, <1>13 DEF ReadField, ServerOK, StorageOK, StoresOK, HandlesOK, EndOK, serverVars, clientVars, flowVars, ghostVars
  <2> QED
    BY <2>1, <2>2 DEF StateOK
<1>14. ASSUME UpdateAuth
      PROVE  StateOK'
  <2>1. StoresOK'
    BY <1>0, <1>14 DEF UpdateAuth, StoresOK, FlowOK
  <2>2. FlowOK'
    BY <1>0, <1>14 DEF UpdateAuth, Labels, FlowOK, flowVars
  <2>3. ServerOK' /\ StorageOK' /\ HandlesOK' /\ EndOK'
    BY <1>0, <1>14 DEF UpdateAuth, ServerOK, StorageOK, HandlesOK, EndOK, serverVars, clientVars, flowVars, ghostVars
  <2> QED
    BY <2>1, <2>2, <2>3 DEF StateOK
<1>15. ASSUME CreateClient
      PROVE  StateOK'
  <2>1. StoresOK'
    BY <1>0, <1>15 DEF CreateClient, StoresOK, FlowOK
  <2>2. HandlesOK'
    BY <1>0, <1>15 DEF CreateClient, HandlesOK, clientVars
  <2>3. FlowOK'
    BY <1>0, <1>15 DEF CreateClient, Labels, FlowOK, flowVars
  <2>4. ServerOK' /\ StorageOK' /\ EndOK'
    BY <1>0, <1>15 DEF CreateClient, ServerOK, StorageOK, EndOK, serverVars, clientVars, flowVars, ghostVars
  <2> QED
    BY <2>1, <2>2, <2>3, <2>4 DEF StateOK
<1>16. ASSUME ClientReady
      PROVE  StateOK'
  <2>1. HandlesOK'
    BY <1>0, <1>16 DEF ClientReady, HandlesOK, clientVars
  <2>2. FlowOK'
    BY <1>0, <1>16 DEF ClientReady, Goto, Labels, FlowOK, flowVars
  <2>3. ServerOK' /\ StorageOK' /\ StoresOK' /\ EndOK'
    BY <1>0, <1>16 DEF ClientReady, ServerOK, StorageOK, StoresOK, EndOK, serverVars, clientVars, flowVars, ghostVars
  <2> QED
    BY <2>1, <2>2, <2>3 DEF StateOK
<1>17. ASSUME ClientFailed
      PROVE  StateOK'
  <2>1. StoresOK'
    BY <1>0, <1>17 DEF ClientFailed, StoresOK, clientVars
  <2>2. HandlesOK'
    BY <1>0, <1>17 DEF ClientFailed, HandlesOK, clientVars
  <2>3. FlowOK'
    BY <1>0, <1>17 DEF ClientFailed, OnFailure, Goto, Labels, FlowOK, flowVars
  <2>4. EndOK'
    BY <1>0, <1>17 DEF ClientFailed, Note, Mishaps, EndOK, ghostVars
  <2>5. ServerOK' /\ StorageOK'
    BY <1>0, <1>17 DEF ClientFailed, ServerOK, StorageOK, serverVars, clientVars, flowVars, ghostVars
  <2> QED
    BY <2>1, <2>2, <2>3, <2>4, <2>5 DEF StateOK
<1>18. ASSUME SetProtonApi
      PROVE  StateOK'
  <2>1. HandlesOK'
    BY <1>0, <1>18 DEF SetProtonApi, HandlesOK, clientVars
  <2>2. FlowOK'
    <3>1. pc' \in {"home", "signin"} /\ caller' = caller /\ pos' = pos /\ got' = got
      BY <1>18 DEF SetProtonApi, Screen
    <3>2. form' \in 0..MaxClients
      BY <1>0, <1>18 DEF SetProtonApi, HandlesOK
    <3> QED
      BY <1>0, <3>1, <3>2 DEF FlowOK, Labels
  <2>3. ServerOK' /\ StorageOK' /\ StoresOK' /\ EndOK'
    BY <1>0, <1>18 DEF SetProtonApi, ServerOK, StorageOK, StoresOK, EndOK, serverVars, clientVars, flowVars, ghostVars
  <2> QED
    BY <2>1, <2>2, <2>3 DEF StateOK
<1>19. ASSUME EraseAtHome
      PROVE  StateOK'
  <2>1. StorageOK'
    BY <1>0, <1>19 DEF EraseAtHome, StorageOK, Saver
  <2>2. FlowOK'
    BY <1>0, <1>19 DEF EraseAtHome, Goto, Labels, FlowOK, flowVars
  <2>3. EndOK'
    BY <1>0, <1>19 DEF EraseAtHome, AfterErase, Mishaps, EndOK, ghostVars
  <2>4. ServerOK' /\ StoresOK' /\ HandlesOK'
    BY <1>0, <1>19 DEF EraseAtHome, ServerOK, StoresOK, HandlesOK, serverVars, clientVars, flowVars, ghostVars
  <2> QED
    BY <2>1, <2>2, <2>3, <2>4 DEF StateOK
<1>20. ASSUME LeaveHome
      PROVE  StateOK'
  <2>1. FlowOK'
    BY <1>0, <1>20 DEF LeaveHome, Goto, Labels, FlowOK, flowVars
  <2>2. EndOK'
    BY <1>0, <1>20 DEF LeaveHome, EndOK, ghostVars
  <2>3. ServerOK' /\ StorageOK' /\ StoresOK' /\ HandlesOK'
    BY <1>0, <1>20 DEF LeaveHome, ServerOK, StorageOK, StoresOK, HandlesOK, serverVars, clientVars, flowVars, ghostVars
  <2> QED
    BY <2>1, <2>2, <2>3 DEF StateOK
<1>21. ASSUME LogoutStorage
      PROVE  StateOK'
  <2>1. StorageOK'
    BY <1>0, <1>21 DEF LogoutStorage, StorageOK, Saver
  <2>2. EndOK'
    BY <1>0, <1>21 DEF LogoutStorage, AfterErase, Mishaps, EndOK, ghostVars
  <2>3. ServerOK' /\ StoresOK' /\ HandlesOK' /\ FlowOK'
    BY <1>0, <1>21 DEF LogoutStorage, ServerOK, StoresOK, HandlesOK, FlowOK, serverVars, clientVars, flowVars, ghostVars
  <2> QED
    BY <2>1, <2>2, <2>3 DEF StateOK
<1>22. ASSUME LogoutApi
      PROVE  StateOK'
  <2>1. StoresOK'
    BY <1>0, <1>22 DEF LogoutApi, AuthAfterLogout, StoresOK, clientVars
  <2>2. HandlesOK'
    BY <1>0, <1>22 DEF LogoutApi, ProtonApiAfterLogout, HandlesOK, clientVars
  <2>3. EndOK'
    BY <1>0, <1>22 DEF LogoutApi, Note, Mishaps, EndOK, ghostVars
  <2>4. ServerOK' /\ StorageOK' /\ FlowOK'
    BY <1>0, <1>22 DEF LogoutApi, ServerOK, StorageOK, FlowOK, serverVars, clientVars, flowVars, ghostVars
  <2> QED
    BY <2>1, <2>2, <2>3, <2>4 DEF StateOK
<1>23. ASSUME LogoutDropClient
      PROVE  StateOK'
  <2>1. HandlesOK'
    BY <1>0, <1>23 DEF LogoutDropClient, HandlesOK, clientVars
  <2>2. EndOK'
    BY <1>0, <1>23 DEF LogoutDropClient, EndOK, ghostVars
  <2>3. ServerOK' /\ StorageOK' /\ StoresOK' /\ FlowOK'
    BY <1>0, <1>23 DEF LogoutDropClient, ServerOK, StorageOK, StoresOK, FlowOK, serverVars, clientVars, flowVars, ghostVars
  <2> QED
    BY <2>1, <2>2, <2>3 DEF StateOK
<1>24. ASSUME LogoutUser
      PROVE  StateOK'
  <2>1. StorageOK'
    BY <1>0, <1>24 DEF LogoutUser, StorageOK, Saver
  <2>2. EndOK'
    BY <1>0, <1>24 DEF LogoutUser, AfterErase, Note, Mishaps, EndOK, ghostVars
  <2>3. ServerOK' /\ StoresOK' /\ HandlesOK' /\ FlowOK'
    BY <1>0, <1>24 DEF LogoutUser, ServerOK, StoresOK, HandlesOK, FlowOK, serverVars, clientVars, flowVars, ghostVars
  <2> QED
    BY <2>1, <2>2, <2>3 DEF StateOK
<1>25. ASSUME NEW s \in savers, SaveField(s)
      PROVE  StateOK'
  <2>1. StorageOK'
    <3>1. s \in Saver /\ s.creds \in Creds /\ s.pos \in 1..3
      BY <1>0 DEF StorageOK, Saver
    <3>2. storage' \in Creds
      BY <1>0, <1>25, <3>1, FieldValue DEF SaveField, StorageOK
    <3>3. SaverAfter(s) \subseteq Saver
      BY <3>1 DEF SaverAfter, Saver
    <3> QED
      BY <1>0, <1>25, <3>2, <3>3 DEF SaveField, StorageOK
  <2>2. ServerOK' /\ StoresOK' /\ HandlesOK' /\ FlowOK' /\ EndOK'
    BY <1>0, <1>25 DEF SaveField, ServerOK, StoresOK, HandlesOK, FlowOK, EndOK, serverVars, clientVars, flowVars, ghostVars
  <2> QED
    BY <2>1, <2>2 DEF StateOK
<1>26. ASSUME Restart
      PROVE  StateOK'
  <2>1. StorageOK'
    BY <1>0, <1>26 DEF Restart, StorageOK, Saver
  <2>2. StoresOK'
    BY <1>0, <1>26 DEF Restart, StoresOK, clientVars
  <2>3. HandlesOK'
    <3>1. protonApi' = 0 /\ apiService' = 0 /\ clients' = 0
      BY <1>26 DEF Restart
    <3>2. callback' \in BOOLEAN /\ initializing' \in BOOLEAN
      BY <1>26 DEF Restart
    <3> QED
      BY <3>1, <3>2 DEF HandlesOK
  <2>4. FlowOK'
    BY <1>0, <1>26 DEF Restart, Labels, Callers, FlowOK, flowVars
  <2>5. EndOK'
    <3>1. restarts' \in Nat /\ logout' = "idle" /\ loggedOut' = FALSE
      BY <1>0, <1>26 DEF Restart, EndOK
    <3>2. history' \subseteq Mishaps
      BY <1>0, <1>26 DEF Restart, Note, Mishaps, EndOK
    <3> QED
      BY <3>1, <3>2 DEF EndOK
  <2>6. ServerOK'
    BY <1>0, <1>26 DEF Restart, ServerOK, serverVars, clientVars, flowVars, ghostVars
  <2> QED
    BY <2>1, <2>2, <2>3, <2>4, <2>5, <2>6 DEF StateOK
<1>27. CASE UNCHANGED vars
  BY <1>0, <1>27 DEF vars, session, StateOK, ServerOK, StorageOK, StoresOK, HandlesOK, FlowOK, EndOK
<1> QED
  BY <1>1, <1>2, <1>3, <1>4, <1>5, <1>6, <1>7, <1>8, <1>9, <1>10, <1>11, <1>12, <1>13, <1>14, <1>15, <1>16, <1>17, <1>18, <1>19, <1>20, <1>21, <1>22, <1>23, <1>24, <1>25, <1>26, <1>27
     DEF Next, Muon, Dart

\* Every variable of the session stays within its type, on either platform:
\* no client number, token or saver of any process comes from nowhere.
LEMMA StateCorrect == Spec => []StateOK
  BY StateAtStart, StateKept, PTL DEF Spec

\* The build's platform never changes, and every variable stays within its
\* type: no client number, token or saver of any process comes from nowhere.
THEOREM TypeCorrect == Spec => []TypeOK
<1>1. Init => platform \in Platforms
  BY DEF Init
<1>2. platform \in Platforms /\ [Next]_vars => (platform \in Platforms)'
  BY DEF Next, vars
<1>3. Spec => [](platform \in Platforms)
  BY <1>1, <1>2, PTL DEF Spec
<1>4. StateOK /\ platform \in Platforms => TypeOK
  BY DEF TypeOK
<1> QED
  BY <1>3, <1>4, StateCorrect, PTL
----
\* The inductive form of OneClient.  It adds what the code never says: a
\* logout only runs while the welcome screen is shown, a client is only built
\* when there is none, and the form is only shown with a client behind it.
ClientInv ==
    /\ OneClient
    /\ logout # "idle" => pc = "welcome"
    /\ logout = "drop" => protonApi = 0
    /\ pc = "connecting" => apiService = 0 /\ clients \in Clients /\ caller # "form"
    /\ pc \in {"reading", "install"} /\ caller = "form" => apiService # 0
    /\ pc = "publish" => apiService # 0

\* Every step keeps it.
LEMMA ClientsKept ==
    ASSUME PatientUser = TRUE, StateOK, ClientInv, [Next]_vars
    PROVE  ClientInv'
<1> USE PatientUser = TRUE, BoundsAssumption DEF ClientInv, OneClient
<1>1. ASSUME NEW c \in Clients, Refresh(c)
      PROVE  ClientInv'
  BY <1>1 DEF Refresh, clientVars, flowVars
<1>2. ASSUME NEW c \in Clients, RefreshLost(c)
      PROVE  ClientInv'
  BY <1>2 DEF RefreshLost, flowVars
<1>3. ASSUME NEW c \in Clients, SetAuth(c)
      PROVE  ClientInv'
  BY <1>3 DEF SetAuth, flowVars
<1>4. ASSUME NEW c \in Clients, Notify(c)
      PROVE  ClientInv'
  BY <1>4 DEF Notify, flowVars
<1>5. ASSUME AppStart
      PROVE  ClientInv'
  BY <1>5 DEF AppStart, GoReadStorage, Goto
<1>6. ASSUME NativeLogin
      PROVE  ClientInv'
  BY <1>6 DEF NativeLogin, MaySignIn, Goto, clientVars
<1>7. ASSUME WriteField
      PROVE  ClientInv'
  BY <1>7 DEF WriteField, clientVars, flowVars
<1>8. ASSUME NativeLoginSaved
      PROVE  ClientInv'
  BY <1>8 DEF NativeLoginSaved, GoReadStorage, clientVars
<1>9. ASSUME OpenSigninForm
      PROVE  ClientInv'
  BY <1>9 DEF OpenSigninForm, MaySignIn, GoReadStorage, clientVars
<1>10. ASSUME SignIn
      PROVE  ClientInv'
  BY <1>10 DEF SignIn, Goto
<1>11. ASSUME SignInFailed
      PROVE  ClientInv'
  BY <1>11 DEF SignInFailed, Goto
<1>12. ASSUME SignedIn
      PROVE  ClientInv'
  BY <1>12 DEF SignedIn, GoReadStorage, clientVars
<1>13. ASSUME ReadField
      PROVE  ClientInv'
  BY <1>13 DEF ReadField, clientVars
<1>14. ASSUME UpdateAuth
      PROVE  ClientInv'
  BY <1>14 DEF UpdateAuth
<1>15. ASSUME CreateClient
      PROVE  ClientInv'
  <2>1. clients' \in Clients
    BY <1>15 DEF CreateClient, Clients, StateOK, HandlesOK
  <2> QED
    BY <1>15, <2>1 DEF CreateClient
<1>16. ASSUME ClientReady
      PROVE  ClientInv'
  BY <1>16 DEF ClientReady, Goto, Clients
<1>17. ASSUME ClientFailed
      PROVE  ClientInv'
  BY <1>17 DEF ClientFailed, OnFailure, Goto
<1>18. ASSUME SetProtonApi
      PROVE  ClientInv'
  BY <1>18 DEF SetProtonApi, Screen
<1>19. ASSUME EraseAtHome
      PROVE  ClientInv'
  BY <1>19 DEF EraseAtHome, Goto, clientVars
<1>20. ASSUME LeaveHome
      PROVE  ClientInv'
  BY <1>20 DEF LeaveHome, Goto, clientVars
<1>21. ASSUME LogoutStorage
      PROVE  ClientInv'
  BY <1>21 DEF LogoutStorage, clientVars, flowVars
<1>22. ASSUME LogoutApi
      PROVE  ClientInv'
  BY <1>22 DEF LogoutApi, ProtonApiAfterLogout, flowVars
<1>23. ASSUME LogoutDropClient
      PROVE  ClientInv'
  BY <1>23 DEF LogoutDropClient, flowVars
<1>24. ASSUME LogoutUser
      PROVE  ClientInv'
  BY <1>24 DEF LogoutUser, clientVars, flowVars
<1>25. ASSUME NEW s \in savers, SaveField(s)
      PROVE  ClientInv'
  BY <1>25 DEF SaveField, clientVars, flowVars
<1>26. ASSUME Restart
      PROVE  ClientInv'
  BY <1>26 DEF Restart
<1>27. CASE UNCHANGED vars
  BY <1>27 DEF vars, session
<1> QED
  BY <1>1, <1>2, <1>3, <1>4, <1>5, <1>6, <1>7, <1>8, <1>9, <1>10, <1>11, <1>12, <1>13, <1>14, <1>15, <1>16, <1>17, <1>18, <1>19, <1>20, <1>21, <1>22, <1>23, <1>24, <1>25, <1>26, <1>27
     DEF Next, Muon, Dart

\* The Dart side and the Rust entry points always use the same client, and
\* there is one whenever a screen needs it, as long as nobody signs in while
\* a logout is still running.
THEOREM OneClientAlways ==
    ASSUME PatientUser = TRUE
    PROVE  Spec => []OneClient
<1>1. Init => ClientInv
  BY DEF Init, ClientInv, OneClient
<1>2. StateOK /\ ClientInv /\ [Next]_vars => ClientInv'
  BY ClientsKept
<1>3. ClientInv => OneClient
  BY DEF ClientInv
<1> QED
  BY <1>1, <1>2, <1>3, StateCorrect, PTL DEF Spec
====
