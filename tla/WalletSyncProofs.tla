---- MODULE WalletSyncProofs ----
(***************************************************************************)
(* The types of WalletSync, proved for any set of wallets, any number of   *)
(* concurrent fetches, and every bound.  Type correctness needs the fact   *)
(* that a fetch only ever applies events that are in the log (FetchOK): it *)
(* is part of TypeOK because the database holds the numbers of the events. *)
(***************************************************************************)
EXTENDS WalletSync, TLAPS

\* The id the server would give out now is an id, and never the empty one.
LEMMA LatestIsId ==
    ASSUME ServerOK
    PROVE  Len(log) \in Nat /\ Latest \in Ids /\ Latest # 0
  BY ConstantsAssumption DEF ServerOK, Latest, Ids

\* An empty table and what is read from any table are copies.
LEMMA ViewsOfTables ==
    /\ Rowless \in [Wallets -> Versions] /\ NoView \in Views
    /\ DbOK => DbView \in Views
<1>1. Rowless \in [Wallets -> Versions]
  BY ConstantsAssumption DEF Rowless, Versions
<1>2. NoView \in Views
  BY <1>1 DEF NoView, Views
<1>3. DbOK => DbView \in Views
  BY DEF DbOK, DbView, View, Views
<1> QED
  BY <1>1, <1>2, <1>3

\* What the server answers to getWallets: rows of events in the log.
LEMMA ServerAnswer ==
    ASSUME ServerOK
    PROVE  ServerRows \in [Wallets -> Versions]
<1> SUFFICES ASSUME NEW w \in Wallets
             PROVE  ServerRows[w] \in Versions
  BY DEF ServerRows
<1>1. CASE w \in Owned
  <2>1. PICK i \in LastPut(w) : ServerRows[w] = i
    BY <1>1 DEF ServerRows, Owned
  <2>2. i \in DOMAIN log
    BY <2>1 DEF LastPut, Puts
  <2>3. i \in 1..Len(log) /\ Len(log) \in Nat /\ Len(log) <= MaxEvents
    BY <2>2 DEF ServerOK
  <2> QED
    BY <2>1, <2>3, ConstantsAssumption DEF Versions
<1>2. CASE w \notin Owned
  BY <1>2, ConstantsAssumption DEF ServerRows, Versions
<1> QED
  BY <1>1, <1>2

\* A fetch that applies an event applies one of the log, whose number is a
\* version and whose successor is an id.
LEMMA EventApplied ==
    ASSUME TypeOK, NEW f \in Fetchers, pc[f] \in Applying
    PROVE  /\ log[at[f]] \in Events
           /\ at[f] \in Versions /\ at[f] + 1 \in Ids
<1>1. at[f] \in DOMAIN log /\ log \in Seq(Events) /\ Len(log) <= MaxEvents
  BY DEF TypeOK, TasksOK, FetchOK, ServerOK
<1>2. at[f] \in 1..Len(log) /\ Len(log) \in Nat
  BY <1>1
<1>3. log[at[f]] \in Events
  BY <1>1, <1>2
<1> QED
  BY <1>2, <1>3, <1>1, ConstantsAssumption DEF Versions, Ids

\* The types hold at the start.
LEMMA TypesAtStart ==
    ASSUME Init
    PROVE  TypeOK
<1> USE ConstantsAssumption
<1>1. ServerOK
  BY DEF Init, ServerOK
<1>2. DbOK /\ ViewsOK
  BY ViewsOfTables DEF Init, DbOK, ViewsOK
<1>3. IdsOK /\ PlacesOK
  BY DEF Init, IdsOK, PlacesOK, Ids
<1>4. TasksOK
  BY DEF Init, TasksOK, FetchOK, Latest, Labels, Holding, Applying, Loading, Tasks
<1>5. CountsOK
  BY DEF Init, CountsOK
<1> QED
  BY <1>1, <1>2, <1>3, <1>4, <1>5 DEF TypeOK

\* Every step keeps them.
LEMMA TypesKept ==
    ASSUME TypeOK, [Next]_vars
    PROVE  TypeOK'
<1> USE ConstantsAssumption
<1>0. ServerOK /\ DbOK /\ ViewsOK /\ IdsOK /\ PlacesOK /\ TasksOK /\ CountsOK
  BY DEF TypeOK
<1>a. Latest \in Ids /\ Latest # 0 /\ Len(log) \in Nat /\ 0 \in Ids
  BY <1>0, LatestIsId DEF Ids
<1>1. ASSUME NEW k \in {"create", "update", "drop"}, NEW w \in Wallets, Publish(k, w)
      PROVE  TypeOK'
  <2>1. DbOK' /\ ViewsOK' /\ IdsOK' /\ PlacesOK' /\ CountsOK'
    BY <1>0, <1>1 DEF Publish, DbOK, dbVars, ViewsOK, IdsOK, idVars, PlacesOK,
       CountsOK, countVars
  <2>2. ServerOK'
    BY <1>0, <1>1 DEF Publish, ServerOK, Events, Publish
  <2>3. TasksOK'
    <3>1. Len(log') = Len(log) + 1 /\ DOMAIN log \subseteq DOMAIN log'
      BY <1>0, <1>1 DEF Publish, ServerOK
    <3>2. ASSUME NEW f \in Fetchers
          PROVE  FetchOK(f)'
      BY <1>0, <1>a, <1>1, <3>1 DEF Publish, TasksOK, FetchOK, Latest, PlacesOK,
         Ids
    <3> QED
      BY <1>0, <1>1, <3>2 DEF Publish, TasksOK
  <2> QED
    BY <2>1, <2>2, <2>3 DEF TypeOK
<1>2. ASSUME NEW f \in Fetchers, StartFetch(f)
      PROVE  TypeOK'
  <2>1. ServerOK' /\ DbOK' /\ ViewsOK' /\ IdsOK' /\ CountsOK'
    BY <1>0, <1>2 DEF StartFetch, ServerOK, DbOK, dbVars, ViewsOK, IdsOK, idVars,
       CountsOK, countVars
  <2>2. PlacesOK'
    BY <1>0, <1>2 DEF StartFetch, PlacesOK, IdsOK
  <2>3. TasksOK'
    BY <1>0, <1>2 DEF StartFetch, TasksOK, FetchOK, Latest, GoTo, EndFetch,
       Labels, Applying, Holding, Loading, Tasks, PlacesOK, IdsOK
  <2> QED
    BY <2>1, <2>2, <2>3 DEF TypeOK
<1>3. ASSUME NEW f \in Fetchers, FetchEventId(f)
      PROVE  TypeOK'
  <2>1. ServerOK' /\ DbOK' /\ ViewsOK' /\ IdsOK'
    BY <1>0, <1>3 DEF FetchEventId, ServerOK, DbOK, dbVars, ViewsOK, IdsOK, idVars
  <2>2. PlacesOK'
    BY <1>0, <1>a, <1>3 DEF FetchEventId, PlacesOK, IdsOK
  <2>3. TasksOK'
    BY <1>0, <1>a, <1>3 DEF FetchEventId, TasksOK, FetchOK, Latest, GoTo,
       EndFetch, Labels, Applying, Holding, Loading, Tasks, PlacesOK, IdsOK
  <2>4. CountsOK'
    BY <1>0, <1>3 DEF FetchEventId, CountsOK, countVars, Note, Mishaps
  <2> QED
    BY <2>1, <2>2, <2>3, <2>4 DEF TypeOK
<1>4. ASSUME NEW f \in Fetchers, SetEventId(f)
      PROVE  TypeOK'
  <2>1. ServerOK' /\ DbOK' /\ ViewsOK' /\ PlacesOK'
    BY <1>0, <1>4 DEF SetEventId, ServerOK, DbOK, dbVars, ViewsOK, PlacesOK
  <2>2. IdsOK'
    BY <1>0, <1>4 DEF SetEventId, IdsOK, PlacesOK
  <2>3. TasksOK'
    BY <1>0, <1>4 DEF SetEventId, TasksOK, FetchOK, Latest, GoTo, EndFetch,
       Labels, Applying, Holding, Loading, Tasks, PlacesOK
  <2>4. CountsOK'
    BY <1>0, <1>4 DEF SetEventId, CountsOK, countVars, Note, Mishaps
  <2> QED
    BY <2>1, <2>2, <2>3, <2>4 DEF TypeOK
<1>5. ASSUME NEW f \in Fetchers, Collect(f)
      PROVE  TypeOK'
  <2>1. ServerOK' /\ DbOK' /\ ViewsOK' /\ IdsOK'
    BY <1>0, <1>5 DEF Collect, ServerOK, DbOK, dbVars, ViewsOK, IdsOK, idVars
  <2>2. PlacesOK'
    BY <1>0, <1>a, <1>5 DEF Collect, PlacesOK, EndFetch
  <2>3. TasksOK'
    <3>1. ASSUME NEW g \in Fetchers
          PROVE  FetchOK(g)'
      <4>1. FetchOK(g) /\ log' = log /\ pc[f] = "asked" /\ at[f] # 0
        BY <1>0, <1>5 DEF Collect, TasksOK, FetchOK
      <4>2. CASE g # f
        <5>1. pc'[g] = pc[g] /\ at'[g] = at[g] /\ upto'[g] = upto[g]
          BY <1>5, <1>0, <4>2 DEF Collect, GoTo, EndFetch, TasksOK, PlacesOK,
             Tasks
        <5> QED
          BY <4>1, <5>1 DEF FetchOK, Latest
      <4>3. CASE g = f /\ at[f] < Latest
        <5>1. pc'[g] = "store" /\ at'[g] = at[g] /\ upto'[g] = Latest
          BY <1>5, <1>0, <4>3 DEF Collect, GoTo, TasksOK, PlacesOK, Tasks
        <5>2. at[f] \in Nat /\ DOMAIN log = 1..Len(log)
          BY <1>0 DEF PlacesOK, Ids, ServerOK
        <5>3. at[f] \in DOMAIN log /\ Latest <= Latest
          BY <1>a, <4>1, <4>3, <5>2 DEF Latest
        <5> QED
          BY <4>1, <4>3, <5>1, <5>3 DEF FetchOK, Latest
      <4>4. CASE g = f /\ ~(at[f] < Latest)
        <5>1. pc'[g] = "idle" /\ upto'[g] = 0
          BY <1>5, <1>0, <4>4 DEF Collect, GoTo, EndFetch, TasksOK, PlacesOK,
             Tasks
        <5> QED
          BY <1>a, <4>1, <5>1 DEF FetchOK, Latest, Applying
      <4> QED
        BY <4>2, <4>3, <4>4
    <3> QED
      BY <1>0, <1>5, <3>1 DEF Collect, TasksOK, EndFetch, GoTo, Labels, Holding,
         Applying, Tasks
  <2>4. CountsOK'
    BY <1>0, <1>5 DEF Collect, CountsOK, countVars, Note, Mishaps
  <2> QED
    BY <2>1, <2>2, <2>3, <2>4 DEF TypeOK
<1>6. ASSUME NEW f \in Fetchers, FetchFails(f)
      PROVE  TypeOK'
  <2>1. ServerOK' /\ DbOK' /\ ViewsOK' /\ IdsOK'
    BY <1>0, <1>6 DEF FetchFails, ServerOK, DbOK, dbVars, ViewsOK, IdsOK, idVars
  <2>2. PlacesOK'
    BY <1>0, <1>a, <1>6 DEF FetchFails, PlacesOK, EndFetch
  <2>3. TasksOK'
    BY <1>0, <1>6 DEF FetchFails, TasksOK, FetchOK, Latest, GoTo, EndFetch,
       Labels, Applying, Holding, Loading, Tasks, PlacesOK
  <2>4. CountsOK'
    BY <1>0, <1>6 DEF FetchFails, CountsOK
  <2> QED
    BY <2>1, <2>2, <2>3, <2>4 DEF TypeOK
<1>7. ASSUME NEW f \in Fetchers, ApplyWallet(f)
      PROVE  TypeOK'
  <2>1. ServerOK' /\ ViewsOK' /\ PlacesOK'
    BY <1>0, <1>7 DEF ApplyWallet, ServerOK, ViewsOK, PlacesOK
  <2>2. DbOK'
    <3>1. pc[f] \in Applying
      BY <1>7 DEF ApplyWallet, Applying
    <3>2. log[at[f]] \in Events /\ at[f] \in Versions /\ at[f] + 1 \in Ids
      BY <3>1, EventApplied
    <3> QED
      BY <1>0, <1>a, <1>7, <3>2 DEF ApplyWallet, Ids, Versions, DbOK, Stored,
         Events
  <2>3. IdsOK'
    <3>1. pc[f] \in Applying
      BY <1>7 DEF ApplyWallet, Applying
    <3>2. log[at[f]] \in Events /\ at[f] \in Versions /\ at[f] + 1 \in Ids
      BY <3>1, EventApplied
    <3> QED
      BY <1>0, <1>a, <1>7, <3>2 DEF ApplyWallet, Ids, Versions, IdsOK, idVars,
         PlacesOK
  <2>4. TasksOK'
    BY <1>0, <1>7 DEF ApplyWallet, TasksOK, FetchOK, Latest, GoTo, EndFetch,
       Labels, Applying, Holding, Loading, Tasks
  <2>5. CountsOK'
    BY <1>0, <1>7 DEF ApplyWallet, CountsOK, countVars, Note, Mishaps
  <2> QED
    BY <2>1, <2>2, <2>3, <2>4, <2>5 DEF TypeOK
<1>8. ASSUME NEW f \in Fetchers, Unlink(f)
      PROVE  TypeOK'
  <2>1. ServerOK' /\ ViewsOK' /\ IdsOK' /\ PlacesOK' /\ CountsOK'
    BY <1>0, <1>8 DEF Unlink, ServerOK, ViewsOK, IdsOK, idVars, PlacesOK,
       CountsOK, countVars
  <2>2. DbOK'
    BY <1>0, <1>8 DEF Unlink, DbOK, Unlinked
  <2>3. TasksOK'
    BY <1>0, <1>8 DEF Unlink, TasksOK, FetchOK, Latest, GoTo, EndFetch, Labels,
       Applying, Holding, Loading, Tasks
  <2> QED
    BY <2>1, <2>2, <2>3 DEF TypeOK
<1>9. ASSUME NEW f \in Fetchers, ApplyAccount(f)
      PROVE  TypeOK'
  <2>1. ServerOK' /\ ViewsOK' /\ IdsOK' /\ PlacesOK' /\ CountsOK'
    BY <1>0, <1>9 DEF ApplyAccount, ServerOK, ViewsOK, IdsOK, idVars, PlacesOK,
       CountsOK, countVars
  <2>2. DbOK'
    <3>1. pc[f] \in Applying
      BY <1>9 DEF ApplyAccount, Applying
    <3>2. log[at[f]] \in Events /\ at[f] \in Versions /\ at[f] + 1 \in Ids
      BY <3>1, EventApplied
    <3> QED
      BY <1>0, <1>a, <1>9, <3>2 DEF ApplyAccount, Ids, Versions, DbOK, Events
  <2>3. TasksOK'
    BY <1>0, <1>9 DEF ApplyAccount, TasksOK, FetchOK, Latest, GoTo, EndFetch,
       Labels, Applying, Holding, Loading, Tasks
  <2> QED
    BY <2>1, <2>2, <2>3 DEF TypeOK
<1>10. ASSUME NEW f \in Fetchers, ReadDb(f)
      PROVE  TypeOK'
  <2>1. ServerOK' /\ DbOK' /\ IdsOK' /\ PlacesOK' /\ CountsOK'
    BY <1>0, <1>10 DEF ReadDb, ServerOK, DbOK, dbVars, IdsOK, idVars, PlacesOK,
       CountsOK, countVars
  <2>2. ViewsOK'
    BY <1>0, <1>10, ViewsOfTables DEF ReadDb, ViewsOK
  <2>3. TasksOK'
    BY <1>0, <1>10 DEF ReadDb, TasksOK, FetchOK, Latest, GoTo, EndFetch, Labels,
       Applying, Holding, Loading, Tasks
  <2> QED
    BY <2>1, <2>2, <2>3 DEF TypeOK
<1>11. ASSUME NEW f \in Fetchers, AssignCache(f)
      PROVE  TypeOK'
  <2>1. ServerOK' /\ DbOK' /\ IdsOK' /\ PlacesOK' /\ CountsOK'
    BY <1>0, <1>11 DEF AssignCache, ServerOK, DbOK, dbVars, IdsOK, idVars,
       PlacesOK, CountsOK, countVars
  <2>2. ViewsOK'
    BY <1>0, <1>11, ViewsOfTables DEF AssignCache, ViewsOK, Refreshed, Tasks
  <2>3. TasksOK'
    BY <1>0, <1>11 DEF AssignCache, TasksOK, FetchOK, Latest, GoTo, EndFetch,
       Labels, Applying, Holding, Loading, Tasks, AfterCache
  <2> QED
    BY <2>1, <2>2, <2>3 DEF TypeOK
<1>12. ASSUME NEW f \in Fetchers, Advance(f)
      PROVE  TypeOK'
  <2>1. ServerOK' /\ DbOK' /\ ViewsOK' /\ CountsOK'
    BY <1>0, <1>12 DEF Advance, ServerOK, DbOK, dbVars, ViewsOK, CountsOK,
       countVars
  <2>2. IdsOK'
    <3>1. pc[f] \in Applying
      BY <1>12 DEF Advance, Applying
    <3>2. log[at[f]] \in Events /\ at[f] \in Versions /\ at[f] + 1 \in Ids
      BY <3>1, EventApplied
    <3> QED
      BY <1>0, <1>a, <1>12, <3>2 DEF Advance, Ids, Versions, IdsOK, AppliedUpTo,
         Larger
  <2>3. PlacesOK'
    <3>1. pc[f] \in Applying
      BY <1>12 DEF Advance, Applying
    <3>2. log[at[f]] \in Events /\ at[f] \in Versions /\ at[f] + 1 \in Ids
      BY <3>1, EventApplied
    <3> QED
      BY <1>0, <1>a, <1>12, <3>2 DEF Advance, Ids, Versions, PlacesOK, EndFetch
  <2>4. TasksOK'
    <3>1. DOMAIN log = 1..Len(log)
      BY <1>0 DEF ServerOK
    <3>2. ASSUME NEW g \in Fetchers
          PROVE  FetchOK(g)'
      BY <1>0, <1>a, <1>12, <3>1 DEF Advance, PlacesOK, Ids, TasksOK, FetchOK,
         Latest, GoTo, EndFetch, Labels, Applying, Holding, Loading, Tasks
    <3> QED
      BY <1>0, <1>12, <3>2 DEF Advance, TasksOK, EndFetch, GoTo, Labels, Holding,
         Applying, Tasks
  <2> QED
    BY <2>1, <2>2, <2>3, <2>4 DEF TypeOK
<1>13. ASSUME Flush
      PROVE  TypeOK'
  <2>1. ServerOK' /\ DbOK' /\ ViewsOK' /\ PlacesOK' /\ TasksOK' /\ CountsOK'
    BY <1>0, <1>13 DEF Flush, ServerOK, DbOK, dbVars, ViewsOK, PlacesOK, TasksOK,
       FetchOK, Latest, CountsOK, countVars
  <2>2. IdsOK'
    BY <1>0, <1>13 DEF Flush, IdsOK
  <2> QED
    BY <2>1, <2>2 DEF TypeOK
<1>14. ASSUME GetWallets
      PROVE  TypeOK'
  <2>1. ServerOK' /\ DbOK' /\ ViewsOK' /\ IdsOK' /\ PlacesOK' /\ CountsOK'
    BY <1>0, <1>14 DEF GetWallets, ServerOK, DbOK, dbVars, ViewsOK, IdsOK,
       idVars, PlacesOK, CountsOK, countVars
  <2>2. TasksOK'
    BY <1>0, <1>14 DEF GetWallets, TasksOK, FetchOK, Latest, GoTo, EndFetch,
       Labels, Applying, Holding, Loading, Tasks
  <2> QED
    BY <2>1, <2>2 DEF TypeOK
<1>15. ASSUME Peek
      PROVE  TypeOK'
  <2>1. ServerOK' /\ DbOK' /\ IdsOK' /\ PlacesOK'
    BY <1>0, <1>15 DEF Peek, ServerOK, DbOK, dbVars, IdsOK, idVars, PlacesOK
  <2>2. ViewsOK'
    BY <1>0, <1>15, ViewsOfTables DEF Peek, ViewsOK
  <2>3. TasksOK'
    BY <1>0, <1>15 DEF Peek, TasksOK, FetchOK, Latest, GoTo, EndFetch, Labels,
       Applying, Holding, Loading, Tasks
  <2>4. CountsOK'
    BY <1>0, <1>15 DEF Peek, CountsOK, countVars, Note, Mishaps
  <2> QED
    BY <2>1, <2>2, <2>3, <2>4 DEF TypeOK
<1>16. ASSUME KeepPeeked
      PROVE  TypeOK'
  <2>1. ServerOK' /\ DbOK' /\ IdsOK' /\ PlacesOK' /\ CountsOK'
    BY <1>0, <1>16 DEF KeepPeeked, ServerOK, DbOK, dbVars, IdsOK, idVars,
       PlacesOK, CountsOK, countVars
  <2>2. ViewsOK'
    BY <1>0, <1>16, ViewsOfTables DEF KeepPeeked, ViewsOK, Refreshed, Tasks
  <2>3. TasksOK'
    BY <1>0, <1>16 DEF KeepPeeked, TasksOK, FetchOK, Latest, GoTo, EndFetch,
       Labels, Applying, Holding, Loading, Tasks
  <2> QED
    BY <2>1, <2>2, <2>3 DEF TypeOK
<1>17. ASSUME AskWallets
      PROVE  TypeOK'
  <2>1. ServerOK' /\ ViewsOK' /\ PlacesOK' /\ CountsOK'
    BY <1>0, <1>17 DEF AskWallets, ServerOK, ViewsOK, PlacesOK, CountsOK,
       countVars
  <2>2. DbOK'
    BY <1>0, <1>17, ServerAnswer DEF AskWallets, DbOK, dbVars
  <2>3. IdsOK'
    BY <1>0, <1>a, <1>17 DEF AskWallets, IdsOK, idVars, Larger
  <2>4. TasksOK'
    BY <1>0, <1>17 DEF AskWallets, TasksOK, FetchOK, Latest, GoTo, EndFetch,
       Labels, Applying, Holding, Loading, Tasks
  <2> QED
    BY <2>1, <2>2, <2>3, <2>4 DEF TypeOK
<1>18. ASSUME LoadWallet
      PROVE  TypeOK'
  <2>1. ServerOK' /\ ViewsOK' /\ IdsOK' /\ PlacesOK' /\ CountsOK'
    BY <1>0, <1>18 DEF LoadWallet, ServerOK, ViewsOK, IdsOK, idVars, PlacesOK,
       CountsOK, countVars
  <2>2. DbOK'
    <3>1. NextSeen \in Wallets /\ seen[NextSeen] \in Versions
      <4>1. \E w \in Wallets : seen[w] # 0
        BY <1>0, <1>18 DEF LoadWallet, DbOK, Rowless
      <4> QED
        BY <1>0, <4>1 DEF NextSeen, DbOK
    <3> QED
      BY <1>0, <1>18, <3>1 DEF LoadWallet, DbOK, Stored
  <2>3. TasksOK'
    BY <1>0, <1>18 DEF LoadWallet, TasksOK, FetchOK, Latest, GoTo, EndFetch,
       Labels, Applying, Holding, Loading, Tasks
  <2> QED
    BY <2>1, <2>2, <2>3 DEF TypeOK
<1>19. ASSUME LoadAccount
      PROVE  TypeOK'
  <2>1. ServerOK' /\ ViewsOK' /\ IdsOK' /\ PlacesOK' /\ CountsOK'
    BY <1>0, <1>19 DEF LoadAccount, ServerOK, ViewsOK, IdsOK, idVars, PlacesOK,
       CountsOK, countVars
  <2>2. DbOK'
    <3>1. NextSeen \in Wallets /\ 0 \in Versions
      BY <1>19 DEF LoadAccount, Owned, Versions
    <3> QED
      BY <1>0, <1>19, <3>1 DEF LoadAccount, DbOK
  <2>3. TasksOK'
    BY <1>0, <1>19 DEF LoadAccount, TasksOK, FetchOK, Latest, GoTo, EndFetch,
       Labels, Applying, Holding, Loading, Tasks
  <2> QED
    BY <2>1, <2>2, <2>3 DEF TypeOK
<1>20. ASSUME LoadRefused
      PROVE  TypeOK'
  <2>1. ServerOK'
    BY <1>0, <1>20 DEF LoadRefused, ServerOK, EndLoad
  <2>2. DbOK'
    BY <1>0, <1>20, ViewsOfTables DEF LoadRefused, DbOK, EndLoad, dbVars
  <2>3. ViewsOK'
    BY <1>0, <1>20 DEF LoadRefused, ViewsOK, EndLoad
  <2>4. IdsOK'
    BY <1>0, <1>20 DEF LoadRefused, IdsOK, EndLoad, idVars
  <2>5. PlacesOK'
    BY <1>0, <1>20 DEF LoadRefused, PlacesOK, EndLoad
  <2>6. TasksOK'
    BY <1>0, <1>20 DEF LoadRefused, TasksOK, FetchOK, Latest, GoTo, EndFetch,
       Labels, Applying, Holding, Loading, Tasks, EndLoad
  <2>7. CountsOK'
    BY <1>0, <1>20 DEF LoadRefused, CountsOK, EndLoad, Mishaps
  <2> QED
    BY <2>1, <2>2, <2>3, <2>4, <2>5, <2>6, <2>7 DEF TypeOK
<1>21. ASSUME LoadFails
      PROVE  TypeOK'
  <2>1. ServerOK'
    BY <1>0, <1>21 DEF LoadFails, ServerOK, EndLoad
  <2>2. DbOK'
    BY <1>0, <1>21, ViewsOfTables DEF LoadFails, DbOK, EndLoad, dbVars
  <2>3. ViewsOK'
    BY <1>0, <1>21 DEF LoadFails, ViewsOK, EndLoad
  <2>4. IdsOK'
    BY <1>0, <1>21 DEF LoadFails, IdsOK, EndLoad, idVars
  <2>5. PlacesOK'
    BY <1>0, <1>21 DEF LoadFails, PlacesOK, EndLoad
  <2>6. TasksOK'
    BY <1>0, <1>21 DEF LoadFails, TasksOK, FetchOK, Latest, GoTo, EndFetch,
       Labels, Applying, Holding, Loading, Tasks, EndLoad
  <2>7. CountsOK'
    BY <1>0, <1>21 DEF LoadFails, CountsOK, EndLoad, Mishaps
  <2> QED
    BY <2>1, <2>2, <2>3, <2>4, <2>5, <2>6, <2>7 DEF TypeOK
<1>22. ASSUME LoadRead
      PROVE  TypeOK'
  <2>1. ServerOK' /\ DbOK' /\ IdsOK' /\ PlacesOK' /\ CountsOK'
    BY <1>0, <1>22 DEF LoadRead, ServerOK, DbOK, dbVars, IdsOK, idVars, PlacesOK,
       CountsOK, countVars
  <2>2. ViewsOK'
    BY <1>0, <1>22, ViewsOfTables DEF LoadRead, ViewsOK
  <2>3. TasksOK'
    BY <1>0, <1>22 DEF LoadRead, TasksOK, FetchOK, Latest, GoTo, EndFetch,
       Labels, Applying, Holding, Loading, Tasks
  <2> QED
    BY <2>1, <2>2, <2>3 DEF TypeOK
<1>23. ASSUME LoadDone
      PROVE  TypeOK'
  <2>1. ServerOK' /\ DbOK' /\ IdsOK' /\ PlacesOK'
    BY <1>0, <1>23 DEF LoadDone, ServerOK, DbOK, dbVars, IdsOK, idVars, PlacesOK
  <2>2. ViewsOK'
    BY <1>0, <1>23, ViewsOfTables DEF LoadDone, ViewsOK, Refreshed, Tasks
  <2>3. TasksOK'
    BY <1>0, <1>23 DEF LoadDone, TasksOK, FetchOK, Latest, GoTo, EndFetch,
       Labels, Applying, Holding, Loading, Tasks
  <2>4. CountsOK'
    BY <1>0, <1>23 DEF LoadDone, CountsOK, countVars
  <2> QED
    BY <2>1, <2>2, <2>3, <2>4 DEF TypeOK
<1>24. ASSUME Relogin
      PROVE  TypeOK'
  <2>1. ServerOK' /\ PlacesOK'
    BY <1>0, <1>24 DEF Relogin, ServerOK, PlacesOK
  <2>2. DbOK'
    BY <1>0, <1>24, ViewsOfTables DEF Relogin, DbOK
  <2>3. ViewsOK'
    BY <1>0, <1>24, ViewsOfTables DEF Relogin, ViewsOK
  <2>4. IdsOK'
    BY <1>0, <1>a, <1>24 DEF Relogin, IdsOK
  <2>5. TasksOK'
    <3>1. ASSUME NEW t \in Tasks
          PROVE  Outlived(t) \in Labels
      BY <1>0 DEF TasksOK, Outlived, AfterCache, Labels, Holding, Applying,
         Loading, Tasks
    <3>2. ASSUME NEW f \in Fetchers
          PROVE  FetchOK(f)'
      <4>1. /\ pc'[f] = Outlived(f)
            /\ pc'[f] \in {"setid", "asked"} => pc[f] = pc'[f]
            /\ pc'[f] \in Applying => pc[f] \in Applying
        BY <1>0, <1>24 DEF Relogin, TasksOK, Outlived, AfterCache, Applying, Tasks
      <4> QED
        BY <1>0, <1>24, <4>1 DEF Relogin, TasksOK, FetchOK, Latest
    <3> QED
      BY <1>24, <3>1, <3>2 DEF Relogin, TasksOK
  <2>6. CountsOK'
    <3>1. history' = {} \/ history' = history \union {"overlap"}
      BY <1>24 DEF Relogin
    <3>2. history' \subseteq Mishaps
      BY <1>0, <3>1 DEF CountsOK, Mishaps
    <3>3. failures' \in Nat /\ restarts' \in Nat /\ logouts' \in Nat
      BY <1>0, <1>24 DEF Relogin, CountsOK
    <3> QED
      BY <3>2, <3>3 DEF CountsOK
  <2> QED
    BY <2>1, <2>2, <2>3, <2>4, <2>5, <2>6 DEF TypeOK
<1>25. ASSUME Restart
      PROVE  TypeOK'
  <2>1. ServerOK'
    BY <1>0, <1>25 DEF Restart, ServerOK
  <2>2. DbOK'
    BY <1>0, <1>25, ViewsOfTables DEF Restart, DbOK, dbVars
  <2>3. ViewsOK'
    BY <1>0, <1>25, ViewsOfTables DEF Restart, ViewsOK
  <2>4. IdsOK'
    BY <1>0, <1>a, <1>25 DEF Restart, IdsOK
  <2>5. PlacesOK'
    BY <1>0, <1>a, <1>25 DEF Restart, PlacesOK
  <2>6. TasksOK'
    BY <1>0, <1>25 DEF Restart, TasksOK, FetchOK, Latest, GoTo, EndFetch, Labels,
       Applying, Holding, Loading, Tasks, PlacesOK
  <2>7. CountsOK'
    BY <1>0, <1>25 DEF Restart, CountsOK, Note, Mishaps
  <2> QED
    BY <2>1, <2>2, <2>3, <2>4, <2>5, <2>6, <2>7 DEF TypeOK
<1>26. CASE UNCHANGED vars
  BY <1>0, <1>26 DEF vars, TypeOK, ServerOK, DbOK, ViewsOK, IdsOK, PlacesOK,
     TasksOK, FetchOK, Latest, CountsOK
<1> QED
  BY <1>1, <1>2, <1>3, <1>4, <1>5, <1>6, <1>7, <1>8, <1>9, <1>10,
     <1>11, <1>12, <1>13, <1>14, <1>15, <1>16, <1>17, <1>18, <1>19, <1>20,
     <1>21, <1>22, <1>23, <1>24, <1>25, <1>26
     DEF Next, Fetch, Apply, LoadHome

\* Every variable stays within its type, and a fetch only ever applies events
\* the server has published, however the tasks interleave.
THEOREM TypeCorrect == Spec => []TypeOK
  BY TypesAtStart, TypesKept, PTL DEF Spec
====
