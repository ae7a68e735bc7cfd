---- MODULE WalletSyncSafety ----
(***************************************************************************)
(* The safety of WalletSync, proved for any set of wallets, any number of  *)
(* concurrent fetches and every bound: no event is skipped, the copy in    *)
(* memory follows the tables, and no account outlives its wallet, unless   *)
(* one of the mishaps that the history records has happened.               *)
(***************************************************************************)
EXTENDS WalletSyncProofs

\* The log: a wallet is created first and dropped last, and one that was
\* written has a last write.
LogInv ==
    /\ \A w \in Wallets :
        /\ Drops(w) # {} => Puts(w) # {}
        /\ Puts(w) # {} => LastPut(w) # {}
    /\ \A i, j \in DOMAIN log :
        log[i].kind = "drop" /\ log[j].wallet = log[i].wallet => j <= i

\* No id is ahead of the server.
IdInv ==
    /\ cursor <= Latest /\ prefs <= Latest /\ disk <= Latest /\ covered <= Latest
    /\ \A f \in Fetchers : at[f] <= Latest

Undisturbed == "overlap" \notin history
Clean == Undisturbed /\ "gap" \notin history

\* The fetches past the first step of applying an event.
Written == Applying \ {"store"}

\* A task that works with the copy is alone.
AloneInv ==
    Undisturbed =>
        /\ \A t, u \in Tasks : Busy(t) /\ Busy(u) => t = u
        /\ \A f \in Fetchers : pc[f] # "unlinkOld"

\* The disk is behind the preferences, they are behind the id in memory, and
\* the event that is applied is the one after it.
OrderInv ==
    Undisturbed =>
        /\ disk <= prefs
        /\ cursor # 0 => prefs <= cursor
        /\ \A f \in Fetchers :
            /\ cursor = 0 /\ pc[f] = "setid" => prefs <= at[f]
            /\ pc[f] \in Applying => at[f] = cursor

\* What the database knows reaches as far as every id the loop may start from.
KnownInv ==
    Clean /\ covered # 0 =>
        /\ cursor <= covered /\ prefs <= covered
        /\ \A f \in Fetchers :
            /\ cursor = 0 /\ pc[f] = "setid" => at[f] <= covered
            /\ pc[f] \in Written => covered = at[f]

\* Once its wallet part is done, an event shows in the wallet table.
AppliedInv ==
    /\ \A f \in Fetchers : pc[f] = "account" => log[at[f]].kind = "create"
    /\ Undisturbed => \A f \in Fetchers : pc[f] \in Written =>
        rows[log[at[f]].wallet] = IF log[at[f]].kind = "drop" THEN 0 ELSE at[f]

\* What the home screen holds between its steps.
HomeInv ==
    Undisturbed =>
        /\ pc[Home] = "peeked" => snap[Home] = DbView
        /\ pc[Home] = "ask" => rows = Rowless
        /\ pc[Home] \in Loading \union {"read"} => cache = NoView
        /\ pc[Home] = "read" => snap[Home] = DbView /\ seen = Rowless
        /\ pc[Home] = "loadAccount" =>
            NextSeen \in Wallets /\ seen[NextSeen] # 0 /\ rows[NextSeen] = seen[NextSeen]

\* The copy in memory is the tables', or a fetch is about to refresh it.
CacheInv ==
    Undisturbed =>
        /\ \/ cache \in {NoView, DbView}
           \/ \E f \in Fetchers : pc[f] \in {"unlink", "read", "assign", "read2", "assign2"}
        /\ \A f \in Fetchers : pc[f] \in {"assign", "assign2"} => snap[f] = DbView

\* An account without its wallet is one that a fetch is about to delete.
OrphanInv ==
    Undisturbed /\ "cut" \notin history =>
        \A w \in accounts :
            \/ rows[w] # 0
            \/ \E f \in Fetchers : pc[f] = "unlink" /\ log[at[f]].wallet = w

LoadSteps == {"load", "loadAccount", "read"}

\* The database knows every event before covered, or nothing and it is about
\* to be loaded, or it is being loaded.
KnowsInv ==
    Clean /\ "partial" \notin history =>
        \/ covered # 0 /\ Reflects(covered)
        \/ covered = 0 /\ rows = Rowless /\ pc[Home] \in {"peek", "peeked", "ask"}
        \/ pc[Home] \in LoadSteps

\* The event shows in the wallet table, or in what the load has still to store.
InHand(i) ==
    IF log[i].kind = "drop" THEN rows[log[i].wallet] = 0 /\ seen[log[i].wallet] = 0
    ELSE \/ rows[log[i].wallet] >= i \/ seen[log[i].wallet] >= i
         \/ Drops(log[i].wallet) # {}

\* While it is loaded, what it does not know yet is in the server's answer.
LoadInv ==
    Clean /\ pc[Home] \in LoadSteps =>
        /\ covered # 0
        /\ \A w \in Wallets : seen[w] # 0 => rows[w] \in {0, seen[w]}
        /\ \A i \in DOMAIN log : i < covered => InHand(i)

IInv ==
    /\ TypeOK /\ LogInv /\ IdInv /\ AloneInv /\ OrderInv /\ KnownInv /\ AppliedInv
    /\ HomeInv /\ CacheInv /\ OrphanInv /\ KnowsInv /\ LoadInv

----
\* What a publication adds to the log.
LEMMA Published ==
    ASSUME ServerOK, NEW k \in {"create", "update", "drop"}, NEW w \in Wallets,
           Publish(k, w)
    PROVE  /\ Latest \in Nat /\ Latest' = Latest + 1
           /\ DOMAIN log' = DOMAIN log \union {Latest}
           /\ \A i \in DOMAIN log :
                i \in Nat /\ i < Latest /\ i # Latest /\ i # 0 /\ log'[i] = log[i]
           /\ log'[Latest] = [kind |-> k, wallet |-> w]
<1>1. Len(log) \in Nat /\ DOMAIN log = 1..Len(log)
  BY DEF ServerOK
<1>2. log' = Append(log, [kind |-> k, wallet |-> w])
  BY DEF Publish
<1>3. [kind |-> k, wallet |-> w] \in Events
  BY DEF Events
<1>4. Len(log') = Len(log) + 1 /\ DOMAIN log' = 1..(Len(log) + 1)
  BY <1>2, <1>3 DEF ServerOK
<1>5. ASSUME NEW i \in DOMAIN log
      PROVE  log'[i] = log[i]
  BY <1>1, <1>2, <1>3 DEF ServerOK
<1>6. log'[Len(log) + 1] = [kind |-> k, wallet |-> w]
  BY <1>2, <1>3 DEF ServerOK
<1> QED
  BY <1>1, <1>4, <1>5, <1>6 DEF Latest

\* What it adds to the writes and the deletions of each wallet.
LEMMA PublishedSets ==
    ASSUME ServerOK, NEW k \in {"create", "update", "drop"}, NEW w \in Wallets,
           Publish(k, w), NEW v \in Wallets
    PROVE  /\ Drops(v)' = IF k = "drop" /\ v = w THEN Drops(v) \union {Latest} ELSE Drops(v)
           /\ Puts(v)' = IF k # "drop" /\ v = w THEN Puts(v) \union {Latest} ELSE Puts(v)
<1>1. ASSUME NEW i \in DOMAIN log
      PROVE  log'[i] = log[i] /\ i # Latest
  BY Published
<1>2. /\ Latest \notin DOMAIN log /\ DOMAIN log' = DOMAIN log \union {Latest}
      /\ log'[Latest] = [kind |-> k, wallet |-> w]
  BY Published
<1>3. Drops(v)' = IF k = "drop" /\ v = w THEN Drops(v) \union {Latest} ELSE Drops(v)
  BY <1>1, <1>2 DEF Drops
<1>4. Puts(v)' = IF k # "drop" /\ v = w THEN Puts(v) \union {Latest} ELSE Puts(v)
  BY <1>1, <1>2 DEF Puts
<1> QED
  BY <1>3, <1>4

\* The log keeps its shape.
LEMMA LogStep ==
    ASSUME IInv, [Next]_vars
    PROVE  LogInv'
<1> USE DEF IInv, TypeOK
<1>1. ASSUME NEW k \in {"create", "update", "drop"}, NEW w \in Wallets, Publish(k, w)
      PROVE  LogInv'
  <2>1. ASSUME NEW v \in Wallets
        PROVE  (Drops(v)' # {} => Puts(v)' # {}) /\ (Puts(v)' # {} => LastPut(v)' # {})
    <3>1. CASE k = "drop" \/ v # w
      <4>1. Puts(v)' = Puts(v)
        BY <1>1, <3>1, PublishedSets
      <4>2. LastPut(v)' = LastPut(v)
        BY <4>1 DEF LastPut
      <4>3. Drops(v)' # {} => Drops(v) # {} \/ v \in Owned
        BY <1>1, <3>1, PublishedSets DEF Publish
      <4>4. v \in Owned => LastPut(v) # {} /\ LastPut(v) \subseteq Puts(v)
        BY DEF Owned, LastPut
      <4> QED
        BY <4>1, <4>2, <4>3, <4>4 DEF LogInv
    <3>2. CASE k # "drop" /\ v = w
      <4>1. Puts(v)' = Puts(v) \union {Latest}
        BY <1>1, <3>2, PublishedSets
      <4>2. \A i \in Puts(v) : i \in Nat /\ i < Latest
        BY <1>1, Published DEF Puts
      <4>3. Latest \in Nat /\ Latest \in Puts(v)'
        BY <1>1, <4>1, Published
      <4>4. \A j \in Puts(v)' : j <= Latest
        BY <4>1, <4>2, <4>3
      <4>5. Latest \in LastPut(v)'
        BY <4>3, <4>4 DEF LastPut
      <4> QED
        BY <4>3, <4>5
    <3> QED
      BY <3>1, <3>2
  <2>2. ASSUME NEW i \in DOMAIN log', NEW j \in DOMAIN log', log'[i].kind = "drop",
               log'[j].wallet = log'[i].wallet
        PROVE  j <= i
    <3>0. i \in DOMAIN log \union {Latest} /\ j \in DOMAIN log \union {Latest}
      BY <1>1, <2>2, Published
    <3>1. CASE j \in DOMAIN log
      <4>0. log'[j] = log[j] /\ j \in Nat /\ j < Latest /\ Latest \in Nat
        BY <1>1, <3>1, Published
      <4>1. log'[j] = log[j] /\ j <= Latest
        BY <4>0
      <4>2. CASE i = Latest
        BY <4>1, <4>2
      <4>3. CASE i \in DOMAIN log
        <5>1. log'[i] = log[i]
          BY <1>1, <4>3, Published
        <5> QED
          BY <2>2, <3>1, <4>1, <4>3, <5>1 DEF LogInv
      <4> QED
        BY <3>0, <4>2, <4>3
    <3>2. CASE j = Latest /\ i \in DOMAIN log
      <4>1. log[i].kind = "drop" /\ log[i].wallet = w
        BY <1>1, <2>2, <3>2, Published
      <4>2. log[i] \in Events
        BY <3>2 DEF ServerOK
      <4>3. log[i] = [kind |-> "drop", wallet |-> w]
        BY <4>1, <4>2 DEF Events
      <4>4. i \in Drops(w)
        BY <4>3, <3>2 DEF Drops
      <4>5. Puts(w) # {}
        BY <4>4 DEF LogInv
      <4> QED
        BY <1>1, <4>4, <4>5 DEF Publish, Owned
    <3>3. CASE i = Latest /\ j = Latest
      BY <1>1, <3>3, Published
    <3> QED
      BY <3>0, <3>1, <3>2, <3>3
  <2> QED
    BY <2>1, <2>2 DEF LogInv
<1>2. CASE UNCHANGED log
  BY <1>2 DEF LogInv, Drops, Puts, LastPut
<1> QED
  BY <1>1, <1>2 DEF Next, vars, Fetch, Apply, LoadHome, StartFetch, FetchEventId,
     SetEventId, Collect, FetchFails, ApplyWallet, Unlink, ApplyAccount, ReadDb,
     AssignCache, Advance, Flush, GetWallets, Peek, KeepPeeked, AskWallets, LoadWallet,
     LoadAccount, LoadRefused, LoadFails, EndLoad, LoadRead, LoadDone, Relogin, Restart

\* The numbers the tasks work with.
LEMMA Numbers ==
    ASSUME TypeOK
    PROVE  /\ cursor \in Nat /\ prefs \in Nat /\ disk \in Nat /\ covered \in Nat
           /\ Latest \in Nat /\ Latest # 0
           /\ at \in [Fetchers -> Nat] /\ upto \in [Fetchers -> Nat]
           /\ pc \in [Tasks -> Labels] /\ Home \in Tasks /\ Fetchers \subseteq Tasks
           /\ Home \notin Fetchers
           /\ \A f \in Fetchers :
                /\ at[f] \in Nat /\ upto[f] \in Nat /\ upto[f] <= Latest
                /\ pc[f] \in {"setid", "asked"} => at[f] # 0
                /\ pc[f] \in Applying =>
                    /\ at[f] \in DOMAIN log /\ at[f] # 0 /\ at[f] + 1 <= Latest
                    /\ at[f] + 1 <= upto[f] /\ log[at[f]] \in Events
<1>1. ServerOK /\ IdsOK /\ PlacesOK /\ TasksOK
  BY DEF TypeOK
<1>2. Latest \in Nat /\ Latest # 0
  BY <1>1 DEF ServerOK, Latest
<1>3. ASSUME NEW f \in Fetchers
      PROVE  /\ at[f] \in Nat /\ upto[f] \in Nat /\ upto[f] <= Latest
             /\ pc[f] \in {"setid", "asked"} => at[f] # 0
  BY <1>1 DEF PlacesOK, TasksOK, FetchOK, Ids
<1>4. ASSUME NEW f \in Fetchers, pc[f] \in Applying
      PROVE  /\ at[f] \in DOMAIN log /\ at[f] # 0 /\ at[f] + 1 <= Latest
             /\ at[f] + 1 <= upto[f] /\ log[at[f]] \in Events
  <2>1. at[f] \in DOMAIN log /\ at[f] < upto[f]
    BY <1>1, <1>4 DEF TasksOK, FetchOK
  <2>2. at[f] # 0
    BY <1>1, <2>1 DEF ServerOK
  <2>3. log[at[f]] \in Events
    BY <1>4, EventApplied
  <2> QED
    BY <1>2, <1>3, <2>1, <2>2, <2>3
<1>5. at \in [Fetchers -> Nat] /\ upto \in [Fetchers -> Nat] /\ pc \in [Tasks -> Labels]
  BY <1>1 DEF PlacesOK, TasksOK, Ids
<1> QED
  BY <1>1, <1>2, <1>3, <1>4, <1>5, ConstantsAssumption DEF IdsOK, Ids, Tasks

\* No id gets ahead of the server.
LEMMA IdStep ==
    ASSUME IInv, [Next]_vars
    PROVE  IdInv'
<1>0. TypeOK /\ IdInv
  BY DEF IInv
<1>1. ASSUME NEW k \in {"create", "update", "drop"}, NEW w \in Wallets, Publish(k, w)
      PROVE  IdInv'
  <2>1. Latest' = Latest + 1
    BY <1>0, <1>1, Published DEF TypeOK
  <2> QED
    BY <1>0, <1>1, <2>1, Numbers DEF Publish, idVars, IdInv
<1>2. ASSUME NEW f \in Fetchers, StartFetch(f) \/ FetchEventId(f) \/ SetEventId(f)
      PROVE  IdInv'
  <2>1. Latest' = Latest /\ UNCHANGED <<prefs, disk, covered>>
    BY <1>2 DEF StartFetch, FetchEventId, SetEventId, idVars, Latest
  <2>2. cursor' \in {cursor, at[f]}
    BY <1>2 DEF StartFetch, FetchEventId, SetEventId, idVars
  <2>3. /\ \A g \in Fetchers : at'[g] \in {at[g], cursor, prefs, Latest}
    BY <1>0, <1>2, Numbers DEF StartFetch, FetchEventId, SetEventId
  <2> QED
    BY <1>0, <2>1, <2>2, <2>3, Numbers DEF IdInv
<1>3. ASSUME NEW f \in Fetchers, Collect(f) \/ FetchFails(f)
      PROVE  IdInv'
  <2>1. Latest' = Latest /\ UNCHANGED <<cursor, prefs, disk, covered>>
    BY <1>3 DEF Collect, FetchFails, idVars, Latest
  <2>2. \A g \in Fetchers : at'[g] \in {at[g], 0}
    BY <1>0, <1>3, Numbers DEF Collect, FetchFails, EndFetch
  <2> QED
    BY <1>0, <2>1, <2>2, Numbers DEF IdInv
<1>4. ASSUME NEW f \in Fetchers, ApplyWallet(f)
      PROVE  IdInv'
  BY <1>0, <1>4, Numbers DEF ApplyWallet, IdInv, idVars, Latest
<1>5. ASSUME NEW f \in Fetchers,
             Unlink(f) \/ ApplyAccount(f) \/ ReadDb(f) \/ AssignCache(f)
      PROVE  IdInv'
  BY <1>0, <1>5 DEF Unlink, ApplyAccount, ReadDb, AssignCache, IdInv, idVars, Latest
<1>6. ASSUME NEW f \in Fetchers, Advance(f)
      PROVE  IdInv'
  <2>1. pc[f] \in Applying
    BY <1>6 DEF Advance, Applying
  <2>2. at[f] + 1 \in Nat /\ at[f] + 1 <= Latest /\ Latest' = Latest
    BY <1>0, <1>6, <2>1, Numbers DEF Advance, Latest
  <2>3. /\ cursor' = at[f] + 1 /\ prefs' = at[f] + 1 /\ disk' = disk
        /\ covered' \in {0, covered, at[f] + 1}
    BY <1>6 DEF Advance, AppliedUpTo, Larger
  <2>4. \A g \in Fetchers : at'[g] \in {at[g], at[f] + 1, 0}
    BY <1>0, <1>6, Numbers DEF Advance, EndFetch
  <2> QED
    BY <1>0, <2>2, <2>3, <2>4, Numbers DEF IdInv
<1>7. CASE Flush \/ Relogin \/ Restart
  <2>1. Latest' = Latest /\ cursor' \in {cursor, 0} /\ covered' \in {covered, 0}
    BY <1>7 DEF Flush, Relogin, Restart, Latest
  <2>2. prefs' \in {prefs, disk, 0} /\ disk' \in {prefs, disk, 0}
    BY <1>7 DEF Flush, Relogin, Restart
  <2>3. \A g \in Fetchers : at'[g] \in {at[g], 0}
    BY <1>7 DEF Flush, Relogin, Restart
  <2> QED
    BY <1>0, <2>1, <2>2, <2>3, Numbers DEF IdInv
<1>8. CASE AskWallets
  BY <1>0, <1>8, Numbers DEF AskWallets, Larger, IdInv, idVars, Latest
<1>9. CASE UNCHANGED <<idVars, covered, log, at>>
  BY <1>0, <1>9 DEF IdInv, idVars, Latest
<1> QED
  BY <1>1, <1>2, <1>3, <1>4, <1>5, <1>6, <1>7, <1>8, <1>9
     DEF Next, vars, Fetch, Apply, LoadHome, idVars, GetWallets, Peek, KeepPeeked,
     LoadWallet, LoadAccount, LoadRefused, LoadFails, EndLoad, LoadRead, LoadDone

\* A login finds everything at rest, or it notes an overlap.
LEMMA CleanRelogin ==
    ASSUME TypeOK, Relogin, Undisturbed'
    PROVE  /\ \A t \in Tasks : pc[t] = "idle"
           /\ pc' = [t \in Tasks |-> IF t = Home THEN "peek" ELSE "idle"]
<1>1. \A t \in Tasks : pc[t] = "idle"
  BY DEF Relogin, Undisturbed
<1>2. \A t \in Tasks : Outlived(t) = IF t = Home THEN "peek" ELSE "idle"
  BY <1>1 DEF Outlived
<1> QED
  BY <1>1, <1>2 DEF Relogin

\* A step of one fetch leaves the others, the log and the load alone.
LEMMA FetchFrame ==
    ASSUME TypeOK, NEW f \in Fetchers, Fetch(f) \/ FetchFails(f)
    PROVE  /\ \A t \in Tasks \ {f} : pc'[t] = pc[t] /\ snap'[t] = snap[t]
           /\ \A g \in Fetchers \ {f} : at'[g] = at[g]
           /\ pc'[f] # "unlinkOld" /\ (pc'[f] = "setid" => pc[f] = "fetchid")
           /\ UNCHANGED <<log, disk, seen>>
           /\ history \subseteq history'
           /\ "partial" \in history' /\ "partial" \notin history =>
                pc[f] = "store" /\ covered = 0
           /\ "cut" \in history' => "cut" \in history
<1> USE Numbers
<1>0. snap \in [Tasks -> Views]
  BY DEF TypeOK, ViewsOK
<1>1. CASE StartFetch(f)
  BY <1>1 DEF StartFetch, GoTo, idVars
<1>2. CASE FetchEventId(f)
  BY <1>2 DEF FetchEventId, GoTo, idVars, Note
<1>3. CASE SetEventId(f)
  BY <1>3 DEF SetEventId, GoTo, Note
<1>4. CASE Collect(f)
  BY <1>4 DEF Collect, GoTo, EndFetch, idVars, Note
<1>5. CASE ApplyWallet(f)
  BY <1>5 DEF ApplyWallet, GoTo, idVars, Note
<1>6. CASE Unlink(f)
  BY <1>6 DEF Unlink, GoTo, idVars
<1>7. CASE ApplyAccount(f)
  BY <1>7 DEF ApplyAccount, GoTo, idVars
<1>8. CASE ReadDb(f)
  BY <1>0, <1>8 DEF ReadDb, GoTo, idVars
<1>9. CASE AssignCache(f)
  BY <1>0, <1>9 DEF AssignCache, AfterCache, GoTo, idVars
<1>10. CASE Advance(f)
  BY <1>10 DEF Advance, GoTo, EndFetch
<1>11. CASE FetchFails(f)
  BY <1>11 DEF FetchFails, GoTo, EndFetch, idVars
<1> QED
  BY <1>1, <1>2, <1>3, <1>4, <1>5, <1>6, <1>7, <1>8, <1>9, <1>10, <1>11 DEF Fetch, Apply

\* A step of the load leaves the fetches, the log and the ids alone.
LEMMA LoadFrame ==
    ASSUME TypeOK, LoadHome \/ LoadFails
    PROVE  /\ \A f \in Fetchers : pc'[f] = pc[f] /\ snap'[f] = snap[f]
           /\ UNCHANGED <<log, at, cursor, prefs, disk>>
           /\ history \ {"partial"} \subseteq history'
           /\ "cut" \in history' => "cut" \in history
           /\ covered # 0 => covered' # 0
           /\ covered' = covered \/ pc[Home] = "ask"
           /\ rows' = rows \/ pc[Home] = "load"
<1> USE Numbers
<1>0. snap \in [Tasks -> Views]
  BY DEF TypeOK, ViewsOK
<1>1. CASE GetWallets
  BY <1>1 DEF GetWallets, GoTo, idVars, dbVars
<1>2. CASE Peek
  BY <1>0, <1>2 DEF Peek, GoTo, idVars, dbVars, Note
<1>3. CASE KeepPeeked
  BY <1>0, <1>3 DEF KeepPeeked, GoTo, idVars, dbVars
<1>4. CASE AskWallets
  BY <1>4 DEF AskWallets, GoTo, idVars, dbVars, Larger
<1>5. CASE LoadWallet
  BY <1>5 DEF LoadWallet, GoTo, idVars
<1>6. CASE LoadAccount
  BY <1>6 DEF LoadAccount, GoTo, idVars
<1>7. CASE LoadRefused
  BY <1>7 DEF LoadRefused, EndLoad, GoTo, idVars, dbVars
<1>8. CASE LoadFails
  BY <1>8 DEF LoadFails, EndLoad, GoTo, idVars, dbVars
<1>9. CASE LoadRead
  BY <1>0, <1>9 DEF LoadRead, GoTo, idVars, dbVars
<1>10. CASE LoadDone
  BY <1>0, <1>10 DEF LoadDone, GoTo, idVars, dbVars
<1> QED
  BY <1>1, <1>2, <1>3, <1>4, <1>5, <1>6, <1>7, <1>8, <1>9, <1>10 DEF LoadHome

\* A new process has no fetch at work, and the home screen starts over.
LEMMA RestartFrame ==
    ASSUME TypeOK, Restart
    PROVE  /\ pc'[Home] = "peek" /\ \A f \in Fetchers : pc'[f] = "idle"
           /\ \A t \in Tasks : ~Busy(t)'
           /\ UNCHANGED <<log, rows, accounts, disk, covered>>
           /\ cursor' = 0 /\ prefs' = disk /\ cache' = NoView
           /\ history \subseteq history'
<1>1. pc' = [t \in Tasks |-> IF t = Home THEN "peek" ELSE "idle"]
  BY DEF Restart
<1> QED
  BY <1>1, Numbers DEF Restart, dbVars, Busy, Holding, Applying, Loading

\* Whoever works with the copy is alone, or an overlap is noted.
LEMMA AloneStep ==
    ASSUME IInv, [Next]_vars
    PROVE  AloneInv'
<1>0. TypeOK /\ AloneInv
  BY DEF IInv
<1>1. ASSUME NEW f \in Fetchers, Fetch(f) \/ FetchFails(f)
      PROVE  AloneInv'
  <2>1. Undisturbed' => (Busy(f)' => Busy(f) \/ ~OthersBusy(f))
    <3>1. CASE Collect(f)
      BY <1>0, <3>1, Numbers DEF Collect, Undisturbed, Note, EndFetch, GoTo, Busy,
         Holding, Applying, Loading
    <3>2. CASE ~Collect(f)
      BY <1>0, <1>1, <3>2, Numbers DEF Fetch, Apply, StartFetch, FetchEventId, SetEventId,
         FetchFails, EndFetch, ApplyWallet, Unlink, ApplyAccount, ReadDb, AssignCache,
         Advance, GoTo, Busy, Holding, Applying, Loading
    <3> QED
      BY <3>1, <3>2
  <2>2. Undisturbed' => Undisturbed
    BY <1>0, <1>1, FetchFrame DEF Undisturbed
  <2>3. \A t \in Tasks \ {f} : Busy(t)' = Busy(t) /\ pc'[t] = pc[t]
    BY <1>0, <1>1, FetchFrame DEF Busy
  <2>4. f \in Tasks /\ pc'[f] # "unlinkOld"
    BY <1>0, <1>1, FetchFrame, Numbers
  <2> QED
    BY <1>0, <2>1, <2>2, <2>3, <2>4 DEF AloneInv, OthersBusy, Tasks
<1>2. CASE LoadHome \/ LoadFails
  <2>1. Undisturbed' => (Busy(Home)' => Busy(Home) \/ ~OthersBusy(Home))
    BY <1>0, <1>2, Numbers DEF LoadHome, GetWallets, Peek, KeepPeeked, AskWallets,
       LoadWallet, LoadAccount, LoadRefused, LoadFails, EndLoad, LoadRead, LoadDone,
       Undisturbed, Note, GoTo, Busy, Holding, Applying, Loading
  <2>2. Undisturbed' => Undisturbed
    BY <1>0, <1>2, LoadFrame DEF Undisturbed
  <2>3. \A f \in Fetchers : Busy(f)' = Busy(f) /\ pc'[f] = pc[f]
    BY <1>0, <1>2, LoadFrame DEF Busy
  <2> QED
    BY <1>0, <2>1, <2>2, <2>3, Numbers DEF AloneInv, OthersBusy, Tasks
<1>3. CASE Relogin
  BY <1>0, <1>3, CleanRelogin, Numbers DEF AloneInv, Busy, Holding, Applying, Loading
<1>4. CASE Restart
  BY <1>0, <1>4, RestartFrame DEF AloneInv
<1>5. CASE UNCHANGED <<pc, history>>
  BY <1>0, <1>5 DEF AloneInv, Undisturbed, Busy
<1> QED
  BY <1>1, <1>2, <1>3, <1>4, <1>5 DEF Next, vars, Publish, Flush

\* The ids keep their order.
LEMMA OrderStep ==
    ASSUME IInv, [Next]_vars
    PROVE  OrderInv'
<1>0. TypeOK /\ IdInv /\ AloneInv /\ OrderInv
  BY DEF IInv
<1>1. ASSUME NEW f \in Fetchers, Fetch(f) \/ FetchFails(f), Undisturbed'
      PROVE  OrderInv'
  <2>0. /\ Undisturbed /\ disk' = disk
        /\ \A g \in Fetchers \ {f} : pc'[g] = pc[g] /\ at'[g] = at[g]
    BY <1>0, <1>1, FetchFrame DEF Undisturbed, Tasks
  <2>1. CASE StartFetch(f)
    BY <1>0, <2>0, <2>1, Numbers DEF StartFetch, GoTo, idVars, OrderInv, Applying
  <2>2. CASE FetchEventId(f)
    <3>1. pc'[f] = "setid" /\ prefs <= at'[f] /\ UNCHANGED <<cursor, prefs>>
      BY <1>0, <2>2, Numbers DEF FetchEventId, GoTo, idVars
    <3> QED
      BY <1>0, <2>0, <3>1 DEF OrderInv, Applying
  <2>3. CASE SetEventId(f)
    <3>1. /\ pc'[f] = "asked" /\ cursor = 0 /\ cursor' = at[f] /\ at[f] # 0
          /\ prefs' = prefs /\ prefs <= at[f] /\ at' = at
      BY <1>0, <1>1, <2>0, <2>3, Numbers DEF SetEventId, GoTo, Undisturbed, Note, OrderInv
    <3>2. \A g \in Fetchers \ {f} : pc[g] \notin Applying
      BY <1>0, <2>0, <3>1, Numbers DEF OrderInv
    <3> QED
      BY <1>0, <2>0, <3>1, <3>2 DEF OrderInv, Applying
  <2>4. CASE Collect(f)
    <3>1. /\ UNCHANGED <<cursor, prefs>>
          /\ pc'[f] \in {"idle", "store"} /\ (pc'[f] = "store" => at'[f] = cursor)
      BY <1>0, <1>1, <2>4, Numbers DEF Collect, EndFetch, GoTo, idVars, Undisturbed, Note
    <3> QED
      BY <1>0, <2>0, <3>1 DEF OrderInv, Applying
  <2>5. CASE FetchFails(f)
    <3>1. pc'[f] = "idle" /\ UNCHANGED <<cursor, prefs>>
      BY <1>0, <2>5, Numbers DEF FetchFails, EndFetch, GoTo, idVars
    <3> QED
      BY <1>0, <2>0, <3>1 DEF OrderInv, Applying
  <2>6. CASE ApplyWallet(f) \/ Unlink(f) \/ ApplyAccount(f) \/ ReadDb(f) \/ AssignCache(f)
    <3>1. /\ pc[f] \in Applying /\ pc'[f] \in Applying
          /\ UNCHANGED <<cursor, prefs, at>>
      BY <1>0, <2>6, Numbers DEF ApplyWallet, Unlink, ApplyAccount, ReadDb, AssignCache,
         AfterCache, GoTo, idVars, Applying
    <3> QED
      BY <1>0, <2>0, <3>1 DEF OrderInv, Applying
  <2>7. CASE Advance(f)
    <3>1. pc[f] \in Applying /\ Busy(f)
      BY <2>7 DEF Advance, Applying, Busy, Holding
    <3>2. \A g \in Fetchers \ {f} : pc[g] \notin Applying
      BY <1>0, <2>0, <3>1, Numbers DEF AloneInv, Busy, Holding
    <3>3. at[f] = cursor /\ prefs <= cursor /\ disk <= prefs
      BY <1>0, <2>0, <3>1, Numbers DEF OrderInv
    <3>4. /\ cursor' = at[f] + 1 /\ prefs' = at[f] + 1
          /\ pc'[f] \in {"idle", "store"} /\ (pc'[f] = "store" => at'[f] = at[f] + 1)
      BY <1>0, <2>7, Numbers DEF Advance, AppliedUpTo, EndFetch, GoTo
    <3>5. disk' <= prefs' /\ cursor' # 0 /\ prefs' <= cursor'
      BY <1>0, <2>0, <3>3, <3>4, Numbers
    <3> QED
      BY <2>0, <3>2, <3>4, <3>5 DEF OrderInv, Applying
  <2> QED
    BY <1>1, <2>1, <2>2, <2>3, <2>4, <2>5, <2>6, <2>7 DEF Fetch, Apply
<1>2. CASE LoadHome \/ LoadFails
  BY <1>0, <1>2, LoadFrame DEF OrderInv, Undisturbed
<1>3. CASE Relogin
  <2>1. disk' = 0 /\ prefs' = 0 /\ cursor' = cursor
    BY <1>3 DEF Relogin
  <2> QED
    BY <1>0, <1>3, <2>1, CleanRelogin, Numbers DEF OrderInv, Applying
<1>4. CASE Restart
  BY <1>0, <1>4, RestartFrame, Numbers DEF OrderInv, Applying, Undisturbed
<1>5. CASE Flush
  BY <1>0, <1>5, Numbers DEF Flush, OrderInv, Undisturbed
<1>6. CASE UNCHANGED <<pc, at, cursor, prefs, disk, history>>
  BY <1>0, <1>6 DEF OrderInv, Undisturbed
<1> QED
  BY <1>1, <1>2, <1>3, <1>4, <1>5, <1>6 DEF Next, vars, Publish, idVars, OrderInv

\* What the database knows keeps up with the ids.
LEMMA KnownStep ==
    ASSUME IInv, [Next]_vars
    PROVE  KnownInv'
<1>0. TypeOK /\ IdInv /\ AloneInv /\ OrderInv /\ KnownInv
  BY DEF IInv
<1>1. ASSUME NEW f \in Fetchers, Fetch(f) \/ FetchFails(f), Clean', covered' # 0
      PROVE  KnownInv'
  <2>0. /\ Clean /\ Undisturbed
        /\ \A g \in Fetchers \ {f} : pc'[g] = pc[g] /\ at'[g] = at[g]
    BY <1>0, <1>1, FetchFrame DEF Clean, Undisturbed, Tasks
  <2>1. CASE StartFetch(f)
    BY <1>0, <1>1, <2>0, <2>1, Numbers
       DEF StartFetch, GoTo, idVars, KnownInv, Applying, Written
  <2>2. CASE FetchEventId(f)
    <3>1. pc'[f] = "setid" /\ at'[f] <= covered /\ UNCHANGED <<cursor, prefs, covered>>
      BY <1>0, <1>1, <2>2, Numbers DEF FetchEventId, GoTo, idVars, Clean, Note
    <3> QED
      BY <1>0, <1>1, <2>0, <3>1 DEF KnownInv, Applying, Written
  <2>3. CASE SetEventId(f)
    <3>1. /\ pc'[f] = "asked" /\ cursor = 0 /\ cursor' = at[f] /\ at[f] # 0
          /\ UNCHANGED <<prefs, covered, at>> /\ at[f] <= covered
      BY <1>0, <1>1, <2>0, <2>3, Numbers
         DEF SetEventId, GoTo, Clean, Undisturbed, Note, KnownInv
    <3> QED
      BY <1>0, <1>1, <2>0, <3>1 DEF KnownInv, Applying, Written
  <2>4. CASE Collect(f) \/ FetchFails(f)
    <3>1. UNCHANGED <<cursor, prefs, covered>> /\ pc'[f] \in {"idle", "store"}
      BY <1>0, <2>4, Numbers DEF Collect, FetchFails, EndFetch, GoTo, idVars
    <3> QED
      BY <1>0, <1>1, <2>0, <3>1 DEF KnownInv, Applying, Written
  <2>5. CASE ApplyWallet(f)
    <3>1. pc[f] \in Applying /\ Busy(f)
      BY <2>5 DEF ApplyWallet, Applying, Busy, Holding
    <3>2. \A g \in Fetchers \ {f} : pc[g] \notin Written
      BY <1>0, <2>0, <3>1, Numbers DEF AloneInv, Busy, Holding, Written
    <3>3. at[f] = cursor /\ at[f] # 0 /\ prefs <= cursor
      BY <1>0, <2>0, <3>1, Numbers DEF OrderInv
    <3>4. covered # 0 /\ cursor <= covered
      BY <1>0, <1>1, <2>0, <2>5, <3>3, Numbers DEF ApplyWallet, KnownInv
    <3>5. UNCHANGED <<cursor, prefs, at>> /\ covered' = at[f]
      BY <1>0, <2>5, <3>3, <3>4, Numbers DEF ApplyWallet, idVars
    <3> QED
      BY <1>0, <2>0, <3>2, <3>3, <3>5, Numbers DEF KnownInv
  <2>6. CASE Unlink(f) \/ ApplyAccount(f) \/ ReadDb(f) \/ AssignCache(f)
    <3>1. /\ pc[f] \in Written /\ pc'[f] \in Written
          /\ UNCHANGED <<cursor, prefs, covered, at>>
      BY <1>0, <2>6, Numbers DEF Unlink, ApplyAccount, ReadDb, AssignCache,
         AfterCache, GoTo, idVars, Applying, Written
    <3> QED
      BY <1>0, <1>1, <2>0, <3>1 DEF KnownInv, Applying, Written
  <2>7. CASE Advance(f)
    <3>1. pc[f] \in Written /\ Busy(f)
      BY <2>7 DEF Advance, Applying, Busy, Holding, Written
    <3>2. \A g \in Fetchers \ {f} : pc[g] \notin Written
      BY <1>0, <2>0, <3>1, Numbers DEF AloneInv, Busy, Holding, Written
    <3>3. covered # 0 /\ covered = at[f]
      <4>1. covered # 0
        BY <1>1, <2>7 DEF Advance
      <4> QED
        BY <1>0, <2>0, <3>1, <4>1 DEF KnownInv
    <3>4. cursor' = at[f] + 1 /\ prefs' = at[f] + 1 /\ covered' = at[f] + 1
      BY <1>0, <2>7, <3>3, Numbers DEF Advance, AppliedUpTo, Larger
    <3>5. pc'[f] \in {"idle", "store"}
      BY <1>0, <2>7, Numbers DEF Advance, EndFetch, GoTo
    <3>6. cursor' # 0 /\ cursor' <= covered' /\ prefs' <= covered'
      BY <1>0, <3>4, Numbers
    <3> QED
      BY <2>0, <3>2, <3>5, <3>6 DEF KnownInv, Written, Applying
  <2> QED
    BY <1>1, <2>1, <2>2, <2>3, <2>4, <2>5, <2>6, <2>7 DEF Fetch, Apply
<1>2. ASSUME LoadHome \/ LoadFails, Clean', covered' # 0
      PROVE  KnownInv'
  <2>1. /\ Clean /\ Undisturbed
        /\ UNCHANGED <<at, cursor, prefs>> /\ \A f \in Fetchers : pc'[f] = pc[f]
    BY <1>0, <1>2, LoadFrame DEF Clean, Undisturbed
  <2>2. CASE AskWallets
    <3>1. covered' = Latest
      BY <1>0, <2>2, Numbers DEF AskWallets, Larger, IdInv
    <3>2. Busy(Home)
      BY <2>2 DEF AskWallets, Busy, Holding, Loading
    <3>3. \A f \in Fetchers : pc[f] \notin Written
      BY <1>0, <2>1, <3>2, Numbers DEF AloneInv, Busy, Holding, Written
    <3> QED
      BY <1>0, <2>1, <3>1, <3>3 DEF KnownInv, IdInv
  <2>3. CASE ~AskWallets
    <3>1. covered' = covered
      BY <1>2, <2>3 DEF LoadHome, GetWallets, Peek, KeepPeeked, LoadWallet, LoadAccount,
         LoadRefused, LoadFails, EndLoad, LoadRead, LoadDone
    <3> QED
      BY <1>0, <1>2, <2>1, <3>1 DEF KnownInv
  <2> QED
    BY <2>2, <2>3
<1>3. CASE Relogin
  BY <1>3 DEF Relogin, KnownInv
<1>4. CASE Restart
  <2>1. Clean' => Clean
    BY <1>0, <1>4, RestartFrame DEF Clean, Undisturbed
  <2>2. Clean /\ covered # 0 => prefs' <= covered
    BY <1>0, <1>4, RestartFrame, Numbers DEF KnownInv, OrderInv, Clean
  <2> QED
    BY <1>0, <1>4, <2>1, <2>2, RestartFrame, Numbers DEF KnownInv, Applying, Written
<1>5. CASE UNCHANGED <<pc, at, cursor, prefs, covered, history>>
  BY <1>0, <1>5 DEF KnownInv, Clean, Undisturbed
<1> QED
  BY <1>1, <1>2, <1>3, <1>4, <1>5 DEF Next, vars, Publish, Flush, idVars, KnownInv

\* A task that writes to the copy has it to itself.
LEMMA Alone ==
    ASSUME TypeOK, AloneInv, Undisturbed, NEW t \in Tasks, Busy(t)
    PROVE  \A u \in Tasks \ {t} : pc[u] \notin Holding
  BY DEF AloneInv, Busy

\* The event a fetch applies stays what it is, and where it is.
LEMMA EventStays ==
    ASSUME TypeOK, [Next]_vars, NEW i \in DOMAIN log
    PROVE  i \in DOMAIN log' /\ log'[i] = log[i]
<1>1. ASSUME NEW k \in {"create", "update", "drop"}, NEW w \in Wallets, Publish(k, w)
      PROVE  i \in DOMAIN log' /\ log'[i] = log[i]
  BY <1>1, Published DEF TypeOK
<1>2. CASE Flush \/ Relogin \/ Restart \/ UNCHANGED vars
  BY <1>2 DEF Flush, Relogin, Restart, vars
<1>3. CASE LoadHome \/ LoadFails
  BY <1>3, LoadFrame
<1>4. ASSUME NEW f \in Fetchers, Fetch(f) \/ FetchFails(f)
      PROVE  log' = log
  BY <1>4, FetchFrame
<1> QED
  BY <1>1, <1>2, <1>3, <1>4 DEF Next

\* What was applied shows in the wallet table.
LEMMA AppliedStep ==
    ASSUME IInv, [Next]_vars
    PROVE  AppliedInv'
<1>0. TypeOK /\ AloneInv /\ AppliedInv /\ DbOK
  BY DEF IInv, TypeOK
<1>1. ASSUME NEW f \in Fetchers, Fetch(f) \/ FetchFails(f)
      PROVE  AppliedInv'
  <2>0. /\ log' = log /\ (Undisturbed' => Undisturbed)
        /\ \A g \in Fetchers \ {f} : pc'[g] = pc[g] /\ at'[g] = at[g]
    BY <1>0, <1>1, FetchFrame DEF Undisturbed, Tasks
  <2>1. CASE ApplyWallet(f)
    <3>1. /\ Busy(f) /\ pc[f] \in Applying /\ at' = at
          /\ pc'[f] \in {"advance", "unlink", "read"}
      BY <1>0, <2>1, Numbers DEF ApplyWallet, GoTo, Busy, Holding, Applying
    <3>2. Undisturbed => \A g \in Fetchers \ {f} : pc[g] \notin Written
      BY <1>0, <3>1, Numbers, Alone DEF Holding, Written
    <3>3. rows'[log[at[f]].wallet] = IF log[at[f]].kind = "drop" THEN 0 ELSE at[f]
      <4>1. log[at[f]].wallet \in Wallets
        BY <1>0, <3>1, Numbers DEF Events
      <4> QED
        BY <1>0, <2>1, <4>1 DEF ApplyWallet, Stored, DbOK
    <3> QED
      BY <1>0, <2>0, <3>1, <3>2, <3>3 DEF AppliedInv
  <2>2. CASE AssignCache(f)
    <3>1. /\ pc[f] \in Written /\ UNCHANGED <<rows, at>>
          /\ pc'[f] = "account" => log[at[f]].kind = "create"
      BY <1>0, <2>2, Numbers DEF AssignCache, AfterCache, GoTo, dbVars, Written, Applying
    <3> QED
      BY <1>0, <2>0, <3>1 DEF AppliedInv
  <2>3. CASE Unlink(f) \/ ApplyAccount(f) \/ ReadDb(f)
    <3>1. pc[f] \in Written /\ UNCHANGED <<rows, at>> /\ pc'[f] # "account"
      BY <1>0, <2>3, Numbers DEF Unlink, ApplyAccount, ReadDb, GoTo, dbVars, Written, Applying
    <3> QED
      BY <1>0, <2>0, <3>1 DEF AppliedInv
  <2>4. CASE \/ StartFetch(f) \/ FetchEventId(f) \/ SetEventId(f) \/ Collect(f)
             \/ FetchFails(f) \/ Advance(f)
    <3>1. rows' = rows /\ pc'[f] \notin Written
      BY <1>0, <2>4, Numbers DEF StartFetch, FetchEventId, SetEventId, Collect, FetchFails,
         Advance, EndFetch, GoTo, dbVars, Written, Applying
    <3> QED
      BY <1>0, <2>0, <3>1 DEF AppliedInv, Written, Applying
  <2> QED
    BY <1>1, <2>1, <2>2, <2>3, <2>4 DEF Fetch, Apply
<1>2. CASE LoadHome \/ LoadFails
  <2>1. /\ UNCHANGED <<log, at>> /\ (Undisturbed' => Undisturbed)
        /\ \A f \in Fetchers : pc'[f] = pc[f]
    BY <1>0, <1>2, LoadFrame DEF Undisturbed
  <2>2. CASE rows' # rows
    <3>1. Busy(Home)
      BY <1>0, <1>2, <2>2, LoadFrame DEF Busy, Holding, Loading
    <3>2. Undisturbed => \A f \in Fetchers : pc[f] \notin Written
      BY <1>0, <3>1, Numbers, Alone DEF Holding, Written
    <3> QED
      BY <1>0, <2>1, <3>2 DEF AppliedInv
  <2>3. CASE rows' = rows
    BY <1>0, <2>1, <2>3 DEF AppliedInv
  <2> QED
    BY <2>2, <2>3
<1>3. CASE Relogin
  <2>1. ASSUME NEW f \in Fetchers, pc'[f] = "account"
        PROVE  log'[at'[f]].kind = "create"
    <3>1. pc'[f] = Outlived(f) /\ f # Home
      BY <1>0, <1>3, Numbers DEF Relogin
    <3> QED
      BY <1>0, <1>3, <2>1, <3>1 DEF Relogin, Outlived, AfterCache, AppliedInv
  <2>2. Undisturbed' => \A f \in Fetchers : pc'[f] \notin Written
    BY <1>0, <1>3, CleanRelogin, Numbers DEF Written, Applying
  <2> QED
    BY <2>1, <2>2 DEF AppliedInv
<1>4. CASE Restart
  BY <1>0, <1>4, RestartFrame DEF AppliedInv, Written, Applying
<1>5. CASE UNCHANGED <<pc, at, rows, history>>
  <2>1. \A f \in Fetchers : pc[f] \in Applying => log'[at[f]] = log[at[f]]
    BY <1>0, Numbers, EventStays
  <2> QED
    BY <1>0, <1>5, <2>1 DEF AppliedInv, Undisturbed, Written, Applying
<1> QED
  BY <1>1, <1>2, <1>3, <1>4, <1>5 DEF Next, vars, Publish, Flush, dbVars

\* A step of a fetch that is not applying an event leaves the tables, the copy
\* in memory and what was read for it alone.
LEMMA QuietFetch ==
    ASSUME TypeOK, NEW f \in Fetchers, Fetch(f) \/ FetchFails(f)
    PROVE  \/ pc[f] \in Applying
           \/ UNCHANGED <<rows, accounts, cache, snap, covered>> /\ pc'[f] \notin Written
<1> QED
  BY Numbers DEF Fetch, Apply, StartFetch, FetchEventId, SetEventId, Collect, FetchFails,
     EndFetch, ApplyWallet, Unlink, ApplyAccount, ReadDb, AssignCache, Advance, GoTo,
     dbVars, Written, Applying

\* What is loaded next is the row of a wallet.
LEMMA NextToLoad ==
    ASSUME DbOK, seen # Rowless
    PROVE  NextSeen \in Wallets /\ seen[NextSeen] # 0
<1>1. \E w \in Wallets : seen[w] # 0
  BY DEF DbOK, Rowless
<1> QED
  BY <1>1 DEF NextSeen

\* What the home screen holds stays true while it holds it.
LEMMA HomeStep ==
    ASSUME IInv, [Next]_vars
    PROVE  HomeInv'
<1>0. TypeOK /\ AloneInv /\ HomeInv /\ DbOK /\ snap \in [Tasks -> Views]
  BY DEF IInv, TypeOK, ViewsOK
<1>1. ASSUME NEW f \in Fetchers, Fetch(f) \/ FetchFails(f), Undisturbed'
      PROVE  HomeInv'
  <2>1. /\ Undisturbed /\ seen' = seen
        /\ pc'[Home] = pc[Home] /\ snap'[Home] = snap[Home] /\ f \in Tasks
    BY <1>0, <1>1, FetchFrame, Numbers DEF Undisturbed
  <2>2. CASE pc[f] \in Applying
    <3>1. pc[Home] \notin Holding
      BY <1>0, <2>1, <2>2, Alone, Numbers DEF Busy, Holding
    <3> QED
      BY <2>1, <3>1 DEF HomeInv, Holding, Loading, Applying
  <2>3. CASE pc[f] \notin Applying
    <3>1. UNCHANGED <<rows, accounts, cache>>
      BY <1>0, <1>1, <2>3, QuietFetch
    <3> QED
      BY <1>0, <2>1, <3>1 DEF HomeInv, DbView, NextSeen
  <2> QED
    BY <2>2, <2>3
<1>2. ASSUME LoadHome \/ LoadFails, Undisturbed'
      PROVE  HomeInv'
  <2>0. Undisturbed
    BY <1>0, <1>2, LoadFrame DEF Undisturbed
  <2>1. CASE GetWallets \/ LoadRefused \/ LoadFails \/ LoadDone
    <3>1. pc'[Home] \in {"peek", "idle"}
      BY <1>0, <2>1, Numbers DEF GetWallets, LoadRefused, LoadFails, EndLoad, LoadDone, GoTo
    <3> QED
      BY <3>1 DEF HomeInv, Loading
  <2>2. CASE Peek
    <3>1. pc'[Home] = "peeked" /\ snap'[Home] = DbView /\ UNCHANGED <<rows, accounts>>
      BY <1>0, <2>2, Numbers DEF Peek, GoTo, dbVars
    <3> QED
      BY <3>1 DEF HomeInv, Loading, DbView
  <2>3. CASE KeepPeeked
    <3>1. /\ pc[Home] = "peeked" /\ UNCHANGED <<rows, accounts>> /\ cache' = snap[Home]
          /\ \/ pc'[Home] = "idle"
             \/ pc'[Home] = "ask" /\ snap[Home] = NoView
      BY <1>0, <2>3, Numbers DEF KeepPeeked, GoTo, dbVars, Refreshed
    <3>2. snap[Home] = NoView => rows = Rowless
      BY <1>0, <2>0, <3>1 DEF HomeInv, DbView, View, NoView
    <3> QED
      BY <3>1, <3>2 DEF HomeInv, Loading
  <2>4. CASE AskWallets
    <3>1. pc[Home] = "ask" /\ pc'[Home] = "load" /\ cache' = cache
      BY <1>0, <2>4, Numbers DEF AskWallets, GoTo
    <3> QED
      BY <1>0, <2>0, <3>1 DEF HomeInv, Loading
  <2>5. CASE LoadWallet
    <3>1. /\ pc[Home] = "load" /\ pc'[Home] = "loadAccount" /\ cache' = cache /\ seen' = seen
          /\ seen # Rowless
      BY <1>0, <2>5, Numbers DEF LoadWallet, GoTo
    <3>2. NextSeen' = NextSeen /\ NextSeen \in Wallets /\ seen[NextSeen] # 0
      BY <1>0, <3>1, NextToLoad DEF NextSeen
    <3>3. rows'[NextSeen] = seen[NextSeen]
      BY <1>0, <2>5, <3>2 DEF LoadWallet, Stored, DbOK
    <3> QED
      BY <1>0, <2>0, <3>1, <3>2, <3>3 DEF HomeInv, Loading
  <2>6. CASE LoadAccount
    <3>1. pc[Home] = "loadAccount" /\ pc'[Home] = "load" /\ cache' = cache
      BY <1>0, <2>6, Numbers DEF LoadAccount, GoTo
    <3> QED
      BY <1>0, <2>0, <3>1 DEF HomeInv, Loading
  <2>7. CASE LoadRead
    <3>1. /\ pc[Home] = "load" /\ pc'[Home] = "read" /\ snap'[Home] = DbView
          /\ seen = Rowless /\ UNCHANGED <<rows, accounts, cache, seen>>
      BY <1>0, <2>7, Numbers DEF LoadRead, GoTo, dbVars
    <3> QED
      BY <1>0, <2>0, <3>1 DEF HomeInv, Loading, DbView, Rowless
  <2> QED
    BY <1>2, <2>1, <2>2, <2>3, <2>4, <2>5, <2>6, <2>7 DEF LoadHome
<1>3. CASE Relogin
  BY <1>0, <1>3, CleanRelogin, Numbers DEF HomeInv, Loading
<1>4. CASE Restart
  BY <1>0, <1>4, RestartFrame DEF HomeInv, Loading
<1>5. CASE UNCHANGED <<pc, snap, rows, accounts, cache, seen, history>>
  BY <1>0, <1>5 DEF HomeInv, Undisturbed, DbView, NextSeen
<1> QED
  BY <1>1, <1>2, <1>3, <1>4, <1>5 DEF Next, vars, Publish, Flush, dbVars, HomeInv

Refreshing == {"unlink", "read", "assign", "read2", "assign2"}

\* The copy in memory is refreshed after every change of the tables.
LEMMA CacheStep ==
    ASSUME IInv, [Next]_vars
    PROVE  CacheInv'
<1>0. /\ TypeOK /\ AloneInv /\ AppliedInv /\ HomeInv /\ CacheInv /\ DbOK
      /\ snap \in [Tasks -> Views]
  BY DEF IInv, TypeOK, ViewsOK
<1>1. ASSUME NEW f \in Fetchers, Fetch(f) \/ FetchFails(f), Undisturbed'
      PROVE  CacheInv'
  <2>1. /\ Undisturbed /\ f \in Tasks /\ Fetchers \subseteq Tasks
        /\ \A g \in Fetchers \ {f} : pc'[g] = pc[g] /\ snap'[g] = snap[g]
    BY <1>0, <1>1, FetchFrame, Numbers DEF Undisturbed
  <2>2. CASE pc[f] \in Applying
    <3>0. \A g \in Fetchers \ {f} : pc[g] \notin Refreshing /\ pc'[g] \notin Refreshing
      BY <1>0, <2>1, <2>2, Alone DEF Busy, Holding, Applying, Refreshing
    <3>1. pc[f] \notin Refreshing => cache \in {NoView, DbView}
      BY <1>0, <2>1, <3>0 DEF CacheInv, Refreshing
    <3>2. CASE ApplyWallet(f)
      <4>1. pc[f] \notin Refreshing
        BY <3>2 DEF ApplyWallet, Refreshing
      <4>2. CASE pc'[f] \in {"unlink", "read"}
        BY <3>0, <4>2 DEF CacheInv, Refreshing
      <4>3. CASE pc'[f] \notin {"unlink", "read"}
        <5>1. /\ pc'[f] = "advance" /\ rows' = rows /\ accounts' = accounts
              /\ cache' = cache
          BY <1>0, <3>2, <4>3, Numbers DEF ApplyWallet, GoTo, DbOK
        <5> QED
          BY <3>0, <3>1, <4>1, <5>1 DEF CacheInv, DbView, Refreshing
      <4> QED
        BY <4>2, <4>3
    <3>3. CASE Unlink(f)
      <4>1. pc'[f] = "read"
        BY <1>0, <2>1, <3>3, Numbers DEF Unlink, GoTo, AloneInv
      <4> QED
        BY <3>0, <4>1 DEF CacheInv, Refreshing
    <3>4. CASE ApplyAccount(f)
      <4>1. pc'[f] = "read2"
        BY <1>0, <3>4, Numbers DEF ApplyAccount, GoTo
      <4> QED
        BY <3>0, <4>1 DEF CacheInv, Refreshing
    <3>5. CASE ReadDb(f)
      <4>1. /\ pc'[f] \in {"assign", "assign2"} /\ UNCHANGED <<rows, accounts>>
            /\ snap'[f] = DbView
        BY <1>0, <3>5, Numbers DEF ReadDb, GoTo, dbVars
      <4> QED
        BY <3>0, <4>1 DEF CacheInv, Refreshing, DbView
    <3>6. CASE AssignCache(f)
      <4>1. /\ pc[f] \in {"assign", "assign2"} /\ UNCHANGED <<rows, accounts>>
            /\ cache' = snap[f] /\ pc'[f] \in {"account", "advance"}
        BY <1>0, <3>6, Numbers DEF AssignCache, AfterCache, Refreshed, GoTo, dbVars
      <4>2. cache' = DbView
        BY <1>0, <2>1, <4>1 DEF CacheInv
      <4> QED
        BY <3>0, <4>1, <4>2 DEF CacheInv, Refreshing, DbView
    <3>7. CASE Advance(f) \/ FetchFails(f)
      <4>1. /\ pc[f] \in {"advance", "store", "fetchid", "asked"}
            /\ UNCHANGED <<rows, accounts, cache>> /\ pc'[f] \in {"store", "idle"}
        BY <1>0, <3>7, Numbers DEF Advance, FetchFails, EndFetch, GoTo, dbVars
      <4> QED
        BY <3>0, <3>1, <4>1 DEF CacheInv, Refreshing, DbView
    <3>8. CASE StartFetch(f) \/ FetchEventId(f) \/ SetEventId(f) \/ Collect(f)
      BY <2>2, <3>8 DEF StartFetch, FetchEventId, SetEventId, Collect, Applying
    <3> QED
      BY <1>1, <3>2, <3>3, <3>4, <3>5, <3>6, <3>7, <3>8 DEF Fetch, Apply
  <2>3. CASE pc[f] \notin Applying
    <3>1. UNCHANGED <<rows, accounts, cache, snap>> /\ pc'[f] \notin Written
      BY <1>0, <1>1, <2>3, QuietFetch
    <3>2. \A g \in Fetchers : pc[g] \in Refreshing => pc'[g] = pc[g]
      BY <2>1, <2>3 DEF Refreshing, Applying
    <3>3. \A g \in Fetchers : pc'[g] \in Refreshing => pc'[g] = pc[g]
      BY <2>1, <3>1 DEF Refreshing, Applying, Written
    <3> QED
      BY <1>0, <2>1, <3>1, <3>2, <3>3 DEF CacheInv, DbView, Refreshing
  <2> QED
    BY <2>2, <2>3
<1>2. ASSUME LoadHome \/ LoadFails, Undisturbed'
      PROVE  CacheInv'
  <2>0. Undisturbed /\ \A f \in Fetchers : pc'[f] = pc[f] /\ snap'[f] = snap[f]
    BY <1>0, <1>2, LoadFrame DEF Undisturbed
  <2>1. CASE GetWallets \/ Peek \/ AskWallets \/ LoadRefused \/ LoadFails \/ LoadRead
    <3>1. UNCHANGED <<rows, accounts, cache>>
      BY <2>1 DEF GetWallets, Peek, AskWallets, LoadRefused, LoadFails, EndLoad, LoadRead,
         dbVars
    <3> QED
      BY <1>0, <2>0, <3>1 DEF CacheInv, DbView
  <2>2. CASE LoadWallet \/ LoadAccount \/ KeepPeeked \/ LoadDone
    <3>1. Home \in Tasks /\ Busy(Home)
      BY <1>0, <2>2, Numbers DEF LoadWallet, LoadAccount, KeepPeeked, LoadDone, Busy, Holding,
         Loading, Applying
    <3>2. \A f \in Fetchers : pc'[f] \notin Refreshing
      BY <1>0, <2>0, <3>1, Numbers, Alone DEF Holding, Applying, Refreshing
    <3>3. CASE LoadWallet \/ LoadAccount
      <4>1. cache' = NoView
        BY <1>0, <2>0, <3>3 DEF LoadWallet, LoadAccount, HomeInv, Loading
      <4> QED
        BY <3>2, <4>1 DEF CacheInv, Refreshing
    <3>4. CASE KeepPeeked \/ LoadDone
      <4>1. cache' = DbView /\ UNCHANGED <<rows, accounts>>
        BY <1>0, <2>0, <3>4 DEF KeepPeeked, LoadDone, Refreshed, HomeInv, dbVars
      <4> QED
        BY <3>2, <4>1 DEF CacheInv, Refreshing, DbView
    <3> QED
      BY <2>2, <3>3, <3>4
  <2> QED
    BY <1>2, <2>1, <2>2 DEF LoadHome
<1>3. CASE Relogin
  <2>1. cache' = NoView
    BY <1>3 DEF Relogin
  <2> QED
    BY <1>0, <1>3, <2>1, CleanRelogin, Numbers DEF CacheInv
<1>4. CASE Restart
  BY <1>0, <1>4, RestartFrame DEF CacheInv
<1>5. CASE UNCHANGED <<pc, snap, rows, accounts, cache, history>>
  BY <1>0, <1>5 DEF CacheInv, Undisturbed, DbView
<1> QED
  BY <1>1, <1>2, <1>3, <1>4, <1>5 DEF Next, vars, Publish, Flush, dbVars, CacheInv

\* A deletion that lost its second half is noted.
LEMMA OrphanStep ==
    ASSUME IInv, [Next]_vars
    PROVE  OrphanInv'
<1> DEFINE Uncut == Undisturbed /\ "cut" \notin history
<1>0. TypeOK /\ AloneInv /\ AppliedInv /\ HomeInv /\ OrphanInv /\ DbOK
  BY DEF IInv, TypeOK
<1>1. ASSUME NEW f \in Fetchers, Fetch(f) \/ FetchFails(f), Uncut'
      PROVE  OrphanInv'
  <2>1. /\ log' = log /\ f \in Tasks /\ Fetchers \subseteq Tasks
        /\ \A g \in Fetchers \ {f} : pc'[g] = pc[g] /\ at'[g] = at[g]
    BY <1>0, <1>1, FetchFrame, Numbers
  <2>2. Undisturbed /\ "cut" \notin history
    BY <1>0, <1>1, FetchFrame DEF Undisturbed
  <2>3. CASE ApplyWallet(f)
    <3>1. /\ pc[f] = "store" /\ at' = at /\ at[f] # 0 /\ accounts' = accounts
          /\ log[at[f]].wallet \in Wallets
      BY <1>0, <2>3, Numbers DEF ApplyWallet, Applying, Events
    <3>2. \A g \in Fetchers : pc[g] # "unlink"
      BY <1>0, <2>1, <2>2, <3>1, Alone DEF Busy, Holding, Applying
    <3>3. \A w \in accounts : rows[w] # 0
      BY <1>0, <2>2, <3>2 DEF OrphanInv
    <3>4. CASE log[at[f]].kind = "drop"
      <4>1. /\ \A v \in Wallets \ {log[at[f]].wallet} : rows'[v] = rows[v]
            /\ rows[log[at[f]].wallet] # 0 => pc'[f] = "unlink"
        BY <1>0, <2>3, <3>4, Numbers DEF ApplyWallet, DbOK, GoTo
      <4> QED
        BY <1>0, <2>1, <3>1, <3>3, <4>1 DEF OrphanInv, DbOK
    <3>5. CASE log[at[f]].kind # "drop"
      <4>1. \A v \in Wallets : rows'[v] \in {rows[v], at[f]}
                /\ (v = log[at[f]].wallet => rows'[v] = at[f])
        BY <1>0, <2>3, <3>5 DEF ApplyWallet, DbOK, Stored
      <4> QED
        BY <1>0, <3>1, <3>3, <4>1 DEF OrphanInv, DbOK
    <3> QED
      BY <3>4, <3>5
  <2>4. CASE Unlink(f)
    <3>1. /\ pc[f] = "unlink" /\ UNCHANGED <<at, rows>>
          /\ accounts' = accounts \ {log[at[f]].wallet}
      BY <1>0, <2>2, <2>4 DEF Unlink, Unlinked, AloneInv
    <3> QED
      BY <1>0, <2>1, <2>2, <3>1 DEF OrphanInv
  <2>5. CASE ApplyAccount(f)
    <3>1. /\ pc[f] = "account" /\ pc[f] \in Written /\ pc[f] \in Applying
          /\ UNCHANGED <<at, rows>> /\ accounts' = accounts \union {log[at[f]].wallet}
      BY <2>5 DEF ApplyAccount, Written, Applying
    <3>2. rows[log[at[f]].wallet] # 0
      BY <1>0, <2>2, <3>1, Numbers DEF AppliedInv
    <3> QED
      BY <1>0, <2>1, <2>2, <3>1, <3>2 DEF OrphanInv
  <2>6. CASE ~ApplyWallet(f) /\ ~Unlink(f) /\ ~ApplyAccount(f)
    <3>1. UNCHANGED <<rows, accounts>> /\ pc[f] # "unlink"
      BY <1>1, <2>6 DEF Fetch, Apply, StartFetch, FetchEventId, SetEventId, Collect,
         FetchFails, ReadDb, AssignCache, Advance, dbVars
    <3> QED
      BY <1>0, <2>1, <2>2, <3>1 DEF OrphanInv
  <2> QED
    BY <2>3, <2>4, <2>5, <2>6
<1>2. ASSUME LoadHome \/ LoadFails, Uncut'
      PROVE  OrphanInv'
  <2>1. UNCHANGED <<log, at>> /\ \A f \in Fetchers : pc'[f] = pc[f]
    BY <1>0, <1>2, LoadFrame
  <2>2. Undisturbed /\ "cut" \notin history
    BY <1>0, <1>2, LoadFrame DEF Undisturbed
  <2>3. CASE LoadWallet
    <3>1. \A v \in Wallets : rows[v] # 0 => rows'[v] # 0
      BY <1>0, <2>3, NextToLoad DEF LoadWallet, Stored, DbOK
    <3>2. accounts' = accounts /\ accounts \subseteq Wallets
      BY <1>0, <2>3 DEF LoadWallet, DbOK
    <3> QED
      BY <1>0, <2>1, <2>2, <3>1, <3>2 DEF OrphanInv
  <2>4. CASE LoadAccount
    <3>1. rows' = rows /\ rows[NextSeen] # 0 /\ accounts' = accounts \union {NextSeen}
      BY <1>0, <2>2, <2>4 DEF LoadAccount, HomeInv
    <3> QED
      BY <1>0, <2>1, <2>2, <3>1 DEF OrphanInv
  <2>5. CASE ~LoadWallet /\ ~LoadAccount
    <3>1. UNCHANGED <<rows, accounts>>
      BY <1>2, <2>5 DEF LoadHome, GetWallets, Peek, KeepPeeked, AskWallets, LoadRefused,
         LoadFails, EndLoad, LoadRead, LoadDone, dbVars
    <3> QED
      BY <1>0, <2>1, <2>2, <3>1 DEF OrphanInv
  <2> QED
    BY <2>3, <2>4, <2>5
<1>3. CASE Relogin
  BY <1>3 DEF Relogin, OrphanInv
<1>4. ASSUME Restart, Uncut'
      PROVE  OrphanInv'
  <2>1. Undisturbed /\ "cut" \notin history /\ UNCHANGED <<rows, accounts>>
    BY <1>0, <1>4, RestartFrame DEF Undisturbed
  <2>2. \A f \in Fetchers : pc[f] # "unlink"
    BY <1>4 DEF Restart, Note
  <2> QED
    BY <1>0, <2>1, <2>2 DEF OrphanInv
<1>5. CASE UNCHANGED <<pc, at, rows, accounts, history>>
  <2>1. \A f \in Fetchers : pc[f] \in Applying => log'[at[f]] = log[at[f]]
    BY <1>0, Numbers, EventStays
  <2> QED
    BY <1>0, <1>5, <2>1 DEF OrphanInv, Undisturbed, Applying
<1> QED
  BY <1>1, <1>2, <1>3, <1>4, <1>5 DEF Next, vars, Publish, Flush, dbVars, OrphanInv

\* What the log holds.
LEMMA InTheLog ==
    ASSUME TypeOK, NEW i \in DOMAIN log
    PROVE  i \in Nat /\ i # 0 /\ log[i] \in Events /\ log[i].wallet \in Wallets
<1>1. log \in Seq(Events) /\ i \in 1..Len(log) /\ Len(log) \in Nat
  BY DEF TypeOK, ServerOK
<1>2. i \in Nat /\ i # 0
  BY <1>1
<1>3. log[i] \in Events
  BY <1>1
<1> QED
  BY <1>2, <1>3 DEF Events

\* The event shows in the wallet table.
Shown(i) ==
    IF log[i].kind = "drop" THEN rows[log[i].wallet] = 0
    ELSE rows[log[i].wallet] >= i \/ Drops(log[i].wallet) # {}

\* The database has everything before an id when all of it shows.
LEMMA ReflectsShown ==
    /\ Reflects(covered) <=> \A i \in DOMAIN log : i < covered => Shown(i)
    /\ Reflects(covered)' <=> \A i \in DOMAIN log' : i < covered' => Shown(i)'
  BY DEF Reflects, Shown

\* What is known stays known when the server publishes another event.
LEMMA KnownAfterPublish ==
    ASSUME TypeOK, covered <= Latest, Reflects(covered),
           NEW k \in {"create", "update", "drop"}, NEW v \in Wallets, Publish(k, v)
    PROVE  Reflects(covered)'
<1>1. ServerOK /\ rows' = rows /\ covered' = covered
  BY DEF TypeOK, Publish, dbVars
<1>2. SUFFICES ASSUME NEW i \in DOMAIN log', i < covered
               PROVE  Shown(i)'
  BY <1>1, ReflectsShown
<1>3. i \in DOMAIN log /\ log'[i] = log[i]
  <2>1. i \in DOMAIN log \union {Latest} /\ Latest \in Nat
    BY <1>1, Published
  <2>2. i # Latest
    BY <1>2, <2>1, Numbers
  <2> QED
    BY <1>1, <2>1, <2>2, Published
<1>4. log[i].wallet \in Wallets
  BY <1>3, InTheLog
<1>5. Drops(log[i].wallet) \subseteq Drops(log[i].wallet)'
  BY <1>1, <1>3, <1>4, PublishedSets
<1>6. Shown(i)
  BY <1>2, <1>3, ReflectsShown
<1> QED
  BY <1>1, <1>3, <1>5, <1>6 DEF Shown

\* What the server answers has every event of the log.
LEMMA AnswerHasAll ==
    ASSUME TypeOK, LogInv, NEW i \in DOMAIN log
    PROVE  IF log[i].kind = "drop" THEN ServerRows[log[i].wallet] = 0
           ELSE ServerRows[log[i].wallet] >= i \/ Drops(log[i].wallet) # {}
<1>0. PICK w : w = log[i].wallet
  OBVIOUS
<1>1. log[i] \in Events /\ w \in Wallets
  BY <1>0, InTheLog
<1>2. CASE log[i].kind = "drop"
  <2>1. log[i] = [kind |-> "drop", wallet |-> w]
    BY <1>0, <1>1, <1>2 DEF Events
  <2>2. i \in Drops(w)
    BY <2>1 DEF Drops
  <2>3. ServerRows[w] = 0
    BY <1>1, <2>2 DEF ServerRows, Owned
  <2> QED
    BY <1>0, <1>2, <2>3
<1>3. CASE log[i].kind # "drop" /\ Drops(w) = {}
  <2>1. i \in Puts(w)
    BY <1>0, <1>3 DEF Puts
  <2>2. LastPut(w) # {} /\ w \in Owned
    BY <1>1, <1>3, <2>1 DEF LogInv, Owned
  <2>3. PICK j \in LastPut(w) : ServerRows[w] = j
    BY <1>1, <2>2 DEF ServerRows
  <2>4. i <= j /\ j \in DOMAIN log
    BY <2>1, <2>3 DEF LastPut, Puts
  <2>5. i \in Nat /\ j \in Nat
    BY <2>4, InTheLog
  <2> QED
    BY <1>0, <1>3, <2>3, <2>4, <2>5
<1> QED
  BY <1>0, <1>2, <1>3

\* A load that is done leaves nothing out.
LEMMA LoadedReflects ==
    ASSUME TypeOK, Clean, HomeInv, LoadInv, pc[Home] = "read"
    PROVE  covered # 0 /\ Reflects(covered)
<1>1. seen = Rowless /\ covered # 0
  <2>1. pc[Home] \in LoadSteps
    BY DEF LoadSteps
  <2> QED
    BY <2>1 DEF HomeInv, LoadInv, Clean
<1>2. ASSUME NEW i \in DOMAIN log, i < covered
      PROVE  IF log[i].kind = "drop" THEN rows[log[i].wallet] = 0
             ELSE rows[log[i].wallet] >= i \/ Drops(log[i].wallet) # {}
  <2>1. i \in Nat /\ i # 0 /\ log[i].wallet \in Wallets
    BY InTheLog
  <2>2. seen[log[i].wallet] = 0
    BY <1>1, <2>1 DEF Rowless
  <2>3. InHand(i)
    BY <1>2 DEF LoadInv, LoadSteps
  <2> QED
    BY <2>1, <2>2, <2>3 DEF InHand
<1> QED
  BY <1>1, <1>2 DEF Reflects

\* While a load runs, what it has not stored is in what it has read.
LEMMA LoadStep ==
    ASSUME IInv, [Next]_vars
    PROVE  LoadInv'
<1>0. TypeOK /\ LogInv /\ IdInv /\ AloneInv /\ HomeInv /\ LoadInv /\ DbOK
  BY DEF IInv, TypeOK
<1>1. ASSUME NEW k \in {"create", "update", "drop"}, NEW v \in Wallets, Publish(k, v)
      PROVE  LoadInv'
  <2>1. UNCHANGED <<rows, seen, covered, pc, history>> /\ ServerOK
    BY <1>0, <1>1 DEF Publish, dbVars, TypeOK
  <2>2. ASSUME NEW i \in DOMAIN log', i < covered
        PROVE  /\ i \in DOMAIN log /\ log'[i] = log[i]
               /\ Drops(log[i].wallet) \subseteq Drops(log[i].wallet)'
    <3>1. i \in DOMAIN log \union {Latest} /\ Latest \in Nat
      BY <1>1, <2>1, Published
    <3>2. i # Latest
      BY <1>0, <2>2, <3>1, Numbers DEF IdInv
    <3>3. i \in DOMAIN log /\ log'[i] = log[i]
      BY <1>1, <2>1, <3>1, <3>2, Published
    <3>4. log[i].wallet \in Wallets
      BY <1>0, <3>3, InTheLog
    <3> QED
      BY <1>1, <2>1, <3>3, <3>4, PublishedSets
  <2>3. ASSUME NEW i \in DOMAIN log', i < covered, InHand(i)
        PROVE  InHand(i)'
    BY <2>1, <2>2, <2>3 DEF InHand
  <2> QED
    BY <1>0, <2>1, <2>2, <2>3 DEF LoadInv, Clean, Undisturbed
<1>2. ASSUME NEW f \in Fetchers, Fetch(f) \/ FetchFails(f), Clean', pc'[Home] \in LoadSteps
      PROVE  LoadInv'
  <2>1. /\ Clean /\ Undisturbed /\ pc[Home] = pc'[Home] /\ f \in Tasks
        /\ log' = log /\ seen' = seen
    BY <1>0, <1>2, FetchFrame, Numbers DEF Clean, Undisturbed
  <2>2. pc[f] \notin Applying
    BY <1>0, <1>2, <2>1, Alone, Numbers DEF Busy, Holding, LoadSteps, Loading, Applying
  <2>3. rows' = rows /\ covered' = covered
    BY <1>0, <1>2, <2>2, QuietFetch
  <2> QED
    BY <1>0, <1>2, <2>1, <2>3 DEF LoadInv, InHand, Drops
<1>3. ASSUME LoadHome \/ LoadFails, Clean', pc'[Home] \in LoadSteps
      PROVE  LoadInv'
  <2>1. Clean /\ Undisturbed /\ log' = log
    BY <1>0, <1>3, LoadFrame DEF Clean, Undisturbed
  <2>2. CASE AskWallets
    <3>1. pc[Home] = "ask" /\ seen' = ServerRows /\ rows' = rows
      BY <2>2 DEF AskWallets, dbVars
    <3>2. rows = Rowless
      BY <1>0, <2>1, <3>1 DEF HomeInv
    <3>3. covered' # 0
      BY <1>0, <2>2, Numbers DEF AskWallets, Larger
    <3>4. \A w \in Wallets : rows[w] = 0
      BY <3>2 DEF Rowless
    <3>5. ASSUME NEW i \in DOMAIN log
          PROVE  InHand(i)'
      <4>1. log[i].wallet \in Wallets
        BY <1>0, InTheLog
      <4>2. IF log[i].kind = "drop" THEN ServerRows[log[i].wallet] = 0
            ELSE ServerRows[log[i].wallet] >= i \/ Drops(log[i].wallet) # {}
        BY <1>0, AnswerHasAll
      <4> QED
        BY <2>1, <3>1, <3>4, <4>1, <4>2 DEF InHand, Drops
    <3> QED
      BY <2>1, <3>1, <3>3, <3>4, <3>5 DEF LoadInv
  <2>3. CASE LoadWallet
    <3>1. /\ pc[Home] \in LoadSteps /\ seen # Rowless
          /\ covered' = covered /\ seen' = seen
      BY <2>3 DEF LoadWallet, LoadSteps
    <3>2. NextSeen \in Wallets /\ seen[NextSeen] # 0
      BY <1>0, <3>1, NextToLoad
    <3>3. \A w \in Wallets : rows'[w] = IF w = NextSeen THEN seen[w] ELSE rows[w]
      BY <1>0, <2>3, <3>2 DEF LoadWallet, Stored, DbOK
    <3>4. covered # 0 /\ \A w \in Wallets : seen[w] # 0 => rows[w] \in {0, seen[w]}
      BY <1>0, <2>1, <3>1 DEF LoadInv
    <3>5. rows[NextSeen] \in {0, seen[NextSeen]}
      BY <3>2, <3>4
    <3>6. ASSUME NEW i \in DOMAIN log, i < covered
          PROVE  InHand(i)'
      <4>1. InHand(i) /\ i \in Nat /\ i # 0 /\ log[i].wallet \in Wallets
        BY <1>0, <2>1, <3>1, <3>6, InTheLog DEF LoadInv
      <4>2. CASE log[i].wallet # NextSeen
        BY <2>1, <3>1, <3>3, <4>1, <4>2 DEF InHand, Drops
      <4>3. CASE log[i].wallet = NextSeen
        <5>1. rows'[NextSeen] = seen[NextSeen]
          BY <3>2, <3>3
        <5> QED
          BY <2>1, <3>1, <3>2, <3>5, <4>1, <4>3, <5>1 DEF InHand, Drops
      <4> QED
        BY <4>2, <4>3
    <3> QED
      BY <2>1, <3>1, <3>3, <3>4, <3>6 DEF LoadInv
  <2>4. CASE LoadAccount
    <3>1. /\ pc[Home] = "loadAccount" /\ covered' = covered /\ rows' = rows
          /\ seen' = [seen EXCEPT ![NextSeen] = 0]
      BY <2>4 DEF LoadAccount
    <3>2. rows[NextSeen] = seen[NextSeen]
      BY <1>0, <2>1, <3>1 DEF HomeInv
    <3>3. \A w \in Wallets : seen'[w] = IF w = NextSeen THEN 0 ELSE seen[w]
      BY <1>0, <3>1 DEF DbOK
    <3>4. pc[Home] \in LoadSteps
      BY <3>1 DEF LoadSteps
    <3>5. ASSUME NEW i \in DOMAIN log, i < covered
          PROVE  InHand(i)'
      <4>1. InHand(i) /\ i \in Nat /\ log[i].wallet \in Wallets
        BY <1>0, <2>1, <3>4, <3>5, InTheLog DEF LoadInv
      <4> QED
        BY <2>1, <3>1, <3>2, <3>3, <4>1 DEF InHand, Drops
    <3> QED
      BY <1>0, <2>1, <3>1, <3>3, <3>4, <3>5 DEF LoadInv
  <2>5. CASE LoadRead
    <3>1. pc[Home] \in LoadSteps /\ UNCHANGED <<rows, seen, covered>>
      BY <2>5 DEF LoadRead, LoadSteps, dbVars
    <3>2. \A i \in DOMAIN log : InHand(i) => InHand(i)'
      BY <2>1, <3>1 DEF InHand, Drops
    <3> QED
      BY <1>0, <2>1, <3>1, <3>2 DEF LoadInv
  <2>6. CASE GetWallets \/ Peek \/ KeepPeeked \/ LoadRefused \/ LoadFails \/ LoadDone
    BY <1>0, <1>3, <2>6, Numbers DEF GetWallets, Peek, KeepPeeked, LoadRefused, LoadFails,
       EndLoad, LoadDone, GoTo, LoadSteps
  <2> QED
    BY <1>3, <2>2, <2>3, <2>4, <2>5, <2>6 DEF LoadHome
<1>4. CASE Relogin
  <2>1. Undisturbed' => pc'[Home] = "peek"
    BY <1>0, <1>4, CleanRelogin, Numbers
  <2> QED
    BY <2>1 DEF LoadInv, LoadSteps, Clean
<1>5. CASE Restart
  BY <1>0, <1>5, RestartFrame DEF LoadInv, LoadSteps
<1>6. CASE UNCHANGED <<log, rows, seen, covered, pc, history>>
  BY <1>0, <1>6 DEF LoadInv, Clean, Undisturbed, InHand, Drops
<1> QED
  BY <1>1, <1>2, <1>3, <1>4, <1>5, <1>6 DEF Next, vars, Flush, dbVars, LoadInv

\* A fetch that writes an event keeps what is known of the ones before it.
LEMMA KnownAfterApply ==
    ASSUME TypeOK, LogInv, Reflects(covered), NEW f \in Fetchers, ApplyWallet(f),
           covered' = at[f], at[f] <= covered
    PROVE  Reflects(covered)'
<1>1. /\ pc[f] \in Applying /\ log' = log /\ rows \in [Wallets -> Versions]
      /\ at[f] \in DOMAIN log
  BY Numbers DEF ApplyWallet, Applying, TypeOK, DbOK
<1>0. PICK w : w = log[at[f]].wallet
  OBVIOUS
<1>2. w \in Wallets /\ at[f] \in Nat /\ covered \in Nat /\ log[at[f]] \in Events
  BY <1>0, <1>1, InTheLog, Numbers
<1>3. \A v \in Wallets : rows'[v] =
        IF v # w THEN rows[v] ELSE IF log[at[f]].kind = "drop" THEN 0 ELSE at[f]
  BY <1>0, <1>1, <1>2 DEF ApplyWallet, Stored
<1>4. ASSUME NEW i \in DOMAIN log, i < at[f]
      PROVE  Shown(i)'
  <2>1. Shown(i) /\ i \in Nat /\ log[i].wallet \in Wallets
    BY <1>2, <1>4, ReflectsShown, InTheLog
  <2>2. CASE log[i].wallet # w
    BY <1>1, <1>3, <2>1, <2>2 DEF Shown, Drops
  <2>3. CASE log[i].wallet = w /\ log[at[f]].kind = "drop"
    <3>1. log[at[f]] = [kind |-> "drop", wallet |-> w]
      BY <1>0, <1>2, <2>3 DEF Events
    <3>2. Drops(w)' # {}
      BY <1>1, <3>1 DEF Drops
    <3>3. rows'[w] = 0
      BY <1>2, <1>3, <2>3
    <3> QED
      BY <1>1, <2>3, <3>2, <3>3 DEF Shown
  <2>4. CASE log[i].wallet = w /\ log[at[f]].kind # "drop"
    <3>1. rows'[w] = at[f]
      BY <1>2, <1>3, <2>4
    <3>2. log[i].kind # "drop"
      BY <1>0, <1>1, <1>2, <1>4, <2>1, <2>4 DEF LogInv
    <3> QED
      BY <1>1, <1>2, <1>4, <2>1, <2>4, <3>1, <3>2 DEF Shown
  <2> QED
    BY <2>2, <2>3, <2>4
<1> QED
  BY <1>1, <1>4, ReflectsShown

\* Once the event itself shows, everything before the next id is known.
LEMMA KnownAfterAdvance ==
    ASSUME TypeOK, AppliedInv, Undisturbed, Reflects(covered),
           NEW f \in Fetchers, Advance(f), covered = at[f], covered # 0
    PROVE  Reflects(covered)'
<1>1. /\ pc[f] \in Applying /\ pc[f] \in Written /\ UNCHANGED <<log, rows>>
      /\ at[f] \in DOMAIN log /\ at[f] \in Nat
  BY Numbers DEF Advance, Applying, Written, dbVars
<1>2. covered' = at[f] + 1
  BY <1>1 DEF Advance, Larger
<1>3. rows[log[at[f]].wallet] = IF log[at[f]].kind = "drop" THEN 0 ELSE at[f]
  BY <1>1 DEF AppliedInv
<1>4. ASSUME NEW i \in DOMAIN log, i < at[f] + 1
      PROVE  Shown(i)'
  <2>1. i \in Nat
    BY InTheLog
  <2>2. CASE i < at[f]
    <3>1. Shown(i)
      BY <2>2, ReflectsShown
    <3> QED
      BY <1>1, <3>1 DEF Shown, Drops
  <2>3. CASE i = at[f]
    BY <1>1, <1>3, <2>3 DEF Shown
  <2> QED
    BY <1>1, <1>4, <2>1, <2>2, <2>3
<1> QED
  BY <1>1, <1>2, <1>4, ReflectsShown

\* The database knows every event before the id it is said to know, or it is
\* about to be loaded.
LEMMA KnowsStep ==
    ASSUME IInv, [Next]_vars
    PROVE  KnowsInv'
<1> DEFINE Whole == Clean /\ "partial" \notin history
<1>0. /\ TypeOK /\ LogInv /\ IdInv /\ AloneInv /\ OrderInv /\ KnownInv /\ AppliedInv
      /\ HomeInv /\ KnowsInv /\ LoadInv /\ DbOK
  BY DEF IInv, TypeOK
<1>1. ASSUME NEW k \in {"create", "update", "drop"}, NEW v \in Wallets, Publish(k, v)
      PROVE  KnowsInv'
  <2>1. UNCHANGED <<rows, covered, pc, history>>
    BY <1>1 DEF Publish, dbVars
  <2>2. Reflects(covered) => Reflects(covered)'
    BY <1>0, <1>1, KnownAfterPublish DEF IdInv
  <2> QED
    BY <1>0, <2>1, <2>2 DEF KnowsInv, Clean, Undisturbed
<1>2. ASSUME NEW f \in Fetchers, Fetch(f) \/ FetchFails(f), Whole'
      PROVE  KnowsInv'
  <2>1. /\ Whole /\ Undisturbed /\ pc'[Home] = pc[Home] /\ f \in Tasks /\ log' = log
    BY <1>0, <1>2, FetchFrame, Numbers DEF Clean, Undisturbed
  <2>2. CASE ApplyWallet(f)
    <3>1. pc[f] \in Applying /\ Busy(f)
      BY <2>2 DEF ApplyWallet, Applying, Busy, Holding
    <3>2. pc[Home] \notin LoadSteps
      BY <1>0, <2>1, <3>1, Numbers, Alone DEF Holding, Applying, Loading, LoadSteps
    <3>3. CASE covered = 0
      <4>1. log[at[f]].kind = "drop" /\ log[at[f]].wallet \in Wallets
        BY <1>0, <1>2, <2>2, <3>1, <3>3, Numbers DEF ApplyWallet, Note, Events
      <4>2. rows = Rowless /\ pc[Home] \in {"peek", "peeked", "ask"}
        BY <1>0, <2>1, <3>2, <3>3 DEF KnowsInv
      <4>3. rows' = Rowless
        BY <2>2, <4>1, <4>2 DEF ApplyWallet, Rowless
      <4>4. covered' = 0
        BY <1>0, <2>2, <3>3, Numbers DEF ApplyWallet
      <4> QED
        BY <2>1, <4>2, <4>3, <4>4 DEF KnowsInv, Rowless
    <3>4. CASE covered # 0
      <4>1. Reflects(covered)
        BY <1>0, <2>1, <3>2, <3>4 DEF KnowsInv
      <4>2. at[f] = cursor /\ cursor <= covered
        BY <1>0, <2>1, <3>1, <3>4 DEF OrderInv, KnownInv
      <4>3. covered' = at[f] /\ at[f] <= covered /\ at[f] # 0
        BY <1>0, <2>2, <3>1, <4>2, Numbers DEF ApplyWallet
      <4>4. Reflects(covered)'
        BY <1>0, <2>2, <4>1, <4>3, KnownAfterApply
      <4> QED
        BY <4>3, <4>4 DEF KnowsInv
    <3> QED
      BY <3>3, <3>4
  <2>3. CASE Advance(f)
    <3>1. pc[f] \in Written /\ Busy(f)
      BY <2>3 DEF Advance, Applying, Busy, Holding, Written
    <3>2. pc[Home] \notin LoadSteps /\ rows' = rows
      BY <1>0, <2>1, <2>3, <3>1, Numbers, Alone
         DEF Holding, Applying, Loading, LoadSteps, Advance, dbVars
    <3>3. CASE covered = 0
      BY <1>0, <2>1, <2>3, <3>2, <3>3 DEF KnowsInv, Advance, Rowless
    <3>4. CASE covered # 0
      <4>1. Reflects(covered) /\ covered = at[f]
        BY <1>0, <2>1, <3>1, <3>2, <3>4 DEF KnowsInv, KnownInv
      <4>2. covered' # 0
        BY <1>0, <2>3, <3>4, Numbers DEF Advance, Larger
      <4> QED
        BY <1>0, <2>1, <2>3, <3>4, <4>1, <4>2, KnownAfterAdvance DEF KnowsInv
    <3> QED
      BY <3>3, <3>4
  <2>4. CASE ~ApplyWallet(f) /\ ~Advance(f)
    <3>1. UNCHANGED <<rows, covered>>
      BY <1>2, <2>4 DEF Fetch, Apply, StartFetch, FetchEventId, SetEventId, Collect,
         FetchFails, Unlink, ApplyAccount, ReadDb, AssignCache, dbVars
    <3> QED
      BY <1>0, <2>1, <3>1 DEF KnowsInv, Reflects, Drops, Rowless
  <2> QED
    BY <2>2, <2>3, <2>4
<1>3. ASSUME LoadHome \/ LoadFails, Whole'
      PROVE  KnowsInv'
  <2>1. Clean /\ Undisturbed /\ log' = log
    BY <1>0, <1>3, LoadFrame DEF Clean, Undisturbed
  <2>2. CASE AskWallets \/ LoadWallet \/ LoadAccount \/ LoadRead
    <3>1. pc'[Home] \in LoadSteps
      BY <1>0, <2>2, Numbers DEF AskWallets, LoadWallet, LoadAccount, LoadRead, GoTo, LoadSteps
    <3> QED
      BY <3>1 DEF KnowsInv
  <2>3. CASE LoadRefused \/ LoadFails
    BY <1>3, <2>3 DEF LoadRefused, LoadFails, EndLoad
  <2>4. CASE LoadDone
    <3>1. pc[Home] = "read" /\ UNCHANGED <<rows, covered>>
      BY <2>4 DEF LoadDone, dbVars
    <3>2. covered # 0 /\ Reflects(covered)
      BY <1>0, <2>1, <3>1, LoadedReflects
    <3> QED
      BY <2>1, <3>1, <3>2 DEF KnowsInv, Reflects, Drops
  <2>5. CASE GetWallets \/ Peek
    <3>1. /\ Whole /\ UNCHANGED <<rows, covered>>
          /\ pc[Home] \in {"idle", "peek"} /\ pc'[Home] \in {"peek", "peeked"}
      BY <1>0, <1>3, <2>1, <2>5, Numbers DEF GetWallets, Peek, GoTo, dbVars, Note
    <3> QED
      BY <1>0, <2>1, <3>1 DEF KnowsInv, Reflects, Drops, LoadSteps, Rowless
  <2>6. CASE KeepPeeked
    <3>1. /\ Whole /\ UNCHANGED <<rows, covered>> /\ pc[Home] = "peeked"
          /\ pc'[Home] = IF snap[Home] = NoView THEN "ask" ELSE "idle"
      BY <1>0, <1>3, <2>1, <2>6, Numbers DEF KeepPeeked, GoTo, dbVars
    <3>2. rows = Rowless => snap[Home] = NoView
      BY <1>0, <2>1, <3>1 DEF HomeInv, DbView, View, NoView, Rowless, DbOK
    <3> QED
      BY <1>0, <2>1, <3>1, <3>2 DEF KnowsInv, Reflects, Drops, LoadSteps, Rowless
  <2> QED
    BY <1>3, <2>2, <2>3, <2>4, <2>5, <2>6 DEF LoadHome
<1>4. CASE Relogin
  <2>1. rows' = Rowless /\ covered' = 0
    BY <1>4 DEF Relogin
  <2>2. Undisturbed' => pc'[Home] = "peek"
    BY <1>0, <1>4, CleanRelogin, Numbers
  <2> QED
    BY <2>1, <2>2 DEF KnowsInv, Clean, Rowless
<1>5. ASSUME Restart, Whole'
      PROVE  KnowsInv'
  <2>1. /\ Whole /\ UNCHANGED <<log, rows, covered>> /\ pc'[Home] = "peek"
    BY <1>0, <1>5, RestartFrame DEF Clean, Undisturbed
  <2>2. pc[Home] \notin Loading
    BY <1>5 DEF Restart, Note
  <2>3. CASE pc[Home] = "read"
    <3>1. covered # 0 /\ Reflects(covered)
      BY <1>0, <2>1, <2>3, LoadedReflects
    <3> QED
      BY <2>1, <3>1 DEF KnowsInv, Reflects, Drops
  <2>4. CASE pc[Home] # "read"
    BY <1>0, <2>1, <2>2, <2>4 DEF KnowsInv, LoadSteps, Loading, Reflects, Drops, Rowless
  <2> QED
    BY <2>3, <2>4
<1>6. CASE UNCHANGED <<log, rows, covered, pc, history>>
  BY <1>0, <1>6 DEF KnowsInv, Clean, Undisturbed, Reflects, Drops, Rowless
<1> QED
  BY <1>1, <1>2, <1>3, <1>4, <1>5, <1>6 DEF Next, vars, Flush, dbVars, KnowsInv

\* The invariant is inductive.
THEOREM SafetyInductive == Spec => []IInv
<1>1. Init => IInv
  <2> SUFFICES ASSUME Init
               PROVE  IInv
    OBVIOUS
  <2>1. TypeOK
    BY TypesAtStart
  <2>2. log = <<>> /\ DOMAIN log = {} /\ Latest = 1
    BY DEF Init, Latest
  <2>3. pc = [t \in Tasks |-> IF t = Home THEN "peek" ELSE "idle"] /\ Home \in Tasks
        /\ \A f \in Fetchers : pc[f] = "idle" /\ at[f] = 0
    BY ConstantsAssumption DEF Init, Tasks
  <2>4. LogInv
    BY <2>2 DEF LogInv, Drops, Puts
  <2>5. IdInv /\ OrderInv /\ KnownInv
    BY <2>2, <2>3 DEF Init, IdInv, OrderInv, KnownInv, Applying, Written
  <2>6. AloneInv
    BY <2>3 DEF AloneInv, Busy, Holding, Applying, Loading
  <2>7. AppliedInv /\ OrphanInv /\ CacheInv
    BY <2>3 DEF Init, AppliedInv, OrphanInv, CacheInv, Applying, Written
  <2>8. HomeInv /\ KnowsInv /\ LoadInv
    BY <2>3 DEF Init, HomeInv, KnowsInv, LoadInv, LoadSteps, Loading
  <2> QED
    BY <2>1, <2>4, <2>5, <2>6, <2>7, <2>8 DEF IInv
<1>2. IInv /\ [Next]_vars => IInv'
  <2> SUFFICES ASSUME IInv, [Next]_vars
               PROVE  IInv'
    OBVIOUS
  <2>1. TypeOK'
    BY TypesKept DEF IInv
  <2> QED
    BY <2>1, LogStep, IdStep, AloneStep, OrderStep, KnownStep, AppliedStep, HomeStep,
       CacheStep, OrphanStep, KnowsStep, LoadStep DEF IInv
<1> QED
  BY <1>1, <1>2, PTL DEF Spec

\* No event is skipped (event.loop.manager.dart): unless two tasks overlapped,
\* a load was cut short or an id was missing, the database has every event
\* before the id in memory and before the id a new process would start from.
THEOREM EventsNotSkipped == Spec => []NoEventSkipped
<1>1. IInv => NoEventSkipped
  <2> SUFFICES ASSUME IInv, pc[Home] = "idle",
                      history \intersect {"overlap", "partial", "gap"} = {}
               PROVE  Reflects(cursor) /\ Reflects(disk)
    BY DEF NoEventSkipped
  <2>1. TypeOK /\ Clean /\ Undisturbed /\ "partial" \notin history
    BY DEF IInv, Clean, Undisturbed
  <2>2. covered # 0 /\ Reflects(covered)
    BY <2>1 DEF IInv, KnowsInv, LoadSteps
  <2>3. cursor <= covered /\ disk <= covered
    BY <2>1, <2>2, Numbers DEF IInv, KnownInv, OrderInv
  <2>4. \A i \in DOMAIN log : i \in Nat
    BY <2>1, InTheLog
  <2> QED
    BY <2>1, <2>2, <2>3, <2>4, Numbers DEF Reflects
<1> QED
  BY <1>1, SafetyInductive, PTL

\* The copy in memory (walletsData, wallets.data.provider.dart) is what the
\* tables hold whenever nobody is at work on them.
THEOREM CacheCorrect == Spec => []CacheFollowsDb
<1>1. IInv => CacheFollowsDb
  <2> SUFFICES ASSUME IInv, \A t \in Tasks : ~Busy(t), cache # NoView, Undisturbed
               PROVE  cache = DbView
    BY DEF CacheFollowsDb, Undisturbed
  <2>1. \A f \in Fetchers : pc[f] \notin Refreshing
    BY DEF Tasks, Busy, Holding, Applying, Refreshing
  <2> QED
    BY <2>1 DEF IInv, CacheInv, Refreshing
<1> QED
  BY <1>1, SafetyInductive, PTL

\* A wallet that is gone leaves no account behind (deleteWallet), unless a kill
\* came between the two deletions or two tasks overlapped.
THEOREM AccountsNotOrphaned == Spec => []NoOrphanAccount
<1>1. IInv => NoOrphanAccount
  <2> SUFFICES ASSUME IInv, \A t \in Tasks : ~Busy(t), Undisturbed, "cut" \notin history
               PROVE  \A w \in accounts : rows[w] # 0
    BY DEF NoOrphanAccount, Undisturbed
  <2>1. \A f \in Fetchers : pc[f] # "unlink"
    BY DEF Tasks, Busy, Holding, Applying
  <2> QED
    BY <2>1 DEF IInv, OrphanInv
<1> QED
  BY <1>1, SafetyInductive, PTL
====
