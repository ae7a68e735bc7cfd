---- MODULE WalletStoreProofs ----
(***************************************************************************)
(* The safety of WalletStore and of the table it shares, proved for every  *)
(* table, any number of tasks, keys and paths, and any number of calls,    *)
(* failures and restarts.                                                  *)
(***************************************************************************)
EXTENDS WalletStore, SequenceTheorems, TLAPS

Writing == {"lookup", "insert", "update"}

\* Rows have ids of their own, and the key each id was given to.
IdsInv ==
    /\ ids \in Seq(Keys)
    /\ \A r \in rows : r.id \in DOMAIN ids /\ ids[r.id] = r.key
    /\ \A r, s \in rows : r.id = s.id => r = s

\* A model that was read before has the key of its row.
ItemInv ==
    \A t \in Tasks : item[t].id # 0 =>
        item[t].id \in DOMAIN ids /\ ids[item[t].id] = item[t].key

\* Nobody uses the tables while they are built.
BuildInv ==
    ~Up => \A t \in Tasks : /\ step[t] = "none" /\ outcome[t] = "none"
                            /\ item[t] = Blank /\ frame[t] = Idle

\* An upsert that inserts has found no row, unless it was disturbed or failed
\* to look.
InsertInv ==
    \A t \in Tasks :
        /\ step[t] \in {"lookup", "update", "readback"} => table.match # "none"
        /\ step[t] = "insert" /\ table.match # "none" =>
               excused \/ t \in disturbed \/ \A r \in rows : r.key # item[t].key

\* How far the build is, and what schema it has reached.
Second == IF table.grows THEN <<"dropcolumn", "addcolumn">> ELSE <<>>
PlanInv ==
    \/ failed
    \/ plan = <<<<"drop", "create", "index">>, Second>>
    \/ plan = <<<<"create", "index">>, Second>> /\ schema = "none"
    \/ plan \in {<<<<"index">>, Second>>, <<<<>>, Second>>, <<Second>>} /\ schema = "base"
    \/ plan = <<<<"addcolumn">>>> /\ table.grows /\ schema = "base"
    \/ plan \in {<<<<>>>>, <<>>} /\ Complete

\* Where a call is, and that it has not answered.
CallInv ==
    \A t \in Tasks :
        /\ step[t] # "none" \/ outcome[t] # "none" => frame[t].phase \in {"upsert", "fill"}
        /\ step[t] # "none" => outcome[t] = "none"
        /\ frame[t].phase \notin {"idle", "upsert"} => frame[t].op \in Lookups
        /\ frame[t].phase \in {"load", "fill", "save"} => frame[t].op # "create_wallet_account"
        /\ ~At(t, "idle") => answer[t] = "none"

\* Every row of the server's answer is in the table, was deleted from it, is
\* being upserted or is left to upsert.
Pending(t) ==
    IF step[t] \in Writing \/ outcome[t] \notin {"none", "ok"} THEN {item[t].key} ELSE {}

FillInv ==
    \A t \in Tasks :
        /\ At(t, "save") => frame[t].left = {}
        /\ frame[t].phase \in {"fill", "save"} =>
               KeysOf(frame[t].reply) \subseteq
                   KeysOf(rows) \union gone \union KeysOf(frame[t].left) \union Pending(t)

\* The keys of a user are never deleted, so what the server has had is a chain,
\* and the table has one of its links and what the loads under way have added.
Whole(keys) ==
    /\ keys \in past \union {{}} /\ keys \subseteq KeysOf(rows)
    /\ \A k \in KeysOf(rows) \ keys :
           \E t \in Tasks : At(t, "fill") /\ k \in KeysOf(frame[t].reply)

UserKeysInv ==
    table = ProtonUserKeyDao =>
        /\ gone = {} /\ KeysOf(server) \in past
        /\ \A p \in past : p \subseteq KeysOf(server)
        /\ \A p, q \in past : p \subseteq q \/ q \subseteq p
        /\ \A t \in Tasks : At(t, "upsert") => partial
        /\ \A t \in Tasks : At(t, "fill") =>
               /\ KeysOf(frame[t].reply) \in past
               /\ frame[t].left \subseteq frame[t].reply
               /\ step[t] \in Writing => item[t].key \in KeysOf(frame[t].reply)
        /\ ~partial => \E keys \in past \union {{}} : Whole(keys)

IInv ==
    /\ TypeOK /\ IdsInv /\ ItemInv /\ BuildInv /\ InsertInv /\ PlanInv /\ CallInv
    /\ FillInv /\ UserKeysInv
    /\ DuplicatesNeedRace /\ UpsertTakesEffect /\ RequestedPathIsFree

----
\* What the proofs need of the tables.
LEMMA Tables ==
    /\ AccountDao \in Daos /\ AccountDao.grows
    /\ WalletDao \in Daos /\ ~WalletDao.grows /\ WalletDao.match = "id"
    /\ ProtonUserKeyDao \in Daos /\ ~ProtonUserKeyDao.grows
    /\ ProtonUserKeyDao.match = "key" /\ ~ProtonUserKeyDao.deletes
  BY DEF Daos, AccountDao, WalletDao, ProtonUserKeyDao, Table

\* Every table says whether it grows.
LEMMA TableTypes ==
    ASSUME NEW d \in Daos
    PROVE  d.grows \in BOOLEAN /\ d.match \in {"id", "key", "none"}
<1> DEFINE Typed(e) == e.grows \in BOOLEAN /\ e.match \in {"id", "key", "none"}
<1>1. Typed(AccountDao) /\ Typed(WalletDao) /\ Typed(ProtonUserKeyDao)
  BY DEF AccountDao, WalletDao, ProtonUserKeyDao, Table
<1>2. Typed(WalletUserSettingsDao) /\ Typed(ProtonUserDao) /\ Typed(AddressDao)
  BY DEF WalletUserSettingsDao, ProtonUserDao, AddressDao, Table
<1>3. Typed(BitcoinAddressDao) /\ Typed(ContactsDao)
  BY DEF BitcoinAddressDao, ContactsDao, Table
<1>4. Typed(ExchangeRateDao) /\ Typed(TransactionDao)
  BY DEF ExchangeRateDao, TransactionDao, Table
<1> HIDE DEF Typed
<1>5. Typed(d)
  BY <1>1, <1>2, <1>3, <1>4 DEF Daos
<1> QED
  BY <1>5 DEF Typed

\* A call that is about wallets, user keys or accounts is about their table.
LEMMA LookupTables ==
    /\ {"get_wallet", "get_wallet_mnemonic"} \intersect Lookups # {} => table = WalletDao
    /\ {"get_user_key", "get_user_keys"} \intersect Lookups # {} => table = ProtonUserKeyDao
    /\ "create_wallet_account" \in Lookups => table = AccountDao
    /\ Lookups \subseteq Ops
<1>1. WalletDao # ProtonUserKeyDao /\ WalletDao # AccountDao /\ ProtonUserKeyDao # AccountDao
  BY Tables
<1>2. CASE table = WalletDao
  BY <1>2 DEF Lookups, Ops
<1>3. CASE table = ProtonUserKeyDao
  BY <1>1, <1>3 DEF Lookups, Ops
<1>4. CASE table = AccountDao
  BY <1>1, <1>4 DEF Lookups, Ops
<1>5. CASE table \notin {WalletDao, ProtonUserKeyDao, AccountDao}
  BY <1>5 DEF Lookups, Ops
<1> QED
  BY <1>1, <1>2, <1>3, <1>4, <1>5

\* The model that stands for none.
LEMMA Blanks ==
    Blank \in Rows /\ Blank.id = 0 /\ Blank.key \in Keys
<1>1. \E r : r \in [id : {0}, key : Keys, group : Groups, val : Vals]
  <2>1. PICK k \in Keys, g \in Groups, v \in Vals : TRUE
    BY DatabaseAssumption
  <2>2. [id |-> 0, key |-> k, group |-> g, val |-> v]
            \in [id : {0}, key : Keys, group : Groups, val : Vals]
    BY <2>1
  <2> QED
    BY <2>2
<1>2. Blank \in [id : {0}, key : Keys, group : Groups, val : Vals]
  BY <1>1 DEF Blank
<1> QED
  BY <1>2 DEF Rows

----
(* What the actions do to the table.                                       *)

DbSame == UNCHANGED <<table, rows, ids, schema, plan, step, item, outcome, disturbed,
                      excused, failed>>

\* The model is new or has the key of its row.
OwnId(r) == r.id # 0 => r.id \in DOMAIN ids /\ ids[r.id] = r.key

\* An upsert finds out how to write ...
LooksUp(t) ==
    /\ step[t] = "lookup" /\ UNCHANGED <<rows, ids, disturbed, outcome>>
    /\ \/ excused' /\ step' = [step EXCEPT ![t] = "insert"]
       \/ excused' = excused /\ step' = [step EXCEPT ![t] = Found(t)]

\* ... adds its row or changes the rows it matches ...
Inserts(t) ==
    /\ step[t] = "insert" /\ disturbed' = Others(t) /\ excused' = (excused \/ t \in disturbed)
    /\ \E r \in Rows :
        /\ r.id = Len(ids) + 1 /\ r.key = item[t].key
        /\ r.group = item[t].group /\ r.val = item[t].val
        /\ rows' = rows \union {r} /\ ids' = Append(ids, r.key)
    /\ \/ /\ table.match = "none" /\ step' = [step EXCEPT ![t] = "none"]
          /\ outcome' = [outcome EXCEPT ![t] = "ok"]
       \/ /\ table.match # "none" /\ step' = [step EXCEPT ![t] = "readback"]
          /\ outcome' = outcome

Updates(t) ==
    /\ step[t] = "update" /\ disturbed' = Others(t) /\ Matched(t) # {}
    /\ rows' = (rows \ Matched(t)) \union {Updated(t, r) : r \in Matched(t)}
    /\ step' = [step EXCEPT ![t] = "readback"] /\ UNCHANGED <<ids, excused, outcome>>

\* ... reads it back, or ends with an error.
ReadsBack(t) ==
    /\ step[t] = "readback" /\ UNCHANGED <<rows, ids, disturbed, excused>>
    /\ step' = [step EXCEPT ![t] = "none"] /\ outcome' = [outcome EXCEPT ![t] = "ok"]

Breaks(t) ==
    /\ step[t] \in Writing /\ UNCHANGED <<rows, ids, disturbed, excused>>
    /\ step' = [step EXCEPT ![t] = "none"]
    /\ \E how \in {"conflict", "unchanged", "nocolumn"} : outcome' = [outcome EXCEPT ![t] = how]

\* Every statement of an upsert is one of these.
LEMMA DbSteps ==
    ASSUME TypeOK, IdsInv, NEW t \in Tasks, DbStep(t)
    PROVE  /\ LooksUp(t) \/ Inserts(t) \/ Updates(t) \/ ReadsBack(t) \/ Breaks(t)
           /\ UNCHANGED <<table, schema, plan, item, failed>>
<1>1. CASE Lookup(t)
  <2>1. step[t] = "lookup" /\ UNCHANGED <<table, rows, ids, schema, plan, item, disturbed, failed>>
    BY <1>1 DEF Lookup
  <2>2. CASE schema = "none"
    BY <1>1, <2>1, <2>2 DEF Lookup, End, Breaks, Writing
  <2>3. CASE schema # "none"
    <3>1. PICK fault \in BOOLEAN : /\ excused' = (excused \/ fault) /\ UNCHANGED outcome
                                   /\ step' = [step EXCEPT ![t] = IF fault THEN "insert" ELSE Found(t)]
      BY <1>1, <2>3 DEF Lookup
    <3>2. CASE fault
      BY <2>1, <3>1, <3>2 DEF LooksUp
    <3>3. CASE ~fault
      <4>1. excused' = excused
        BY <3>1, <3>3 DEF TypeOK
      <4> QED
        BY <2>1, <3>1, <3>3, <4>1 DEF LooksUp
    <3> QED
      BY <3>2, <3>3
  <2> QED
    BY <2>1, <2>2, <2>3
<1>2. CASE Insert(t)
  <2> DEFINE r == [item[t] EXCEPT !.id = Len(ids) + 1]
  <2>1. step[t] = "insert" /\ UNCHANGED <<table, schema, plan, item, failed>>
    BY <1>2 DEF Insert
  <2>2. /\ r \in Rows /\ r.id = Len(ids) + 1 /\ r.key = item[t].key
        /\ r.group = item[t].group /\ r.val = item[t].val
    <3>1. item[t] \in Rows /\ Len(ids) + 1 \in Nat
      BY DEF TypeOK, IdsInv
    <3> QED
      BY <3>1 DEF Rows
  <2>3. CASE ~Complete \/ Clash(r, rows)
    BY <1>2, <2>1, <2>3 DEF Insert, End, Breaks, Writing
  <2>4. CASE ~(~Complete \/ Clash(r, rows))
    <3>1. /\ rows' = rows \union {r} /\ ids' = Append(ids, r.key)
          /\ disturbed' = Others(t) /\ excused' = (excused \/ t \in disturbed)
          /\ IF table.match = "none" THEN End(t, "ok")
             ELSE step' = [step EXCEPT ![t] = "readback"] /\ UNCHANGED outcome
      BY <1>2, <2>4 DEF Insert
    <3> HIDE DEF r
    <3> QED
      BY <2>1, <2>2, <3>1 DEF Inserts, End
  <2> QED
    BY <2>1, <2>3, <2>4
<1>3. CASE Update(t)
  <2> DEFINE old == Matched(t)
             new == {Updated(t, r) : r \in old}
             fails == ~Complete \/ old = {} \/ \E r \in new : Clash(r, rows \ old)
  <2>1. step[t] = "update" /\ UNCHANGED <<table, ids, schema, plan, item, excused, failed>>
    BY <1>3 DEF Update
  <2>2. CASE fails
    <3>1. UNCHANGED <<rows, disturbed>> /\ \E how \in {"conflict", "unchanged", "nocolumn"} : End(t, how)
      BY <1>3, <2>2 DEF Update
    <3> QED
      BY <2>1, <3>1 DEF End, Breaks, Writing
  <2>3. CASE ~fails
    BY <1>3, <2>1, <2>3 DEF Update, Updates
  <2> QED
    BY <2>1, <2>2, <2>3
<1>4. CASE Readback(t)
  BY <1>4 DEF Readback, End, ReadsBack
<1> QED
  BY <1>1, <1>2, <1>3, <1>4 DEF DbStep

\* What every action does to the table.
LEMMA DbKinds ==
    ASSUME TypeOK, IdsInv, [Next]_vars
    PROVE  \/ \E t \in Tasks : DbStep(t) /\ UNCHANGED storeVars
           \/ \E t \in Tasks, r \in Rows : StartUpsert(t, r) /\ OwnId(r)
           \/ \E t \in Tasks : Take(t)
           \/ \E doomed \in SUBSET rows : Delete(doomed)
           \/ RunStatement \/ EndMigration \/ Restart \/ DbSame
<1>0. /\ GroupsUsed \subseteq Groups /\ Loaded \in Vals
      /\ \A t \in Tasks : frame[t].left \subseteq Things
      /\ \A i \in DOMAIN ids : i \in Nat
  BY StoreAssumption DEF GroupsUsed, TypeOK, IdsInv
<1>1. ASSUME NEW t \in Tasks, NEW k \in Keys, Upsert(t, k)
      PROVE  \E r \in Rows : StartUpsert(t, r) /\ OwnId(r)
  <2>1. PICK id \in {0} \union {i \in DOMAIN ids : ids[i] = k}, g \in GroupsUsed,
             v \in Vals \ {Loaded} :
                 StartUpsert(t, [id |-> id, key |-> k, group |-> g, val |-> v])
    BY <1>1 DEF Upsert
  <2> DEFINE r == [id |-> id, key |-> k, group |-> g, val |-> v]
  <2>2. r \in Rows /\ OwnId(r)
    BY <1>0, <2>1 DEF Rows, OwnId
  <2> QED
    BY <2>1, <2>2
<1>2. ASSUME NEW t \in Tasks, Fill(t)
      PROVE  \E r \in Rows : StartUpsert(t, r) /\ OwnId(r)
  <2>1. PICK x \in frame[t].left :
            StartUpsert(t, [id |-> 0, key |-> x.key, group |-> x.group, val |-> Loaded])
    BY <1>2 DEF Fill
  <2> DEFINE r == [id |-> 0, key |-> x.key, group |-> x.group, val |-> Loaded]
  <2>2. r \in Rows /\ OwnId(r)
    BY <1>0, <2>1 DEF Rows, OwnId, Things
  <2> QED
    BY <2>1, <2>2
<1>3. ASSUME NEW t \in Tasks, UpsertEnds(t) \/ FillFails(t) \/ FillEnds(t)
      PROVE  Take(t)
  BY <1>3 DEF UpsertEnds, FillFails, FillEnds
<1>4. ASSUME NEW t \in Tasks, \/ FindWallet(t) \/ FindMnemonic(t) \/ FindUserKey(t)
                              \/ FindUserKeys(t) \/ Load(t) \/ ChoosePath(t)
      PROVE  DbSame
  BY <1>4 DEF FindWallet, FindMnemonic, FindUserKey, FindUserKeys, Load, ChoosePath, Query,
              dbVars, DbSame
<1>5. ASSUME NEW t \in Tasks, Save(t) \/ Default(t) \/ Request(t) \/ \E op \in Ops, k \in Keys : Look(t, op, k)
      PROVE  DbSame
  BY <1>5 DEF Save, Default, Request, Look, dbVars, DbSame
<1>6. CASE World
  <2>1. CASE \E x \in Things : ServerAdds(x) \/ ServerRemoves(x)
    BY <2>1 DEF ServerAdds, ServerRemoves, dbVars, DbSame
  <2>2. CASE \E k \in Keys : DeleteRows({r \in rows : r.key = k})
    <3>1. PICK k \in Keys : Delete({r \in rows : r.key = k})
      BY <2>2 DEF DeleteRows
    <3>2. {r \in rows : r.key = k} \in SUBSET rows
      OBVIOUS
    <3> QED
      BY <3>1, <3>2
  <2>3. CASE DeleteRows(rows)
    <3>1. Delete(rows) /\ rows \in SUBSET rows
      BY <2>3 DEF DeleteRows
    <3> QED
      BY <3>1
  <2> QED
    BY <1>6, <2>1, <2>2, <2>3 DEF World
<1>7. CASE Build \/ StartAgain
  BY <1>7 DEF Build, StartAgain
<1>8. CASE UNCHANGED vars
  BY <1>8 DEF vars, dbVars, DbSame
<1> QED
  BY <1>1, <1>2, <1>3, <1>4, <1>5, <1>6, <1>7, <1>8 DEF Next, Step

\* A row that an update selects has the key of the model, and keeps its id.
LEMMA UpdateFacts ==
    ASSUME TypeOK, IdsInv, ItemInv, NEW t \in Tasks, NEW r \in Matched(t)
    PROVE  /\ r \in rows /\ r.key = item[t].key /\ Updated(t, r) \in Rows
           /\ Updated(t, r).id = r.id /\ Updated(t, r).key = item[t].key
           /\ Updated(t, r).group = item[t].group /\ Updated(t, r).val = item[t].val
<1>1. r \in rows /\ item[t] \in Rows /\ r \in Rows
  BY DEF Matched, TypeOK
<1>2. r.key = item[t].key
  <2>1. CASE table.match = "id"
    <3>1. r.id = item[t].id
      BY <2>1 DEF Matched
    <3>2. r.id \in DOMAIN ids /\ ids[r.id] = r.key /\ 0 \notin DOMAIN ids
      BY <1>1 DEF IdsInv
    <3> QED
      BY <3>1, <3>2 DEF ItemInv
  <2>2. CASE table.match # "id"
    BY <2>2 DEF Matched
  <2> QED
    BY <2>1, <2>2
<1> QED
  BY <1>1, <1>2 DEF Updated, Rows

\* What a statement of the build does.
LEMMA BuildFacts ==
    ASSUME TypeOK, RunStatement \/ EndMigration
    PROVE  /\ ~Up /\ UNCHANGED <<table, step, item, outcome, disturbed>>
           /\ \/ rows' = rows /\ ids' = ids
              \/ rows' = {} /\ ids' = <<>>
           /\ schema' \in {"none", "base", "full"} /\ failed' \in BOOLEAN /\ faults' \in Nat
           /\ excused' \in BOOLEAN /\ (rows' # {} => excused' = excused)
<1>0. /\ schema \in {"none", "base", "full"} /\ failed \in BOOLEAN /\ faults \in Nat
      /\ excused \in BOOLEAN
  BY DEF TypeOK
<1>1. CASE RunStatement
  <2> DEFINE s == Head(Head(plan))
  <2>1. PICK fault \in BOOLEAN :
          LET works == Fits(s) /\ ~fault IN
            /\ Fault(fault) /\ failed' = (failed \/ fault)
            /\ schema' = IF ~works THEN schema
                         ELSE CASE s = "drop" -> "none"
                                [] s = "create" /\ schema = "none" -> "base"
                                [] s = "dropcolumn" -> "base"
                                [] s = "addcolumn" -> "full"
                                [] OTHER -> schema
            /\ rows' = IF works /\ s = "drop" THEN {} ELSE rows
            /\ ids' = IF works /\ s = "drop" THEN <<>> ELSE ids
            /\ excused' = (excused /\ rows' # {})
    BY <1>1 DEF RunStatement
  <2>2. ~Up /\ UNCHANGED <<table, step, item, outcome, disturbed>>
    BY <1>1 DEF RunStatement
  <2> HIDE DEF s
  <2>3. schema' \in {"none", "base", "full"}
    BY <1>0, <2>1
  <2>4. faults' \in Nat
    BY <1>0, <2>1 DEF Fault
  <2>5. excused' \in BOOLEAN /\ (rows' # {} => excused' = excused)
    BY <1>0, <2>1
  <2>6. \/ rows' = rows /\ ids' = ids
        \/ rows' = {} /\ ids' = <<>>
    BY <2>1
  <2>7. failed' \in BOOLEAN
    BY <1>0, <2>1
  <2> QED
    BY <2>2, <2>3, <2>4, <2>5, <2>6, <2>7
<1>2. CASE EndMigration
  BY <1>0, <1>2 DEF EndMigration
<1> QED
  BY <1>1, <1>2

\* Ids are given in order and never twice.
LEMMA IdsStep ==
    ASSUME IInv, [Next]_vars
    PROVE  rows' \subseteq Rows /\ IdsInv' /\ ItemInv'
<1>0. /\ TypeOK /\ IdsInv /\ ItemInv /\ BuildInv /\ rows \subseteq Rows
      /\ item = [t \in Tasks |-> item[t]]
  BY DEF IInv, TypeOK
<1>1. ASSUME rows' \subseteq rows, ids' = ids, item' = item
      PROVE  rows' \subseteq Rows /\ IdsInv' /\ ItemInv'
  BY <1>0, <1>1 DEF IdsInv, ItemInv
<1>2. ASSUME NEW t \in Tasks, NEW r, OwnId(r), rows' = rows, ids' = ids,
             item' = [item EXCEPT ![t] = r]
      PROVE  rows' \subseteq Rows /\ IdsInv' /\ ItemInv'
  BY <1>0, <1>2 DEF IdsInv, ItemInv, OwnId
<1>3. ASSUME NEW t \in Tasks, Inserts(t), item' = item
      PROVE  rows' \subseteq Rows /\ IdsInv' /\ ItemInv'
  <2>1. PICK r \in Rows : /\ r.id = Len(ids) + 1
                          /\ rows' = rows \union {r} /\ ids' = Append(ids, r.key)
    BY <1>3 DEF Inserts
  <2>2. r.key \in Keys /\ ids \in Seq(Keys)
    BY <1>0 DEF Rows, IdsInv
  <2>3. /\ ids' \in Seq(Keys) /\ DOMAIN ids' = 1..Len(ids) + 1 /\ DOMAIN ids = 1..Len(ids)
        /\ ids'[Len(ids) + 1] = r.key
        /\ \A i \in 1..Len(ids) : ids'[i] = ids[i]
    BY <2>1, <2>2
  <2>4. Len(ids) \in Nat
    BY <2>2
  <2>5. IdsInv'
    BY <1>0, <2>1, <2>3, <2>4 DEF IdsInv
  <2>6. ItemInv'
    BY <1>0, <1>3, <2>3, <2>4 DEF ItemInv
  <2> QED
    BY <1>0, <2>1, <2>5, <2>6
<1>4. ASSUME NEW t \in Tasks, Updates(t), item' = item
      PROVE  rows' \subseteq Rows /\ IdsInv' /\ ItemInv'
  <2>1. /\ rows' = (rows \ Matched(t)) \union {Updated(t, r) : r \in Matched(t)}
        /\ ids' = ids
    BY <1>4 DEF Updates
  <2>2. \A r \in Matched(t) : /\ r \in rows /\ r.key = item[t].key /\ Updated(t, r) \in Rows
                              /\ Updated(t, r).id = r.id /\ Updated(t, r).key = item[t].key
    BY <1>0, UpdateFacts
  <2>3. \A r, s \in Matched(t) : r.id = s.id => r = s
    BY <1>0, <2>2 DEF IdsInv
  <2>4. \A r \in rows' : r.id \in DOMAIN ids /\ ids[r.id] = r.key
    BY <1>0, <2>1, <2>2 DEF IdsInv
  <2>5. \A r, s \in rows' : r.id = s.id => r = s
    BY <1>0, <2>1, <2>2, <2>3 DEF IdsInv
  <2> QED
    BY <1>0, <1>4, <2>1, <2>2, <2>4, <2>5 DEF IdsInv, ItemInv
<1>5. ASSUME NEW t \in Tasks, DbStep(t)
      PROVE  rows' \subseteq Rows /\ IdsInv' /\ ItemInv'
  BY <1>0, <1>1, <1>3, <1>4, <1>5, DbSteps DEF LooksUp, ReadsBack, Breaks
<1>6. ASSUME NEW t \in Tasks, NEW r \in Rows, StartUpsert(t, r), OwnId(r)
      PROVE  rows' \subseteq Rows /\ IdsInv' /\ ItemInv'
  BY <1>2, <1>6 DEF StartUpsert
<1>7. ASSUME NEW t \in Tasks, Take(t)
      PROVE  rows' \subseteq Rows /\ IdsInv' /\ ItemInv'
  <2>1. OwnId(Blank)
    BY Blanks DEF OwnId
  <2> QED
    BY <1>2, <1>7, <2>1 DEF Take
<1>8. CASE (\E doomed \in SUBSET rows : Delete(doomed)) \/ DbSame
  BY <1>1, <1>8 DEF Delete, DbSame
<1>9. CASE RunStatement \/ EndMigration
  <2>1. /\ item' = item /\ \A t \in Tasks : item[t].id = 0
        /\ \/ rows' = rows /\ ids' = ids
           \/ rows' = {} /\ ids' = <<>>
    BY <1>0, <1>9, BuildFacts, Blanks DEF BuildInv
  <2>2. CASE rows' = rows /\ ids' = ids
    BY <1>1, <2>1, <2>2
  <2>3. CASE rows' = {} /\ ids' = <<>>
    BY <2>1, <2>3 DEF IdsInv, ItemInv
  <2> QED
    BY <2>1, <2>2, <2>3
<1>10. CASE Restart
  <2>1. rows' = rows /\ ids' = ids /\ \A t \in Tasks : item'[t] = Blank
    BY <1>10 DEF Restart
  <2> QED
    BY <1>0, <2>1, Blanks DEF IdsInv, ItemInv
<1> QED
  BY <1>0, <1>5, <1>6, <1>7, <1>8, <1>9, <1>10, DbKinds

\* The rest of the table's state keeps its type.
LEMMA DbTypeStep ==
    ASSUME IInv, [Next]_vars
    PROVE  /\ table' \in Daos /\ schema' \in {"none", "base", "full"}
           /\ step' \in [Tasks -> Steps] /\ item' \in [Tasks -> Rows]
           /\ outcome' \in [Tasks -> Outcomes] /\ disturbed' \subseteq Tasks
           /\ excused' \in BOOLEAN /\ failed' \in BOOLEAN
<1> DEFINE Typed ==
           /\ table' \in Daos /\ schema' \in {"none", "base", "full"}
           /\ step' \in [Tasks -> Steps] /\ item' \in [Tasks -> Rows]
           /\ outcome' \in [Tasks -> Outcomes] /\ disturbed' \subseteq Tasks
           /\ excused' \in BOOLEAN /\ failed' \in BOOLEAN
<1>0. /\ table \in Daos /\ schema \in {"none", "base", "full"}
      /\ step \in [Tasks -> Steps] /\ item \in [Tasks -> Rows]
      /\ outcome \in [Tasks -> Outcomes] /\ disturbed \subseteq Tasks
      /\ excused \in BOOLEAN /\ failed \in BOOLEAN
      /\ TypeOK /\ IdsInv
  BY DEF IInv, TypeOK
<1>1. {"none", "lookup", "insert", "update", "readback"} = Steps
      /\ {"none", "ok", "conflict", "unchanged", "nocolumn"} = Outcomes
  BY DEF Steps, Outcomes
<1>2. ASSUME NEW t \in Tasks, DbStep(t)
      PROVE  Typed
  <2>1. /\ LooksUp(t) \/ Inserts(t) \/ Updates(t) \/ ReadsBack(t) \/ Breaks(t)
        /\ UNCHANGED <<table, schema, item, failed>>
    BY <1>0, <1>2, DbSteps
  <2>2. Others(t) \subseteq Tasks /\ Found(t) \in Steps
    BY <1>0 DEF Others, Found, Steps
  <2>3. CASE LooksUp(t)
    BY <1>0, <1>1, <2>1, <2>2, <2>3 DEF LooksUp
  <2>4. CASE Inserts(t)
    BY <1>0, <1>1, <2>1, <2>2, <2>4 DEF Inserts
  <2>5. CASE Updates(t)
    BY <1>0, <1>1, <2>1, <2>2, <2>5 DEF Updates
  <2>6. CASE ReadsBack(t) \/ Breaks(t)
    BY <1>0, <1>1, <2>1, <2>6 DEF ReadsBack, Breaks
  <2> QED
    BY <2>1, <2>3, <2>4, <2>5, <2>6
<1>3. ASSUME NEW t \in Tasks, NEW r \in Rows, StartUpsert(t, r)
      PROVE  Typed
  BY <1>0, <1>1, <1>3 DEF StartUpsert
<1>4. ASSUME NEW t \in Tasks, Take(t)
      PROVE  Typed
  BY <1>0, <1>1, <1>4, Blanks DEF Take
<1>5. CASE (\E doomed \in SUBSET rows : Delete(doomed)) \/ DbSame
  BY <1>0, <1>5 DEF Delete, DbSame
<1>6. CASE RunStatement \/ EndMigration
  BY <1>0, <1>6, BuildFacts
<1>7. CASE Restart
  BY <1>0, <1>1, <1>7, Blanks DEF Restart
<1> QED
  BY <1>0, <1>2, <1>3, <1>4, <1>5, <1>6, <1>7, DbKinds

\* Inserts need a lookup that found nothing.
LEMMA InsertStep ==
    ASSUME IInv, [Next]_vars
    PROVE  InsertInv'
<1>0. /\ TypeOK /\ IdsInv /\ InsertInv /\ BuildInv
      /\ step = [t \in Tasks |-> step[t]] /\ item = [t \in Tasks |-> item[t]]
      /\ excused \in BOOLEAN
  BY DEF IInv, TypeOK
<1>1. ASSUME NEW t \in Tasks, DbStep(t)
      PROVE  InsertInv'
  <2>1. LooksUp(t) \/ Inserts(t) \/ Updates(t) \/ ReadsBack(t) \/ Breaks(t)
    BY <1>0, <1>1, DbSteps
  <2>2. UNCHANGED <<table, item>>
    BY <1>0, <1>1, DbSteps
  <2>3. CASE LooksUp(t)
    <3>1. /\ rows' = rows /\ disturbed' = disturbed /\ (excused => excused')
          /\ table.match # "none" /\ step'[t] \in {"insert", "update"}
          /\ \A u \in Tasks : u # t => step'[u] = step[u]
      BY <1>0, <2>3 DEF LooksUp, InsertInv, Found
    <3>2. step'[t] = "insert" => excused' \/ \A r \in rows : r.key # item[t].key
      <4>1. SUFFICES ASSUME step'[t] = "insert", ~excused', NEW r \in rows, r.key = item[t].key
                     PROVE  FALSE
        OBVIOUS
      <4>2. ~excused /\ First(item[t].key) = {}
        BY <1>0, <2>3, <4>1 DEF LooksUp, Found
      <4>3. \A s \in rows : s.key = r.key => s = r
        BY <3>1, <4>1, <4>2 DEF IInv, DuplicatesNeedRace
      <4>4. r.id \in Nat
        BY <1>0, <4>1 DEF TypeOK, Rows
      <4>5. r \in First(item[t].key)
        BY <4>1, <4>3, <4>4 DEF First
      <4> QED
        BY <4>2, <4>5
    <3> QED
      BY <1>0, <2>2, <3>1, <3>2 DEF InsertInv
  <2>4. CASE Inserts(t) \/ Updates(t)
    <3>1. /\ step'[t] \in {"none", "readback"} /\ disturbed' = Others(t)
          /\ step'[t] = "readback" => table.match # "none"
          /\ \A u \in Tasks : u # t => step'[u] = step[u]
      BY <1>0, <2>4 DEF Inserts, Updates, InsertInv
    <3>2. \A u \in Tasks : u # t /\ step[u] # "none" => u \in disturbed'
      BY <3>1 DEF Others
    <3> QED
      BY <1>0, <2>2, <3>1, <3>2 DEF InsertInv
  <2>5. CASE ReadsBack(t) \/ Breaks(t)
    <3>1. /\ step'[t] = "none" /\ UNCHANGED <<rows, disturbed, excused>>
          /\ \A u \in Tasks : u # t => step'[u] = step[u]
      BY <1>0, <2>5 DEF ReadsBack, Breaks
    <3> QED
      BY <1>0, <2>2, <3>1 DEF InsertInv
  <2> QED
    BY <2>1, <2>3, <2>4, <2>5
<1>2. ASSUME NEW t \in Tasks, NEW r \in Rows, StartUpsert(t, r)
      PROVE  InsertInv'
  <2>1. /\ step'[t] = (IF table.match = "none" THEN "insert" ELSE "lookup")
        /\ UNCHANGED <<rows, excused, table>> /\ disturbed' = disturbed \ {t}
        /\ \A u \in Tasks : u # t => step'[u] = step[u] /\ item'[u] = item[u]
    BY <1>0, <1>2 DEF StartUpsert
  <2> QED
    BY <1>0, <2>1 DEF InsertInv
<1>3. ASSUME NEW t \in Tasks, Take(t)
      PROVE  InsertInv'
  <2>1. /\ step' = step /\ step[t] = "none"
        /\ UNCHANGED <<rows, excused, table>> /\ disturbed' = disturbed \ {t}
        /\ \A u \in Tasks : u # t => item'[u] = item[u]
    BY <1>0, <1>3 DEF Take
  <2> QED
    BY <1>0, <2>1 DEF InsertInv
<1>4. CASE (\E doomed \in SUBSET rows : Delete(doomed)) \/ DbSame
  <2>1. /\ UNCHANGED <<step, item, table, excused>> /\ rows' \subseteq rows
        /\ disturbed \subseteq disturbed'
    BY <1>4 DEF Delete, DbSame
  <2> QED
    BY <1>0, <2>1 DEF InsertInv
<1>5. CASE RunStatement \/ EndMigration \/ Restart
  <2>1. \A t \in Tasks : step'[t] = "none"
    BY <1>0, <1>5, BuildFacts DEF BuildInv, Restart
  <2> QED
    BY <2>1 DEF InsertInv
<1> QED
  BY <1>0, <1>1, <1>2, <1>3, <1>4, <1>5, DbKinds

\* A second row for a key needs a race or a failed query.
LEMMA DuplicatesStep ==
    ASSUME IInv, [Next]_vars
    PROVE  DuplicatesNeedRace'
<1>0. /\ TypeOK /\ IdsInv /\ ItemInv /\ InsertInv /\ DuplicatesNeedRace
      /\ table' = table \/ table.match = table'.match
  <2>1. table' = table
    BY DbKinds, DbSteps, BuildFacts DEF IInv, StartUpsert, Take, Delete, Restart, DbSame
  <2> QED
    BY <2>1 DEF IInv
<1>1. ASSUME rows' \subseteq rows, rows' # {} => (excused => excused')
      PROVE  DuplicatesNeedRace'
  BY <1>0, <1>1 DEF DuplicatesNeedRace
<1>2. ASSUME NEW t \in Tasks, Inserts(t)
      PROVE  DuplicatesNeedRace'
  <2>1. PICK r \in Rows : r.key = item[t].key /\ rows' = rows \union {r}
    BY <1>2 DEF Inserts
  <2>2. (excused => excused') /\ (t \in disturbed => excused') /\ step[t] = "insert"
    BY <1>2 DEF Inserts
  <2>3. table.match # "none" => excused' \/ \A s \in rows : s.key # r.key
    BY <1>0, <2>1, <2>2 DEF InsertInv
  <2> QED
    BY <1>0, <2>1, <2>2, <2>3 DEF DuplicatesNeedRace
<1>3. ASSUME NEW t \in Tasks, Updates(t)
      PROVE  DuplicatesNeedRace'
  <2>1. /\ rows' = (rows \ Matched(t)) \union {Updated(t, r) : r \in Matched(t)}
        /\ excused' = excused
    BY <1>3 DEF Updates
  <2>2. \A r \in Matched(t) : r \in rows /\ r.key = item[t].key /\ Updated(t, r).key = r.key
    BY <1>0, UpdateFacts
  <2>3. SUFFICES ASSUME table.match # "none", ~excused
                 PROVE  \A r, s \in rows' : r.key = s.key => r = s
    BY <1>0, <2>1 DEF DuplicatesNeedRace
  <2>4. \A r, s \in rows : r.key = s.key => r = s
    BY <1>0, <2>3 DEF DuplicatesNeedRace
  <2> QED
    BY <2>1, <2>2, <2>4
<1>4. ASSUME NEW t \in Tasks, DbStep(t)
      PROVE  DuplicatesNeedRace'
  <2>1. LooksUp(t) \/ ReadsBack(t) \/ Breaks(t) => rows' = rows /\ (excused => excused')
    BY DEF LooksUp, ReadsBack, Breaks
  <2> QED
    BY <1>0, <1>1, <1>2, <1>3, <1>4, <2>1, DbSteps
<1>5. CASE \/ \E t \in Tasks, r \in Rows : StartUpsert(t, r)
           \/ \E t \in Tasks : Take(t)
           \/ \E doomed \in SUBSET rows : Delete(doomed)
           \/ Restart
           \/ DbSame
  <2>1. rows' \subseteq rows /\ excused' = excused
    BY <1>5 DEF StartUpsert, Take, Delete, Restart, DbSame
  <2> QED
    BY <1>1, <2>1
<1>6. CASE RunStatement \/ EndMigration
  <2>1. rows' \subseteq rows /\ (rows' # {} => excused' = excused)
    BY <1>0, <1>6, BuildFacts
  <2> QED
    BY <1>1, <2>1
<1> QED
  BY <1>0, <1>4, <1>5, <1>6, DbKinds

\* An undisturbed upsert reads back what it wrote.
LEMMA EffectStep ==
    ASSUME IInv, [Next]_vars
    PROVE  UpsertTakesEffect'
<1>0. /\ TypeOK /\ IdsInv /\ ItemInv /\ InsertInv /\ BuildInv /\ DuplicatesNeedRace
      /\ UpsertTakesEffect /\ DuplicatesNeedRace'
      /\ step = [t \in Tasks |-> step[t]] /\ item = [t \in Tasks |-> item[t]]
      /\ excused \in BOOLEAN
  BY DuplicatesStep DEF IInv, TypeOK
<1> SUFFICES ASSUME NEW v \in Tasks, step'[v] = "readback", v \notin disturbed', ~excused'
             PROVE  {<<r.group, r.val>> : r \in First(item[v].key)'}
                        = {<<item'[v].group, item'[v].val>>}
  BY DEF UpsertTakesEffect
\* The row of the upsert is the only one of its key.
<1>1. ASSUME NEW w \in rows', w.key = item'[v].key, w.group = item'[v].group,
             w.val = item'[v].val, table'.match # "none"
      PROVE  {<<r.group, r.val>> : r \in First(item[v].key)'}
                 = {<<item'[v].group, item'[v].val>>}
  <2>1. \A s \in rows' : s.key = w.key => s = w
    BY <1>0, <1>1 DEF DuplicatesNeedRace
  <2>2. w.id \in Nat
    BY <1>1, IdsStep DEF Rows
  <2>3. First(item[v].key)' = {w}
    BY <1>1, <2>1, <2>2 DEF First
  <2> QED
    BY <1>1, <2>3
<1>2. ASSUME step[v] = "readback", v \notin disturbed, ~excused, rows' = rows,
             item'[v] = item[v]
      PROVE  {<<r.group, r.val>> : r \in First(item[v].key)'}
                 = {<<item'[v].group, item'[v].val>>}
  <2>1. First(item[v].key)' = First(item[v].key)
    BY <1>2 DEF First
  <2> QED
    BY <1>0, <1>2, <2>1 DEF UpsertTakesEffect
<1>3. ASSUME NEW t \in Tasks, DbStep(t)
      PROVE  {<<r.group, r.val>> : r \in First(item[v].key)'}
                 = {<<item'[v].group, item'[v].val>>}
  <2>1. LooksUp(t) \/ Inserts(t) \/ Updates(t) \/ ReadsBack(t) \/ Breaks(t)
    BY <1>0, <1>3, DbSteps
  <2>2. UNCHANGED <<table, item>>
    BY <1>0, <1>3, DbSteps
  <2>3. CASE LooksUp(t) \/ ReadsBack(t) \/ Breaks(t)
    <3>1. rows' = rows /\ disturbed' = disturbed /\ (excused => excused')
          /\ step'[t] # "readback" /\ \A u \in Tasks : u # t => step'[u] = step[u]
      BY <1>0, <2>3 DEF LooksUp, ReadsBack, Breaks, Found
    <3> QED
      BY <1>2, <2>2, <3>1
  <2>4. CASE Inserts(t) \/ Updates(t)
    <3>1. /\ disturbed' = Others(t) /\ \A u \in Tasks : u # t => step'[u] = step[u]
      BY <1>0, <2>4 DEF Inserts, Updates
    <3>2. v = t
      BY <3>1 DEF Others
    <3>3. CASE Inserts(t)
      <4>1. PICK r \in Rows : /\ r.key = item[t].key /\ r.group = item[t].group
                              /\ r.val = item[t].val /\ rows' = rows \union {r}
        BY <3>3 DEF Inserts
      <4>2. table.match # "none"
        BY <1>0, <3>2, <3>3 DEF Inserts
      <4> QED
        BY <1>1, <2>2, <3>2, <4>1, <4>2
    <3>4. CASE Updates(t)
      <4>1. PICK r : r \in Matched(t)
        BY <3>4 DEF Updates
      <4>2. Updated(t, r) \in rows' /\ table.match # "none"
        BY <1>0, <3>4, <4>1 DEF Updates, InsertInv
      <4> QED
        BY <1>0, <1>1, <2>2, <3>2, <4>1, <4>2, UpdateFacts
    <3> QED
      BY <2>4, <3>3, <3>4
  <2> QED
    BY <2>1, <2>3, <2>4
<1>4. ASSUME NEW t \in Tasks, NEW r \in Rows, StartUpsert(t, r)
      PROVE  {<<s.group, s.val>> : s \in First(item[v].key)'}
                 = {<<item'[v].group, item'[v].val>>}
  <2>1. /\ step'[t] \in {"insert", "lookup"} /\ UNCHANGED <<rows, excused>>
        /\ disturbed' = disturbed \ {t}
        /\ \A u \in Tasks : u # t => step'[u] = step[u] /\ item'[u] = item[u]
    BY <1>0, <1>4 DEF StartUpsert
  <2> QED
    BY <1>2, <2>1
<1>5. ASSUME NEW t \in Tasks, Take(t)
      PROVE  {<<s.group, s.val>> : s \in First(item[v].key)'}
                 = {<<item'[v].group, item'[v].val>>}
  <2>1. /\ step' = step /\ step[t] = "none" /\ UNCHANGED <<rows, excused>>
        /\ disturbed' = disturbed \ {t} /\ \A u \in Tasks : u # t => item'[u] = item[u]
    BY <1>0, <1>5 DEF Take
  <2> QED
    BY <1>2, <2>1
<1>6. CASE \E doomed \in SUBSET rows : Delete(doomed)
  BY <1>6 DEF Delete
<1>7. CASE DbSame
  BY <1>2, <1>7 DEF DbSame
<1>8. CASE RunStatement \/ EndMigration \/ Restart
  <2>1. step'[v] = "none"
    BY <1>0, <1>8, BuildFacts DEF BuildInv, Restart
  <2> QED
    BY <2>1
<1> QED
  BY <1>0, <1>3, <1>4, <1>5, <1>6, <1>7, <1>8, DbKinds


----
(* The build.                                                              *)

\* From version 1 there is one path, through both migrations.
LEMMA BuildPlan ==
    BuildDatabase(1) = <<<<"drop", "create", "index">>, Second>>
<1> DEFINE Ahead(v) == {m \in Migrations : m[1] = v /\ v < m[2] /\ m[2] <= 3}
           Nearest(v) == {m \in Ahead(v) : \A n \in Ahead(v) : m[2] <= n[2]}
           Rest(v, p) == IF v = 3 THEN {<<>>}
                         ELSE UNION {{<<m>> \o rest : rest \in p[m[2]]} : m \in Nearest(v)}
           On(p) == [v \in 1..3 |-> Rest(v, p)]
           path == CHOOSE p : p = On(p)
           all == <<<<1, 2>>, <<2, 3>>>>
           P == [v \in 1..3 |-> IF v = 3 THEN {<<>>} ELSE IF v = 2 THEN {<<<<2, 3>>>>} ELSE {all}]
<1>1. MigrationPath(1, 3) = path[1]
  BY DEF MigrationPath
<1>2. Nearest(1) = {<<1, 2>>} /\ Nearest(2) = {<<2, 3>>}
  <2>1. Ahead(1) = {<<1, 2>>} /\ Ahead(2) = {<<2, 3>>}
    BY DEF Migrations
  <2> HIDE DEF Ahead
  <2> QED
    BY <2>1
<1> HIDE DEF Nearest
<1> DEFINE On1(m, p) == {<<m>> \o rest : rest \in p[m[2]]}
<1>3. \A p : /\ Rest(3, p) = {<<>>} /\ Rest(2, p) = On1(<<2, 3>>, p)
             /\ Rest(1, p) = On1(<<1, 2>>, p)
  <2> DEFINE Next1(v, p) == UNION {On1(m, p) : m \in Nearest(v)}
  <2>1. \A p : /\ Rest(3, p) = {<<>>} /\ Rest(2, p) = Next1(2, p)
               /\ Rest(1, p) = Next1(1, p)
    OBVIOUS
  <2> HIDE DEF On1, Rest
  <2>2. \A S, m, p : S = {m} => UNION {On1(n, p) : n \in S} = On1(m, p)
    OBVIOUS
  <2>3. \A p : Next1(2, p) = On1(<<2, 3>>, p) /\ Next1(1, p) = On1(<<1, 2>>, p)
    BY <1>2, <2>2
  <2> HIDE DEF Next1
  <2> QED
    BY <2>1, <2>3
<1> HIDE DEF Rest
<1>4. \A p : p[3] = {<<>>} => Rest(2, p) = {<<<<2, 3>>>>}
  <2>1. \A m : <<m>> \in Seq({m})
    OBVIOUS
  <2>2. <<<<2, 3>>>> \o <<>> = <<<<2, 3>>>>
    BY <2>1, ConcatEmptySeq
  <2> DEFINE m == <<2, 3>>
  <2> HIDE DEF m
  <2>3. \A p : p[3] = {<<>>} => {<<m>> \o rest : rest \in p[3]} = {<<m>> \o <<>>}
    OBVIOUS
  <2> QED
    BY <1>3, <2>2, <2>3 DEF m
<1>5. \A p : p[2] = {<<<<2, 3>>>>} => Rest(1, p) = {all}
  <2>1. \A m, n : /\ <<m>> \in Seq({m, n}) /\ <<n>> \in Seq({m, n})
                  /\ Len(<<m>>) = 1 /\ Len(<<n>>) = 1 /\ <<m>>[1] = m /\ <<n>>[1] = n
    OBVIOUS
  <2>2. ASSUME NEW m, NEW n
        PROVE  <<m>> \o <<n>> = <<m, n>>
    <3>1. /\ <<m>> \o <<n>> \in Seq({m, n}) /\ Len(<<m>> \o <<n>>) = 2
          /\ (<<m>> \o <<n>>)[1] = m /\ (<<m>> \o <<n>>)[2] = n
      BY <2>1, ConcatProperties
    <3> DEFINE s == <<m>> \o <<n>>
    <3> HIDE DEF s
    <3>2. s \in Seq({m, n}) /\ Len(s) = 2 /\ s[1] = m /\ s[2] = n
      BY <3>1 DEF s
    <3>3. s = <<m, n>>
      BY <3>2
    <3> QED
      BY <3>3 DEF s
  <2>3. <<<<1, 2>>>> \o <<<<2, 3>>>> = all
    BY <2>2
  <2> DEFINE m == <<1, 2>>
             n == <<2, 3>>
  <2> HIDE DEF m, n
  <2>4. \A p : p[2] = {<<n>>} => {<<m>> \o rest : rest \in p[2]} = {<<m>> \o <<n>>}
    OBVIOUS
  <2> QED
    BY <1>3, <2>3, <2>4 DEF m, n
<1>6. P = On(P)
  <2>1. P[3] = {<<>>} /\ P[2] = {<<<<2, 3>>>>} /\ P[1] = {all}
    OBVIOUS
  <2> HIDE DEF P, all
  <2>2. Rest(1, P) = P[1] /\ Rest(2, P) = P[2] /\ Rest(3, P) = P[3]
    BY <1>3, <1>4, <1>5, <2>1
  <2>3. \A v \in 1..3 : Rest(v, P) = P[v]
    BY <2>2
  <2>4. P = [v \in 1..3 |-> P[v]]
    BY DEF P
  <2> QED
    BY <2>3, <2>4
<1>7. path = On(path)
  BY <1>6
<1> HIDE DEF path
<1>8. path[1] = {all}
  <2>1. path[3] = Rest(3, path) /\ path[2] = Rest(2, path) /\ path[1] = Rest(1, path)
    BY <1>7
  <2> QED
    BY <1>3, <1>4, <1>5, <2>1
<1> HIDE DEF On
<1>9. MigrationPath(1, Version) = {all}
  BY <1>1, <1>8 DEF Version
<1>10. BuildDatabase(1) = [i \in DOMAIN all |-> Statements(all[i])]
  <2>1. (CHOOSE p \in MigrationPath(1, Version) : TRUE) = all
    BY <1>9
  <2> HIDE DEF all
  <2> QED
    BY <1>9, <2>1 DEF BuildDatabase
<1>11. /\ DOMAIN all = 1..2 /\ Statements(all[1]) = <<"drop", "create", "index">>
       /\ Statements(all[2]) = Second
  BY DEF Statements, Second
<1> QED
  BY <1>10, <1>11


\* The lists a build goes through.
LEMMA Lists ==
    ASSUME NEW a, NEW b, NEW c
    PROVE  /\ Head(<<a>>) = a /\ Head(<<a, b>>) = a /\ Head(<<a, b, c>>) = a
           /\ Tail(<<a>>) = <<>> /\ Tail(<<a, b>>) = <<b>> /\ Tail(<<a, b, c>>) = <<b, c>>
           /\ [<<a>> EXCEPT ![1] = c] = <<c>> /\ [<<a, b>> EXCEPT ![1] = c] = <<c, b>>
           /\ <<a>> # <<>> /\ <<a, b>> # <<>> /\ <<a, b, c>> # <<>>
<1>1. /\ Head(<<a>>) = a /\ Head(<<a, b>>) = a /\ Head(<<a, b, c>>) = a
      /\ <<a>> # <<>> /\ <<a, b>> # <<>> /\ <<a, b, c>> # <<>>
  OBVIOUS
<1>2. Tail(<<a>>) = <<>>
  OBVIOUS
<1>3. Tail(<<a, b>>) = <<b>>
  OBVIOUS
<1>4. Tail(<<a, b, c>>) = <<b, c>>
  OBVIOUS
<1>5. [<<a>> EXCEPT ![1] = c] = <<c>>
  OBVIOUS
<1>6. [<<a, b>> EXCEPT ![1] = c] = <<c, b>>
  OBVIOUS
<1> QED
  BY <1>1, <1>2, <1>3, <1>4, <1>5, <1>6

\* One statement of the build that does not fail, and the end of a migration.
Runs(s, works) ==
    /\ Head(plan) # <<>> /\ s = Head(Head(plan)) /\ (works <=> Fits(s))
    /\ schema' = IF ~works THEN schema
                 ELSE CASE s = "drop" -> "none"
                        [] s = "create" /\ schema = "none" -> "base"
                        [] s = "dropcolumn" -> "base"
                        [] s = "addcolumn" -> "full"
                        [] OTHER -> schema
    /\ plan' = [plan EXCEPT ![1] = IF works \/ s = "dropcolumn"
                                   THEN Tail(Head(plan)) ELSE <<>>]

\* Whatever a statement does that does not fail, the build is on its way to the
\* whole schema.
LEMMA PlanStep ==
    ASSUME IInv, [Next]_vars
    PROVE  PlanInv'
<1>0. TypeOK /\ IdsInv /\ PlanInv /\ failed \in BOOLEAN /\ table.grows \in BOOLEAN
  BY TableTypes DEF IInv, TypeOK
<1>1. ASSUME UNCHANGED <<table, schema, plan, failed>>
      PROVE  PlanInv'
  BY <1>0, <1>1 DEF PlanInv, Second, Complete
<1>2. ASSUME NEW t \in Tasks, DbStep(t)
      PROVE  PlanInv'
  BY <1>0, <1>1, <1>2, DbSteps
<1>3. CASE \/ \E t \in Tasks, r \in Rows : StartUpsert(t, r)
           \/ \E t \in Tasks : Take(t)
           \/ \E doomed \in SUBSET rows : Delete(doomed)
           \/ DbSame
  BY <1>1, <1>3 DEF StartUpsert, Take, Delete, DbSame
<1>4. CASE Restart
  <2>1. plan' = BuildDatabase(1) /\ table' = table
    BY <1>4 DEF Restart
  <2> QED
    BY <2>1, BuildPlan DEF PlanInv, Second
<1>5. CASE RunStatement
  <2>1. CASE failed'
    BY <2>1 DEF PlanInv
  <2>2. CASE ~failed'
    <3>1. PICK fault \in BOOLEAN :
            LET s == Head(Head(plan)) IN LET works == Fits(s) /\ ~fault IN
                /\ failed' = (failed \/ fault)
                /\ schema' = IF ~works THEN schema
                             ELSE CASE s = "drop" -> "none"
                                    [] s = "create" /\ schema = "none" -> "base"
                                    [] s = "dropcolumn" -> "base"
                                    [] s = "addcolumn" -> "full"
                                    [] OTHER -> schema
                /\ plan' = [plan EXCEPT ![1] = IF works \/ s = "dropcolumn"
                                               THEN Tail(Head(plan)) ELSE <<>>]
      BY <1>5 DEF RunStatement
    <3>2. ~fault /\ ~failed /\ Head(plan) # <<>> /\ table' = table /\ ~Up
      BY <1>0, <1>5, <2>2, <3>1 DEF RunStatement
    <3>3. \E s, works : Runs(s, works)
      BY <3>1, <3>2 DEF Runs
    <3>4. PICK s, works : Runs(s, works)
      BY <3>3
    <3> DEFINE all == <<"drop", "create", "index">>
    <3>5. CASE plan = <<all, Second>>
      <4>1. Head(plan) = all /\ Head(all) = "drop" /\ Tail(all) = <<"create", "index">>
            /\ \A c : [plan EXCEPT ![1] = c] = <<c, Second>>
        BY <3>5, Lists
      <4>2. s = "drop" /\ works
        BY <3>4, <4>1 DEF Runs, Fits
      <4>3. schema' = "none" /\ plan' = <<<<"create", "index">>, Second>>
        BY <3>4, <4>1, <4>2 DEF Runs
      <4> QED
        BY <3>2, <4>3 DEF PlanInv, Second
    <3>6. CASE plan = <<<<"create", "index">>, Second>> /\ schema = "none"
      <4>1. /\ Head(plan) = <<"create", "index">> /\ Head(<<"create", "index">>) = "create"
            /\ Tail(<<"create", "index">>) = <<"index">>
            /\ \A c : [plan EXCEPT ![1] = c] = <<c, Second>>
        BY <3>6, Lists
      <4>2. s = "create" /\ works
        BY <3>4, <4>1 DEF Runs, Fits
      <4>3. schema' = "base" /\ plan' = <<<<"index">>, Second>>
        BY <3>4, <3>6, <4>1, <4>2 DEF Runs
      <4> QED
        BY <3>2, <4>3 DEF PlanInv, Second
    <3>7. CASE plan = <<<<"index">>, Second>> /\ schema = "base"
      <4>1. /\ Head(plan) = <<"index">> /\ Head(<<"index">>) = "index"
            /\ Tail(<<"index">>) = <<>>
            /\ \A c : [plan EXCEPT ![1] = c] = <<c, Second>>
        BY <3>7, Lists
      <4>2. s = "index" /\ works
        BY <3>4, <3>7, <4>1 DEF Runs, Fits
      <4>3. schema' = "base" /\ plan' = <<<<>>, Second>>
        BY <3>4, <3>7, <4>1, <4>2 DEF Runs
      <4> QED
        BY <3>2, <4>3 DEF PlanInv, Second
    <3>8. CASE plan \in {<<<<>>, Second>>, <<<<>>>>, <<>>}
      BY <3>2, <3>8, Lists DEF Up
    <3>9. CASE plan = <<Second>> /\ schema = "base"
      <4>1. Head(plan) = Second /\ \A c : [plan EXCEPT ![1] = c] = <<c>>
        BY <3>9, Lists
      <4>2. table.grows /\ Second = <<"dropcolumn", "addcolumn">>
        BY <3>2, <4>1 DEF Second
      <4>3. s = "dropcolumn" /\ ~works /\ Tail(Second) = <<"addcolumn">>
        BY <3>4, <3>9, <4>1, <4>2, Lists DEF Runs, Fits
      <4>4. schema' = "base" /\ plan' = <<<<"addcolumn">>>>
        BY <3>4, <3>9, <4>1, <4>3 DEF Runs
      <4> QED
        BY <3>2, <4>2, <4>4 DEF PlanInv
    <3>10. CASE plan = <<<<"addcolumn">>>> /\ table.grows /\ schema = "base"
      <4>1. /\ Head(plan) = <<"addcolumn">> /\ Head(<<"addcolumn">>) = "addcolumn"
            /\ Tail(<<"addcolumn">>) = <<>>
            /\ \A c : [plan EXCEPT ![1] = c] = <<c>>
        BY <3>10, Lists
      <4>2. s = "addcolumn" /\ works
        BY <3>4, <3>10, <4>1 DEF Runs, Fits
      <4>3. schema' = "full" /\ plan' = <<<<>>>>
        BY <3>4, <3>10, <4>1, <4>2 DEF Runs
      <4> QED
        BY <3>2, <3>10, <4>3 DEF PlanInv, Complete
    <3> QED
      BY <1>0, <3>2, <3>5, <3>6, <3>7, <3>8, <3>9, <3>10 DEF PlanInv
  <2> QED
    BY <2>1, <2>2
<1>6. CASE EndMigration
  <2>1. ~Up /\ Head(plan) = <<>> /\ plan' = Tail(plan) /\ UNCHANGED <<table, schema, failed>>
    BY <1>6 DEF EndMigration
  <2>2. CASE failed
    BY <2>1, <2>2 DEF PlanInv
  <2>3. CASE \/ plan = <<<<"drop", "create", "index">>, Second>>
             \/ plan = <<<<"create", "index">>, Second>>
             \/ plan = <<<<"index">>, Second>>
             \/ plan \in {<<<<"addcolumn">>>>, <<>>}
    <3>1. CASE plan = <<>>
      BY <2>1, <3>1 DEF Up
    <3>2. CASE plan # <<>>
      <4>1. Head(plan) \in {<<"drop", "create", "index">>, <<"create", "index">>,
                            <<"index">>, <<"addcolumn">>}
        BY <2>3, <3>2, Lists
      <4> QED
        BY <2>1, <4>1, Lists
    <3> QED
      BY <3>1, <3>2
  <2>4. CASE plan = <<<<>>, Second>> /\ schema = "base"
    <3>1. plan' = <<Second>>
      BY <2>1, <2>4, Lists
    <3> QED
      BY <2>1, <2>4, <3>1 DEF PlanInv, Second
  <2>5. CASE plan = <<Second>> /\ schema = "base"
    <3>1. plan' = <<>> /\ Second = <<>>
      BY <2>1, <2>5, Lists
    <3>2. ~table.grows
      BY <1>0, <3>1, Lists DEF Second
    <3> QED
      BY <2>1, <2>5, <3>1, <3>2 DEF PlanInv, Complete
  <2>6. CASE plan = <<<<>>>> /\ Complete
    <3>1. plan' = <<>>
      BY <2>1, <2>6, Lists
    <3> QED
      BY <2>1, <2>6, <3>1 DEF PlanInv, Complete
  <2> QED
    BY <1>0, <2>2, <2>3, <2>4, <2>5, <2>6 DEF PlanInv
<1> QED
  BY <1>0, <1>2, <1>3, <1>4, <1>5, <1>6, DbKinds


----
(* What the actions do to the calls.                                       *)

\* A call begins with a look into the table, or with the upsert itself ...
Looks(t) ==
    /\ At(t, "idle") /\ DbSame /\ UNCHANGED <<partial, stale>>
    /\ \E op \in Lookups, k \in Keys :
           frame'[t] = [Idle EXCEPT !.phase = "find", !.op = op, !.want = k]
    /\ answer'[t] = "none"

Writes(t) ==
    /\ At(t, "idle") /\ partial' = (table = ProtonUserKeyDao) /\ stale' = stale
    /\ \E r \in Rows : StartUpsert(t, r)
    /\ \E k \in Keys : frame'[t] = [Idle EXCEPT !.phase = "upsert", !.op = "upsert", !.want = k]
    /\ answer'[t] = "none"

\* ... it asks the server ...
Asks(t) ==
    /\ frame[t].phase \in {"find", "refind"} /\ frame[t].op # "create_wallet_account"
    /\ DbSame /\ UNCHANGED <<partial, stale>>
    /\ frame'[t] = [frame[t] EXCEPT !.phase = "load"] /\ answer'[t] = answer[t]

Loads(t) ==
    /\ At(t, "load") /\ DbSame /\ UNCHANGED <<partial, stale>>
    /\ frame'[t] = [frame[t] EXCEPT !.phase = "fill", !.reply = server, !.left = server]
    /\ answer'[t] = answer[t]

\* ... upserts the answer, until there is no more of it ...
Fills(t) ==
    /\ At(t, "fill") /\ outcome[t] \in {"none", "ok"} /\ UNCHANGED <<partial, stale>>
    /\ \E x \in frame[t].left :
        /\ frame'[t] = [frame[t] EXCEPT !.left = frame[t].left \ {x}]
        /\ \E r \in Rows : r.key = x.key /\ StartUpsert(t, r)
    /\ answer'[t] = answer[t]

HasFilled(t) ==
    /\ At(t, "fill") /\ outcome[t] \in {"none", "ok"} /\ step[t] = "none"
    /\ frame[t].left = {} /\ Take(t)

Leaves(t) ==
    /\ HasFilled(t) /\ UNCHANGED <<partial, stale>>
    /\ \E next \in {"save", "default"} : frame'[t] = [frame[t] EXCEPT !.phase = next]
    /\ answer'[t] = answer[t]

\* ... keeps the mnemonics, or chooses a path ...
Keeps(t) ==
    /\ At(t, "save") /\ DbSame /\ UNCHANGED <<partial, stale>>
    /\ frame'[t] = [frame[t] EXCEPT !.phase = "refind"] /\ answer'[t] = answer[t]

Chooses(t) ==
    /\ ChoosePath(t) /\ frame[t].phase \in {"find", "refind"} /\ DbSame /\ partial' = partial
    /\ \E g \in Groups \ GroupsOf(rows) : frame'[t] = [frame[t] EXCEPT !.phase = "request", !.path = g]
    /\ stale' = IF GroupsOf(server) \subseteq GroupsOf(rows) THEN stale ELSE stale \union {t}
    /\ answer'[t] = answer[t]

\* ... and ends.
Ends(t) ==
    /\ ~At(t, "idle") /\ frame'[t] = Idle /\ answer'[t] \in Answers
    /\ \/ frame[t].phase \notin {"upsert", "fill"} /\ DbSame /\ partial' = partial
       \/ At(t, "upsert") /\ Take(t) /\ UNCHANGED <<partial, stale>>
       \/ HasFilled(t) /\ UNCHANGED <<partial, stale>>
       \/ At(t, "fill") /\ Take(t) /\ partial' = (table = ProtonUserKeyDao) /\ stale' = stale

\* Only one task's call changes.
CallRecords == [phase : Phases, op : Ops, want : Keys, path : Groups,
                reply : SUBSET Things, left : SUBSET Things]
Alone(t) ==
    /\ frame' \in [Tasks -> CallRecords]
    /\ answer' \in [Tasks -> Answers]
    /\ \A u \in Tasks \ {t} : frame'[u] = frame[u] /\ answer'[u] = answer[u]

\* The record of no call is one of a call.
LEMMA IdleTyped ==
    Idle \in CallRecords
<1>1. "idle" \in Phases /\ "none" \in Ops /\ 0 \in Groups /\ Blank.key \in Keys
  BY StoreAssumption, Blanks DEF Phases, Ops
<1> QED
  BY <1>1 DEF Idle, CallRecords

\* One record changes.
LEMMA OneCall ==
    ASSUME TypeOK, NEW t \in Tasks, NEW new \in CallRecords, NEW how \in Answers,
           frame' = [frame EXCEPT ![t] = new],
           \/ answer' = [answer EXCEPT ![t] = how]
           \/ answer' = answer /\ how = answer[t]
    PROVE  Alone(t) /\ frame'[t] = new /\ answer'[t] = how
<1>1. frame \in [Tasks -> CallRecords] /\ answer \in [Tasks -> Answers]
  BY DEF TypeOK, CallRecords
<1> QED
  BY <1>1 DEF Alone

\* Return ends the call of one task.
LEMMA ReturnFacts ==
    ASSUME TypeOK, NEW t \in Tasks, NEW how \in Answers, Return(t, how)
    PROVE  Alone(t) /\ frame'[t] = Idle /\ answer'[t] = how
  BY IdleTyped, OneCall DEF Return

\* GoTo changes the phase of one task.
LEMMA GoToFacts ==
    ASSUME TypeOK, NEW t \in Tasks, NEW next \in Phases, GoTo(t, next)
    PROVE  /\ Alone(t) /\ frame'[t] = [frame[t] EXCEPT !.phase = next]
           /\ answer'[t] = answer[t]
<1> DEFINE new == [frame[t] EXCEPT !.phase = next]
<1>1. new \in CallRecords /\ answer[t] \in Answers
  BY DEF TypeOK, CallRecords
<1>2. frame' = [frame EXCEPT ![t] = new] /\ answer' = answer
  BY DEF GoTo
<1> HIDE DEF new
<1>3. Alone(t) /\ frame'[t] = new /\ answer'[t] = answer[t]
  BY <1>1, <1>2, OneCall
<1> QED
  BY <1>3 DEF new

\* Every step of a task is one of these.
LEMMA CallSteps ==
    ASSUME TypeOK, IdsInv, CallInv, NEW t \in Tasks,
           \/ Step(t) /\ ~(DbStep(t) /\ UNCHANGED storeVars)
           \/ \E k \in Keys : Upsert(t, k) \/ \E op \in Ops : Look(t, op, k)
    PROVE  /\ Alone(t)
           /\ \/ Looks(t) \/ Writes(t) \/ Asks(t) \/ Loads(t) \/ Fills(t) \/ Leaves(t)
              \/ Keeps(t) \/ Chooses(t) \/ Ends(t)
<1> DEFINE Kinds == \/ Looks(t) \/ Writes(t) \/ Asks(t) \/ Loads(t) \/ Fills(t) \/ Leaves(t)
                    \/ Keeps(t) \/ Chooses(t) \/ Ends(t)
<1>0. /\ {"none", "found", "done", "notfound", "network", "nokeys", "nocallback",
          "database", "full", "taken"} = Answers
      /\ {"idle", "upsert", "find", "load", "fill", "save", "refind", "default", "request"} = Phases
  BY DEF Answers, Phases
<1>1. ASSUME NEW phase \in Phases, NEW op \in Ops, NEW k \in Keys, Begin(t, op, phase, k)
      PROVE  /\ Alone(t) /\ At(t, "idle") /\ stale' = stale
             /\ frame'[t] = [Idle EXCEPT !.phase = phase, !.op = op, !.want = k]
             /\ answer'[t] = "none"
  <2> DEFINE new == [Idle EXCEPT !.phase = phase, !.op = op, !.want = k]
  <2>1. new \in CallRecords
    BY IdleTyped DEF CallRecords
  <2>2. At(t, "idle") /\ frame' = [frame EXCEPT ![t] = new] /\ stale' = stale
        /\ answer' = [answer EXCEPT ![t] = "none"]
    BY <1>1 DEF Begin
  <2> HIDE DEF new
  <2>3. Alone(t) /\ frame'[t] = new /\ answer'[t] = "none"
    BY <1>0, <2>1, <2>2, OneCall
  <2> QED
    BY <2>2, <2>3 DEF new
<1>2. ASSUME NEW k \in Keys, Upsert(t, k)
      PROVE  Alone(t) /\ Kinds
  <2>1. Begin(t, "upsert", "upsert", k) /\ partial' = (table = ProtonUserKeyDao)
    BY <1>2 DEF Upsert
  <2>2. \E r \in Rows : StartUpsert(t, r)
    <3>1. PICK id \in {0} \union {i \in DOMAIN ids : ids[i] = k}, g \in GroupsUsed,
               v \in Vals \ {Loaded} :
                   StartUpsert(t, [id |-> id, key |-> k, group |-> g, val |-> v])
      BY <1>2 DEF Upsert
    <3>2. id \in Nat /\ g \in Groups
      BY <3>1, StoreAssumption DEF IdsInv, GroupsUsed
    <3>3. [id |-> id, key |-> k, group |-> g, val |-> v] \in Rows
      BY <3>1, <3>2 DEF Rows
    <3> QED
      BY <3>1, <3>3
  <2>3. "upsert" \in Phases /\ "upsert" \in Ops
    BY DEF Phases, Ops
  <2>4. /\ Alone(t) /\ At(t, "idle") /\ stale' = stale
        /\ frame'[t] = [Idle EXCEPT !.phase = "upsert", !.op = "upsert", !.want = k]
        /\ answer'[t] = "none"
    BY <1>1, <2>1, <2>3
  <2> HIDE DEF Kinds
  <2>5. Writes(t)
    BY <2>1, <2>2, <2>4 DEF Writes
  <2> QED
    BY <2>4, <2>5 DEF Kinds
<1>3. ASSUME NEW k \in Keys, NEW op \in Ops, Look(t, op, k)
      PROVE  Alone(t) /\ Kinds
  <2>1. Begin(t, op, "find", k) /\ op \in Lookups /\ DbSame /\ UNCHANGED partial
    BY <1>3 DEF Look, dbVars, DbSame
  <2>2. /\ Alone(t) /\ At(t, "idle") /\ stale' = stale
        /\ frame'[t] = [Idle EXCEPT !.phase = "find", !.op = op, !.want = k]
        /\ answer'[t] = "none"
    BY <1>0, <1>1, <2>1
  <2> HIDE DEF Kinds
  <2>3. Looks(t)
    BY <2>1, <2>2 DEF Looks
  <2> QED
    BY <2>2, <2>3 DEF Kinds
\* A call that looks into the table returns, or goes on.
<1>4. ASSUME frame[t].phase \in {"find", "refind"}, frame[t].op # "create_wallet_account",
             DbSame, UNCHANGED <<partial, stale>>,
             NotFound(t) \/ GoTo(t, "load") \/ \E how \in Answers : Return(t, how)
      PROVE  Alone(t) /\ Kinds
  <2>1. CASE GoTo(t, "load")
    BY <1>0, <1>4, <2>1, GoToFacts DEF Asks
  <2>2. CASE \E how \in Answers : Return(t, how)
    BY <1>4, <2>2, ReturnFacts DEF Ends, At
  <2> QED
    BY <1>0, <1>4, <2>1, <2>2 DEF NotFound
<1>5. CASE FindWallet(t) \/ FindMnemonic(t)
  <2>1. /\ frame[t].phase \in {"find", "refind"} /\ frame[t].op \in {"get_wallet", "get_wallet_mnemonic"}
        /\ DbSame /\ UNCHANGED <<partial, stale>>
    BY <1>5 DEF FindWallet, FindMnemonic, Searching, Query, DbSame, dbVars
  <2>2. NotFound(t) \/ \E how \in Answers : Return(t, how)
    BY <1>0, <1>5 DEF FindWallet, FindMnemonic
  <2> QED
    BY <1>4, <2>1, <2>2
<1>6. CASE FindUserKey(t) \/ FindUserKeys(t)
  <2>1. /\ frame[t].phase \in {"find", "refind"} /\ frame[t].op \in {"get_user_key", "get_user_keys"}
        /\ DbSame /\ UNCHANGED <<partial, stale>>
    BY <1>6 DEF FindUserKey, FindUserKeys, Searching, Query, DbSame
  <2>2. GoTo(t, "load") \/ \E how \in Answers : Return(t, how)
    BY <1>0, <1>6 DEF FindUserKey, FindUserKeys
  <2> QED
    BY <1>4, <2>1, <2>2
<1>7. CASE Load(t)
  <2>1. At(t, "load") /\ DbSame /\ UNCHANGED <<partial, stale>>
    BY <1>7 DEF Load, DbSame, dbVars
  <2>2. CASE frame' = [frame EXCEPT ![t].phase = AfterLoad, ![t].reply = server, ![t].left = server]
             /\ UNCHANGED answer
    <3> DEFINE new == [frame[t] EXCEPT !.phase = "fill", !.reply = server, !.left = server]
    <3>0. /\ frame[t] \in CallRecords /\ answer[t] \in Answers /\ server \in SUBSET Things
          /\ "fill" \in Phases
      BY <1>0 DEF TypeOK, CallRecords
    <3>1. new \in CallRecords /\ answer[t] \in Answers
      BY <3>0 DEF CallRecords
    <3>2. frame' = [frame EXCEPT ![t] = new] /\ answer' = answer
      BY <2>2 DEF AfterLoad
    <3> HIDE DEF new
    <3>3. Alone(t) /\ frame'[t] = new /\ answer'[t] = answer[t]
      BY <3>1, <3>2, OneCall
    <3> QED
      BY <2>1, <3>3 DEF Loads, new
  <2>3. CASE \E how \in Answers : Return(t, how)
    BY <2>1, <2>3, ReturnFacts DEF Ends, At
  <2> QED
    BY <1>0, <1>7, <2>2, <2>3 DEF Load
<1>8. CASE Fill(t)
  <2>1. At(t, "fill") /\ outcome[t] \in {"none", "ok"} /\ UNCHANGED <<partial, stale, answer>>
    BY <1>8 DEF Fill
  <2>2. PICK x \in frame[t].left :
          /\ frame' = [frame EXCEPT ![t].left = frame[t].left \ {x}]
          /\ StartUpsert(t, [id |-> 0, key |-> x.key, group |-> x.group, val |-> Loaded])
    BY <1>8 DEF Fill
  <2>3. /\ Alone(t) /\ answer'[t] = answer[t]
        /\ frame'[t] = [frame[t] EXCEPT !.left = frame[t].left \ {x}]
    BY <2>1, <2>2 DEF TypeOK, Alone, CallRecords
  <2> DEFINE r == [id |-> 0, key |-> x.key, group |-> x.group, val |-> Loaded]
  <2>4. r \in Rows /\ r.key = x.key
    BY <2>2, StoreAssumption DEF TypeOK, Rows, Things
  <2> QED
    BY <2>1, <2>2, <2>3, <2>4 DEF Fills
<1>9. CASE FillFails(t)
  <2>1. At(t, "fill") /\ Take(t) /\ partial' = (table = ProtonUserKeyDao) /\ stale' = stale
    BY <1>9 DEF FillFails
  <2>2. Alone(t) /\ frame'[t] = Idle /\ answer'[t] \in Answers
    BY <1>0, <1>9, ReturnFacts DEF FillFails
  <2> QED
    BY <2>1, <2>2 DEF Ends, At
<1>10. CASE FillEnds(t)
  <2>1. HasFilled(t) /\ UNCHANGED <<partial, stale>>
    BY <1>10 DEF FillEnds, HasFilled, Filled, Take
  <2>2. GoTo(t, "save") \/ GoTo(t, "default") \/ Return(t, "found")
    <3>1. frame[t].op \in Lookups /\ frame[t].op # "create_wallet_account"
      BY <2>1 DEF CallInv, HasFilled, At
    <3>2. table = WalletDao \/ frame[t].op \in {"get_user_keys", "get_user_key"}
      BY <3>1 DEF Lookups
    <3>3. CASE table = WalletDao
      <4>1. frame[t].op \notin {"get_user_keys", "get_user_key"}
        BY <3>1, <3>3, LookupTables, Tables
      <4> QED
        BY <1>10, <3>3, <4>1 DEF FillEnds
    <3>4. CASE table # WalletDao /\ frame[t].op \in {"get_user_keys", "get_user_key"}
      BY <1>10, <3>4 DEF FillEnds
    <3> QED
      BY <3>2, <3>3, <3>4
  <2>3. CASE GoTo(t, "save") \/ GoTo(t, "default")
    BY <1>0, <2>1, <2>3, GoToFacts DEF Leaves
  <2>4. CASE Return(t, "found")
    BY <1>0, <2>1, <2>4, ReturnFacts DEF Ends, HasFilled, At
  <2> QED
    BY <2>2, <2>3, <2>4
<1>11. CASE Save(t) \/ Default(t)
  <2>1. frame[t].phase \in {"save", "default"} /\ DbSame /\ UNCHANGED <<partial, stale>>
    BY <1>11 DEF Save, Default, DbSame, dbVars, At
  <2>2. CASE At(t, "save") /\ GoTo(t, "refind")
    BY <1>0, <2>1, <2>2, GoToFacts DEF Keeps
  <2>3. CASE \E how \in Answers : Return(t, how)
    BY <2>1, <2>3, ReturnFacts DEF Ends, At
  <2> QED
    BY <1>0, <1>11, <2>2, <2>3 DEF Save, Default
<1>12. CASE ChoosePath(t)
  <2>1. frame[t].phase \in {"find", "refind"} /\ DbSame /\ partial' = partial
    BY <1>12 DEF ChoosePath, Searching, Query, DbSame
  <2>2. CASE \E how \in Answers : Return(t, how)
    BY <2>1, <2>2, ReturnFacts DEF Ends, At
  <2>3. CASE \E g \in NewPath(GroupsOf(rows)) :
               /\ frame' = [frame EXCEPT ![t].phase = "request", ![t].path = g]
               /\ stale' = IF GroupsOf(server) \subseteq GroupsOf(rows)
                           THEN stale ELSE stale \union {t}
               /\ UNCHANGED answer
    <3>1. PICK g \in NewPath(GroupsOf(rows)) :
               /\ frame' = [frame EXCEPT ![t].phase = "request", ![t].path = g]
               /\ stale' = IF GroupsOf(server) \subseteq GroupsOf(rows)
                           THEN stale ELSE stale \union {t}
               /\ UNCHANGED answer
      BY <2>3
    <3>2. g \in Groups \ GroupsOf(rows)
      BY DEF NewPath
    <3> DEFINE new == [frame[t] EXCEPT !.phase = "request", !.path = g]
    <3>0. frame[t] \in CallRecords /\ answer[t] \in Answers /\ "request" \in Phases
      BY <1>0 DEF TypeOK, CallRecords
    <3>3. new \in CallRecords /\ answer[t] \in Answers
      BY <3>0, <3>2 DEF CallRecords
    <3>4. frame' = [frame EXCEPT ![t] = new] /\ answer' = answer
      BY <3>1
    <3> HIDE DEF new
    <3>5. Alone(t) /\ frame'[t] = new /\ answer'[t] = answer[t]
      BY <3>3, <3>4, OneCall
    <3> QED
      BY <1>12, <2>1, <3>1, <3>2, <3>5 DEF Chooses, new
  <2> QED
    BY <1>0, <1>12, <2>2, <2>3 DEF ChoosePath
<1>13. CASE Request(t)
  <2>1. At(t, "request") /\ DbSame /\ partial' = partial
    BY <1>13 DEF Request, DbSame, dbVars
  <2>2. \E how \in Answers : Return(t, how)
    BY <1>0, <1>13 DEF Request
  <2> QED
    BY <2>1, <2>2, ReturnFacts DEF Ends, At
<1>14. CASE Step(t) /\ ~(DbStep(t) /\ UNCHANGED storeVars)
  <2>1. CASE UpsertEnds(t)
    <3>1. At(t, "upsert") /\ Take(t) /\ UNCHANGED <<partial, stale>>
      BY <2>1 DEF UpsertEnds
    <3>2. Alone(t) /\ frame'[t] = Idle /\ answer'[t] \in Answers
      BY <1>0, <2>1, ReturnFacts DEF UpsertEnds
    <3> QED
      BY <3>1, <3>2 DEF Ends, At
  <2> QED
    BY <1>5, <1>6, <1>7, <1>8, <1>9, <1>10, <1>11, <1>12, <1>13, <1>14, <2>1 DEF Step
<1> QED
  BY <1>2, <1>3, <1>14

\* Where a call is after its first step and after its last.
LEMMA NewPhases ==
    ASSUME NEW t \in Tasks
    PROVE  /\ Looks(t) => frame'[t].phase = "find"
           /\ Writes(t) => frame'[t].phase = "upsert"
           /\ Ends(t) => frame'[t].phase = "idle"
<1>1. Looks(t) => frame'[t].phase = "find"
  BY DEF Looks, Idle
<1>2. Writes(t) => frame'[t].phase = "upsert"
  BY DEF Writes, Idle
<1>3. Ends(t) => frame'[t].phase = "idle"
  BY DEF Ends, Idle
<1> QED
  BY <1>1, <1>2, <1>3


\* A step is one of a task, of the world, of the build, or a restart.
LEMMA CallKinds ==
    ASSUME TypeOK, IdsInv, CallInv, [Next]_vars
    PROVE  \/ \E t \in Tasks : DbStep(t) /\ UNCHANGED storeVars
           \/ \E t \in Tasks :
                /\ Alone(t)
                /\ \/ Looks(t) \/ Writes(t) \/ Asks(t) \/ Loads(t) \/ Fills(t) \/ Leaves(t)
                   \/ Keeps(t) \/ Chooses(t) \/ Ends(t)
           \/ World \/ Build \/ StartAgain \/ UNCHANGED vars
<1>1. CASE \E t \in Tasks : Step(t)
  <2>1. PICK t \in Tasks : Step(t)
    BY <1>1
  <2> QED
    BY <2>1, CallSteps
<1>2. CASE \E t \in Tasks, k \in Keys : Upsert(t, k) \/ \E op \in Ops : Look(t, op, k)
  <2>1. PICK t \in Tasks, k \in Keys : Upsert(t, k) \/ \E op \in Ops : Look(t, op, k)
    BY <1>2
  <2> QED
    BY <2>1, CallSteps
<1> QED
  BY <1>1, <1>2 DEF Next

\* The server gets one thing more, loses one, or stays as it is.
LEMMA ServerKinds ==
    ASSUME TypeOK, [Next]_vars
    PROVE  \/ /\ UNCHANGED <<server, past>>
              /\ \/ stale' = stale
                 \/ stale' = {} /\ StartAgain
                 \/ \E t \in Tasks : ChoosePath(t)
                 \/ \E t \in Tasks : Request(t) /\ stale' = stale \ {t}
           \/ \E x \in Things, by \in SUBSET Tasks :
                /\ Grow(x, by) /\ \A t \in by : Request(t)
           \/ \E x \in server : /\ table.deletes /\ server' = server \ {x}
                                /\ past' = past \union {KeysOf(server')} /\ stale' = stale
<1>1. ASSUME NEW t \in Tasks, Request(t)
      PROVE  \/ UNCHANGED <<server, past>> /\ stale' = stale \ {t}
             \/ \E x \in Things : Grow(x, {t})
  <2>1. CASE UNCHANGED <<server, past>> /\ stale' = stale \ {t}
    BY <2>1
  <2>2. CASE \E k \in Keys : Grow([key |-> k, group |-> frame[t].path], {t})
    <3>1. PICK k \in Keys : Grow([key |-> k, group |-> frame[t].path], {t})
      BY <2>2
    <3>2. [key |-> k, group |-> frame[t].path] \in Things
      BY DEF TypeOK, Things
    <3> QED
      BY <3>1, <3>2
  <2> QED
    BY <1>1, <2>1, <2>2 DEF Request
<1>2. ASSUME NEW t \in Tasks, Step(t) /\ ~ChoosePath(t) /\ ~Request(t)
      PROVE  UNCHANGED <<server, past, stale>>
  <2>1. CASE DbStep(t) /\ UNCHANGED storeVars
    BY <2>1 DEF storeVars
  <2>2. CASE UpsertEnds(t) \/ FindWallet(t) \/ FindMnemonic(t) \/ FindUserKey(t) \/ FindUserKeys(t)
    BY <2>2 DEF UpsertEnds, FindWallet, FindMnemonic, FindUserKey, FindUserKeys, worldVars
  <2>3. CASE Load(t) \/ Fill(t) \/ FillFails(t) \/ FillEnds(t) \/ Save(t) \/ Default(t)
    BY <2>3 DEF Load, Fill, FillFails, FillEnds, Save, Default, worldVars
  <2> QED
    BY <1>2, <2>1, <2>2, <2>3 DEF Step
<1>3. ASSUME NEW t \in Tasks, ChoosePath(t)
      PROVE  UNCHANGED <<server, past>>
  BY <1>3 DEF ChoosePath, worldVars
<1>4. ASSUME NEW t \in Tasks, NEW k \in Keys, Upsert(t, k)
      PROVE  UNCHANGED <<server, past, stale>>
  BY <1>4 DEF Upsert, Begin, worldVars
<1>5. ASSUME NEW t \in Tasks, NEW k \in Keys, NEW op \in Ops, Look(t, op, k)
      PROVE  UNCHANGED <<server, past, stale>>
  BY <1>5 DEF Look, Begin, worldVars
<1>6. ASSUME NEW x \in Things, ServerAdds(x)
      PROVE  Grow(x, {})
  BY <1>6 DEF ServerAdds
<1>7. ASSUME NEW x \in Things, ServerRemoves(x)
      PROVE  /\ x \in server /\ table.deletes /\ server' = server \ {x}
             /\ past' = past \union {KeysOf(server')} /\ stale' = stale
  BY <1>7 DEF ServerRemoves
<1>8. ASSUME NEW doomed, DeleteRows(doomed)
      PROVE  UNCHANGED <<server, past, stale>>
  BY <1>8 DEF DeleteRows
<1>9. Build \/ UNCHANGED vars => UNCHANGED <<server, past, stale>>
  BY DEF Build, vars, storeVars, worldVars
<1>10. StartAgain => UNCHANGED <<server, past>> /\ stale' = {}
  BY DEF StartAgain, worldVars
<1> DEFINE Same ==
              /\ UNCHANGED <<server, past>>
              /\ \/ stale' = stale
                 \/ stale' = {} /\ StartAgain
                 \/ \E t \in Tasks : ChoosePath(t)
                 \/ \E t \in Tasks : Request(t) /\ stale' = stale \ {t}
           Grows == \E x \in Things, by \in SUBSET Tasks : Grow(x, by) /\ \A t \in by : Request(t)
           Shrinks == \E x \in server : /\ table.deletes /\ server' = server \ {x}
                                        /\ past' = past \union {KeysOf(server')} /\ stale' = stale
<1>11. UNCHANGED <<server, past, stale>> => Same
  OBVIOUS
<1>12. ASSUME NEW t \in Tasks, Step(t)
       PROVE  Same \/ Grows
  <2>1. CASE Request(t)
    <3>1. CASE UNCHANGED <<server, past>> /\ stale' = stale \ {t}
      BY <2>1, <3>1
    <3>2. CASE \E x \in Things : Grow(x, {t})
      <4>1. {t} \in SUBSET Tasks /\ \A u \in {t} : Request(u)
        BY <2>1
      <4> QED
        BY <3>2, <4>1
    <3> QED
      BY <1>1, <2>1, <3>1, <3>2
  <2>2. CASE ChoosePath(t)
    BY <1>3, <2>2
  <2>3. CASE ~ChoosePath(t) /\ ~Request(t)
    BY <1>2, <1>11, <1>12, <2>3
  <2> QED
    BY <2>1, <2>2, <2>3
<1>13. CASE World
  <2>1. ASSUME NEW x \in Things, ServerAdds(x)
        PROVE  Grows
    <3>1. {} \in SUBSET Tasks /\ \A t \in {} : Request(t)
      OBVIOUS
    <3> QED
      BY <1>6, <2>1, <3>1
  <2> HIDE DEF Same, Grows
  <2>2. \A x \in Things : ServerRemoves(x) => Shrinks
    BY <1>7
  <2> HIDE DEF Shrinks
  <2>3. (\E k \in Keys : DeleteRows({r \in rows : r.key = k})) \/ DeleteRows(rows) => Same
    BY <1>8, <1>11
  <2>4. Same \/ Grows \/ Shrinks
    BY <1>13, <2>1, <2>2, <2>3 DEF World
  <2> QED
    BY <2>4 DEF Same, Grows, Shrinks
<1> HIDE DEF Same, Grows, Shrinks
<1>14. Same \/ Grows \/ Shrinks
  <2>1. Build \/ UNCHANGED vars => Same
    BY <1>9, <1>11
  <2>2. StartAgain => Same
    BY <1>10 DEF Same
  <2>3. World => Same \/ Grows \/ Shrinks
    BY <1>13 DEF Same, Grows, Shrinks
  <2>4. \A t \in Tasks, k \in Keys : Upsert(t, k) \/ (\E op \in Ops : Look(t, op, k)) => Same
    BY <1>4, <1>5, <1>11
  <2> QED
    BY <1>12, <2>1, <2>2, <2>3, <2>4 DEF Next
<1> QED
  BY <1>14 DEF Same, Grows, Shrinks

\* A deletion is of rows that are there.
LEMMA GoneKinds ==
    ASSUME [Next]_vars
    PROVE  \/ gone' = gone
           \/ \E doomed \in SUBSET rows : Delete(doomed) /\ gone' = gone \union KeysOf(doomed)
<1>1. CASE \E t \in Tasks : Step(t)
  <2>1. PICK t \in Tasks : Step(t)
    BY <1>1
  <2>2. CASE (DbStep(t) /\ UNCHANGED storeVars) \/ Request(t) \/ ChoosePath(t)
    BY <2>2 DEF storeVars, Request, ChoosePath, worldVars
  <2>3. CASE UpsertEnds(t) \/ FindWallet(t) \/ FindMnemonic(t) \/ FindUserKey(t) \/ FindUserKeys(t)
    BY <2>3 DEF UpsertEnds, FindWallet, FindMnemonic, FindUserKey, FindUserKeys, worldVars
  <2>4. CASE Load(t) \/ Fill(t) \/ FillFails(t) \/ FillEnds(t) \/ Save(t) \/ Default(t)
    BY <2>4 DEF Load, Fill, FillFails, FillEnds, Save, Default, worldVars
  <2> QED
    BY <2>1, <2>2, <2>3, <2>4 DEF Step
<1>2. CASE \E t \in Tasks, k \in Keys : Upsert(t, k) \/ \E op \in Ops : Look(t, op, k)
  BY <1>2 DEF Upsert, Look, Begin, worldVars
<1>3. CASE \E x \in Things : ServerAdds(x) \/ ServerRemoves(x)
  BY <1>3 DEF ServerAdds, ServerRemoves
<1>4. ASSUME NEW doomed \in SUBSET rows, DeleteRows(doomed)
      PROVE  Delete(doomed) /\ gone' = gone \union KeysOf(doomed)
  BY <1>4 DEF DeleteRows
<1>5. CASE \E k \in Keys : DeleteRows({r \in rows : r.key = k})
  <2>1. PICK k \in Keys : DeleteRows({r \in rows : r.key = k})
    BY <1>5
  <2>2. {r \in rows : r.key = k} \in SUBSET rows
    OBVIOUS
  <2> QED
    BY <1>4, <2>1, <2>2
<1>6. CASE DeleteRows(rows)
  BY <1>4, <1>6
<1>7. CASE Build \/ StartAgain \/ UNCHANGED vars
  BY <1>7 DEF Build, StartAgain, vars, storeVars, worldVars
<1> QED
  BY <1>1, <1>2, <1>3, <1>5, <1>6, <1>7 DEF Next, World

\* Mnemonics are replaced by those of an answer.
LEMMA MnemonicsKinds ==
    ASSUME [Next]_vars
    PROVE  \/ mnemonics' = mnemonics
           \/ \E t \in Tasks : At(t, "save") /\ mnemonics' = KeysOf(frame[t].reply) /\ DbSame
<1>1. CASE \E t \in Tasks : Step(t)
  <2>1. PICK t \in Tasks : Step(t)
    BY <1>1
  <2>2. CASE (DbStep(t) /\ UNCHANGED storeVars) \/ Request(t) \/ ChoosePath(t)
    BY <2>2 DEF storeVars, Request, ChoosePath, worldVars
  <2>3. CASE UpsertEnds(t) \/ FindWallet(t) \/ FindMnemonic(t) \/ FindUserKey(t) \/ FindUserKeys(t)
    BY <2>3 DEF UpsertEnds, FindWallet, FindMnemonic, FindUserKey, FindUserKeys, worldVars
  <2>4. CASE Load(t) \/ Fill(t) \/ FillFails(t) \/ FillEnds(t) \/ Default(t)
    BY <2>4 DEF Load, Fill, FillFails, FillEnds, Default, worldVars
  <2>5. CASE Save(t)
    BY <2>5 DEF Save, dbVars, DbSame
  <2> QED
    BY <2>1, <2>2, <2>3, <2>4, <2>5 DEF Step
<1>2. CASE \E t \in Tasks, k \in Keys : Upsert(t, k) \/ \E op \in Ops : Look(t, op, k)
  BY <1>2 DEF Upsert, Look, Begin, worldVars
<1>3. CASE World
  BY <1>3 DEF World, ServerAdds, ServerRemoves, DeleteRows
<1>4. CASE Build \/ StartAgain \/ UNCHANGED vars
  BY <1>4 DEF Build, StartAgain, vars, storeVars, worldVars
<1> QED
  BY <1>1, <1>2, <1>3, <1>4 DEF Next

\* The bounded counters count.
LEMMA CountersStep ==
    ASSUME TypeOK, [Next]_vars
    PROVE  faults' \in Nat /\ calls' \in Nat /\ changes' \in Nat
<1>0. faults \in Nat /\ calls \in Nat /\ changes \in Nat
  BY DEF TypeOK
<1>1. ASSUME NEW fault \in BOOLEAN, Fault(fault)
      PROVE  faults' \in Nat
  BY <1>0, <1>1 DEF Fault
<1>2. CASE \E t \in Tasks : Step(t)
  <2>1. PICK t \in Tasks : Step(t)
    BY <1>2
  <2>2. CASE DbStep(t) /\ UNCHANGED storeVars
    <3>1. faults' = faults \/ \E fault \in BOOLEAN : Fault(fault)
      BY <2>2 DEF DbStep, Lookup, Insert, Update, Readback
    <3> QED
      BY <1>0, <1>1, <2>2, <3>1 DEF storeVars
  <2>3. CASE FindWallet(t) \/ FindUserKey(t) \/ FindUserKeys(t) \/ ChoosePath(t)
    <3>1. \E fault \in BOOLEAN : Fault(fault)
      BY <2>3 DEF FindWallet, FindUserKey, FindUserKeys, ChoosePath, Query
    <3>2. UNCHANGED <<calls, changes>>
      BY <2>3 DEF FindWallet, FindUserKey, FindUserKeys, ChoosePath, worldVars
    <3> QED
      BY <1>0, <1>1, <3>1, <3>2
  <2>4. CASE FindMnemonic(t) \/ Load(t) \/ Save(t) \/ Default(t) \/ Request(t)
    BY <1>0, <2>4 DEF FindMnemonic, Load, Save, Default, Request, worldVars, dbVars
  <2>5. CASE UpsertEnds(t) \/ Fill(t) \/ FillFails(t) \/ FillEnds(t)
    BY <1>0, <2>5 DEF UpsertEnds, Fill, FillFails, FillEnds, Take, StartUpsert, worldVars
  <2> QED
    BY <2>1, <2>2, <2>3, <2>4, <2>5 DEF Step
<1>3. CASE \E t \in Tasks, k \in Keys : Upsert(t, k) \/ \E op \in Ops : Look(t, op, k)
  <2>1. calls' = calls + 1 /\ UNCHANGED <<faults, changes>>
    BY <1>3 DEF Upsert, Look, Begin, worldVars, dbVars, StartUpsert
  <2> QED
    BY <1>0, <2>1
<1>4. CASE World
  BY <1>0, <1>4 DEF World, ServerAdds, ServerRemoves, DeleteRows, Delete, dbVars
<1>5. CASE Build
  BY <1>0, <1>5, BuildFacts DEF Build, worldVars
<1>6. CASE StartAgain
  BY <1>0, <1>1, <1>6 DEF StartAgain, Restart, worldVars
<1>7. CASE UNCHANGED vars
  BY <1>0, <1>7 DEF vars, dbVars, storeVars
<1> QED
  BY <1>2, <1>3, <1>4, <1>5, <1>6, <1>7 DEF Next

\* What is partial and what is stale keep their types.
LEMMA FlagsStep ==
    ASSUME TypeOK, IdsInv, CallInv, [Next]_vars
    PROVE  partial' \in BOOLEAN /\ stale' \subseteq Tasks
<1>0. partial \in BOOLEAN /\ stale \subseteq Tasks
  BY DEF TypeOK
<1>1. partial' \in BOOLEAN
  <2>1. CASE \E t \in Tasks : DbStep(t) /\ UNCHANGED storeVars
    BY <1>0, <2>1 DEF storeVars
  <2>2. ASSUME NEW t \in Tasks, \/ Looks(t) \/ Writes(t) \/ Asks(t) \/ Loads(t) \/ Fills(t)
                                \/ Leaves(t) \/ Keeps(t) \/ Chooses(t) \/ Ends(t)
        PROVE  partial' \in BOOLEAN
    BY <1>0, <2>2 DEF Looks, Writes, Asks, Loads, Fills, Leaves, Keeps, Chooses, Ends
  <2>3. CASE World
    BY <1>0, <2>3 DEF World, ServerAdds, ServerRemoves, DeleteRows
  <2>4. CASE Build
    BY <1>0, <2>4 DEF Build
  <2>5. CASE StartAgain
    BY <1>0, <2>5 DEF StartAgain
  <2>6. CASE UNCHANGED vars
    BY <1>0, <2>6 DEF vars, storeVars
  <2> QED
    BY <2>1, <2>2, <2>3, <2>4, <2>5, <2>6, CallKinds
<1>2. stale' \subseteq Tasks
  <2>1. ASSUME NEW t \in Tasks, ChoosePath(t)
        PROVE  stale' \subseteq Tasks
    BY <1>0, <2>1 DEF ChoosePath
  <2> QED
    BY <1>0, <2>1, ServerKinds DEF Grow
<1> QED
  BY <1>1, <1>2

\* What a call, the server and the store hold keeps its type.
LEMMA TypesKept ==
    ASSUME IInv, [Next]_vars
    PROVE  TypeOK'
<1>0. TypeOK /\ IdsInv /\ CallInv
  BY DEF IInv
<1>1. rows' \subseteq Rows /\ \A i \in DOMAIN ids' : ids'[i] \in Keys
  <2>1. rows' \subseteq Rows /\ ids' \in Seq(Keys)
    BY IdsStep DEF IdsInv
  <2> QED
    BY <2>1
<1>2. server' \subseteq Things /\ past' \subseteq SUBSET Keys
  <2>1. server \subseteq Things /\ past \subseteq SUBSET Keys
    BY <1>0 DEF TypeOK
  <2>2. \A S \in SUBSET Things : KeysOf(S) \in SUBSET Keys
    BY DEF KeysOf, Things
  <2>3. CASE \E x \in Things, by \in SUBSET Tasks : Grow(x, by)
    <3>1. PICK x \in Things, by \in SUBSET Tasks : Grow(x, by)
      BY <2>3
    <3>2. server' = server \union {x} /\ past' = past \union {KeysOf(server')}
      BY <3>1 DEF Grow
    <3>3. server' \in SUBSET Things
      BY <2>1, <3>2
    <3> QED
      BY <2>1, <2>2, <3>2, <3>3
  <2>4. CASE \E x \in server : server' = server \ {x} /\ past' = past \union {KeysOf(server')}
    <3>1. server' \in SUBSET Things
      BY <2>1, <2>4
    <3> QED
      BY <2>1, <2>2, <2>4, <3>1
  <2>5. CASE UNCHANGED <<server, past>>
    BY <2>1, <2>5
  <2> QED
    BY <1>0, <2>3, <2>4, <2>5, ServerKinds
<1>3. mnemonics' \subseteq Keys
  <2>1. mnemonics \subseteq Keys /\ \A t \in Tasks : KeysOf(frame[t].reply) \subseteq Keys
    BY <1>0 DEF TypeOK, KeysOf, Things
  <2> QED
    BY <2>1, MnemonicsKinds
<1>4. gone' \subseteq Keys
  <2>1. gone \subseteq Keys /\ \A doomed \in SUBSET rows : KeysOf(doomed) \subseteq Keys
    BY <1>0 DEF TypeOK, KeysOf, Rows
  <2> QED
    BY <2>1, GoneKinds
<1>5. frame' \in [Tasks -> CallRecords] /\ answer' \in [Tasks -> Answers]
  <2>1. frame \in [Tasks -> CallRecords] /\ answer \in [Tasks -> Answers]
    BY <1>0 DEF TypeOK, CallRecords
  <2>2. CASE \E t \in Tasks : Alone(t)
    BY <2>2 DEF Alone
  <2>3. CASE UNCHANGED <<frame, answer>>
    BY <2>1, <2>3
  <2>4. CASE StartAgain
    <3>1. frame' = [t \in Tasks |-> Idle] /\ answer' = [t \in Tasks |-> "none"] /\ "none" \in Answers
      BY <2>4 DEF StartAgain, Answers
    <3> QED
      BY <3>1, IdleTyped
  <2>5. CASE World \/ Build
    <3>1. UNCHANGED <<frame, answer>>
      BY <2>5 DEF World, ServerAdds, ServerRemoves, DeleteRows, Build
    <3> QED
      BY <2>3, <3>1
  <2>6. (\E t \in Tasks : DbStep(t) /\ UNCHANGED storeVars) \/ UNCHANGED vars => UNCHANGED <<frame, answer>>
    BY DEF vars, storeVars
  <2> QED
    BY <1>0, <2>2, <2>3, <2>4, <2>5, <2>6, CallKinds
<1> QED
  BY <1>0, <1>1, <1>2, <1>3, <1>4, <1>5, DbTypeStep, CountersStep, FlagsStep DEF TypeOK, CallRecords


----
(* The calls and the table.                                                *)

\* A step leaves the tables built, or the calls as they are, or nothing at all.
LEMMA BuildStep ==
    ASSUME IInv, [Next]_vars
    PROVE  BuildInv'
<1>0. TypeOK /\ IdsInv /\ CallInv /\ BuildInv
  BY DEF IInv
<1>1. CASE ~Up
  <2>1. \A t \in Tasks : step[t] = "none" /\ outcome[t] = "none" /\ item[t] = Blank /\ frame[t] = Idle
    BY <1>0, <1>1 DEF BuildInv
  <2>2. \A t \in Tasks : ~DbStep(t)
    BY <2>1 DEF DbStep, Lookup, Insert, Update, Readback
  <2>3. \A t \in Tasks : At(t, "idle")
    BY <2>1 DEF At, Idle
  <2>4. \A t \in Tasks : ~Step(t)
    BY <2>2, <2>3 DEF Step, UpsertEnds, FindWallet, FindMnemonic, FindUserKey, FindUserKeys,
       Load, Fill, FillFails, FillEnds, Save, Default, ChoosePath, Request, At, Searching
  <2>5. \A t \in Tasks, k \in Keys : ~Upsert(t, k) /\ \A op \in Ops : ~Look(t, op, k)
    BY <1>1 DEF Upsert, Look, Begin
  <2>6. CASE Build
    <3>1. UNCHANGED <<step, outcome, item, frame>>
      BY <1>0, <2>6, BuildFacts DEF Build
    <3> QED
      BY <2>1, <3>1 DEF BuildInv
  <2>7. CASE StartAgain
    BY <2>7 DEF StartAgain, Restart, BuildInv
  <2>8. CASE World
    <3>1. UNCHANGED <<step, outcome, item, frame>>
      BY <2>8 DEF World, ServerAdds, ServerRemoves, DeleteRows, Delete, dbVars
    <3> QED
      BY <2>1, <3>1 DEF BuildInv
  <2>9. CASE UNCHANGED vars
    BY <2>1, <2>9 DEF BuildInv, vars, dbVars, storeVars
  <2> QED
    BY <2>4, <2>5, <2>6, <2>7, <2>8, <2>9 DEF Next
<1>2. CASE Up
  <2>1. plan' = plan \/ StartAgain
    <3>1. Build => ~Up
      BY <1>0, BuildFacts DEF Build
    <3>2. CASE \E t \in Tasks : DbStep(t)
      BY <1>0, <3>2, DbSteps
    <3>3. ASSUME NEW t \in Tasks, \/ Looks(t) \/ Writes(t) \/ Asks(t) \/ Loads(t) \/ Fills(t)
                                  \/ Leaves(t) \/ Keeps(t) \/ Chooses(t) \/ Ends(t)
          PROVE  plan' = plan
      BY <3>3 DEF Looks, Writes, Asks, Loads, Fills, Leaves, HasFilled, Keeps, Chooses, Ends,
         DbSame, StartUpsert, Take
    <3>4. World \/ UNCHANGED vars => plan' = plan
      BY DEF World, ServerAdds, ServerRemoves, DeleteRows, Delete, dbVars, vars
    <3> QED
      BY <1>0, <1>2, <3>1, <3>2, <3>3, <3>4, CallKinds
  <2>2. CASE plan' = plan
    BY <1>2, <2>2 DEF BuildInv, Up
  <2>3. CASE StartAgain
    BY <2>3 DEF StartAgain, Restart, BuildInv
  <2> QED
    BY <2>1, <2>2, <2>3
<1> QED
  BY <1>1, <1>2

\* A step of a task leaves the upserts of the others alone.
LEMMA OthersUpserts ==
    ASSUME TypeOK, IdsInv, NEW t \in Tasks, NEW u \in Tasks, u # t,
           \/ DbStep(t)
           \/ Looks(t) \/ Writes(t) \/ Asks(t) \/ Loads(t) \/ Fills(t) \/ Leaves(t)
           \/ Keeps(t) \/ Chooses(t) \/ Ends(t)
    PROVE  step'[u] = step[u] /\ outcome'[u] = outcome[u] /\ item'[u] = item[u]
<1>0. /\ step = [v \in Tasks |-> step[v]] /\ outcome = [v \in Tasks |-> outcome[v]]
      /\ item = [v \in Tasks |-> item[v]]
  BY DEF TypeOK
<1>1. ASSUME NEW r, StartUpsert(t, r)
      PROVE  step'[u] = step[u] /\ outcome'[u] = outcome[u] /\ item'[u] = item[u]
  BY <1>0, <1>1 DEF StartUpsert
<1>2. CASE Take(t)
  BY <1>0, <1>2 DEF Take
<1>3. CASE DbSame
  BY <1>3 DEF DbSame
<1>4. CASE DbStep(t)
  <2>1. LooksUp(t) \/ Inserts(t) \/ Updates(t) \/ ReadsBack(t) \/ Breaks(t)
    BY <1>4, DbSteps
  <2>2. item' = item
    BY <1>4, DbSteps
  <2>3. step'[u] = step[u] /\ outcome'[u] = outcome[u]
    BY <1>0, <2>1 DEF LooksUp, Inserts, Updates, ReadsBack, Breaks
  <2> QED
    BY <2>2, <2>3
<1> QED
  BY <1>1, <1>2, <1>3, <1>4 DEF Looks, Writes, Asks, Loads, Fills, Leaves, HasFilled, Keeps,
     Chooses, Ends

\* What a step of an upsert does to its own state.
LEMMA OwnUpsert ==
    ASSUME TypeOK, IdsInv, NEW t \in Tasks, DbStep(t)
    PROVE  /\ step[t] # "none" /\ item'[t] = item[t]
           /\ step'[t] # "none" => outcome'[t] = outcome[t]
           /\ step'[t] \in Writing => step[t] \in Writing
<1>0. step = [v \in Tasks |-> step[v]] /\ outcome = [v \in Tasks |-> outcome[v]]
  BY DEF TypeOK
<1>1. LooksUp(t) \/ Inserts(t) \/ Updates(t) \/ ReadsBack(t) \/ Breaks(t)
  BY DbSteps
<1>2. item' = item
  BY DbSteps
<1>3. CASE LooksUp(t)
  BY <1>0, <1>2, <1>3 DEF LooksUp, Writing
<1>4. CASE Inserts(t) \/ Updates(t)
  BY <1>0, <1>2, <1>4 DEF Inserts, Updates, Writing
<1>5. CASE ReadsBack(t) \/ Breaks(t)
  BY <1>0, <1>2, <1>5 DEF ReadsBack, Breaks, Writing
<1> QED
  BY <1>1, <1>3, <1>4, <1>5

\* A call that has not returned has not answered, and only some calls upsert.
LEMMA CallStep ==
    ASSUME IInv, [Next]_vars
    PROVE  CallInv'
<1>0. TypeOK /\ IdsInv /\ CallInv /\ BuildInv
  BY DEF IInv
<1> DEFINE Calls(t) ==
        /\ step[t] # "none" \/ outcome[t] # "none" => frame[t].phase \in {"upsert", "fill"}
        /\ step[t] # "none" => outcome[t] = "none"
        /\ frame[t].phase \notin {"idle", "upsert"} => frame[t].op \in Lookups
        /\ frame[t].phase \in {"load", "fill", "save"} => frame[t].op # "create_wallet_account"
        /\ ~At(t, "idle") => answer[t] = "none"
<1>1. \A t \in Tasks : Calls(t)
  BY <1>0 DEF CallInv
<1>2. table' = table /\ Lookups' = Lookups
  <2>1. table' = table
    BY <1>0, DbKinds, DbSteps, BuildFacts DEF StartUpsert, Take, Delete, Restart, DbSame
  <2> QED
    BY <2>1 DEF Lookups
<1>3. ASSUME UNCHANGED <<step, outcome, frame, answer>>
      PROVE  CallInv'
  BY <1>1, <1>2, <1>3 DEF CallInv, At
<1>4. ASSUME NEW t \in Tasks, DbStep(t), UNCHANGED storeVars
      PROVE  CallInv'
  <2>1. UNCHANGED <<frame, answer>>
    BY <1>4 DEF storeVars
  <2>2. Calls(t)'
    BY <1>0, <1>1, <1>2, <1>4, <2>1, OwnUpsert DEF At
  <2>3. \A u \in Tasks \ {t} : Calls(u)'
    BY <1>0, <1>1, <1>2, <1>4, <2>1, OthersUpserts DEF At
  <2> QED
    BY <2>2, <2>3 DEF CallInv
<1>5. ASSUME NEW t \in Tasks, Alone(t),
             \/ Looks(t) \/ Writes(t) \/ Asks(t) \/ Loads(t) \/ Fills(t) \/ Leaves(t)
             \/ Keeps(t) \/ Chooses(t) \/ Ends(t)
      PROVE  CallInv'
  <2>0. /\ step = [v \in Tasks |-> step[v]] /\ outcome = [v \in Tasks |-> outcome[v]]
        /\ item = [v \in Tasks |-> item[v]] /\ frame[t] \in CallRecords
    BY <1>0 DEF TypeOK, CallRecords
  <2>1. \A u \in Tasks \ {t} : Calls(u)'
    BY <1>0, <1>1, <1>2, <1>5, OthersUpserts DEF At, Alone
  <2>2. Calls(t)
    BY <1>1
  <2>3. CASE Looks(t)
    <3>1. UNCHANGED <<step, outcome>> /\ answer'[t] = "none" /\ At(t, "idle")
      BY <2>3 DEF Looks, DbSame
    <3>2. frame'[t].phase = "find" /\ frame'[t].op \in Lookups
      BY <2>3 DEF Looks, Idle
    <3> QED
      BY <1>2, <2>1, <2>2, <3>1, <3>2 DEF CallInv, At
  <2>4. CASE Writes(t)
    <3>1. frame'[t].phase = "upsert" /\ answer'[t] = "none" /\ outcome'[t] = "none"
      BY <2>0, <2>4 DEF Writes, StartUpsert, Idle
    <3> QED
      BY <2>1, <3>1 DEF CallInv, At
  <2>5. CASE Asks(t) \/ Loads(t) \/ Keeps(t)
    <3>1. UNCHANGED <<step, outcome>> /\ answer'[t] = answer[t] /\ frame'[t].op = frame[t].op
      BY <2>0, <2>5 DEF Asks, Loads, Keeps, DbSame, CallRecords
    <3>2. /\ frame[t].phase \in {"find", "refind", "load", "save"}
          /\ frame'[t].phase \in {"load", "fill", "refind"}
          /\ frame'[t].phase \in {"load", "fill"} => frame[t].op # "create_wallet_account"
      BY <2>0, <2>2, <2>5 DEF Asks, Loads, Keeps, CallRecords, At
    <3> QED
      BY <1>2, <2>1, <2>2, <3>1, <3>2 DEF CallInv, At
  <2>6. CASE Chooses(t)
    <3>1. UNCHANGED <<step, outcome>> /\ answer'[t] = answer[t] /\ frame'[t].op = frame[t].op
      BY <2>0, <2>6 DEF Chooses, DbSame, CallRecords
    <3>2. frame[t].phase \in {"find", "refind"} /\ frame'[t].phase = "request"
      BY <2>0, <2>6 DEF Chooses, CallRecords
    <3> QED
      BY <1>2, <2>1, <2>2, <3>1, <3>2 DEF CallInv, At
  <2>7. CASE Fills(t)
    <3>1. outcome'[t] = "none"
      BY <2>0, <2>7 DEF Fills, StartUpsert
    <3>2. At(t, "fill") /\ frame'[t].phase = "fill" /\ frame'[t].op = frame[t].op /\ answer'[t] = answer[t]
      BY <2>0, <2>7 DEF Fills, CallRecords, At
    <3> QED
      BY <1>2, <2>1, <2>2, <3>1, <3>2 DEF CallInv, At
  <2>8. CASE Leaves(t)
    <3>1. step'[t] = "none" /\ outcome'[t] = "none"
      BY <2>0, <2>8 DEF Leaves, HasFilled, Take
    <3>2. /\ At(t, "fill") /\ frame'[t].phase \in {"save", "default"}
          /\ frame'[t].op = frame[t].op /\ answer'[t] = answer[t]
      BY <2>0, <2>8 DEF Leaves, HasFilled, CallRecords, At
    <3> QED
      BY <1>2, <2>1, <2>2, <3>1, <3>2 DEF CallInv, At
  <2>9. CASE Ends(t)
    <3>1. frame'[t].phase = "idle"
      BY <2>9 DEF Ends, Idle
    <3>2. step'[t] = "none" /\ outcome'[t] = "none"
      <4>1. CASE Take(t)
        BY <2>0, <4>1 DEF Take
      <4>2. CASE frame[t].phase \notin {"upsert", "fill"} /\ DbSame
        BY <2>2, <4>2 DEF DbSame
      <4> QED
        BY <2>9, <4>1, <4>2 DEF Ends, HasFilled
    <3> QED
      BY <2>1, <3>1, <3>2 DEF CallInv, At
  <2> QED
    BY <1>5, <2>3, <2>4, <2>5, <2>6, <2>7, <2>8, <2>9
<1>6. CASE World \/ UNCHANGED vars
  BY <1>3, <1>6 DEF World, ServerAdds, ServerRemoves, DeleteRows, Delete, vars, dbVars, storeVars
<1>7. CASE Build
  BY <1>0, <1>3, <1>7, BuildFacts DEF Build
<1>8. CASE StartAgain
  BY <1>8 DEF StartAgain, Restart, CallInv, Idle, At
<1> QED
  BY <1>0, <1>4, <1>5, <1>6, <1>7, <1>8, CallKinds


\* A path is requested when no row has it.
LEMMA PathStep ==
    ASSUME IInv, [Next]_vars
    PROVE  RequestedPathIsFree'
<1>0. TypeOK /\ IdsInv /\ CallInv /\ RequestedPathIsFree /\ frame \in [Tasks -> CallRecords]
  BY DEF IInv, TypeOK, CallRecords
<1> DEFINE Free(t) == At(t, "request") /\ frame[t].path \in GroupsOf(server) => t \in stale
<1>1. \A t \in Tasks : Free(t)
  BY <1>0 DEF RequestedPathIsFree
<1>2. SUFFICES ASSUME NEW u \in Tasks PROVE Free(u)'
  BY DEF RequestedPathIsFree
<1>3. ASSUME GroupsOf(server)' \subseteq GroupsOf(server), u \in stale => u \in stale',
             frame'[u] = frame[u]
      PROVE  Free(u)'
  BY <1>1, <1>3 DEF At
<1>4. ASSUME NEW t \in Tasks, NEW how \in Answers, Return(t, how)
      PROVE  /\ ~At(t, "request")'
             /\ \A v \in Tasks : v # t => frame'[v] = frame[v]
  BY <1>0, <1>4, ReturnFacts DEF Idle, At, Alone
<1>5. ASSUME NEW t \in Tasks, ChoosePath(t)
      PROVE  Free(u)'
  <2>1. server' = server /\ stale \subseteq stale'
    BY <1>5 DEF ChoosePath, worldVars
  <2>2. CASE \E how \in Answers : Return(t, how)
    BY <1>3, <1>4, <2>1, <2>2
  <2>3. ASSUME NEW g \in NewPath(GroupsOf(rows)),
               frame' = [frame EXCEPT ![t].phase = "request", ![t].path = g],
               stale' = IF GroupsOf(server) \subseteq GroupsOf(rows)
                        THEN stale ELSE stale \union {t}
        PROVE  Free(u)'
    <3>1. g \notin GroupsOf(rows)
      BY DEF NewPath
    <3>2. CASE u # t
      <4>1. frame'[u] = frame[u]
        BY <1>0, <2>3, <3>2
      <4> QED
        BY <1>3, <2>1, <4>1
    <3>3. CASE u = t
      <4>1. frame'[t].path = g
        BY <1>0, <2>3 DEF CallRecords
      <4>2. g \in GroupsOf(server) => t \in stale'
        BY <2>3, <3>1
      <4> QED
        BY <2>1, <3>3, <4>1, <4>2
    <3> QED
      BY <3>2, <3>3
  <2>4. "database" \in Answers /\ "full" \in Answers
    BY DEF Answers
  <2> QED
    BY <1>5, <2>2, <2>3, <2>4 DEF ChoosePath
<1>6. ASSUME NEW t \in Tasks, Request(t)
      PROVE  Free(u)'
  <2>1. \E how \in Answers : Return(t, how)
    BY <1>6 DEF Request, Answers
  <2>2. CASE u = t
    BY <1>4, <2>1, <2>2
  <2>3. CASE u # t
    <3>1. frame'[u] = frame[u]
      BY <1>4, <2>1, <2>3
    <3>2. CASE stale' = stale \ {t} /\ UNCHANGED <<server, past>>
      BY <1>3, <2>3, <3>1, <3>2
    <3>3. CASE \E k \in Keys : Grow([key |-> k, group |-> frame[t].path], {t})
      <4>1. At(u, "request") => u \in stale'
        BY <2>3, <3>3 DEF Grow
      <4> QED
        BY <3>1, <4>1 DEF At
    <3> QED
      BY <1>6, <3>2, <3>3 DEF Request
  <2> QED
    BY <2>2, <2>3
<1>7. CASE StartAgain
  BY <1>7 DEF StartAgain, Idle, At
<1>8. CASE ~StartAgain /\ \A t \in Tasks : ~ChoosePath(t) /\ ~Request(t)
  <2>1. frame'[u] = frame[u] \/ ~At(u, "request")'
    <3>1. ASSUME NEW t \in Tasks, Alone(t),
                 \/ Looks(t) \/ Writes(t) \/ Asks(t) \/ Loads(t) \/ Fills(t) \/ Leaves(t)
                 \/ Keeps(t) \/ Chooses(t) \/ Ends(t)
          PROVE  frame'[u] = frame[u] \/ ~At(u, "request")'
      <4>1. CASE u # t
        BY <3>1, <4>1 DEF Alone
      <4>2. CASE Looks(t) \/ Writes(t) \/ Ends(t)
        BY <4>1, <4>2, NewPhases DEF At
      <4>3. CASE Asks(t) \/ Loads(t) \/ Fills(t)
        BY <1>0, <4>1, <4>3 DEF Asks, Loads, Fills, At, CallRecords
      <4>4. CASE Leaves(t) \/ Keeps(t)
        BY <1>0, <4>1, <4>4 DEF Leaves, Keeps, At, CallRecords
      <4> QED
        BY <1>8, <3>1, <4>2, <4>3, <4>4 DEF Chooses
    <3>2. World \/ Build \/ UNCHANGED vars \/ UNCHANGED storeVars => frame' = frame
      BY DEF World, ServerAdds, ServerRemoves, DeleteRows, Build, vars, storeVars
    <3> QED
      BY <1>0, <1>8, <3>1, <3>2, CallKinds
  <2>2. CASE \E x \in Things : Grow(x, {})
    <3>1. At(u, "request") => u \in stale'
      BY <2>2 DEF Grow
    <3> QED
      BY <2>1, <3>1 DEF At
  <2>3. CASE stale' = stale /\ \E x \in server : server' = server \ {x}
    <3>1. GroupsOf(server)' \subseteq GroupsOf(server)
      BY <2>3 DEF GroupsOf
    <3> QED
      BY <1>3, <2>1, <2>3, <3>1
  <2>4. CASE UNCHANGED <<server, stale>>
    BY <1>3, <2>1, <2>4
  <2>5. ASSUME NEW x \in Things, NEW by \in SUBSET Tasks, Grow(x, by), \A t \in by : Request(t)
        PROVE  by = {}
    BY <1>8, <2>5
  <2> QED
    BY <1>0, <1>8, <2>2, <2>3, <2>4, <2>5, ServerKinds
<1> QED
  BY <1>5, <1>6, <1>7, <1>8

\* What a statement of an upsert does to the keys in the table.
LEMMA RowKeys ==
    ASSUME TypeOK, IdsInv, ItemInv, NEW t \in Tasks, DbStep(t)
    PROVE  /\ KeysOf(rows) \subseteq KeysOf(rows')
           /\ KeysOf(rows') \subseteq KeysOf(rows) \union {k \in {item[t].key} : step[t] \in Writing}
           /\ step[t] \in Writing =>
                  \/ step'[t] \in Writing
                  \/ item[t].key \in KeysOf(rows')
                  \/ outcome'[t] \notin {"none", "ok"}
<1>0. step = [v \in Tasks |-> step[v]] /\ outcome = [v \in Tasks |-> outcome[v]]
  BY DEF TypeOK
<1>1. LooksUp(t) \/ Inserts(t) \/ Updates(t) \/ ReadsBack(t) \/ Breaks(t)
  BY DbSteps
<1>2. CASE LooksUp(t)
  BY <1>0, <1>2 DEF LooksUp, Found, Writing
<1>3. CASE Inserts(t)
  <2>1. PICK r \in Rows : r.key = item[t].key /\ rows' = rows \union {r}
    BY <1>3 DEF Inserts
  <2>2. KeysOf(rows') = KeysOf(rows) \union {item[t].key}
    BY <2>1 DEF KeysOf
  <2>3. step[t] \in Writing
    BY <1>3 DEF Inserts, Writing
  <2> QED
    BY <2>2, <2>3
<1>4. CASE Updates(t)
  <2>1. /\ rows' = (rows \ Matched(t)) \union {Updated(t, r) : r \in Matched(t)}
        /\ Matched(t) # {}
    BY <1>4 DEF Updates
  <2>2. \A r \in Matched(t) : r \in rows /\ r.key = item[t].key /\ Updated(t, r).key = item[t].key
    BY UpdateFacts
  <2>3. KeysOf(rows') = KeysOf(rows) /\ item[t].key \in KeysOf(rows)
    BY <2>1, <2>2 DEF KeysOf
  <2> QED
    BY <2>3
<1>5. CASE ReadsBack(t)
  BY <1>5 DEF ReadsBack, Writing
<1>6. CASE Breaks(t)
  BY <1>0, <1>6 DEF Breaks
<1> QED
  BY <1>1, <1>2, <1>3, <1>4, <1>5, <1>6

\* No row of an answer gets lost.
LEMMA FillStep ==
    ASSUME IInv, [Next]_vars
    PROVE  FillInv'
<1>0. TypeOK /\ IdsInv /\ ItemInv /\ CallInv /\ BuildInv /\ FillInv /\ frame \in [Tasks -> CallRecords]
  BY DEF IInv, TypeOK, CallRecords
<1> DEFINE Fill1(t) ==
        /\ At(t, "save") => frame[t].left = {}
        /\ frame[t].phase \in {"fill", "save"} =>
               KeysOf(frame[t].reply) \subseteq
                   KeysOf(rows) \union gone \union KeysOf(frame[t].left) \union Pending(t)
<1>1. \A t \in Tasks : Fill1(t)
  BY <1>0 DEF FillInv
<1>2. SUFFICES ASSUME NEW u \in Tasks PROVE Fill1(u)'
  BY DEF FillInv
<1>3. ASSUME frame'[u] = frame[u], step'[u] = step[u], outcome'[u] = outcome[u],
             item'[u] = item[u],
             KeysOf(rows) \union gone \subseteq KeysOf(rows') \union gone'
      PROVE  Fill1(u)'
  <2>1. Pending(u)' = Pending(u)
    BY <1>3 DEF Pending
  <2> QED
    BY <1>1, <1>3, <2>1 DEF At
<1>4. ASSUME frame'[u].phase \notin {"fill", "save"}
      PROVE  Fill1(u)'
  BY <1>4 DEF At
<1>5. gone \subseteq gone'
  BY GoneKinds
<1>6. ASSUME NEW t \in Tasks, DbStep(t), UNCHANGED storeVars
      PROVE  Fill1(u)'
  <2>1. frame' = frame /\ gone' = gone
    BY <1>6 DEF storeVars
  <2>2. CASE u # t
    BY <1>0, <1>3, <1>6, <2>1, <2>2, OthersUpserts, RowKeys
  <2>3. CASE u = t
    <3>1. Pending(t) \subseteq KeysOf(rows') \union Pending(t)'
      <4>1. outcome[t] = "none" /\ item'[t] = item[t]
        BY <1>0, <1>6, OwnUpsert DEF CallInv
      <4> QED
        BY <1>0, <1>6, <4>1, RowKeys DEF Pending
    <3>2. KeysOf(rows) \subseteq KeysOf(rows')
      BY <1>0, <1>6, RowKeys
    <3> QED
      BY <1>1, <2>1, <2>3, <3>1, <3>2 DEF At
  <2> QED
    BY <2>2, <2>3
<1>7. ASSUME NEW t \in Tasks, Alone(t),
             \/ Looks(t) \/ Writes(t) \/ Asks(t) \/ Loads(t) \/ Fills(t) \/ Leaves(t)
             \/ Keeps(t) \/ Chooses(t) \/ Ends(t)
      PROVE  Fill1(u)'
  <2>1. rows' = rows
    BY <1>7 DEF Looks, Writes, Asks, Loads, Fills, Leaves, HasFilled, Keeps, Chooses, Ends,
       DbSame, StartUpsert, Take
  <2>2. CASE u # t
    BY <1>0, <1>3, <1>5, <1>7, <2>1, <2>2, OthersUpserts DEF Alone
  <2>3. CASE u = t /\ (Looks(t) \/ Writes(t) \/ Ends(t))
    BY <1>4, <2>3, NewPhases
  <2>4. CASE u = t /\ (Asks(t) \/ Keeps(t) \/ Chooses(t))
    BY <1>0, <1>4, <2>4 DEF Asks, Keeps, Chooses, CallRecords
  <2>5. CASE u = t /\ Loads(t)
    <3>1. frame'[t].phase = "fill" /\ frame'[t].reply = frame'[t].left
      BY <1>0, <2>5 DEF Loads, CallRecords
    <3> QED
      BY <2>5, <3>1 DEF At
  <2>6. CASE u = t /\ Fills(t)
    <3>1. PICK x \in frame[t].left :
            /\ frame'[t] = [frame[t] EXCEPT !.left = frame[t].left \ {x}]
            /\ \E r \in Rows : r.key = x.key /\ StartUpsert(t, r)
      BY <2>6 DEF Fills
    <3>2. PICK r \in Rows : r.key = x.key /\ StartUpsert(t, r)
      BY <3>1
    <3>3. /\ frame'[t].phase = "fill" /\ At(t, "fill") /\ frame'[t].reply = frame[t].reply
          /\ frame'[t].left = frame[t].left \ {x}
      BY <1>0, <2>6, <3>1 DEF CallRecords, Fills, At
    <3>4. Pending(t) = {}
      BY <2>6, <3>2 DEF Pending, Fills, StartUpsert, Writing
    <3>5. Pending(t)' = {x.key}
      <4>1. step'[t] \in Writing /\ item'[t].key = x.key
        BY <1>0, <3>2 DEF StartUpsert, Writing, TypeOK
      <4> QED
        BY <4>1 DEF Pending
    <3>6. KeysOf(frame[t].left) \subseteq KeysOf(frame'[t].left) \union {x.key}
      BY <3>3 DEF KeysOf
    <3> QED
      BY <1>1, <1>5, <2>1, <2>6, <3>3, <3>4, <3>5, <3>6 DEF At
  <2>7. CASE u = t /\ Leaves(t)
    <3>1. /\ At(t, "fill") /\ frame[t].left = {} /\ step[t] = "none" /\ outcome[t] \in {"none", "ok"}
      BY <2>7 DEF Leaves, HasFilled
    <3>2. frame'[t].reply = frame[t].reply /\ frame'[t].left = {}
      BY <1>0, <2>7, <3>1 DEF Leaves, CallRecords
    <3>3. Pending(t) = {}
      BY <3>1 DEF Pending, Writing
    <3> QED
      BY <1>1, <1>5, <2>1, <2>7, <3>1, <3>2, <3>3 DEF At
  <2> QED
    BY <1>7, <2>2, <2>3, <2>4, <2>5, <2>6, <2>7
<1>8. CASE World
  <2>1. UNCHANGED <<frame, step, outcome, item>>
    BY <1>8 DEF World, ServerAdds, ServerRemoves, DeleteRows, Delete, dbVars
  <2>2. KeysOf(rows) \union gone \subseteq KeysOf(rows') \union gone'
    <3>1. ASSUME NEW doomed, DeleteRows(doomed)
          PROVE  KeysOf(rows) \union gone \subseteq KeysOf(rows') \union gone'
      <4>1. rows' = rows \ doomed /\ gone' = gone \union KeysOf(doomed)
        BY <3>1 DEF DeleteRows, Delete
      <4> QED
        BY <4>1 DEF KeysOf
    <3>2. (\E x \in Things : ServerAdds(x) \/ ServerRemoves(x)) => UNCHANGED <<rows, gone>>
      BY DEF ServerAdds, ServerRemoves, dbVars
    <3> QED
      BY <1>8, <3>1, <3>2 DEF World
  <2> QED
    BY <1>3, <2>1, <2>2
<1>9. CASE Build
  <2>1. frame'[u].phase = "idle"
    BY <1>0, <1>9, BuildFacts DEF Build, BuildInv, Idle
  <2> QED
    BY <1>4, <2>1
<1>10. CASE StartAgain
  BY <1>4, <1>10 DEF StartAgain, Idle
<1>11. CASE UNCHANGED vars
  BY <1>3, <1>11 DEF vars, dbVars, storeVars
<1> QED
  BY <1>0, <1>6, <1>7, <1>8, <1>9, <1>10, <1>11, CallKinds


\* The user's keys are those the server had at one time, but for the loads that
\* are under way.
LEMMA UserKeysStep ==
    ASSUME IInv, [Next]_vars
    PROVE  UserKeysInv'
<1>0. /\ TypeOK /\ IdsInv /\ ItemInv /\ CallInv /\ BuildInv /\ FillInv
      /\ frame \in [Tasks -> CallRecords] /\ partial \in BOOLEAN
  BY DEF IInv, TypeOK, CallRecords
<1>1. table' = table
  BY <1>0, DbKinds, DbSteps, BuildFacts DEF StartUpsert, Take, Delete, Restart, DbSame
<1>2. SUFFICES ASSUME table = ProtonUserKeyDao PROVE UserKeysInv'
  BY <1>1 DEF UserKeysInv
<1>3. ~table.deletes
  BY <1>2, Tables
<1> DEFINE Chain ==
        /\ KeysOf(server) \in past
        /\ \A p \in past : p \subseteq KeysOf(server)
        /\ \A p, q \in past : p \subseteq q \/ q \subseteq p
           Upserts(t) == At(t, "upsert") => partial
           Filling(t) == At(t, "fill") =>
               /\ KeysOf(frame[t].reply) \in past
               /\ frame[t].left \subseteq frame[t].reply
               /\ step[t] \in Writing => item[t].key \in KeysOf(frame[t].reply)
           Link == ~partial => \E keys \in past \union {{}} : Whole(keys)
<1>4. gone = {} /\ Chain /\ Link /\ \A t \in Tasks : Upserts(t) /\ Filling(t)
  BY <1>2, <1>0 DEF IInv, UserKeysInv
<1>5. gone' = {}
  BY <1>3, <1>4, GoneKinds DEF Delete
\* The server only grows.
<1>6. past \subseteq past' /\ Chain'
  <2>1. CASE UNCHANGED <<server, past>>
    BY <1>4, <2>1
  <2>2. CASE \E x \in Things, by \in SUBSET Tasks : Grow(x, by)
    <3>1. PICK x \in Things, by \in SUBSET Tasks : Grow(x, by)
      BY <2>2
    <3>2. server' = server \union {x} /\ past' = past \union {KeysOf(server')}
      BY <3>1 DEF Grow
    <3>3. KeysOf(server) \subseteq KeysOf(server')
      BY <3>2 DEF KeysOf
    <3>4. \A p \in past' : p \subseteq KeysOf(server')
      BY <1>4, <3>2, <3>3
    <3>5. \A p, q \in past' : p \subseteq q \/ q \subseteq p
      <4>1. \A p, q \in past : p \subseteq q \/ q \subseteq p
        BY <1>4
      <4> DEFINE all == KeysOf(server')
      <4>2. past' = past \union {all} /\ \A p \in past' : p \subseteq all
        BY <3>2, <3>4
      <4> HIDE DEF all
      <4> QED
        BY <4>1, <4>2
    <3> QED
      BY <3>2, <3>4, <3>5
  <2> QED
    BY <1>0, <1>3, <2>1, <2>2, ServerKinds
<1> HIDE DEF Chain
\* What a table that keeps its rows and its loads has is still whole.
<1>7. ASSUME NEW keys \in past \union {{}}, Whole(keys), KeysOf(rows) \subseteq KeysOf(rows'),
             \A k \in KeysOf(rows') \ keys : \E t \in Tasks : At(t, "fill")' /\ k \in KeysOf(frame[t].reply)'
      PROVE  Link'
  <2>1. Whole(keys)'
    BY <1>6, <1>7 DEF Whole
  <2> QED
    BY <1>6, <2>1
<1>8. ASSUME NEW t \in Tasks, frame'[t] = frame[t], step'[t] = step[t], item'[t] = item[t],
             partial => partial'
      PROVE  Upserts(t)' /\ Filling(t)'
  BY <1>4, <1>6, <1>8 DEF At
<1>9. ASSUME UNCHANGED <<rows, frame, step, item, partial>>
      PROVE  Link' /\ \A t \in Tasks : Upserts(t)' /\ Filling(t)'
  <2>1. Link'
    <3>1. CASE partial'
      BY <3>1
    <3>2. CASE ~partial'
      <4>1. PICK keys \in past \union {{}} : Whole(keys)
        BY <1>4, <1>9, <3>2
      <4>2. \A k \in KeysOf(rows') \ keys : \E t \in Tasks : At(t, "fill")' /\ k \in KeysOf(frame[t].reply)'
        BY <1>9, <4>1 DEF Whole, At
      <4> QED
        BY <1>7, <1>9, <4>1, <4>2
    <3> QED
      BY <3>1, <3>2
  <2> QED
    BY <1>8, <1>9, <2>1
<1>10. ASSUME NEW t \in Tasks, DbStep(t), UNCHANGED storeVars
       PROVE  Link' /\ \A u \in Tasks : Upserts(u)' /\ Filling(u)'
  <2>1. UNCHANGED <<frame, partial>>
    BY <1>10 DEF storeVars
  <2>2. \A u \in Tasks \ {t} : Upserts(u)' /\ Filling(u)'
    BY <1>0, <1>8, <1>10, <2>1, OthersUpserts
  <2>3. Upserts(t)' /\ Filling(t)'
    BY <1>0, <1>4, <1>6, <1>10, <2>1, OwnUpsert DEF At
  <2>4. Link'
    <3>1. SUFFICES ASSUME ~partial' PROVE Link'
      OBVIOUS
    <3>2. PICK keys \in past \union {{}} : Whole(keys)
      BY <1>4, <2>1, <3>1
    <3>3. At(t, "fill")
      BY <1>0, <1>4, <1>10, <2>1, <3>1, OwnUpsert DEF CallInv, At
    <3>4. step[t] \in Writing => item[t].key \in KeysOf(frame[t].reply)
      BY <1>4, <3>3
    <3>5. \A k \in KeysOf(rows') \ keys : \E u \in Tasks : At(u, "fill")' /\ k \in KeysOf(frame[u].reply)'
      <4>1. SUFFICES ASSUME NEW k \in KeysOf(rows') \ keys
                     PROVE  \E u \in Tasks : At(u, "fill")' /\ k \in KeysOf(frame[u].reply)'
        OBVIOUS
      <4>2. k \in KeysOf(rows) \/ (k = item[t].key /\ step[t] \in Writing)
        BY <1>0, <1>10, RowKeys
      <4>3. CASE k \in KeysOf(rows)
        BY <2>1, <3>2, <4>3 DEF Whole, At
      <4>4. CASE k = item[t].key /\ step[t] \in Writing
        BY <2>1, <3>3, <3>4, <4>4 DEF At
      <4> QED
        BY <4>2, <4>3, <4>4
    <3>6. KeysOf(rows) \subseteq KeysOf(rows')
      BY <1>0, <1>10, RowKeys
    <3> QED
      BY <1>7, <3>2, <3>5, <3>6
  <2> QED
    BY <2>2, <2>3, <2>4
<1>11. ASSUME NEW t \in Tasks, Alone(t),
              \/ Looks(t) \/ Writes(t) \/ Asks(t) \/ Loads(t) \/ Fills(t) \/ Leaves(t)
              \/ Keeps(t) \/ Chooses(t) \/ Ends(t)
       PROVE  Link' /\ \A u \in Tasks : Upserts(u)' /\ Filling(u)'
  <2>1. rows' = rows
    BY <1>11 DEF Looks, Writes, Asks, Loads, Fills, Leaves, HasFilled, Keeps, Chooses, Ends,
       DbSame, StartUpsert, Take
  <2>2. partial' = partial \/ partial' = TRUE
    BY <1>2, <1>11 DEF Looks, Writes, Asks, Loads, Fills, Leaves, Keeps, Chooses, Ends
  <2>3. \A u \in Tasks \ {t} : Upserts(u)' /\ Filling(u)'
    BY <1>0, <1>8, <1>11, <2>2, OthersUpserts DEF Alone
  <2>4. frame[t] \in CallRecords /\ \A u \in Tasks \ {t} : frame'[u] = frame[u]
    BY <1>0, <1>11 DEF Alone
\* The keys of a load that ends are whole by themselves.
  <2>5. ASSUME HasFilled(t), ~partial', partial' = partial
        PROVE  Link'
    <3>1. PICK keys \in past \union {{}} : Whole(keys)
      BY <1>4, <2>5
    <3>2. KeysOf(frame[t].reply) \in past /\ KeysOf(frame[t].reply) \subseteq KeysOf(rows)
      <4>1. At(t, "fill") /\ frame[t].left = {} /\ Pending(t) = {}
        BY <2>5 DEF HasFilled, Pending, Writing
      <4>2. KeysOf(frame[t].reply) \subseteq KeysOf(rows) \union gone \union KeysOf(frame[t].left)
        BY <1>0, <4>1 DEF FillInv, At
      <4> QED
        BY <1>4, <4>1, <4>2 DEF KeysOf
    <3> DEFINE more == keys \union KeysOf(frame[t].reply)
    <3>3. more \in past \union {{}}
      <4>1. more = KeysOf(frame[t].reply) \/ more = keys
        <5>1. keys \subseteq KeysOf(frame[t].reply) \/ KeysOf(frame[t].reply) \subseteq keys
          BY <1>4, <3>1, <3>2 DEF Chain
        <5> QED
          BY <5>1
      <4> QED
        BY <3>1, <3>2, <4>1
    <3>4. Whole(more)
      BY <3>1, <3>2, <3>3 DEF Whole
    <3>5. \A k \in KeysOf(rows') \ more : \E u \in Tasks : At(u, "fill")' /\ k \in KeysOf(frame[u].reply)'
      <4>1. SUFFICES ASSUME NEW k \in KeysOf(rows), k \notin more
                     PROVE  \E u \in Tasks : At(u, "fill")' /\ k \in KeysOf(frame[u].reply)'
        BY <2>1
      <4>2. PICK u \in Tasks : At(u, "fill") /\ k \in KeysOf(frame[u].reply)
        BY <3>1, <4>1 DEF Whole
      <4>3. u # t
        BY <4>1, <4>2
      <4> QED
        BY <2>4, <4>2, <4>3 DEF At
    <3> HIDE DEF more
    <3> QED
      BY <1>7, <2>1, <3>3, <3>4, <3>5
\* Other steps of a call leave its load under way.
  <2>6. ASSUME ~partial', partial' = partial,
               At(t, "fill") => At(t, "fill")' /\ frame'[t].reply = frame[t].reply
        PROVE  Link'
    <3>1. PICK keys \in past \union {{}} : Whole(keys)
      BY <1>4, <2>6
    <3>2. \A u \in Tasks : At(u, "fill") => At(u, "fill")' /\ frame'[u].reply = frame[u].reply
      BY <2>4, <2>6 DEF At
    <3>3. \A k \in KeysOf(rows') \ keys : \E u \in Tasks : At(u, "fill")' /\ k \in KeysOf(frame[u].reply)'
      BY <2>1, <3>1, <3>2 DEF Whole
    <3> QED
      BY <1>7, <2>1, <3>1, <3>3
  <2>7. partial' => Link'
    OBVIOUS
  <2> HIDE DEF Link
  <2>8. CASE Looks(t)
    <3>1. /\ frame'[t].phase = "find" /\ partial' = partial /\ ~At(t, "fill")
      BY <2>8, NewPhases DEF Looks, At
    <3> QED
      BY <2>2, <2>3, <2>6, <2>7, <3>1 DEF At
  <2>9. CASE Writes(t)
    <3>1. /\ frame'[t].phase = "upsert" /\ partial'
      BY <1>2, <2>9, NewPhases DEF Writes
    <3> QED
      BY <2>3, <2>7, <3>1 DEF At
  <2>10. CASE Asks(t) \/ Keeps(t) \/ Chooses(t)
    <3>1. frame'[t].phase \in {"load", "refind", "request"} /\ partial' = partial /\ ~At(t, "fill")
      BY <2>4, <2>10 DEF Asks, Keeps, Chooses, At, CallRecords
    <3> QED
      BY <2>2, <2>3, <2>6, <2>7, <3>1 DEF At
  <2>11. CASE Loads(t)
    <3>1. /\ frame'[t].phase = "fill" /\ partial' = partial /\ At(t, "load")
          /\ frame'[t].reply = server /\ frame'[t].left = server /\ step' = step
      BY <2>4, <2>11 DEF Loads, CallRecords, DbSame
    <3>2. step[t] = "none"
      BY <1>0, <3>1 DEF CallInv, At
    <3>3. Upserts(t)' /\ Filling(t)'
      BY <1>4, <1>6, <3>1, <3>2 DEF Chain, At, Writing
    <3> QED
      BY <2>2, <2>3, <2>6, <2>7, <3>1, <3>3 DEF At
  <2>12. CASE Fills(t)
    <3>1. PICK x \in frame[t].left :
            /\ frame'[t] = [frame[t] EXCEPT !.left = frame[t].left \ {x}]
            /\ \E r \in Rows : r.key = x.key /\ StartUpsert(t, r)
      BY <2>12 DEF Fills
    <3>2. /\ frame'[t].phase = "fill" /\ At(t, "fill") /\ frame'[t].reply = frame[t].reply
          /\ frame'[t].left = frame[t].left \ {x} /\ partial' = partial
      BY <2>4, <2>12, <3>1 DEF CallRecords, Fills, At
    <3>3. item'[t].key = x.key
      BY <1>0, <3>1 DEF StartUpsert, TypeOK
    <3>4. x.key \in KeysOf(frame[t].reply)
      BY <1>4, <3>1, <3>2 DEF KeysOf
    <3>5. Upserts(t)' /\ Filling(t)'
      BY <1>4, <1>6, <3>2, <3>3, <3>4 DEF At
    <3> QED
      BY <2>2, <2>3, <2>6, <2>7, <3>2, <3>5 DEF At
  <2>13. CASE Leaves(t)
    <3>1. HasFilled(t) /\ partial' = partial /\ frame'[t].phase \in {"save", "default"}
      BY <2>4, <2>13 DEF Leaves, CallRecords
    <3> QED
      BY <2>2, <2>3, <2>5, <2>7, <3>1 DEF At
  <2>14. CASE Ends(t)
    <3>1. frame'[t].phase = "idle"
      BY <2>14, NewPhases
    <3>2. \/ ~At(t, "fill") /\ partial' = partial
          \/ HasFilled(t) /\ partial' = partial
          \/ partial'
      BY <1>2, <2>14 DEF Ends, At
    <3> QED
      BY <2>2, <2>3, <2>5, <2>6, <2>7, <3>1, <3>2 DEF At
  <2> QED
    BY <1>11, <2>8, <2>9, <2>10, <2>11, <2>12, <2>13, <2>14
<1>12. CASE World
  <2>1. UNCHANGED <<frame, step, item, partial>>
    BY <1>12 DEF World, ServerAdds, ServerRemoves, DeleteRows, Delete, dbVars
  <2>2. rows' = rows
    BY <1>3, <1>12 DEF World, ServerAdds, ServerRemoves, DeleteRows, Delete, dbVars
  <2> QED
    BY <1>5, <1>6, <1>9, <1>1, <2>1, <2>2 DEF UserKeysInv, Chain
<1>13. CASE Build
  <2>1. /\ UNCHANGED <<frame, step, item>> /\ \A t \in Tasks : frame[t].phase = "idle"
        /\ rows' = rows \/ rows' = {}
    BY <1>0, <1>13, BuildFacts DEF Build, BuildInv, Idle
  <2>2. partial' = (partial /\ rows' # {})
    BY <1>13 DEF Build
  <2>3. Link'
    <3>1. CASE rows' = {}
      <4>1. KeysOf(rows') = {}
        BY <3>1 DEF KeysOf
      <4>2. Whole({})'
        BY <4>1 DEF Whole
      <4> QED
        BY <4>2
    <3>2. CASE rows' = rows /\ rows # {}
      BY <1>0, <1>9, <2>1, <2>2, <3>2
    <3> QED
      BY <2>1, <3>1, <3>2
  <2>4. \A t \in Tasks : Upserts(t)' /\ Filling(t)'
    BY <2>1 DEF At
  <2> QED
    BY <1>5, <1>6, <2>3, <2>4 DEF UserKeysInv, Chain
<1>14. CASE StartAgain
  <2>1. /\ \A t \in Tasks : frame'[t].phase = "idle"
        /\ partial' = (partial \/ \E t \in Tasks : At(t, "fill")) /\ rows' = rows
    BY <1>14 DEF StartAgain, Restart, Idle
  <2>2. Link'
    <3>1. SUFFICES ASSUME ~partial' PROVE Link'
      OBVIOUS
    <3>2. PICK keys \in past \union {{}} : Whole(keys)
      BY <1>4, <2>1, <3>1
    <3>3. KeysOf(rows) \subseteq keys
      BY <2>1, <3>1, <3>2 DEF Whole
    <3> QED
      BY <1>7, <2>1, <3>2, <3>3
  <2>3. \A t \in Tasks : Upserts(t)' /\ Filling(t)'
    BY <2>1 DEF At
  <2> QED
    BY <1>5, <1>6, <2>2, <2>3 DEF UserKeysInv, Chain
<1>15. CASE UNCHANGED vars
  BY <1>5, <1>6, <1>9, <1>15 DEF vars, dbVars, storeVars, UserKeysInv, Chain
<1> HIDE DEF Link, Upserts, Filling
<1>16. Link' /\ (\A t \in Tasks : Upserts(t)' /\ Filling(t)') => UserKeysInv'
  BY <1>5, <1>6 DEF UserKeysInv, Chain, Link, Upserts, Filling
<1> QED
  BY <1>0, <1>10, <1>11, <1>12, <1>13, <1>14, <1>15, <1>16, CallKinds


----
(* The theorems.                                                           *)

\* The first start begins with a build that is yet to run and idle tasks.
LEMMA InvAtStart ==
    ASSUME Init
    PROVE  IInv
<1>1. DbInit
  BY DEF Init
<1>2. /\ table \in Daos /\ schema \in {"none", "base", "full"} /\ rows = {} /\ ids = <<>>
      /\ step = [t \in Tasks |-> "none"] /\ item = [t \in Tasks |-> Blank]
      /\ outcome = [t \in Tasks |-> "none"] /\ disturbed = {} /\ excused = FALSE
      /\ failed = FALSE /\ faults = 0 /\ plan = BuildDatabase(1)
  BY <1>1 DEF DbInit
<1>3. /\ past = {KeysOf(server)} /\ mnemonics = {} /\ gone = {}
      /\ frame = [t \in Tasks |-> Idle] /\ answer = [t \in Tasks |-> "none"]
      /\ partial = FALSE /\ stale = {} /\ calls = 0 /\ changes = 0
  BY DEF Init
<1>4. server \subseteq Things
  <2>1. [key |-> Blank.key, group |-> 0] \in Things
    BY StoreAssumption, Blanks DEF Things
  <2> QED
    BY <2>1 DEF Init
<1>5. \A t \in Tasks : frame[t].phase = "idle" /\ frame[t].reply = {} /\ frame[t].left = {}
  BY <1>3 DEF Idle
<1>6. TypeOK
  <2>1. past \subseteq SUBSET Keys
    BY <1>3, <1>4 DEF KeysOf, Things
  <2>2. frame \in [Tasks -> CallRecords] /\ answer \in [Tasks -> Answers]
    BY <1>3, IdleTyped DEF Answers
  <2>3. step \in [Tasks -> Steps] /\ item \in [Tasks -> Rows] /\ outcome \in [Tasks -> Outcomes]
    BY <1>2, Blanks DEF Steps, Outcomes
  <2>4. rows \subseteq Rows /\ disturbed \subseteq Tasks /\ \A i \in DOMAIN ids : ids[i] \in Keys
    BY <1>2
  <2>5. excused \in BOOLEAN /\ failed \in BOOLEAN /\ partial \in BOOLEAN /\ stale \subseteq Tasks
    BY <1>2, <1>3
  <2>6. faults \in Nat /\ calls \in Nat /\ changes \in Nat /\ mnemonics \subseteq Keys /\ gone \subseteq Keys
    BY <1>2, <1>3
  <2>7. table \in Daos /\ schema \in {"none", "base", "full"}
    BY <1>2
  <2> QED
    BY <1>4, <2>1, <2>2, <2>3, <2>4, <2>5, <2>6, <2>7 DEF TypeOK, CallRecords
<1>7. IdsInv /\ ItemInv
  BY <1>2, Blanks DEF IdsInv, ItemInv
<1>8. BuildInv
  BY <1>2, <1>3 DEF BuildInv
<1>9. InsertInv /\ DuplicatesNeedRace /\ UpsertTakesEffect
  BY <1>2 DEF InsertInv, DuplicatesNeedRace, UpsertTakesEffect
<1>10. PlanInv
  BY <1>2, BuildPlan DEF PlanInv
<1>11. CallInv /\ FillInv /\ RequestedPathIsFree
  BY <1>2, <1>3, <1>5 DEF CallInv, FillInv, RequestedPathIsFree, At
<1>12. UserKeysInv
  <2>1. KeysOf(rows) = {}
    BY <1>2 DEF KeysOf
  <2>2. Whole({})
    BY <2>1 DEF Whole
  <2> QED
    BY <1>3, <1>5, <2>2 DEF UserKeysInv, At
<1> QED
  BY <1>6, <1>7, <1>8, <1>9, <1>10, <1>11, <1>12 DEF IInv

\* Every step preserves the invariant.
LEMMA InvKept ==
    ASSUME IInv, [Next]_vars
    PROVE  IInv'
  BY IdsStep, TypesKept, InsertStep, BuildStep, PlanStep, CallStep, FillStep, UserKeysStep,
     DuplicatesStep, EffectStep, PathStep DEF IInv

\* The invariant holds in every behaviour: whoever shares the connection and
\* whatever fails, ids are given once, an upsert knows what its lookup found, a
\* build is on its way to the whole schema, no row of an answer is lost on its
\* way to the table.
THEOREM SafetyInductive == Spec => []IInv
<1>1. Init => IInv
  BY InvAtStart
<1>2. IInv /\ [Next]_vars => IInv'
  BY InvKept
<1> QED
  BY <1>1, <1>2, PTL DEF Spec

\* Every variable keeps its type.
THEOREM TypeCorrect == Spec => []TypeOK
<1>1. IInv => TypeOK
  BY DEF IInv
<1> QED
  BY <1>1, SafetyInductive, PTL

\* A start in which no statement fails leaves the whole schema, whatever the
\* processes before it left in the file.
THEOREM StartBuildsSchema == Spec => []CleanStartHasSchema
<1>1. IInv => CleanStartHasSchema
  <2>1. SUFFICES ASSUME IInv, plan = <<>>, ~failed PROVE Complete
    BY DEF CleanStartHasSchema, Up
  <2>2. PlanInv
    BY <2>1 DEF IInv
  <2>3. \A a, b : <<a>> # <<>> /\ <<a, b>> # <<>>
    BY Lists
  <2> QED
    BY <2>1, <2>2, <2>3 DEF PlanInv
<1> QED
  BY <1>1, SafetyInductive, PTL

\* A key gets a second row only by a race of two upserts or a failed query.
THEOREM RowsAreUnique == Spec => []DuplicatesNeedRace
<1>1. IInv => DuplicatesNeedRace
  BY DEF IInv
<1> QED
  BY <1>1, SafetyInductive, PTL

\* An upsert that nobody disturbed reads back what it wrote.
THEOREM UpsertsWork == Spec => []UpsertTakesEffect
<1>1. IInv => UpsertTakesEffect
  BY DEF IInv
<1> QED
  BY <1>1, SafetyInductive, PTL

\* A path that is requested is free, as far as the table could tell.
THEOREM PathsAreFree == Spec => []RequestedPathIsFree
<1>1. IInv => RequestedPathIsFree
  BY DEF IInv
<1> QED
  BY <1>1, SafetyInductive, PTL

\* A mnemonic is kept only for a wallet whose row has been written.
THEOREM MnemonicsFollowRows == Spec => MnemonicsHaveRows
<1>1. IInv /\ [Next]_vars => [mnemonics' \subseteq mnemonics \union KeysOf(rows) \union gone]_vars
  <2>1. SUFFICES ASSUME IInv, [Next]_vars
                 PROVE  mnemonics' \subseteq mnemonics \union KeysOf(rows) \union gone
    OBVIOUS
  <2>2. ASSUME NEW t \in Tasks, At(t, "save"), mnemonics' = KeysOf(frame[t].reply)
        PROVE  mnemonics' \subseteq mnemonics \union KeysOf(rows) \union gone
    <3>1. frame[t].left = {} /\ KeysOf(frame[t].reply) \subseteq
              KeysOf(rows) \union gone \union KeysOf(frame[t].left) \union Pending(t)
      BY <2>1, <2>2 DEF IInv, FillInv, At
    <3>2. step[t] = "none" /\ outcome[t] = "none"
      BY <2>1, <2>2 DEF IInv, CallInv, At
    <3>3. Pending(t) = {} /\ KeysOf({}) = {}
      BY <3>2 DEF Pending, Writing, KeysOf
    <3> QED
      BY <2>2, <3>1, <3>3
  <2> QED
    BY <2>1, <2>2, MnemonicsKinds
<1> QED
  BY <1>1, SafetyInductive, PTL DEF Spec, MnemonicsHaveRows

\* Whoever is told the user's keys from the table is told all of one time.
THEOREM KeysAreWhole == Spec => WholeKeysUnlessPartial
<1> DEFINE Told == \A t \in Tasks :
                /\ Searching(t, "get_user_keys") /\ answer'[t] = "found"
                /\ ~partial /\ \A u \in Tasks : ~At(u, "fill")
                => KeysOf(rows) \in past
<1>1. IInv /\ [Next]_vars => [Told]_vars
  <2>1. SUFFICES ASSUME IInv, [Next]_vars, NEW t \in Tasks,
                        Searching(t, "get_user_keys"), answer'[t] = "found",
                        ~partial, \A u \in Tasks : ~At(u, "fill")
                 PROVE  KeysOf(rows) \in past
    OBVIOUS
  <2>2. TypeOK /\ IdsInv /\ CallInv /\ UserKeysInv
    BY <2>1 DEF IInv
  <2>3. answer[t] = "none" /\ frame[t].op \in Lookups /\ frame[t].op = "get_user_keys"
        /\ frame[t].phase \in {"find", "refind"}
    BY <2>1, <2>2 DEF Searching, CallInv, At
  <2>4. table = ProtonUserKeyDao
    BY <2>3, LookupTables
  <2>5. rows # {}
    <3>1. CASE FindUserKeys(t)
      <4>1. rows = {} => GoTo(t, "load")
        BY <3>1 DEF FindUserKeys
      <4>2. GoTo(t, "load") => answer'[t] = answer[t]
        BY DEF GoTo
      <4> QED
        BY <2>1, <2>3, <4>1, <4>2
    <3>2. ASSUME NEW u \in Tasks, u # t, Alone(u)
          PROVE  FALSE
      BY <2>1, <2>3, <3>2 DEF Alone
    <3>3. CASE \E u \in Tasks : Step(u) /\ ~(DbStep(u) /\ UNCHANGED storeVars)
      <4>1. PICK u \in Tasks : Step(u) /\ ~(DbStep(u) /\ UNCHANGED storeVars)
        BY <3>3
      <4>2. u = t
        BY <2>2, <3>2, <4>1, CallSteps
      <4> QED
        BY <2>3, <3>1, <4>1, <4>2 DEF Step, UpsertEnds, FindWallet, FindMnemonic, FindUserKey,
           Load, Fill, FillFails, FillEnds, Save, Default, ChoosePath, Request, At, Searching
    <3>4. CASE \E u \in Tasks, k \in Keys : Upsert(u, k) \/ \E op \in Ops : Look(u, op, k)
      <4>1. PICK u \in Tasks, k \in Keys : Upsert(u, k) \/ \E op \in Ops : Look(u, op, k)
        BY <3>4
      <4>2. u = t
        BY <2>2, <3>2, <4>1, CallSteps
      <4>3. At(u, "idle")
        BY <4>1 DEF Upsert, Look, Begin
      <4> QED
        BY <2>3, <4>2, <4>3 DEF At
    <3>5. CASE StartAgain
      BY <2>1, <3>5 DEF StartAgain
    <3>6. CASE answer' = answer
      BY <2>1, <2>3, <3>6
    <3>7. World \/ Build \/ UNCHANGED vars \/ UNCHANGED storeVars => answer' = answer
      BY DEF World, ServerAdds, ServerRemoves, DeleteRows, Build, vars, storeVars
    <3> QED
      BY <2>1, <3>3, <3>4, <3>5, <3>6, <3>7 DEF Next
  <2>6. PICK keys \in past \union {{}} : Whole(keys)
    BY <2>1, <2>2, <2>4 DEF UserKeysInv
  <2>7. KeysOf(rows) = keys
    BY <2>1, <2>6 DEF Whole
  <2>8. KeysOf(rows) # {}
    BY <2>5 DEF KeysOf
  <2> QED
    BY <2>6, <2>7, <2>8
<1> QED
  BY <1>1, SafetyInductive, PTL DEF Spec, WholeKeysUnlessPartial
====
