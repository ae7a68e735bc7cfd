---- MODULE WalletKeysProofs ----
(***************************************************************************)
(* What the runs of WalletKeys check on two tasks and two wallets, proved  *)
(* for any number of tasks, wallets, calls and changes.                    *)
(***************************************************************************)
EXTENDS WalletKeys, TLAPS

\* Every variable stays within its type.
THEOREM TypeCorrect == Spec => []TypeOK
<1> USE ConstantsAssumption
<1>1. Init => TypeOK
  <2> SUFFICES ASSUME Init
               PROVE  TypeOK
    OBVIOUS
  <2>1. want \in [Tasks -> Wallets]
    BY DEF Init
  <2> QED
    BY <2>1 DEF Init, TypeOK, Labels, Ops, Results
<1>2. TypeOK /\ [Next]_vars => TypeOK'
  <2> SUFFICES ASSUME TypeOK, [Next]_vars
               PROVE  TypeOK'
    OBVIOUS
  <2> USE DEF TypeOK, worldVars
  <2>1. ASSUME NEW t \in Tasks, NEW o \in Ops, NEW w \in Wallets, Call(t, o, w)
        PROVE  TypeOK'
    BY <2>1 DEF Call, GoTo, Labels, Ops, Results
  <2>2. ASSUME NEW t \in Tasks, FindFromMemory(t)
        PROVE  TypeOK'
    BY <2>2 DEF FindFromMemory, InMemory, CacheFree, GoTo, Return, Labels, Ops, Results
  <2>3. ASSUME NEW t \in Tasks, ReadStore(t)
        PROVE  TypeOK'
    BY <2>3 DEF ReadStore, GoTo, Return, Labels, Ops, Results
  <2>4. ASSUME NEW t \in Tasks, OverwriteCache(t)
        PROVE  TypeOK'
    BY <2>4 DEF OverwriteCache, CacheFree, GoTo, Relying, Labels, Ops, Results
  <2>5. ASSUME NEW t \in Tasks, AskServer(t)
        PROVE  TypeOK'
    BY <2>5 DEF AskServer, GoTo, Return, Labels, Ops, Results
  <2>6. ASSUME NEW t \in Tasks, MergeCache(t)
        PROVE  TypeOK'
    BY <2>6 DEF MergeCache, CacheFree, Merged, GoTo, Return, Relying, Labels, Ops, Results
  <2>7. ASSUME NEW t \in Tasks, SaveStore(t)
        PROVE  TypeOK'
    BY <2>7 DEF SaveStore, AfterSave, Unlocked, Return, Labels, Ops, Results
  <2>8. ASSUME NEW t \in Tasks, ClearCache(t)
        PROVE  TypeOK'
    BY <2>8 DEF ClearCache, CacheFree, Cleared, GoTo, Return, Relying, Labels, Ops, Results
  <2>9. World => TypeOK'
    BY DEF World, CreateWallet, DeleteWallet, EraseStore, SetCallbacks
  <2>10. CASE UNCHANGED vars
    BY <2>10 DEF vars
  <2> QED
    BY <2>1, <2>2, <2>3, <2>4, <2>5, <2>6, <2>7, <2>8, <2>9, <2>10 DEF Next, Step
<1> QED
  BY <1>1, <1>2, PTL DEF Spec

----
\* A task that has merged the server's answer still finds it in the cache,
\* unless another task has overwritten or cleared the cache.
MergeSurvives ==
    \A t \in Tasks : pc[t] = "memory3" => seen[t] \subseteq cache \/ t \in disturbed

\* A reset that has cleared the cache still finds it empty, unless another
\* task has put something in.
ClearSurvives ==
    \A t \in Tasks :
        pc[t] \in {"server", "merge"} /\ op[t] = "reset" /\ t \notin disturbed => cache = {}

\* Only a get looks into the cache and the store.
LookupsAreGets ==
    \A t \in Tasks :
        pc[t] \in {"memory1", "store", "overwrite", "memory2", "memory3"} => op[t] = "get"

\* The inductive invariant: the three properties are not inductive alone, for
\* they speak of the end of a call and say nothing of the cache on the way.
KeysInv ==
    /\ SaverHoldsCache /\ MergeSurvives /\ ClearSurvives /\ LookupsAreGets
    /\ NotFoundIsJustified /\ ResetIsFresh

\* Every step keeps the invariant: one case per operation, one step per part.
LEMMA KeysInvInductive == TypeOK /\ KeysInv /\ [Next]_vars => KeysInv'
<1> SUFFICES ASSUME TypeOK, KeysInv, [Next]_vars
             PROVE  KeysInv'
  OBVIOUS
<1> USE ConstantsAssumption
<1>0. /\ SaverHoldsCache /\ MergeSurvives /\ ClearSurvives /\ LookupsAreGets
      /\ NotFoundIsJustified /\ ResetIsFresh
  BY DEF KeysInv
<1>1. ASSUME NEW t \in Tasks, NEW o \in Ops, NEW w \in Wallets, Call(t, o, w)
      PROVE  KeysInv'
  <2>1. SaverHoldsCache'
    BY <1>0, <1>1 DEF TypeOK, Call, GoTo, SaverHoldsCache
  <2>2. MergeSurvives'
    BY <1>0, <1>1 DEF TypeOK, Call, GoTo, MergeSurvives, SaverHoldsCache
  <2>3. ClearSurvives'
    BY <1>0, <1>1 DEF TypeOK, Call, GoTo, ClearSurvives
  <2>4. LookupsAreGets'
    BY <1>0, <1>1 DEF TypeOK, Call, GoTo, LookupsAreGets
  <2>5. NotFoundIsJustified'
    BY <1>0, <1>1 DEF TypeOK, Call, GoTo, NotFoundIsJustified
  <2>6. ResetIsFresh'
    BY <1>0, <1>1 DEF TypeOK, Call, GoTo, ResetIsFresh, ClearSurvives, SaverHoldsCache
  <2> QED
    BY <2>1, <2>2, <2>3, <2>4, <2>5, <2>6 DEF KeysInv
<1>2. ASSUME NEW t \in Tasks, FindFromMemory(t)
      PROVE  KeysInv'
  <2>1. SaverHoldsCache'
    BY <1>0, <1>2 DEF TypeOK, FindFromMemory, InMemory, CacheFree, GoTo, Return, SaverHoldsCache
  <2>2. MergeSurvives'
    BY <1>0, <1>2 DEF TypeOK, FindFromMemory, InMemory, CacheFree, GoTo, Return, MergeSurvives, SaverHoldsCache
  <2>3. ClearSurvives'
    BY <1>0, <1>2 DEF TypeOK, FindFromMemory, InMemory, CacheFree, GoTo, Return, ClearSurvives, LookupsAreGets
  <2>4. LookupsAreGets'
    BY <1>0, <1>2 DEF TypeOK, FindFromMemory, InMemory, CacheFree, GoTo, Return, LookupsAreGets
  <2>5. NotFoundIsJustified'
    BY <1>0, <1>2 DEF TypeOK, FindFromMemory, InMemory, CacheFree, GoTo, Return, NotFoundIsJustified, MergeSurvives
  <2>6. ResetIsFresh'
    BY <1>0, <1>2 DEF TypeOK, FindFromMemory, InMemory, CacheFree, GoTo, Return, ResetIsFresh, ClearSurvives, SaverHoldsCache
  <2> QED
    BY <2>1, <2>2, <2>3, <2>4, <2>5, <2>6 DEF KeysInv
<1>3. ASSUME NEW t \in Tasks, ReadStore(t)
      PROVE  KeysInv'
  <2>1. SaverHoldsCache'
    BY <1>0, <1>3 DEF TypeOK, ReadStore, GoTo, Return, SaverHoldsCache
  <2>2. MergeSurvives'
    BY <1>0, <1>3 DEF TypeOK, ReadStore, GoTo, Return, MergeSurvives, SaverHoldsCache
  <2>3. ClearSurvives'
    BY <1>0, <1>3 DEF TypeOK, ReadStore, GoTo, Return, ClearSurvives
  <2>4. LookupsAreGets'
    BY <1>0, <1>3 DEF TypeOK, ReadStore, GoTo, Return, LookupsAreGets
  <2>5. NotFoundIsJustified'
    BY <1>0, <1>3 DEF TypeOK, ReadStore, GoTo, Return, NotFoundIsJustified
  <2>6. ResetIsFresh'
    BY <1>0, <1>3 DEF TypeOK, ReadStore, GoTo, Return, ResetIsFresh, ClearSurvives, SaverHoldsCache
  <2> QED
    BY <2>1, <2>2, <2>3, <2>4, <2>5, <2>6 DEF KeysInv
<1>4. ASSUME NEW t \in Tasks, OverwriteCache(t)
      PROVE  KeysInv'
  <2>1. SaverHoldsCache'
    BY <1>0, <1>4 DEF TypeOK, OverwriteCache, CacheFree, GoTo, Relying, SaverHoldsCache
  <2>2. MergeSurvives'
    BY <1>0, <1>4 DEF TypeOK, OverwriteCache, CacheFree, GoTo, Relying, MergeSurvives, SaverHoldsCache
  <2>3. ClearSurvives'
    BY <1>0, <1>4 DEF TypeOK, OverwriteCache, CacheFree, GoTo, Relying, ClearSurvives
  <2>4. LookupsAreGets'
    BY <1>0, <1>4 DEF TypeOK, OverwriteCache, CacheFree, GoTo, Relying, LookupsAreGets
  <2>5. NotFoundIsJustified'
    BY <1>0, <1>4 DEF TypeOK, OverwriteCache, CacheFree, GoTo, Relying, NotFoundIsJustified
  <2>6. ResetIsFresh'
    BY <1>0, <1>4 DEF TypeOK, OverwriteCache, CacheFree, GoTo, Relying, ResetIsFresh, ClearSurvives, SaverHoldsCache
  <2> QED
    BY <2>1, <2>2, <2>3, <2>4, <2>5, <2>6 DEF KeysInv
<1>5. ASSUME NEW t \in Tasks, AskServer(t)
      PROVE  KeysInv'
  <2>1. SaverHoldsCache'
    BY <1>0, <1>5 DEF TypeOK, AskServer, GoTo, Return, SaverHoldsCache
  <2>2. MergeSurvives'
    BY <1>0, <1>5 DEF TypeOK, AskServer, GoTo, Return, MergeSurvives, SaverHoldsCache
  <2>3. ClearSurvives'
    BY <1>0, <1>5 DEF TypeOK, AskServer, GoTo, Return, ClearSurvives
  <2>4. LookupsAreGets'
    BY <1>0, <1>5 DEF TypeOK, AskServer, GoTo, Return, LookupsAreGets
  <2>5. NotFoundIsJustified'
    BY <1>0, <1>5 DEF TypeOK, AskServer, GoTo, Return, NotFoundIsJustified
  <2>6. ResetIsFresh'
    BY <1>0, <1>5 DEF TypeOK, AskServer, GoTo, Return, ResetIsFresh, ClearSurvives, SaverHoldsCache
  <2> QED
    BY <2>1, <2>2, <2>3, <2>4, <2>5, <2>6 DEF KeysInv
<1>6. ASSUME NEW t \in Tasks, MergeCache(t)
      PROVE  KeysInv'
  <2>1. SaverHoldsCache'
    BY <1>0, <1>6 DEF TypeOK, MergeCache, CacheFree, Merged, GoTo, Return, Relying, SaverHoldsCache
  <2>2. MergeSurvives'
    BY <1>0, <1>6 DEF TypeOK, MergeCache, CacheFree, Merged, GoTo, Return, Relying, MergeSurvives, SaverHoldsCache
  <2>3. ClearSurvives'
    BY <1>0, <1>6 DEF TypeOK, MergeCache, CacheFree, Merged, GoTo, Return, Relying, ClearSurvives
  <2>4. LookupsAreGets'
    BY <1>0, <1>6 DEF TypeOK, MergeCache, CacheFree, Merged, GoTo, Return, Relying, LookupsAreGets
  <2>5. NotFoundIsJustified'
    BY <1>0, <1>6 DEF TypeOK, MergeCache, CacheFree, Merged, GoTo, Return, Relying, NotFoundIsJustified
  <2>6. ResetIsFresh'
    BY <1>0, <1>6 DEF TypeOK, MergeCache, CacheFree, Merged, GoTo, Return, Relying, ResetIsFresh, ClearSurvives, SaverHoldsCache
  <2> QED
    BY <2>1, <2>2, <2>3, <2>4, <2>5, <2>6 DEF KeysInv
<1>7. ASSUME NEW t \in Tasks, SaveStore(t)
      PROVE  KeysInv'
  <2>1. SaverHoldsCache'
    BY <1>0, <1>7 DEF TypeOK, SaveStore, AfterSave, Unlocked, Return, SaverHoldsCache
  <2>2. MergeSurvives'
    BY <1>0, <1>7 DEF TypeOK, SaveStore, AfterSave, Unlocked, Return, MergeSurvives, SaverHoldsCache
  <2>3. ClearSurvives'
    BY <1>0, <1>7 DEF TypeOK, SaveStore, AfterSave, Unlocked, Return, ClearSurvives
  <2>4. LookupsAreGets'
    BY <1>0, <1>7 DEF TypeOK, SaveStore, AfterSave, Unlocked, Return, LookupsAreGets
  <2>5. NotFoundIsJustified'
    BY <1>0, <1>7 DEF TypeOK, SaveStore, AfterSave, Unlocked, Return, NotFoundIsJustified
  <2>6. ResetIsFresh'
    BY <1>0, <1>7 DEF TypeOK, SaveStore, AfterSave, Unlocked, Return, ResetIsFresh, ClearSurvives, SaverHoldsCache
  <2> QED
    BY <2>1, <2>2, <2>3, <2>4, <2>5, <2>6 DEF KeysInv
<1>8. ASSUME NEW t \in Tasks, ClearCache(t)
      PROVE  KeysInv'
  <2>1. SaverHoldsCache'
    BY <1>0, <1>8 DEF TypeOK, ClearCache, CacheFree, Cleared, GoTo, Return, Relying, SaverHoldsCache
  <2>2. MergeSurvives'
    BY <1>0, <1>8 DEF TypeOK, ClearCache, CacheFree, Cleared, GoTo, Return, Relying, MergeSurvives, SaverHoldsCache
  <2>3. ClearSurvives'
    BY <1>0, <1>8 DEF TypeOK, ClearCache, CacheFree, Cleared, GoTo, Return, Relying, ClearSurvives
  <2>4. LookupsAreGets'
    BY <1>0, <1>8 DEF TypeOK, ClearCache, CacheFree, Cleared, GoTo, Return, Relying, LookupsAreGets
  <2>5. NotFoundIsJustified'
    BY <1>0, <1>8 DEF TypeOK, ClearCache, CacheFree, Cleared, GoTo, Return, Relying, NotFoundIsJustified
  <2>6. ResetIsFresh'
    BY <1>0, <1>8 DEF TypeOK, ClearCache, CacheFree, Cleared, GoTo, Return, Relying, ResetIsFresh, ClearSurvives, SaverHoldsCache
  <2> QED
    BY <2>1, <2>2, <2>3, <2>4, <2>5, <2>6 DEF KeysInv
<1>9. CASE World
  <2>1. UNCHANGED <<cache, lock, pc, op, want, seen, result, disturbed>>
    BY <1>9 DEF World, CreateWallet, DeleteWallet, EraseStore, SetCallbacks
  <2> QED
    BY <1>0, <2>1 DEF KeysInv, SaverHoldsCache, MergeSurvives, ClearSurvives, LookupsAreGets, NotFoundIsJustified, ResetIsFresh
<1>10. CASE UNCHANGED vars
  BY <1>0, <1>10 DEF vars, KeysInv, SaverHoldsCache, MergeSurvives, ClearSurvives, LookupsAreGets, NotFoundIsJustified, ResetIsFresh
<1> QED
  BY <1>1, <1>2, <1>3, <1>4, <1>5, <1>6, <1>7, <1>8, <1>9, <1>10 DEF Next, Step

\* It holds in every reachable state.
LEMMA KeysInvAlways == Spec => []KeysInv
<1>1. Init => KeysInv
  BY DEF Init, KeysInv, SaverHoldsCache, MergeSurvives, ClearSurvives, LookupsAreGets, NotFoundIsJustified, ResetIsFresh
<1> QED
  BY <1>1, KeysInvInductive, TypeCorrect, PTL DEF Spec

\* No two tasks are ever saving at once, and what is being saved is in memory.
THEOREM SaverHoldsCacheAlways == Spec => []SaverHoldsCache
<1>1. KeysInv => SaverHoldsCache
  BY DEF KeysInv
<1> QED
  BY <1>1, KeysInvAlways, PTL

\* A missing key is reported only for a reason: the server did not have it, or
\* another task undid the merge.
THEOREM NotFoundAlwaysJustified == Spec => []NotFoundIsJustified
<1>1. KeysInv => NotFoundIsJustified
  BY DEF KeysInv
<1> QED
  BY <1>1, KeysInvAlways, PTL

\* A reset that nobody disturbs leaves what the server answered, no more.
THEOREM ResetAlwaysFresh == Spec => []ResetIsFresh
<1>1. KeysInv => ResetIsFresh
  BY DEF KeysInv
<1> QED
  BY <1>1, KeysInvAlways, PTL

----
(* The refinement: what a step does to the four copies of the keys, to the *)
(* callers that wait and to the answers, in the words of KeyService.       *)

Held == server \union store \union cache \union UNION {seen[t] : t \in Tasks}
Waiting == {t \in Tasks : pc[t] # "idle"}
Said == [t \in Tasks |-> IF result[t] = "found" THEN "key" ELSE "other"]

\* A step inside a call answers nobody, and no key comes back.
SilentStep ==
    Held' \subseteq Held /\ Waiting' = Waiting /\ want' = want /\ Said' = Said

\* A step that ends the call of t answers t alone.
AnswerStep(t) ==
    /\ Held' \subseteq Held /\ want' = want
    /\ t \in Waiting /\ Waiting' = Waiting \ {t}
    /\ \/ want[t] \in Held /\ Said' = [Said EXCEPT ![t] = "key"]
       \/ Said' = [Said EXCEPT ![t] = "other"]

\* Moving on within a call is silent, whatever becomes of the keys.
LEMMA GoToIsSilent ==
    ASSUME TypeOK, NEW t \in Tasks, NEW label, pc[t] # "idle", label # "idle",
           GoTo(t, label), want' = want, Held' \subseteq Held
    PROVE  SilentStep
BY DEF TypeOK, GoTo, SilentStep, Waiting, Said

\* Returning answers; "found" is only said of a key that is held.
LEMMA ReturnAnswers ==
    ASSUME TypeOK, NEW t \in Tasks, NEW outcome, pc[t] # "idle",
           Return(t, outcome), want' = want, Held' \subseteq Held,
           outcome = "found" => want[t] \in Held
    PROVE  AnswerStep(t)
<1>1. t \in Waiting /\ Waiting' = Waiting \ {t}
  BY DEF TypeOK, Return, Waiting
<1>2. Said' = [Said EXCEPT ![t] = IF outcome = "found" THEN "key" ELSE "other"]
  BY DEF TypeOK, Return, Said
<1> QED
  BY <1>1, <1>2 DEF AnswerStep

\* Every step of a task is silent or answers it.
LEMMA StepsAreSilentOrAnswer ==
    ASSUME TypeOK, NEW t \in Tasks, Step(t)
    PROVE  SilentStep \/ AnswerStep(t)
<1>1. CASE FindFromMemory(t)
  <2>1. Held' = Held /\ want' = want /\ pc[t] # "idle"
    BY <1>1 DEF FindFromMemory, worldVars, Held
  <2>2. CASE InMemory(t)
    BY <1>1, <2>1, <2>2, ReturnAnswers DEF FindFromMemory, InMemory, Held
  <2>3. CASE ~InMemory(t)
    BY <1>1, <2>1, <2>3, ReturnAnswers, GoToIsSilent DEF FindFromMemory
  <2> QED
    BY <2>2, <2>3
<1>2. CASE ReadStore(t)
  <2>1. Held' \subseteq Held /\ want' = want /\ pc[t] # "idle"
    BY <1>2 DEF ReadStore, worldVars, Held, TypeOK
  <2> QED
    BY <1>2, <2>1, ReturnAnswers, GoToIsSilent DEF ReadStore
<1>3. CASE OverwriteCache(t)
  <2>1. Held' \subseteq Held /\ want' = want /\ pc[t] # "idle"
    BY <1>3 DEF OverwriteCache, worldVars, Held, TypeOK
  <2> QED
    BY <1>3, <2>1, GoToIsSilent DEF OverwriteCache
<1>4. CASE AskServer(t)
  <2>1. Held' \subseteq Held /\ want' = want /\ pc[t] # "idle"
    BY <1>4 DEF AskServer, worldVars, Held, TypeOK
  <2> QED
    BY <1>4, <2>1, ReturnAnswers, GoToIsSilent DEF AskServer
<1>5. CASE MergeCache(t)
  <2>1. Held' \subseteq Held /\ want' = want /\ pc[t] # "idle"
    BY <1>5 DEF MergeCache, Merged, worldVars, Held, TypeOK
  <2> QED
    BY <1>5, <2>1, ReturnAnswers, GoToIsSilent DEF MergeCache
<1>6. CASE SaveStore(t)
  <2>1. Held' \subseteq Held /\ want' = want /\ pc[t] # "idle"
    BY <1>6 DEF SaveStore, worldVars, Held, TypeOK
  <2>2. CASE callbacks /\ op[t] = "get"
    <3>1. GoTo(t, "memory3")
      BY <1>6, <2>2 DEF SaveStore, AfterSave, GoTo, TypeOK
    <3> QED
      BY <2>1, <3>1, GoToIsSilent
  <2>3. CASE callbacks /\ op[t] # "get"
    <3>1. Return(t, "done")
      BY <1>6, <2>3 DEF SaveStore, AfterSave, Return
    <3> QED
      BY <2>1, <3>1, ReturnAnswers
  <2>4. CASE ~callbacks
    BY <1>6, <2>1, <2>4, ReturnAnswers DEF SaveStore
  <2> QED
    BY <2>2, <2>3, <2>4
<1>7. CASE ClearCache(t)
  <2>1. Held' \subseteq Held /\ want' = want /\ pc[t] # "idle"
    BY <1>7 DEF ClearCache, Cleared, worldVars, Held, TypeOK
  <2> QED
    BY <1>7, <2>1, ReturnAnswers, GoToIsSilent DEF ClearCache
<1> QED
  BY <1>1, <1>2, <1>3, <1>4, <1>5, <1>6, <1>7 DEF Step

\* The provider with its cache, its store, its lock and every interleaving of
\* its steps implements the abstract key service: no order of reading, merging,
\* overwriting and clearing makes up a key or hands out a forgotten one.
THEOREM ImplementsKeyService == Spec => KeyServiceSpec
<1> USE ConstantsAssumption
<1>1. Init => KS!Init
  BY DEF Init, KS!Init
<1>2. TypeOK /\ [Next]_vars => [KS!Next]_(KS!vars)
  <2> SUFFICES ASSUME TypeOK, [Next]_vars
               PROVE  [KS!Next]_(KS!vars)
    OBVIOUS
  <2>1. SilentStep => KS!Forget
    BY DEF SilentStep, Held, Waiting, Said, KS!Forget, KS!Forgetful
  <2>2. ASSUME NEW t \in Tasks, AnswerStep(t)
        PROVE  KS!Answer(t)
    BY <2>2 DEF AnswerStep, Held, Waiting, Said, KS!Answer, KS!Forgetful
  <2>3. ASSUME NEW t \in Tasks, NEW o \in Ops, NEW w \in Wallets, Call(t, o, w)
        PROVE  KS!Ask(t, w)
    <3>1. Held' \subseteq Held
      BY <2>3 DEF Call, GoTo, worldVars, Held, TypeOK
    <3>2. t \notin Waiting /\ Waiting' = Waiting \union {t}
      BY <2>3 DEF Call, GoTo, Waiting, TypeOK
    <3>3. want' = [want EXCEPT ![t] = w] /\ Said' = Said
      BY <2>3 DEF Call, GoTo, Said
    <3> QED
      BY <3>1, <3>2, <3>3 DEF Held, Waiting, Said, KS!Ask, KS!Forgetful
  <2>4. ASSUME NEW t \in Tasks, Step(t)
        PROVE  KS!Next
    BY <2>1, <2>2, <2>4, StepsAreSilentOrAnswer DEF KS!Next
  <2>5. ASSUME NEW w \in Wallets, CreateWallet(w)
        PROVE  KS!Create(w)
    BY <2>5 DEF CreateWallet, KS!Create
  <2>6. ASSUME NEW w \in Wallets, DeleteWallet(w)
        PROVE  SilentStep
    BY <2>6 DEF DeleteWallet, SilentStep, Held, Waiting, Said
  <2>7. EraseStore \/ (\E set \in BOOLEAN : SetCallbacks(set)) => SilentStep
    BY DEF EraseStore, SetCallbacks, SilentStep, Held, Waiting, Said
  <2>8. CASE UNCHANGED vars
    BY <2>8 DEF vars, KS!vars
  <2> QED
    BY <2>1, <2>3, <2>4, <2>5, <2>6, <2>7, <2>8 DEF Next, World, KS!Next
<1> QED
  BY <1>1, <1>2, TypeCorrect, PTL DEF Spec, KeyServiceSpec, KS!Spec
====
