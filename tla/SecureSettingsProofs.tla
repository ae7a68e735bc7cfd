---- MODULE SecureSettingsProofs ----
(***************************************************************************)
(* The safety of SecureSettings, proved for every number of jobs that run  *)
(* at the same time, of pages and of failures.                             *)
(***************************************************************************)
EXTENDS SecureSettings, FiniteSetTheorems, SequenceTheorems, TLAPS

Enabling == {"enable_start", "enable_auth"}

\* What is left of an enabling job once it has opened the scope, and of one
\* that sets the phrase anew.
EnableRest == {<<"relock", "set", "lock">>, <<"set", "lock">>, <<"lock">>}
ReactivateRest == {<<"relock", "reactivate">>, <<"reactivate">>}

\* How far job j can be when these steps are left.
Stage(j, left) ==
    \/ j = "none" /\ left = <<>>
    \/ j \in Enabling \union {"load"} /\ left = <<"status">>
    \/ j \in {"enable_start", "disable_start"} /\ left = <<"twofa">>
    \/ j = "enable_start" /\ left = <<"scope_twofa">>
    \/ j \in Enabling /\ left \in ReactivateRest
    \/ j = "enable_auth" /\ left \in EnableRest \union
           {<<"unlock", "relock", "set", "lock">>, <<"unlock", "relock", "reactivate">>}
    \/ j = "disable_auth" /\ left = <<"disable">>
    \/ j = "setup_2fa" /\ left \in {<<"unlock", "enable_2fa">>, <<"enable_2fa">>}
    \/ j = "disable_2fa" /\ left = <<"disable_2fa">>
    \/ j = "view_seed" /\ left \in {<<"unlock", "pgp">>, <<"pgp">>}
    \/ j = "delete_wallet" /\ left \in {<<"unlock", "delete">>, <<"delete">>}
    \/ j = "crypto" /\ left = <<"pgp">>

StageInv ==
    /\ todo = [t \in Tasks |-> todo[t]]
    /\ \A t \in Tasks : Stage(job[t], todo[t])

\* Every enabling job has a phrase of its own.  If the page it ran for is
\* closed nobody may ever see it, and the server only has it before the lock.
OwnWords(t) ==
    /\ words[t] # NoWords <=> job[t] \in Enabling
    /\ words[t] # NoWords =>
        /\ t \in attached \/ words[t] \in lost
        /\ server.words = words[t] => todo[t] = <<"lock">>
        /\ \A u \in Tasks : words[u] = words[t] => u = t

WordsInv == \A t \in Tasks : OwnWords(t)

\* The page runs one job at a time, under its spinner; the sheet that asks for
\* the password and the one that shows the words come when it has ended.
PageInv ==
    /\ \A t, u \in attached : t = u
    /\ \A t \in attached : job[t] \in Recovery
    /\ attached # {} => open /\ ui.loading /\ ~ui.sheet /\ ui.words = NoWords
    /\ ui.sheet => open /\ ui.loading /\ ui.words = NoWords /\ ui.auth \in {"enable", "disable"}
    /\ ui.words # NoWords => open /\ ~ui.loading

\* The page enables only what its switch says is not enabled.
SwitchInv ==
    /\ ui.sheet /\ ui.auth = "enable" => ~ui.enabled
    /\ \A t \in attached : job[t] \in Enabling => ~ui.enabled

\* A job that is about to lock the scope has set the phrase, and the page does
\* not know yet.
SetInv ==
    \A t \in Tasks : todo[t] = <<"lock">> =>
        /\ t \in attached => writer # Nobody
        /\ writer = t => server.words = words[t] /\ server.status = "set"

\* The switch is only wrong before a load has set it.
FlagInv ==
    open /\ writer = Nobody =>
        \/ ui.enabled <=> server.status = "set"
        \/ ui.loading /\ ~ui.sheet /\ \A t \in attached : job[t] = "load"

\* The phrase the server has was shown, is about to be, or is known as lost.
SeenInv == PhraseReachesUser /\ NoWords \in seen

\* A scope that an enabling job has opened is closed by a job that still runs.
ScopeInv ==
    server.scope /\ opener = "enable" =>
        faults > 0 \/ \E t \in Tasks : todo[t] \in EnableRest

IInv ==
    /\ TypeOK /\ StageInv /\ WordsInv /\ PageInv /\ SwitchInv /\ SetInv /\ FlagInv
    /\ SeenInv /\ ShownPhraseIsServers /\ SpinnerHasReason /\ ScopeInv
    /\ GoCallsOverlapOnlyUnlocked

----
\* The requests of two programs one after the other.
LEMMA OneAndOne ==
    ASSUME NEW a, NEW b
    PROVE  <<a>> \o <<b>> = <<a, b>>
<1> DEFINE S == {a, b}
<1>1. <<a>> \in Seq(S)
  OBVIOUS
<1>2. <<b>> \in Seq(S)
  OBVIOUS
<1>3. <<a, b>> \in Seq(S)
  OBVIOUS
<1>4. Len(<<a>>) = 1 /\ Len(<<b>>) = 1 /\ Len(<<a, b>>) = 2
  OBVIOUS
<1>5. /\ <<a>> \o <<b>> \in Seq(S) /\ Len(<<a>> \o <<b>>) = 2
      /\ \A i \in 1..2 : (<<a>> \o <<b>>)[i] = IF i <= 1 THEN <<a>>[i] ELSE <<b>>[i - 1]
  BY <1>1, <1>2, <1>4, ConcatProperties
<1>6. (<<a>> \o <<b>>)[1] = a /\ (<<a>> \o <<b>>)[2] = b
  BY <1>5
<1>7. \A i \in 1..2 : i = 1 \/ i = 2
  OBVIOUS
<1>8. \A i \in 1..Len(<<a>> \o <<b>>) : (<<a>> \o <<b>>)[i] = <<a, b>>[i]
  BY <1>5, <1>6, <1>7
<1> QED
  BY <1>3, <1>4, <1>5, <1>8, SeqEqual

\* The same for one request before two.
LEMMA OneAndTwo ==
    ASSUME NEW a, NEW b, NEW c
    PROVE  <<a>> \o <<b, c>> = <<a, b, c>>
<1> DEFINE S == {a, b, c}
<1>1. <<a>> \in Seq(S)
  OBVIOUS
<1>2. <<b, c>> \in Seq(S)
  OBVIOUS
<1>3. <<a, b, c>> \in Seq(S)
  OBVIOUS
<1>4. Len(<<a>>) = 1 /\ Len(<<b, c>>) = 2 /\ Len(<<a, b, c>>) = 3
  OBVIOUS
<1>5. /\ <<a>> \o <<b, c>> \in Seq(S) /\ Len(<<a>> \o <<b, c>>) = 3
      /\ \A i \in 1..3 : (<<a>> \o <<b, c>>)[i] = IF i <= 1 THEN <<a>>[i] ELSE <<b, c>>[i - 1]
  BY <1>1, <1>2, <1>4, ConcatProperties
<1>6. (<<a>> \o <<b, c>>)[1] = a /\ (<<a>> \o <<b, c>>)[2] = b /\ (<<a>> \o <<b, c>>)[3] = c
  BY <1>5
<1>7. \A i \in 1..3 : i = 1 \/ i = 2 \/ i = 3
  OBVIOUS
<1>8. \A i \in 1..Len(<<a>> \o <<b, c>>) : (<<a>> \o <<b, c>>)[i] = <<a, b, c>>[i]
  BY <1>5, <1>6, <1>7
<1> QED
  BY <1>3, <1>4, <1>5, <1>8, SeqEqual

\* The same for two before two.
LEMMA TwoAndTwo ==
    ASSUME NEW a, NEW b, NEW c, NEW d
    PROVE  <<a, b>> \o <<c, d>> = <<a, b, c, d>>
<1> DEFINE S == {a, b, c, d}
<1>1. <<a, b>> \in Seq(S)
  OBVIOUS
<1>2. <<c, d>> \in Seq(S)
  OBVIOUS
<1>3. <<a, b, c, d>> \in Seq(S)
  OBVIOUS
<1>4. Len(<<a, b>>) = 2 /\ Len(<<c, d>>) = 2 /\ Len(<<a, b, c, d>>) = 4
  OBVIOUS
<1>5. /\ <<a, b>> \o <<c, d>> \in Seq(S) /\ Len(<<a, b>> \o <<c, d>>) = 4
      /\ \A i \in 1..4 : (<<a, b>> \o <<c, d>>)[i] =
                             IF i <= 2 THEN <<a, b>>[i] ELSE <<c, d>>[i - 2]
  BY <1>1, <1>2, <1>4, ConcatProperties
<1>6. /\ (<<a, b>> \o <<c, d>>)[1] = a /\ (<<a, b>> \o <<c, d>>)[2] = b
      /\ (<<a, b>> \o <<c, d>>)[3] = c /\ (<<a, b>> \o <<c, d>>)[4] = d
  BY <1>5
<1>7. \A i \in 1..4 : i = 1 \/ i = 2 \/ i = 3 \/ i = 4
  OBVIOUS
<1>8. \A i \in 1..Len(<<a, b>> \o <<c, d>>) : (<<a, b>> \o <<c, d>>)[i] = <<a, b, c, d>>[i]
  BY <1>5, <1>6, <1>7
<1> QED
  BY <1>3, <1>4, <1>5, <1>8, SeqEqual

\* The programs, request by request.
LEMMA Programs ==
    /\ Enable = <<"unlock", "relock", "set", "lock">>
    /\ Reactivate = <<"relock", "reactivate">>
    /\ Unlock \o Reactivate = <<"unlock", "relock", "reactivate">>
    /\ EnableTwofa = <<"unlock", "enable_2fa">>
    /\ ViewSeed = <<"unlock", "pgp">>
    /\ DeleteWallet = <<"unlock", "delete">>
<1>1. Unlock \o Relock = <<"unlock", "relock">>
  BY OneAndOne DEF Unlock, Relock
<1>2. Enable = <<"unlock", "relock", "set", "lock">>
  BY <1>1, TwoAndTwo DEF Enable
<1>3. Reactivate = <<"relock", "reactivate">>
  BY OneAndOne DEF Reactivate, Relock
<1>4. Unlock \o Reactivate = <<"unlock", "relock", "reactivate">>
  BY <1>3, OneAndTwo DEF Unlock
<1>5. EnableTwofa = <<"unlock", "enable_2fa">> /\ ViewSeed = <<"unlock", "pgp">>
      /\ DeleteWallet = <<"unlock", "delete">>
  BY OneAndOne DEF EnableTwofa, ViewSeed, DeleteWallet, Unlock
<1> QED
  BY <1>2, <1>3, <1>4, <1>5

\* Every job begins with its program, and goes on as the status tells it.
LEMMA ProgramFacts ==
    /\ \A j \in Enabling \union {"load"} : Program(j) = <<"status">>
    /\ Program("disable_start") = <<"twofa">> /\ Program("disable_auth") = <<"disable">>
    /\ Program("setup_2fa") = <<"unlock", "enable_2fa">>
    /\ Program("disable_2fa") = <<"disable_2fa">>
    /\ Program("view_seed") = <<"unlock", "pgp">>
    /\ Program("delete_wallet") = <<"unlock", "delete">> /\ Program("crypto") = <<"pgp">>
<1>1. \A j \in Enabling \union {"load"} : Program(j) = <<"status">>
  BY DEF Program, Enabling
<1>2. Program("disable_start") = <<"twofa">>
  BY DEF Program
<1>3. Program("disable_auth") = <<"disable">>
  BY DEF Program, Disable
<1>4. Program("setup_2fa") = <<"unlock", "enable_2fa">>
  BY Programs DEF Program
<1>5. Program("disable_2fa") = <<"disable_2fa">>
  BY DEF Program, DisableTwofa
<1>6. Program("view_seed") = <<"unlock", "pgp">>
  BY Programs DEF Program
<1>7. Program("delete_wallet") = <<"unlock", "delete">>
  BY Programs DEF Program
<1>8. Program("crypto") = <<"pgp">>
  BY DEF Program, UseKeys
<1> QED
  BY <1>1, <1>2, <1>3, <1>4, <1>5, <1>6, <1>7, <1>8

\* What a job that has asked for the status goes on with.
LEMMA StatusFacts ==
    ASSUME NEW j \in Enabling \union {"load"}, NEW status \in Statuses,
           AfterStatus(j, status) # <<>>
    PROVE  \/ j = "enable_start" /\ AfterStatus(j, status) \in {<<"twofa">>, <<"relock", "reactivate">>}
           \/ j = "enable_auth" /\ AfterStatus(j, status) \in
                  {<<"unlock", "relock", "set", "lock">>, <<"unlock", "relock", "reactivate">>}
<1>1. CASE j = "enable_start" /\ status = "unset"
  BY <1>1 DEF AfterStatus
<1>2. CASE j = "enable_start" /\ status = "outdated"
  BY <1>2, Programs DEF AfterStatus
<1>3. CASE j = "enable_auth" /\ status = "unset"
  BY <1>3, Programs DEF AfterStatus
<1>4. CASE j = "enable_auth" /\ status = "outdated"
  BY <1>4, Programs DEF AfterStatus
<1>5. CASE j = "load" \/ status = "set"
  BY <1>5 DEF AfterStatus
<1> QED
  BY <1>1, <1>2, <1>3, <1>4, <1>5 DEF Enabling, Statuses

\* Asking for the status is never followed by the lock alone.
LEMMA StatusNeverLocks ==
    ASSUME NEW j \in Enabling \union {"load"}, NEW status \in Statuses,
           AfterStatus(j, status) # <<>>
    PROVE  AfterStatus(j, status) # <<"lock">>
<1>1. \/ AfterStatus(j, status) = <<"twofa">>
      \/ AfterStatus(j, status) = <<"relock", "reactivate">>
      \/ AfterStatus(j, status) = <<"unlock", "relock", "set", "lock">>
      \/ AfterStatus(j, status) = <<"unlock", "relock", "reactivate">>
  BY StatusFacts
<1>2. Head(AfterStatus(j, status)) # "lock"
  BY <1>1
<1> QED
  BY <1>2

\* When the status is anything but set, an enabling job goes on.
LEMMA StatusGoesOn ==
    ASSUME NEW j \in Enabling, NEW status \in Statuses, AfterStatus(j, status) = <<>>
    PROVE  status = "set"
<1>1. CASE j = "enable_start" /\ status = "unset"
  BY <1>1 DEF AfterStatus
<1>2. CASE j = "enable_start" /\ status = "outdated"
  <2>1. AfterStatus(j, status) = <<"relock", "reactivate">>
    BY <1>2, Programs DEF AfterStatus
  <2> QED
    BY <2>1
<1>3. CASE j = "enable_auth" /\ status = "unset"
  <2>1. AfterStatus(j, status) = <<"unlock", "relock", "set", "lock">>
    BY <1>3, Programs DEF AfterStatus
  <2> QED
    BY <2>1
<1>4. CASE j = "enable_auth" /\ status = "outdated"
  <2>1. AfterStatus(j, status) = <<"unlock", "relock", "reactivate">>
    BY <1>4, Programs DEF AfterStatus
  <2> QED
    BY <2>1
<1> QED
  BY <1>1, <1>2, <1>3, <1>4 DEF Enabling, Statuses

\* One more element makes a set larger by one at most.
LEMMA OneMore ==
    ASSUME NEW S, IsFiniteSet(S), NEW x
    PROVE  /\ IsFiniteSet(S \union {x}) /\ Cardinality(S) \in Nat
           /\ Cardinality(S \union {x}) \in Nat
           /\ Cardinality(S \union {x}) <= Cardinality(S) + 1
<1>1. Cardinality(S) \in Nat
  BY FS_CardinalityType
<1>2. IsFiniteSet(S \union {x})
  BY FS_AddElement
<1>3. Cardinality(S \union {x}) = IF x \in S THEN Cardinality(S) ELSE Cardinality(S) + 1
  BY FS_AddElement
<1> QED
  BY <1>1, <1>2, <1>3

\* There is always a phrase that is not in use.
LEMMA Fresh ==
    ASSUME words \in [Tasks -> Phrases], NEW t \in Tasks, words[t] = NoWords
    PROVE  NewWords \in Phrases /\ NewWords \notin InUse
<1> DEFINE N == Cardinality(Tasks)
           others == Tasks \ {t}
           f == [u \in others |-> words[u]]
           R == {words[u] : u \in others}
           S == ((R \union {NoWords}) \union {ui.words}) \union {server.words}
<1>1. IsFiniteSet(others) /\ Cardinality(others) = N - 1 /\ N \in Nat
  BY SettingsAssumption, FS_RemoveElement, FS_CardinalityType
<1>2. f \in Surjection(others, R)
  BY DEF Surjection
<1> HIDE DEF f, others
<1>3. IsFiniteSet(R) /\ Cardinality(R) <= N - 1
  BY <1>1, <1>2, FS_Surjection
<1> HIDE DEF R, N
<1>4. IsFiniteSet(S) /\ Cardinality(S) \in Nat /\ Cardinality(S) <= N + 2
  <2> DEFINE A == R \union {NoWords}
             B == A \union {ui.words}
  <2>1. IsFiniteSet(A) /\ Cardinality(R) \in Nat /\ Cardinality(A) <= Cardinality(R) + 1
    BY <1>3, OneMore
  <2>2. IsFiniteSet(B) /\ Cardinality(A) \in Nat /\ Cardinality(B) <= Cardinality(A) + 1
    BY <2>1, OneMore
  <2>3. /\ IsFiniteSet(S) /\ Cardinality(B) \in Nat /\ Cardinality(S) \in Nat
        /\ Cardinality(S) <= Cardinality(B) + 1
    BY <2>2, OneMore
  <2> HIDE DEF A, B, S
  <2> QED
    BY <1>1, <1>3, <2>1, <2>2, <2>3
<1>5. Cardinality(Phrases) = N + 3
  BY <1>1, FS_Interval DEF Phrases, N
<1>6. InUse \subseteq S
  BY DEF InUse, R, others
<1>7. ~(Phrases \subseteq S)
  <2>1. SUFFICES ASSUME Phrases \in SUBSET S
                 PROVE  FALSE
    OBVIOUS
  <2>2. Cardinality(Phrases) <= Cardinality(S)
    BY <1>4, <2>1, FS_Subset
  <2> QED
    BY <1>1, <1>4, <1>5, <2>2
<1>8. \E p \in Phrases : p \notin InUse
  BY <1>6, <1>7
<1> QED
  BY <1>8 DEF NewWords

----
\* Where a job is when its next step is the one named.
LEMMA StepFacts ==
    ASSUME NEW t \in Tasks, Stage(job[t], todo[t])
    PROVE  /\ StepOf(t) \in Requests \union {"none", "status", "relock", "pgp"}
           /\ StepOf(t) = "none" <=> job[t] = "none"
           /\ StepOf(t) = "none" <=> todo[t] = <<>>
           /\ StepOf(t) = "status" =>
                todo[t] = <<"status">> /\ job[t] \in Enabling \union {"load"}
           /\ StepOf(t) = "twofa" =>
                todo[t] = <<"twofa">> /\ job[t] \in {"enable_start", "disable_start"}
           /\ StepOf(t) = "scope_twofa" =>
                todo[t] = <<"scope_twofa">> /\ job[t] = "enable_start"
           /\ StepOf(t) = "unlock" =>
                \/ job[t] = "enable_auth" /\ todo[t] \in {<<"unlock", "relock", "set", "lock">>,
                                                         <<"unlock", "relock", "reactivate">>}
                \/ job[t] = "setup_2fa" /\ todo[t] = <<"unlock", "enable_2fa">>
                \/ job[t] = "view_seed" /\ todo[t] = <<"unlock", "pgp">>
                \/ job[t] = "delete_wallet" /\ todo[t] = <<"unlock", "delete">>
           /\ StepOf(t) = "relock" =>
                \/ job[t] = "enable_auth" /\ todo[t] = <<"relock", "set", "lock">>
                \/ job[t] \in Enabling /\ todo[t] = <<"relock", "reactivate">>
           /\ StepOf(t) = "set" => todo[t] = <<"set", "lock">> /\ job[t] = "enable_auth"
           /\ StepOf(t) = "lock" => todo[t] = <<"lock">> /\ job[t] = "enable_auth"
           /\ StepOf(t) = "reactivate" => todo[t] = <<"reactivate">> /\ job[t] \in Enabling
           /\ StepOf(t) = "disable" => todo[t] = <<"disable">> /\ job[t] = "disable_auth"
           /\ StepOf(t) = "enable_2fa" => todo[t] = <<"enable_2fa">> /\ job[t] = "setup_2fa"
           /\ StepOf(t) = "disable_2fa" => todo[t] = <<"disable_2fa">> /\ job[t] = "disable_2fa"
           /\ StepOf(t) = "delete" => todo[t] = <<"delete">> /\ job[t] = "delete_wallet"
           /\ StepOf(t) = "pgp" => todo[t] = <<"pgp">> /\ job[t] \in {"view_seed", "crypto"}
<1> USE DEF StepOf, Requests
<1>1. CASE job[t] = "none" /\ todo[t] = <<>>
  BY <1>1
<1>2. CASE job[t] \in Enabling \union {"load"} /\ todo[t] = <<"status">>
  BY <1>2 DEF Enabling
<1>3. CASE \/ job[t] \in {"enable_start", "disable_start"} /\ todo[t] = <<"twofa">>
           \/ job[t] = "enable_start" /\ todo[t] = <<"scope_twofa">>
  BY <1>3
<1>4. CASE job[t] \in Enabling /\ todo[t] \in ReactivateRest
  BY <1>4 DEF Enabling, ReactivateRest
<1>5. CASE job[t] = "enable_auth" /\ todo[t] \in EnableRest
  BY <1>5 DEF EnableRest
<1>6. CASE job[t] = "enable_auth" /\ todo[t] \in
           {<<"unlock", "relock", "set", "lock">>, <<"unlock", "relock", "reactivate">>}
  BY <1>6
<1>7. CASE \/ job[t] = "disable_auth" /\ todo[t] = <<"disable">>
           \/ job[t] = "setup_2fa" /\ todo[t] \in {<<"unlock", "enable_2fa">>, <<"enable_2fa">>}
           \/ job[t] = "disable_2fa" /\ todo[t] = <<"disable_2fa">>
  BY <1>7
<1>8. CASE \/ job[t] = "view_seed" /\ todo[t] \in {<<"unlock", "pgp">>, <<"pgp">>}
           \/ job[t] = "delete_wallet" /\ todo[t] \in {<<"unlock", "delete">>, <<"delete">>}
           \/ job[t] = "crypto" /\ todo[t] = <<"pgp">>
  BY <1>8
<1> QED
  BY <1>1, <1>2, <1>3, <1>4, <1>5, <1>6, <1>7, <1>8 DEF Stage

\* How many steps it has left.
LEMMA StepsLeft ==
    ASSUME NEW t \in Tasks, Stage(job[t], todo[t])
    PROVE  /\ StepOf(t) # "lock" => todo[t] # <<"lock">>
           /\ StepOf(t) \in {"unlock", "relock", "set"} => Len(todo[t]) # 1
           /\ StepOf(t) \in {"unlock", "relock"} => Tail(todo[t]) # <<"lock">>
           /\ StepOf(t) = "set" => Tail(todo[t]) = <<"lock">>
           /\ StepOf(t) \notin {"none", "unlock", "relock", "set"} => Len(todo[t]) = 1
<1>1. StepOf(t) # "lock" => todo[t] # <<"lock">>
  <2>1. todo[t] = <<"lock">> => StepOf(t) = "lock"
    BY DEF StepOf
  <2> QED
    BY <2>1
<1>2. StepOf(t) \in {"unlock", "relock"} =>
          \/ todo[t] = <<"unlock", "relock", "set", "lock">>
          \/ todo[t] = <<"unlock", "relock", "reactivate">>
          \/ todo[t] = <<"unlock", "enable_2fa">>
          \/ todo[t] = <<"unlock", "pgp">>
          \/ todo[t] = <<"unlock", "delete">>
          \/ todo[t] = <<"relock", "set", "lock">>
          \/ todo[t] = <<"relock", "reactivate">>
  BY StepFacts
<1>3. StepOf(t) \in {"unlock", "relock"} => Len(todo[t]) # 1 /\ Tail(todo[t]) # <<"lock">>
  <2>1. CASE todo[t] = <<"unlock", "relock", "set", "lock">>
    BY <2>1
  <2>2. CASE todo[t] = <<"unlock", "relock", "reactivate">>
    BY <2>2
  <2>3. CASE todo[t] = <<"unlock", "enable_2fa">>
    BY <2>3
  <2>4. CASE todo[t] = <<"unlock", "pgp">>
    BY <2>4
  <2>5. CASE todo[t] = <<"unlock", "delete">>
    BY <2>5
  <2>6. CASE todo[t] = <<"relock", "set", "lock">>
    BY <2>6
  <2>7. CASE todo[t] = <<"relock", "reactivate">>
    BY <2>7
  <2> QED
    BY <1>2, <2>1, <2>2, <2>3, <2>4, <2>5, <2>6, <2>7
<1>4. StepOf(t) = "set" => Len(todo[t]) # 1 /\ Tail(todo[t]) = <<"lock">>
  <2>1. StepOf(t) = "set" => todo[t] = <<"set", "lock">>
    BY StepFacts
  <2>2. CASE todo[t] = <<"set", "lock">>
    BY <2>2
  <2> QED
    BY <2>1, <2>2
<1>5. StepOf(t) \notin {"none", "unlock", "relock", "set"} => todo[t] = <<StepOf(t)>>
  BY StepFacts DEF Requests
<1>6. Len(<<StepOf(t)>>) = 1
  OBVIOUS
<1> QED
  BY <1>1, <1>2, <1>3, <1>4, <1>5, <1>6

\* The steps of a job, by what they do to it, to the page and to the server.
GoesOn(t) ==
    /\ \E rest : Continue(t, rest) /\ rest # <<"lock">>
    /\ todo[t] # <<"lock">>
    /\ server' \in {server, [server EXCEPT !.scope = TRUE]}
    /\ UNCHANGED <<open, reasons, writer, lost>>

SetsPhrase(t) ==
    /\ todo[t] = <<"set", "lock">> /\ Continue(t, <<"lock">>)
    /\ server' = [server EXCEPT !.status = "set", !.words = words[t]] /\ writer' = t
    /\ UNCHANGED <<open, reasons, lost>>

Locks(t) ==
    /\ todo[t] = <<"lock">> /\ Conclude(t, Enabled(t))
    /\ server' = [server EXCEPT !.scope = FALSE]
    /\ writer' = IF t \in attached /\ writer = t THEN Nobody ELSE writer
    /\ UNCHANGED <<open, reasons, lost>>

Reactivates(t) ==
    /\ todo[t] = <<"reactivate">> /\ Conclude(t, Enabled(t))
    /\ server' = [server EXCEPT !.status = "set", !.words = words[t]]
    /\ writer' = IF t \in attached THEN Nobody ELSE t
    /\ UNCHANGED <<open, reasons, lost>>

Disables(t) ==
    /\ todo[t] = <<"disable">>
    /\ Conclude(t, [ui EXCEPT !.loading = FALSE, !.enabled = FALSE, !.auth = "no"])
    /\ server' = [server EXCEPT !.status = "unset", !.words = NoWords]
    /\ writer' = IF t \in attached THEN Nobody ELSE t
    /\ UNCHANGED <<open, reasons, lost>>

AsksPassword(t) ==
    /\ job[t] \in {"enable_start", "disable_start"} /\ todo[t] # <<"lock">>
    /\ Conclude(t, [ui EXCEPT !.auth = IF job[t] = "disable_start" THEN "disable" ELSE "enable",
                              !.sheet = TRUE])
    /\ UNCHANGED <<server, open, reasons, writer, lost>>

Loads(t) ==
    /\ job[t] = "load" /\ todo[t] # <<"lock">>
    /\ Conclude(t, [ui EXCEPT !.loading = FALSE, !.enabled = server.status = "set"])
    /\ writer' = IF t \in attached THEN Nobody ELSE writer
    /\ UNCHANGED <<server, open, reasons, lost>>

FindsItSet(t) ==
    /\ job[t] \in Enabling /\ todo[t] # <<"lock">> /\ server.status = "set"
    /\ Conclude(t, ui)
    /\ reasons' = IF t \in attached /\ writer # Nobody THEN reasons \union {"surprised"}
                  ELSE reasons
    /\ UNCHANGED <<server, open, writer, lost>>

Finishes(t) ==
    /\ job[t] \in Features /\ todo[t] # <<"lock">> /\ Conclude(t, ui)
    /\ UNCHANGED <<server, open, reasons, writer, lost>>

\* The request was made and its answer may be lost, or it was refused.
AtRisk(t) == IF StepOf(t) \in {"set", "lock", "reactivate"} THEN {words[t]} ELSE {}

FailsAfter(t) ==
    /\ lost' = lost \union AtRisk(t)
    /\ \/ /\ server' \in {server, [server EXCEPT !.scope = TRUE], [server EXCEPT !.scope = FALSE]}
          /\ UNCHANGED writer
       \/ /\ StepOf(t) \in {"set", "reactivate"} /\ writer' = t
          /\ server' = [server EXCEPT !.status = "set", !.words = words[t]]
       \/ /\ StepOf(t) = "disable" /\ writer' = t
          /\ server' = [server EXCEPT !.status = "unset", !.words = NoWords]

Fails(t) ==
    /\ Fail(t) /\ UNCHANGED open
    /\ \/ FailsAfter(t)
       \/ todo[t] # <<"lock">> /\ UNCHANGED <<server, writer, lost>>

OnlyGo == UNCHANGED <<server, pageVars, job, todo, words, writer, lost>>

\* Every step of a job is one of these.
LEMMA StepKinds ==
    ASSUME NEW t \in Tasks, Stage(job[t], todo[t]), server.status \in Statuses, Step(t),
           go \subseteq {u \in Tasks : StepOf(u) \in {"relock", "pgp"}}
    PROVE  \/ GoesOn(t) \/ SetsPhrase(t) \/ Locks(t) \/ Reactivates(t) \/ Disables(t)
           \/ AsksPassword(t) \/ Loads(t) \/ FindsItSet(t) \/ Finishes(t) \/ Fails(t) \/ OnlyGo
<1>1. CASE Status(t)
  <2>1. todo[t] = <<"status">> /\ job[t] \in Enabling \union {"load"}
        /\ UNCHANGED <<server, open, lost>>
    BY <1>1, StepFacts, StepsLeft DEF Status
  <2>2. CASE Fail(t) /\ UNCHANGED writer
    BY <2>1, <2>2 DEF Fails
  <2>3. CASE AfterStatus(job[t], server.status) # <<>>
             /\ Continue(t, AfterStatus(job[t], server.status)) /\ UNCHANGED <<reasons, writer>>
    <3>1. AfterStatus(job[t], server.status) # <<"lock">>
      BY <2>1, <2>3, StatusNeverLocks
    <3> QED
      BY <2>1, <2>3, <3>1 DEF GoesOn
  <2>4. CASE AfterStatus(job[t], server.status) = <<>> /\ job[t] = "load"
             /\ Conclude(t, [ui EXCEPT !.loading = FALSE, !.enabled = server.status = "set"])
             /\ writer' = (IF t \in attached THEN Nobody ELSE writer) /\ UNCHANGED reasons
    BY <2>1, <2>4 DEF Loads
  <2>5. CASE AfterStatus(job[t], server.status) = <<>> /\ job[t] # "load"
             /\ Conclude(t, ui) /\ UNCHANGED writer
             /\ reasons' = (IF t \in attached /\ writer # Nobody
                            THEN reasons \union {"surprised"} ELSE reasons)
    <3>1. job[t] \in Enabling /\ server.status = "set"
      BY <2>1, <2>5, StatusGoesOn
    <3> QED
      BY <2>1, <2>5, <3>1 DEF FindsItSet
  <2> QED
    BY <1>1, <2>2, <2>3, <2>4, <2>5 DEF Status
<1>2. CASE Accepted(t)
  <2>1. UNCHANGED <<open, lost>> /\ StepOf(t) \in Requests /\ server' \in Effect(t) /\ Advance(t)
    BY <1>2 DEF Accepted
  <2>2. writer' = LET wrote == IF Writes(t) THEN t ELSE writer
                  IN  IF t \in attached /\ Tells(t) /\ wrote = t THEN Nobody ELSE wrote
    BY <1>2 DEF Accepted
  <2>3. CASE StepOf(t) = "unlock"
    <3>1. Len(todo[t]) # 1 /\ Tail(todo[t]) # <<"lock">> /\ todo[t] # <<"lock">>
      BY <2>3, StepFacts, StepsLeft
    <3>2. Continue(t, Tail(todo[t])) /\ UNCHANGED reasons
      BY <2>1, <3>1 DEF Advance
    <3>3. server' = [server EXCEPT !.scope = TRUE] /\ writer' = writer
      BY <2>1, <2>2, <2>3 DEF Effect, Writes, Tells
    <3> QED
      BY <2>1, <3>1, <3>2, <3>3 DEF GoesOn
  <2>4. CASE StepOf(t) = "set"
    <3>1. todo[t] = <<"set", "lock">> /\ Len(todo[t]) # 1 /\ Tail(todo[t]) = <<"lock">>
      BY <2>4, StepFacts, StepsLeft
    <3>2. Continue(t, <<"lock">>) /\ UNCHANGED reasons
      BY <2>1, <3>1 DEF Advance
    <3>3. server' = [server EXCEPT !.status = "set", !.words = words[t]] /\ writer' = t
      BY <2>1, <2>2, <2>4 DEF Effect, Writes, Tells
    <3> QED
      BY <2>1, <3>1, <3>2, <3>3 DEF SetsPhrase
  <2>5. CASE StepOf(t) \notin {"unlock", "set"}
    <3>1. Conclude(t, Succeeded(t)) /\ UNCHANGED reasons
      <4>1. Len(todo[t]) = 1
        BY <2>1, <2>5, StepFacts, StepsLeft DEF Requests
      <4> QED
        BY <2>1, <4>1 DEF Advance
    <3>2. CASE StepOf(t) = "lock"
      BY <2>1, <2>2, <3>1, <3>2, StepFacts, StepsLeft DEF Locks, Succeeded, Effect, Writes, Tells
    <3>3. CASE StepOf(t) = "reactivate"
      BY <2>1, <2>2, <3>1, <3>3, StepFacts, StepsLeft DEF Reactivates, Succeeded, Effect, Writes, Tells
    <3>4. CASE StepOf(t) = "disable"
      BY <2>1, <2>2, <3>1, <3>4, StepFacts, StepsLeft DEF Disables, Succeeded, Effect, Writes, Tells
    <3>5. CASE StepOf(t) \in {"twofa", "scope_twofa"}
      <4>1. server' = server /\ writer' = writer
        BY <2>1, <2>2, <3>5 DEF Effect, Writes, Tells
      <4>2. job[t] \in {"enable_start", "disable_start"} /\ todo[t] # <<"lock">>
        BY <3>5, StepFacts, StepsLeft
      <4> QED
        BY <2>1, <3>1, <3>5, <4>1, <4>2 DEF AsksPassword, Succeeded
    <3>6. CASE StepOf(t) \in {"enable_2fa", "disable_2fa", "delete"}
      <4>1. server' = server /\ writer' = writer
        BY <2>1, <2>2, <3>6 DEF Effect, Writes, Tells
      <4>2. job[t] \in Features /\ todo[t] # <<"lock">>
        BY <3>6, StepFacts, StepsLeft DEF Features
      <4>3. Succeeded(t) = ui
        BY <3>6 DEF Succeeded
      <4> QED
        BY <2>1, <3>1, <4>1, <4>2, <4>3 DEF Finishes
    <3> QED
      BY <2>1, <2>5, <3>2, <3>3, <3>4, <3>5, <3>6 DEF Requests
  <2> QED
    BY <2>3, <2>4, <2>5
<1>3. CASE Refused(t)
  <2>1. UNCHANGED <<server, open, writer, lost>>
    BY <1>3 DEF Refused, ghosts
  <2>2. todo[t] # <<"lock">>
    BY <1>3 DEF Refused, NeedsScope, StepOf
  <2>3. CASE Fail(t)
    BY <2>1, <2>2, <2>3 DEF Fails
  <2>4. CASE Continue(t, <<"scope_twofa">>) /\ UNCHANGED reasons
    BY <2>1, <2>2, <2>4 DEF GoesOn
  <2> QED
    BY <1>3, <2>3, <2>4 DEF Refused
<1>4. CASE Lost(t)
  <2>1. Fail(t) /\ UNCHANGED open
    BY <1>4 DEF Lost
  <2>2. lost' = lost \union AtRisk(t)
    BY <1>4 DEF Lost, AtRisk
  <2>3. CASE UNCHANGED <<server, writer>>
    BY <2>1, <2>2, <2>3 DEF Fails, FailsAfter
  <2>4. CASE server' \in Effect(t) /\ writer' = IF Writes(t) THEN t ELSE writer
    <3>1. CASE StepOf(t) \in {"set", "reactivate"}
      BY <2>1, <2>2, <2>4, <3>1 DEF Fails, FailsAfter, Effect, Writes
    <3>2. CASE StepOf(t) = "disable"
      BY <2>1, <2>2, <2>4, <3>2 DEF Fails, FailsAfter, Effect, Writes
    <3>3. CASE StepOf(t) = "unlock"
      BY <2>1, <2>2, <2>4, <3>3 DEF Fails, FailsAfter, Effect, Writes
    <3>4. CASE StepOf(t) = "lock"
      BY <2>1, <2>2, <2>4, <3>4 DEF Fails, FailsAfter, Effect, Writes
    <3>5. CASE StepOf(t) \notin {"set", "reactivate", "disable", "unlock", "lock"}
      <4>1. server' = server /\ writer' = writer
        BY <2>4, <3>5 DEF Effect, Writes
      <4> QED
        BY <2>1, <2>2, <4>1 DEF Fails, FailsAfter
    <3> QED
      BY <3>1, <3>2, <3>3, <3>4, <3>5
  <2> QED
    BY <1>4, <2>3, <2>4 DEF Lost
<1>5. CASE EnterGo(t)
  BY <1>5 DEF EnterGo, OnlyGo, pageVars, ghosts
<1>6. CASE LeaveGo(t)
  <2>1. StepOf(t) \in {"relock", "pgp"} /\ UNCHANGED <<server, open, writer, lost>>
    BY <1>6 DEF LeaveGo, ghosts
  <2>2. CASE Fail(t)
    BY <1>6, <2>1, <2>2, StepFacts, StepsLeft DEF Fails
  <2>3. CASE Advance(t) /\ StepOf(t) = "relock"
    <3>1. Len(todo[t]) # 1 /\ Tail(todo[t]) # <<"lock">> /\ todo[t] # <<"lock">>
      BY <2>3, StepFacts, StepsLeft
    <3> QED
      BY <2>1, <2>3, <3>1 DEF Advance, GoesOn
  <2>4. CASE Advance(t) /\ StepOf(t) = "pgp"
    <3>1. Len(todo[t]) = 1 /\ job[t] \in Features /\ todo[t] # <<"lock">> /\ Succeeded(t) = ui
      BY <2>4, StepFacts, StepsLeft DEF Features, Succeeded
    <3> QED
      BY <2>1, <2>4, <3>1 DEF Advance, Finishes
  <2> QED
    BY <1>6, <2>1, <2>2, <2>3, <2>4 DEF LeaveGo
<1> QED
  BY <1>1, <1>2, <1>3, <1>4, <1>5, <1>6 DEF Step

\* What is left after a step is a stage again.
LEMMA NextStage ==
    ASSUME NEW t \in Tasks, Stage(job[t], todo[t]), StepOf(t) \in {"unlock", "relock", "set"}
    PROVE  Stage(job[t], Tail(todo[t]))
<1>1. CASE job[t] = "enable_auth" /\ todo[t] = <<"unlock", "relock", "set", "lock">>
  <2>1. Tail(todo[t]) = <<"relock", "set", "lock">>
    BY <1>1
  <2> QED
    BY <1>1, <2>1 DEF Stage, EnableRest
<1>2. CASE job[t] = "enable_auth" /\ todo[t] = <<"unlock", "relock", "reactivate">>
  <2>1. Tail(todo[t]) = <<"relock", "reactivate">>
    BY <1>2
  <2> QED
    BY <1>2, <2>1 DEF Stage, ReactivateRest, Enabling
<1>3. CASE job[t] = "setup_2fa" /\ todo[t] = <<"unlock", "enable_2fa">>
  <2>1. Tail(todo[t]) = <<"enable_2fa">>
    BY <1>3
  <2> QED
    BY <1>3, <2>1 DEF Stage
<1>4. CASE job[t] = "view_seed" /\ todo[t] = <<"unlock", "pgp">>
  <2>1. Tail(todo[t]) = <<"pgp">>
    BY <1>4
  <2> QED
    BY <1>4, <2>1 DEF Stage
<1>5. CASE job[t] = "delete_wallet" /\ todo[t] = <<"unlock", "delete">>
  <2>1. Tail(todo[t]) = <<"delete">>
    BY <1>5
  <2> QED
    BY <1>5, <2>1 DEF Stage
<1>6. CASE job[t] = "enable_auth" /\ todo[t] = <<"relock", "set", "lock">>
  <2>1. Tail(todo[t]) = <<"set", "lock">>
    BY <1>6
  <2> QED
    BY <1>6, <2>1 DEF Stage, EnableRest
<1>7. CASE job[t] \in Enabling /\ todo[t] = <<"relock", "reactivate">>
  <2>1. Tail(todo[t]) = <<"reactivate">>
    BY <1>7
  <2> QED
    BY <1>7, <2>1 DEF Stage, ReactivateRest
<1>8. CASE job[t] = "enable_auth" /\ todo[t] = <<"set", "lock">>
  <2>1. Tail(todo[t]) = <<"lock">>
    BY <1>8
  <2> QED
    BY <1>8, <2>1 DEF Stage, EnableRest
<1>9. CASE StepOf(t) = "unlock"
  BY <1>1, <1>2, <1>3, <1>4, <1>5, <1>9, StepFacts
<1>10. CASE StepOf(t) = "relock"
  BY <1>6, <1>7, <1>10, StepFacts
<1>11. CASE StepOf(t) = "set"
  BY <1>8, <1>11, StepFacts
<1> QED
  BY <1>9, <1>10, <1>11

\* A job that goes on.
LEMMA Goes ==
    ASSUME StageInv, NEW t \in Tasks, NEW rest, Continue(t, rest), Stage(job[t], rest)
    PROVE  StageInv'
<1>1. /\ job' = job /\ todo' = [u \in Tasks |-> todo'[u]] /\ todo'[t] = rest
      /\ \A u \in Tasks : u # t => todo'[u] = todo[u]
  BY DEF StageInv, Continue
<1> QED
  BY <1>1 DEF StageInv, Stage

\* A job that ends.
LEMMA Ends ==
    ASSUME StageInv, job = [u \in Tasks |-> job[u]], NEW t \in Tasks, NEW shown, Conclude(t, shown)
    PROVE  StageInv'
<1>1. /\ todo' = [u \in Tasks |-> todo'[u]] /\ todo'[t] = <<>> /\ job'[t] = "none"
      /\ \A u \in Tasks : u # t => todo'[u] = todo[u] /\ job'[u] = job[u]
  BY DEF StageInv, Conclude
<1> QED
  BY <1>1 DEF StageInv, Stage

\* A job that starts.
LEMMA Begins ==
    ASSUME StageInv, job = [u \in Tasks |-> job[u]], NEW t \in Tasks,
           NEW j \in Recovery \union Features, Start(t, j)
    PROVE  StageInv'
<1>1. /\ todo' = [u \in Tasks |-> todo'[u]] /\ todo'[t] = Program(j) /\ job'[t] = j
      /\ \A u \in Tasks : u # t => todo'[u] = todo[u] /\ job'[u] = job[u]
  BY DEF StageInv, Start
<1>2. Stage(j, Program(j))
  <2>1. CASE j \in Enabling \union {"load"}
    BY <2>1, ProgramFacts DEF Stage
  <2>2. CASE j \in {"disable_start", "disable_auth", "setup_2fa", "disable_2fa"}
    BY <2>2, ProgramFacts DEF Stage
  <2>3. CASE j \in {"view_seed", "delete_wallet", "crypto"}
    BY <2>3, ProgramFacts DEF Stage
  <2> QED
    BY <2>1, <2>2, <2>3 DEF Recovery, Features, Enabling
<1> QED
  BY <1>1, <1>2 DEF StageInv, Stage

\* Every job is at a stage of its program.
LEMMA StageStep ==
    ASSUME TypeOK, StageInv, [Next]_vars
    PROVE  StageInv'
<1>0. job = [u \in Tasks |-> job[u]] /\ server.status \in Statuses
      /\ go \subseteq {u \in Tasks : StepOf(u) \in {"relock", "pgp"}}
  BY DEF TypeOK
<1>1. ASSUME NEW t \in Tasks, Fail(t)
      PROVE  StageInv'
  BY <1>0, <1>1, Ends DEF Fail
<1>2. ASSUME NEW t \in Tasks, Advance(t), StepOf(t) # "none"
      PROVE  StageInv'
  <2>1. CASE Len(todo[t]) = 1
    BY <1>0, <1>2, <2>1, Ends DEF Advance
  <2>2. CASE Len(todo[t]) # 1
    <3>1. StepOf(t) \in {"unlock", "relock", "set"}
      BY <1>2, <2>2, StepsLeft DEF StageInv
    <3>2. Stage(job[t], Tail(todo[t]))
      BY <3>1, NextStage DEF StageInv
    <3> QED
      BY <1>2, <2>2, <3>2, Goes DEF Advance
  <2> QED
    BY <2>1, <2>2
<1>3. ASSUME NEW t \in Tasks, Status(t)
      PROVE  StageInv'
  <2>1. job[t] \in Enabling \union {"load"}
    BY <1>3, StepFacts DEF Status, StageInv
  <2>2. CASE AfterStatus(job[t], server.status) # <<>>
             /\ Continue(t, AfterStatus(job[t], server.status))
    <3>1. Stage(job[t], AfterStatus(job[t], server.status))
      BY <1>0, <2>1, <2>2, StatusFacts DEF Stage, EnableRest, ReactivateRest, Enabling
    <3> QED
      BY <2>2, <3>1, Goes
  <2>3. CASE \E shown : Conclude(t, shown)
    BY <1>0, <2>3, Ends
  <2> QED
    BY <1>1, <1>3, <2>2, <2>3 DEF Status
<1>4. ASSUME NEW t \in Tasks, Accepted(t) \/ LeaveGo(t)
      PROVE  StageInv'
  <2>1. StepOf(t) # "none"
    BY <1>0, <1>4 DEF Accepted, LeaveGo, Requests
  <2> QED
    BY <1>1, <1>2, <1>4, <2>1 DEF Accepted, LeaveGo
<1>5. ASSUME NEW t \in Tasks, Refused(t)
      PROVE  StageInv'
  <2>1. CASE job[t] = "enable_start" /\ Continue(t, <<"scope_twofa">>)
    <3>1. Stage(job[t], <<"scope_twofa">>)
      BY <2>1 DEF Stage
    <3> QED
      BY <2>1, <3>1, Goes
  <2> QED
    BY <1>1, <1>5, <2>1 DEF Refused
<1>6. ASSUME NEW t \in Tasks, Lost(t)
      PROVE  StageInv'
  BY <1>1, <1>6 DEF Lost
<1>7. ASSUME NEW t \in Tasks, OpenPage(t) \/ Toggle(t) \/ Submit(t) \/ StateReset(t)
      PROVE  StageInv'
  <2>1. PICK j \in Recovery : Start(t, j)
    BY <1>7 DEF OpenPage, Toggle, Submit, StateReset, StartPage, Recovery
  <2> QED
    BY <1>0, <2>1, Begins
<1>8. ASSUME NEW t \in Tasks, NEW j \in Features, Feature(t, j)
      PROVE  StageInv'
  BY <1>0, <1>8, Begins DEF Feature
<1>9. CASE UNCHANGED <<job, todo>>
  BY <1>9 DEF StageInv, Stage
<1>10. ASSUME NEW t \in Tasks, EnterGo(t)
       PROVE  StageInv'
  BY <1>9, <1>10 DEF EnterGo
<1>11. CASE Drag \/ ClosePage \/ Change
  BY <1>9, <1>11 DEF Drag, ClosePage, Change, jobVars
<1>12. CASE UNCHANGED vars
  BY <1>9, <1>12 DEF vars, jobVars
<1> QED
  BY <1>3, <1>4, <1>5, <1>6, <1>7, <1>8, <1>10, <1>11, <1>12 DEF Next, Step

----
\* The next step of a job, for any values of its variables.
LEMMA HeadOf ==
    ASSUME NEW j, NEW left, Stage(j, left)
    PROVE  /\ (IF left = <<>> THEN "none" ELSE Head(left))
                  \in Requests \union {"none", "status", "relock", "pgp"}
           /\ left = <<>> <=> j = "none"
<1> USE DEF Requests
<1>1. CASE j = "none" /\ left = <<>>
  BY <1>1
<1>2. CASE j \in Enabling \union {"load"} /\ left = <<"status">>
  BY <1>2 DEF Enabling
<1>3. CASE \/ j \in {"enable_start", "disable_start"} /\ left = <<"twofa">>
           \/ j = "enable_start" /\ left = <<"scope_twofa">>
  BY <1>3
<1>4. CASE j \in Enabling /\ left \in ReactivateRest
  BY <1>4 DEF Enabling, ReactivateRest
<1>5. CASE j = "enable_auth" /\ left \in EnableRest
  BY <1>5 DEF EnableRest
<1>6. CASE j = "enable_auth" /\ left \in
           {<<"unlock", "relock", "set", "lock">>, <<"unlock", "relock", "reactivate">>}
  BY <1>6
<1>7. CASE \/ j = "disable_auth" /\ left = <<"disable">>
           \/ j = "setup_2fa" /\ left \in {<<"unlock", "enable_2fa">>, <<"enable_2fa">>}
           \/ j = "disable_2fa" /\ left = <<"disable_2fa">>
  BY <1>7
<1>8. CASE \/ j = "view_seed" /\ left \in {<<"unlock", "pgp">>, <<"pgp">>}
           \/ j = "delete_wallet" /\ left \in {<<"unlock", "delete">>, <<"delete">>}
           \/ j = "crypto" /\ left = <<"pgp">>
  BY <1>8
<1> QED
  BY <1>1, <1>2, <1>3, <1>4, <1>5, <1>6, <1>7, <1>8 DEF Stage

\* A task that has nothing to do has no phrase, and starts with a fresh one.
LEMMA WordsStart ==
    ASSUME IInv, NEW t \in Tasks, NEW j, Start(t, j)
    PROVE  /\ job[t] = "none" /\ t \notin attached /\ words[t] = NoWords
           /\ NewWords \in Phrases /\ NewWords \notin InUse
           /\ words' = [words EXCEPT ![t] = words'[t]]
           /\ words'[t] = IF j \in Enabling THEN NewWords ELSE NoWords
<1>1. todo[t] = <<>> /\ t \notin attached
  BY DEF Start, Busy, IInv, TypeOK
<1>2. job[t] = "none"
  BY <1>1, HeadOf DEF IInv, StageInv
<1>3. words[t] = NoWords /\ words \in [Tasks -> Phrases]
  BY <1>2 DEF IInv, WordsInv, OwnWords, Enabling, TypeOK
<1> QED
  BY <1>1, <1>2, <1>3, Fresh DEF Start, Enabling

\* What a step of a job does to it: it goes on, or it ends and the page may
\* show how.
LEMMA JobSteps ==
    ASSUME IInv, NEW t \in Tasks, Step(t)
    PROVE  \/ \E rest : Continue(t, rest)
           \/ \E shown : Conclude(t, shown)
           \/ UNCHANGED <<ui, attached, job, todo, words, seen>>
<1>1. CASE Status(t)
  BY <1>1 DEF Status, Fail
<1>2. CASE Accepted(t) \/ LeaveGo(t)
  BY <1>2 DEF Accepted, LeaveGo, Advance, Fail
<1>3. CASE Refused(t) \/ Lost(t)
  BY <1>3 DEF Refused, Lost, Fail
<1>4. CASE EnterGo(t)
  BY <1>4 DEF EnterGo, pageVars
<1> QED
  BY <1>1, <1>2, <1>3, <1>4 DEF Step

\* What the tasks run keeps its type.
LEMMA JobTypes ==
    ASSUME IInv, [Next]_vars
    PROVE  /\ job' \in [Tasks -> Recovery \union Features \union {"none"}]
           /\ words' \in [Tasks -> Phrases]
           /\ attached' \subseteq {t \in Tasks : job'[t] # "none"}
<1>0. /\ job \in [Tasks -> Recovery \union Features \union {"none"}]
      /\ words \in [Tasks -> Phrases] /\ NoWords \in Phrases
      /\ attached \subseteq Tasks /\ \A t \in attached : job[t] # "none"
  <2>1. \A t \in attached : t \in Tasks /\ todo[t] # <<>>
    BY DEF IInv, TypeOK, Busy
  <2>2. \A t \in attached : job[t] # "none"
    BY <2>1, HeadOf DEF IInv, StageInv
  <2>3. NoWords \in Phrases
    BY SettingsAssumption, FS_CardinalityType DEF NoWords, Phrases
  <2> QED
    BY <2>1, <2>2, <2>3 DEF IInv, TypeOK
<1>1. ASSUME NEW t \in Tasks, Step(t)
      PROVE  /\ job' \in [Tasks -> Recovery \union Features \union {"none"}]
             /\ words' \in [Tasks -> Phrases]
             /\ attached' \subseteq {u \in Tasks : job'[u] # "none"}
  <2>1. CASE \E rest : Continue(t, rest)
    BY <1>0, <2>1 DEF Continue
  <2>2. CASE \E shown : Conclude(t, shown)
    BY <1>0, <2>2 DEF Conclude
  <2>3. CASE UNCHANGED <<ui, attached, job, todo, words, seen>>
    BY <1>0, <2>3
  <2> QED
    BY <1>1, <2>1, <2>2, <2>3, JobSteps
<1>2. ASSUME NEW t \in Tasks, NEW j \in Recovery \union Features, Start(t, j),
             attached' \in {attached, attached \union {t}}
      PROVE  /\ job' \in [Tasks -> Recovery \union Features \union {"none"}]
             /\ words' \in [Tasks -> Phrases]
             /\ attached' \subseteq {u \in Tasks : job'[u] # "none"}
  <2>1. job' = [job EXCEPT ![t] = j] /\ j # "none"
    BY <1>2 DEF Start, Recovery, Features
  <2>2. words' \in [Tasks -> Phrases]
    BY <1>0, <1>2, WordsStart
  <2> QED
    BY <1>0, <1>2, <2>1, <2>2
<1>3. ASSUME NEW t \in Tasks, OpenPage(t) \/ Toggle(t) \/ Submit(t) \/ StateReset(t)
      PROVE  \E j \in Recovery : Start(t, j) /\ attached' = attached \union {t}
  BY <1>3 DEF OpenPage, Toggle, Submit, StateReset, StartPage, Recovery
<1>4. ASSUME NEW t \in Tasks, NEW j \in Features, Feature(t, j)
      PROVE  Start(t, j) /\ attached' = attached
  BY <1>4 DEF Feature
<1>5. CASE Drag \/ ClosePage \/ Change \/ UNCHANGED vars
  <2>1. job' = job /\ words' = words /\ attached' \subseteq attached
    BY <1>5 DEF Drag, ClosePage, Change, jobVars, pageVars, vars
  <2> QED
    BY <1>0, <2>1
<1> QED
  BY <1>1, <1>2, <1>3, <1>4, <1>5 DEF Next

\* What the page shows keeps its type.
Uis == [loading : BOOLEAN, enabled : BOOLEAN, auth : {"no", "enable", "disable"},
        sheet : BOOLEAN, words : Phrases]

LEMMA UiTypes ==
    ASSUME IInv, [Next]_vars
    PROVE  ui' \in Uis /\ seen' \subseteq Phrases /\ open' \in BOOLEAN
<1>0. /\ ui \in Uis /\ UiInit \in Uis /\ seen \subseteq Phrases /\ open \in BOOLEAN
      /\ \A t \in Tasks : words[t] \in Phrases
      /\ server.status \in Statuses
      /\ go \subseteq {u \in Tasks : StepOf(u) \in {"relock", "pgp"}}
  <2>1. NoWords \in Phrases
    BY SettingsAssumption, FS_CardinalityType DEF NoWords, Phrases
  <2> QED
    BY <2>1 DEF IInv, TypeOK, Uis, UiInit
<1>1. ASSUME NEW t \in Tasks, NEW shown \in Uis, Conclude(t, shown)
      PROVE  ui' \in Uis /\ seen' \subseteq Phrases
  <2>1. ui' \in Uis /\ seen' = seen \union {ui'.words}
    BY <1>0, <1>1 DEF Conclude
  <2>2. ui'.words \in Phrases
    BY <2>1 DEF Uis
  <2> QED
    BY <1>0, <2>1, <2>2
<1>2. ASSUME NEW t \in Tasks, Step(t)
      PROVE  ui' \in Uis /\ seen' \subseteq Phrases /\ open' \in BOOLEAN
  <2>0. \/ GoesOn(t) \/ SetsPhrase(t) \/ Locks(t) \/ Reactivates(t) \/ Disables(t)
        \/ AsksPassword(t) \/ Loads(t) \/ FindsItSet(t) \/ Finishes(t) \/ Fails(t) \/ OnlyGo
    BY <1>0, <1>2, StepKinds DEF IInv, StageInv
  <2>1. CASE GoesOn(t) \/ SetsPhrase(t)
    BY <1>0, <2>1 DEF GoesOn, SetsPhrase, Continue
  <2>2. CASE Locks(t) \/ Reactivates(t)
    <3>1. Enabled(t) \in Uis
      BY <1>0 DEF Enabled, Uis
    <3> QED
      BY <1>0, <1>1, <2>2, <3>1 DEF Locks, Reactivates
  <2>3. CASE Disables(t)
    <3>1. [ui EXCEPT !.loading = FALSE, !.enabled = FALSE, !.auth = "no"] \in Uis
      BY <1>0 DEF Uis
    <3> QED
      BY <1>0, <1>1, <2>3, <3>1 DEF Disables
  <2>4. CASE AsksPassword(t)
    <3>1. [ui EXCEPT !.auth = IF job[t] = "disable_start" THEN "disable" ELSE "enable",
                     !.sheet = TRUE] \in Uis
      BY <1>0 DEF Uis
    <3> QED
      BY <1>0, <1>1, <2>4, <3>1 DEF AsksPassword
  <2>5. CASE Loads(t)
    <3>1. (server.status = "set") \in BOOLEAN
      OBVIOUS
    <3>2. [ui EXCEPT !.loading = FALSE, !.enabled = server.status = "set"] \in Uis
      BY <1>0, <3>1 DEF Uis
    <3> QED
      BY <1>0, <1>1, <2>5, <3>2 DEF Loads
  <2>6. CASE FindsItSet(t) \/ Finishes(t)
    BY <1>0, <1>1, <2>6 DEF FindsItSet, Finishes
  <2>7. CASE Fails(t)
    <3>1. Failed \in Uis
      BY <1>0 DEF Failed, Uis
    <3> QED
      BY <1>0, <1>1, <2>7, <3>1 DEF Fails, Fail
  <2>8. CASE OnlyGo
    BY <1>0, <2>8 DEF OnlyGo, pageVars
  <2> QED
    BY <2>0, <2>1, <2>2, <2>3, <2>4, <2>5, <2>6, <2>7, <2>8
<1>3. ASSUME NEW t \in Tasks, NEW j, Start(t, j)
      PROVE  seen' \subseteq Phrases
  BY <1>0, <1>3 DEF Start
<1>4. CASE \E t \in Tasks : OpenPage(t) \/ Toggle(t) \/ Submit(t) \/ StateReset(t)
  BY <1>0, <1>3, <1>4 DEF OpenPage, Toggle, Submit, StateReset, StartPage, Uis
<1>5. CASE \E t \in Tasks, j \in Features : Feature(t, j)
  BY <1>0, <1>3, <1>5 DEF Feature
<1>6. CASE Drag \/ ClosePage \/ Change \/ UNCHANGED vars
  BY <1>0, <1>6 DEF Drag, ClosePage, Change, pageVars, vars, Uis
<1> QED
  BY <1>2, <1>4, <1>5, <1>6 DEF Next

\* What a job that goes on leaves alone ...
LEMMA GoingOn ==
    ASSUME IInv, NEW t \in Tasks, NEW rest, Continue(t, rest)
    PROVE  /\ UNCHANGED <<job, words, ui, attached, seen>> /\ todo'[t] = rest
           /\ \A u \in Tasks : u # t => todo'[u] = todo[u]
  BY DEF IInv, StageInv, Continue

\* ... and what one changes that ends.
LEMMA Ending ==
    ASSUME IInv, NEW t \in Tasks, NEW shown, Conclude(t, shown)
    PROVE  /\ todo'[t] = <<>> /\ job'[t] = "none" /\ words'[t] = NoWords
           /\ \A u \in Tasks : u # t =>
                todo'[u] = todo[u] /\ job'[u] = job[u] /\ words'[u] = words[u]
           /\ attached' = attached \ {t} /\ ui' = IF t \in attached THEN shown ELSE ui
           /\ seen' = seen \union {ui'.words}
  BY DEF IInv, StageInv, TypeOK, Conclude

\* A job starts in a place that was free, with a phrase nobody uses.
LEMMA Starting ==
    ASSUME IInv, NEW t \in Tasks, NEW j, Start(t, j)
    PROVE  /\ job[t] = "none" /\ todo[t] = <<>> /\ words[t] = NoWords /\ t \notin attached
           /\ job'[t] = j /\ todo'[t] = Program(j)
           /\ words'[t] = IF j \in Enabling THEN NewWords ELSE NoWords
           /\ NewWords \in Phrases /\ NewWords \notin InUse
           /\ \A u \in Tasks : u # t =>
                todo'[u] = todo[u] /\ job'[u] = job[u] /\ words'[u] = words[u]
           /\ seen' = seen \intersect InUse /\ lost' = lost \intersect InUse
           /\ UNCHANGED <<server, go, writer, opener, faults, changes>>
<1>1. todo[t] = <<>>
  BY DEF Start, Busy
<1>2. /\ job = [u \in Tasks |-> job[u]] /\ todo = [u \in Tasks |-> todo[u]]
      /\ words = [u \in Tasks |-> words[u]]
  BY DEF IInv, TypeOK, StageInv
<1>3. job'[t] = j /\ todo'[t] = Program(j) /\ \A u \in Tasks : u # t =>
           todo'[u] = todo[u] /\ job'[u] = job[u] /\ words'[u] = words[u]
  BY <1>2 DEF Start
<1>4. /\ seen' = seen \intersect InUse /\ lost' = lost \intersect InUse
      /\ UNCHANGED <<server, go, writer, opener, faults, changes>>
  BY DEF Start
<1> QED
  BY <1>1, <1>3, <1>4, WordsStart

\* What a step of a job is.
LEMMA Kinds ==
    ASSUME IInv, NEW t \in Tasks, Step(t)
    PROVE  \/ GoesOn(t) \/ SetsPhrase(t) \/ Locks(t) \/ Reactivates(t) \/ Disables(t)
           \/ AsksPassword(t) \/ Loads(t) \/ FindsItSet(t) \/ Finishes(t) \/ Fails(t) \/ OnlyGo
<1>1. /\ server.status \in Statuses
      /\ go \subseteq {u \in Tasks : StepOf(u) \in {"relock", "pgp"}}
  BY DEF IInv, TypeOK
<1> QED
  BY <1>1, StepKinds DEF IInv, StageInv

\* What starts a job of the page.
LEMMA PageStarts ==
    ASSUME NEW t \in Tasks, OpenPage(t) \/ Toggle(t) \/ Submit(t) \/ StateReset(t)
    PROVE  \E j \in Recovery : Start(t, j) /\ attached' = attached \union {t}
  BY DEF OpenPage, Toggle, Submit, StateReset, StartPage, Recovery

\* The server's state keeps its type.
LEMMA ServerTypes ==
    ASSUME IInv, [Next]_vars
    PROVE  /\ server' \in [scope : BOOLEAN, status : Statuses, words : Phrases]
           /\ writer' \in Tasks \union {Nobody, World}
<1>0. /\ server \in [scope : BOOLEAN, status : Statuses, words : Phrases]
      /\ writer \in Tasks \union {Nobody, World}
      /\ NoWords \in Phrases /\ \A t \in Tasks : words[t] \in Phrases
      /\ Statuses = {"unset", "outdated", "set"}
  <2>1. NoWords \in Phrases
    BY SettingsAssumption, FS_CardinalityType DEF NoWords, Phrases
  <2> QED
    BY <2>1 DEF IInv, TypeOK, Statuses
<1>1. ASSUME NEW t \in Tasks, Step(t)
      PROVE  /\ server' \in [scope : BOOLEAN, status : Statuses, words : Phrases]
             /\ writer' \in Tasks \union {Nobody, World}
  <2>1. CASE GoesOn(t) \/ SetsPhrase(t) \/ Locks(t) \/ Reactivates(t)
    BY <1>0, <2>1 DEF GoesOn, SetsPhrase, Locks, Reactivates
  <2>2. CASE Disables(t) \/ AsksPassword(t) \/ Loads(t) \/ FindsItSet(t) \/ Finishes(t)
    BY <1>0, <2>2 DEF Disables, AsksPassword, Loads, FindsItSet, Finishes
  <2>3. CASE Fails(t)
    BY <1>0, <2>3 DEF Fails, FailsAfter
  <2>4. CASE OnlyGo
    BY <1>0, <2>4 DEF OnlyGo
  <2> QED
    BY <1>1, <2>1, <2>2, <2>3, <2>4, Kinds
<1>2. CASE Change
  BY <1>0, <1>2 DEF Change
<1>3. ASSUME NEW t \in Tasks, NEW j, Start(t, j)
      PROVE  server' = server /\ writer' = writer
  BY <1>3 DEF Start
<1>4. CASE \E t \in Tasks : OpenPage(t) \/ Toggle(t) \/ Submit(t) \/ StateReset(t)
  BY <1>0, <1>3, <1>4, PageStarts
<1>5. CASE \E t \in Tasks, j \in Features : Feature(t, j)
  BY <1>0, <1>3, <1>5 DEF Feature
<1>6. CASE Drag \/ ClosePage \/ UNCHANGED vars
  BY <1>0, <1>6 DEF Drag, ClosePage, ghosts, vars
<1> QED
  BY <1>1, <1>2, <1>4, <1>5, <1>6 DEF Next

\* The calls of Go that run keep to the steps that make them.
LEMMA GoStep ==
    ASSUME IInv, [Next]_vars
    PROVE  /\ \A t \in go' : t \in Tasks /\ StepOf(t)' \in {"relock", "pgp"}
           /\ GoCallsOverlapOnlyUnlocked'
<1>0. /\ go \subseteq {t \in Tasks : StepOf(t) \in {"relock", "pgp"}}
      /\ GoCallsOverlapOnlyUnlocked /\ StageInv
  BY DEF IInv, TypeOK
<1>1. ASSUME \A u \in go : todo'[u] = todo[u], go' = go
      PROVE  /\ \A u \in go' : u \in Tasks /\ StepOf(u)' \in {"relock", "pgp"}
             /\ GoCallsOverlapOnlyUnlocked'
  <2>1. \A u \in go : StepOf(u)' = StepOf(u)
    BY <1>1 DEF StepOf
  <2> QED
    BY <1>0, <1>1, <2>1 DEF GoCallsOverlapOnlyUnlocked
<1>2. ASSUME NEW t \in Tasks, Status(t) \/ Accepted(t) \/ Refused(t) \/ Lost(t)
      PROVE  go' = go /\ \A u \in go : todo'[u] = todo[u]
  <2>1. StepOf(t) \notin {"relock", "pgp"} /\ go' = go
    BY <1>2 DEF Status, Accepted, Refused, Lost, Requests, NeedsScope
  <2>2. \A u \in Tasks : u # t => todo'[u] = todo[u]
    BY <1>2, JobSteps, GoingOn, Ending DEF Step
  <2> QED
    BY <1>0, <2>1, <2>2
<1>3. ASSUME NEW t \in Tasks, EnterGo(t)
      PROVE  /\ \A u \in go' : u \in Tasks /\ StepOf(u)' \in {"relock", "pgp"}
             /\ GoCallsOverlapOnlyUnlocked'
  <2>1. go' = go \union {t} /\ StepOf(t) \in {"relock", "pgp"} /\ MayEnter(t) /\ t \notin go
        /\ \A u \in Tasks : StepOf(u)' = StepOf(u)
    BY <1>3 DEF EnterGo, StepOf
  <2>2. \A u \in go : "relock" \in {StepOf(t), StepOf(u)}
    BY <1>0, <2>1 DEF MayEnter, LockFree
  <2>3. \A u, v \in go' : u # v => "relock" \in {StepOf(u), StepOf(v)}
    BY <1>0, <2>1, <2>2 DEF GoCallsOverlapOnlyUnlocked
  <2> QED
    BY <1>0, <2>1, <2>3 DEF GoCallsOverlapOnlyUnlocked
<1>4. ASSUME NEW t \in Tasks, LeaveGo(t)
      PROVE  /\ \A u \in go' : u \in Tasks /\ StepOf(u)' \in {"relock", "pgp"}
             /\ GoCallsOverlapOnlyUnlocked'
  <2>1. go' = go \ {t} /\ \A u \in Tasks : u # t => todo'[u] = todo[u]
    BY <1>4, JobSteps, GoingOn, Ending DEF Step, LeaveGo
  <2>2. \A u \in go' : StepOf(u)' = StepOf(u)
    BY <1>0, <2>1 DEF StepOf
  <2> QED
    BY <1>0, <2>1, <2>2 DEF GoCallsOverlapOnlyUnlocked
<1>5. ASSUME NEW t \in Tasks, NEW j, Start(t, j)
      PROVE  go' = go /\ \A u \in go : todo'[u] = todo[u]
  <2>1. todo[t] = <<>> /\ go' = go /\ \A u \in Tasks : u # t => todo'[u] = todo[u]
    BY <1>5, Starting
  <2>2. t \notin go
    BY <1>0, <2>1 DEF StepOf
  <2> QED
    BY <1>0, <2>1, <2>2
<1>6. CASE \E t \in Tasks : OpenPage(t) \/ Toggle(t) \/ Submit(t) \/ StateReset(t)
  BY <1>1, <1>5, <1>6, PageStarts
<1>7. CASE \E t \in Tasks, j \in Features : Feature(t, j)
  BY <1>1, <1>5, <1>7 DEF Feature
<1>8. CASE Drag \/ ClosePage \/ Change \/ UNCHANGED vars
  BY <1>1, <1>8 DEF Drag, ClosePage, Change, jobVars, vars
<1> QED
  BY <1>1, <1>2, <1>3, <1>4, <1>6, <1>7, <1>8 DEF Next, Step

\* No task is nobody, or the rest of the world.
LEMMA NobodyElse ==
    ASSUME IInv, NEW t \in Tasks
    PROVE  t # Nobody /\ t # World /\ NoWords \in InUse
  BY SettingsAssumption DEF Nobody, World, InUse

\* A load asks for the status and nothing else.
LEMMA LoadAsks ==
    ASSUME IInv, NEW t \in Tasks, job[t] = "load"
    PROVE  StepOf(t) = "status"
<1>1. Stage(job[t], todo[t])
  BY DEF IInv, StageInv
<1> QED
  BY <1>1, StepFacts DEF Enabling, Requests

\* No job begins with the lock.
LEMMA NoLockFirst ==
    ASSUME NEW j \in Recovery \union Features
    PROVE  Program(j) \notin EnableRest
<1>1. CASE Program(j) \in {<<"status">>, <<"twofa">>, <<"disable">>}
  BY <1>1 DEF EnableRest
<1>2. CASE Program(j) \in {<<"unlock", "enable_2fa">>, <<"disable_2fa">>, <<"unlock", "pgp">>,
                           <<"unlock", "delete">>, <<"pgp">>}
  BY <1>2 DEF EnableRest
<1> QED
  BY <1>1, <1>2, ProgramFacts DEF Recovery, Features, Enabling

\* Every enabling job keeps a phrase of its own.
LEMMA WordsStep ==
    ASSUME IInv, [Next]_vars
    PROVE  WordsInv'
<1>0. \A v \in Tasks : OwnWords(v)
  BY DEF IInv, WordsInv
<1> SUFFICES ASSUME NEW v \in Tasks
             PROVE  OwnWords(v)'
  BY DEF WordsInv
<1>1. ASSUME NEW t \in Tasks, NEW rest, Continue(t, rest), lost' = lost,
             \/ server'.words = server.words
             \/ server'.words = words[t] /\ rest = <<"lock">>,
             todo[t] # <<"lock">>
      PROVE  OwnWords(v)'
  <2>1. /\ UNCHANGED <<job, words, attached, lost>> /\ todo'[t] = rest
        /\ \A u \in Tasks : u # t => todo'[u] = todo[u]
    BY <1>1, GoingOn
  <2> QED
    BY <1>0, <1>1, <2>1 DEF OwnWords
<1>2. ASSUME NEW t \in Tasks, NEW shown, Conclude(t, shown), lost \subseteq lost',
             server'.words \in {server.words, words[t], NoWords}
      PROVE  OwnWords(v)'
  <2>1. /\ todo'[t] = <<>> /\ job'[t] = "none" /\ words'[t] = NoWords
        /\ \A u \in Tasks : u # t =>
             todo'[u] = todo[u] /\ job'[u] = job[u] /\ words'[u] = words[u]
        /\ attached' = attached \ {t}
    BY <1>2, Ending
  <2>2. CASE v = t
    BY <2>1, <2>2 DEF OwnWords, Enabling
  <2>3. CASE v # t
    BY <1>0, <1>2, <2>1, <2>3 DEF OwnWords
  <2> QED
    BY <2>2, <2>3
<1>3. ASSUME NEW t \in Tasks, Step(t)
      PROVE  OwnWords(v)'
  <2>1. CASE GoesOn(t)
    <3>1. server'.words = server.words
      BY <2>1 DEF GoesOn, IInv, TypeOK
    <3> QED
      BY <1>1, <2>1, <3>1 DEF GoesOn
  <2>2. CASE SetsPhrase(t)
    <3>1. server'.words = words[t] /\ todo[t] # <<"lock">>
      BY <2>2 DEF SetsPhrase, IInv, TypeOK
    <3> QED
      BY <1>1, <2>2, <3>1 DEF SetsPhrase
  <2>3. CASE Locks(t) \/ Reactivates(t) \/ Disables(t)
    <3>1. server'.words \in {server.words, words[t], NoWords}
      BY <2>3 DEF Locks, Reactivates, Disables, IInv, TypeOK
    <3> QED
      BY <1>2, <2>3, <3>1 DEF Locks, Reactivates, Disables
  <2>4. CASE AsksPassword(t) \/ Loads(t) \/ FindsItSet(t) \/ Finishes(t)
    BY <1>2, <2>4 DEF AsksPassword, Loads, FindsItSet, Finishes
  <2>5. CASE Fails(t)
    <3>1. server'.words \in {server.words, words[t], NoWords}
      BY <2>5 DEF Fails, FailsAfter, IInv, TypeOK
    <3> QED
      BY <1>2, <2>5, <3>1 DEF Fails, FailsAfter, Fail
  <2>6. CASE OnlyGo
    BY <1>0, <2>6 DEF OnlyGo, pageVars, OwnWords
  <2> QED
    BY <1>3, <2>1, <2>2, <2>3, <2>4, <2>5, <2>6, Kinds
<1>4. ASSUME NEW t \in Tasks, NEW j \in Recovery \union Features, Start(t, j),
             attached \subseteq attached', j \in Enabling => t \in attached'
      PROVE  OwnWords(v)'
  <2>1. /\ words[t] = NoWords /\ t \notin attached /\ job'[t] = j
        /\ words'[t] = IF j \in Enabling THEN NewWords ELSE NoWords
        /\ \A u \in Tasks : u # t =>
             todo'[u] = todo[u] /\ job'[u] = job[u] /\ words'[u] = words[u]
        /\ lost' = lost \intersect InUse /\ server' = server
    BY <1>4, Starting
  <2>2. NewWords \notin {server.words, NoWords} /\ \A u \in Tasks : NewWords # words[u]
    BY <1>4, Starting DEF InUse
  <2>3. \A u \in Tasks : words[u] \in InUse
    BY DEF InUse
  <2>4. CASE v = t
    BY <1>4, <2>1, <2>2, <2>4 DEF OwnWords
  <2>5. CASE v # t
    BY <1>0, <1>4, <2>1, <2>2, <2>3, <2>5 DEF OwnWords
  <2> QED
    BY <2>4, <2>5
<1>5. CASE \E t \in Tasks : OpenPage(t) \/ Toggle(t) \/ Submit(t) \/ StateReset(t)
  BY <1>4, <1>5, PageStarts
<1>6. CASE \E t \in Tasks, j \in Features : Feature(t, j)
  <2>1. \A j \in Features : j \notin Enabling
    BY DEF Features, Enabling
  <2> QED
    BY <1>4, <1>6, <2>1 DEF Feature
<1>7. CASE Drag \/ UNCHANGED vars
  BY <1>0, <1>7 DEF Drag, vars, pageVars, jobVars, ghosts, OwnWords
<1>8. CASE ClosePage
  <2>1. /\ UNCHANGED <<job, todo, words, server>> /\ attached' = {}
        /\ lost' = lost \union {words[u] : u \in attached}
    BY <1>8 DEF ClosePage, jobVars
  <2> QED
    BY <1>0, <2>1 DEF OwnWords
<1>9. CASE Change
  <2>1. UNCHANGED <<job, todo, words, attached, lost>> /\ server'.words \in {server.words, NoWords}
    BY <1>9 DEF Change, jobVars, pageVars, IInv, TypeOK
  <2> QED
    BY <1>0, <2>1 DEF OwnWords
<1> QED
  BY <1>3, <1>5, <1>6, <1>7, <1>8, <1>9 DEF Next

\* What the page shows when a job of its own ends.
LEMMA Shows ==
    ASSUME IInv, NEW t \in Tasks
    PROVE  /\ Enabled(t).loading = FALSE /\ Enabled(t).enabled = TRUE
           /\ Enabled(t).sheet = ui.sheet /\ Enabled(t).words = words[t]
           /\ Failed.loading = FALSE /\ Failed.enabled = ui.enabled
           /\ Failed.sheet = ui.sheet /\ Failed.words = ui.words
  BY DEF IInv, TypeOK, Enabled, Failed

\* The page runs one job at a time, under its spinner.
LEMMA PageStep ==
    ASSUME IInv, [Next]_vars
    PROVE  PageInv'
<1>0. PageInv /\ attached \subseteq Tasks /\ ui \in Uis
  BY DEF IInv, TypeOK, Uis
<1>1. ASSUME NEW t \in Tasks, NEW shown, Conclude(t, shown), open' = open,
             t \in attached => /\ shown.sheet => shown.loading /\ shown.words = NoWords
                                                 /\ shown.auth \in {"enable", "disable"}
                               /\ shown.words # NoWords => ~shown.loading
      PROVE  PageInv'
  <2>1. /\ attached' = attached \ {t} /\ ui' = IF t \in attached THEN shown ELSE ui
        /\ \A u \in attached' : job'[u] = job[u]
    BY <1>0, <1>1, Ending
  <2>2. CASE t \in attached
    BY <1>0, <1>1, <2>1, <2>2 DEF PageInv
  <2>3. CASE t \notin attached
    BY <1>0, <1>1, <2>1, <2>3 DEF PageInv
  <2> QED
    BY <2>2, <2>3
<1>2. ASSUME UNCHANGED <<ui, open, attached>>, \A u \in attached : job'[u] = job[u]
      PROVE  PageInv'
  BY <1>0, <1>2 DEF PageInv
<1>3. ASSUME NEW t \in Tasks, Step(t)
      PROVE  PageInv'
  <2>1. CASE GoesOn(t) \/ SetsPhrase(t)
    BY <1>2, <2>1, GoingOn DEF GoesOn, SetsPhrase
  <2>2. CASE Locks(t) \/ Reactivates(t)
    <3>1. t \in attached => ~Enabled(t).sheet /\ ~Enabled(t).loading
      BY <1>0, Shows DEF PageInv
    <3> QED
      BY <1>1, <2>2, <3>1 DEF Locks, Reactivates
  <2>3. CASE Disables(t)
    <3> DEFINE shown == [ui EXCEPT !.loading = FALSE, !.enabled = FALSE, !.auth = "no"]
    <3>1. t \in attached => ~shown.sheet /\ ~shown.loading
      BY <1>0 DEF PageInv, Uis
    <3>2. Conclude(t, shown) /\ open' = open
      BY <2>3 DEF Disables
    <3> HIDE DEF shown
    <3> QED
      BY <1>1, <3>1, <3>2
  <2>4. CASE AsksPassword(t)
    <3> DEFINE shown == [ui EXCEPT !.auth = IF job[t] = "disable_start" THEN "disable"
                                            ELSE "enable", !.sheet = TRUE]
    <3>1. shown.auth \in {"enable", "disable"} /\ shown.loading = ui.loading
          /\ shown.words = ui.words
      BY <1>0 DEF Uis
    <3>2. Conclude(t, shown) /\ open' = open
      BY <2>4 DEF AsksPassword
    <3> HIDE DEF shown
    <3> QED
      BY <1>0, <1>1, <3>1, <3>2 DEF PageInv
  <2>5. CASE Loads(t)
    <3> DEFINE shown == [ui EXCEPT !.loading = FALSE, !.enabled = server.status = "set"]
    <3>1. t \in attached => ~shown.sheet /\ ~shown.loading
      BY <1>0 DEF PageInv, Uis
    <3>2. Conclude(t, shown) /\ open' = open
      BY <2>5 DEF Loads
    <3> HIDE DEF shown
    <3> QED
      BY <1>1, <3>1, <3>2
  <2>6. CASE FindsItSet(t) \/ Finishes(t)
    BY <1>0, <1>1, <2>6 DEF FindsItSet, Finishes, PageInv
  <2>7. CASE Fails(t)
    <3>1. Conclude(t, ui) \/ Conclude(t, Failed)
      BY <2>7 DEF Fails, Fail
    <3>2. open' = open /\ (t \in attached => ~Failed.sheet /\ ~Failed.loading)
      BY <1>0, <2>7, Shows DEF Fails, PageInv
    <3> QED
      BY <1>0, <1>1, <3>1, <3>2 DEF PageInv
  <2>8. CASE OnlyGo
    BY <1>2, <2>8 DEF OnlyGo, pageVars
  <2> QED
    BY <1>3, <2>1, <2>2, <2>3, <2>4, <2>5, <2>6, <2>7, <2>8, Kinds
<1>4. ASSUME NEW t \in Tasks, NEW j \in Recovery, StartPage(t, j, ui'), attached = {},
             open', ui'.loading, ~ui'.sheet, ui'.words = NoWords
      PROVE  PageInv'
  <2>1. attached' = {t} /\ job'[t] = j
    BY <1>4, Starting DEF StartPage
  <2> QED
    BY <1>4, <2>1 DEF PageInv
<1>5. ASSUME NEW t \in Tasks, OpenPage(t) \/ StateReset(t)
      PROVE  PageInv'
  <2>1. ui' = [UiInit EXCEPT !.loading = TRUE] /\ StartPage(t, "load", ui') /\ open'
        /\ attached = {}
    BY <1>0, <1>5 DEF OpenPage, StateReset, StartPage, PageInv
  <2>2. ui'.loading /\ ~ui'.sheet /\ ui'.words = NoWords
    BY <2>1 DEF UiInit
  <2> QED
    BY <1>4, <2>1, <2>2 DEF Recovery
<1>6. ASSUME NEW t \in Tasks, Toggle(t)
      PROVE  PageInv'
  <2>1. /\ ui' = [ui EXCEPT !.loading = TRUE] /\ open' /\ ~ui.loading /\ ui.words = NoWords
        /\ StartPage(t, "disable_start", ui') \/ StartPage(t, "enable_start", ui')
    BY <1>6 DEF Toggle, StartPage
  <2>2. attached = {} /\ ~ui.sheet
    BY <1>0, <2>1 DEF PageInv
  <2>3. ui'.loading /\ ~ui'.sheet /\ ui'.words = NoWords
    BY <1>0, <2>1, <2>2 DEF Uis
  <2> QED
    BY <1>4, <2>1, <2>2, <2>3 DEF Recovery
<1>7. ASSUME NEW t \in Tasks, Submit(t)
      PROVE  PageInv'
  <2>1. /\ ui' = [ui EXCEPT !.sheet = FALSE] /\ open' = open /\ ui.sheet
        /\ StartPage(t, "disable_auth", ui') \/ StartPage(t, "enable_auth", ui')
    BY <1>7 DEF Submit, StartPage
  <2>2. attached = {} /\ open /\ ui.loading /\ ui.words = NoWords
    BY <1>0, <2>1 DEF PageInv
  <2>3. ui'.loading /\ ~ui'.sheet /\ ui'.words = NoWords
    BY <1>0, <2>1, <2>2 DEF Uis
  <2> QED
    BY <1>4, <2>1, <2>2, <2>3 DEF Recovery
<1>8. CASE \E t \in Tasks, j \in Features : Feature(t, j)
  <2>1. PICK t \in Tasks, j \in Features : Feature(t, j)
    BY <1>8
  <2>2. UNCHANGED <<ui, open, attached>> /\ \A u \in attached : job'[u] = job[u]
    BY <1>0, <2>1, Starting DEF Feature
  <2> QED
    BY <1>2, <2>2
<1>9. CASE Drag
  <2>1. /\ ui.sheet /\ ui' = [ui EXCEPT !.sheet = FALSE]
        /\ UNCHANGED <<open, attached, job>>
    BY <1>9 DEF Drag, jobVars
  <2>2. ~ui'.sheet /\ ui'.loading = ui.loading /\ ui'.words = ui.words
    BY <1>0, <2>1 DEF Uis
  <2> QED
    BY <1>0, <2>1, <2>2 DEF PageInv
<1>10. CASE ClosePage
  BY <1>10 DEF ClosePage, PageInv, UiInit
<1>11. CASE Change \/ UNCHANGED vars
  BY <1>2, <1>11 DEF Change, pageVars, jobVars, vars
<1> QED
  BY <1>3, <1>5, <1>6, <1>7, <1>8, <1>9, <1>10, <1>11 DEF Next

\* What the kinds of step leave of the server's state.
LEMMA ServerFields ==
    ASSUME IInv, NEW t \in Tasks
    PROVE  /\ GoesOn(t) => server'.words = server.words /\ server'.status = server.status
           /\ SetsPhrase(t) => server'.words = words[t] /\ server'.status = "set"
           /\ Locks(t) => server'.words = server.words /\ server'.status = server.status
           /\ Reactivates(t) => server'.words = words[t] /\ server'.status = "set"
           /\ Disables(t) => server'.words = NoWords /\ server'.status = "unset"
           /\ Fails(t) => \/ /\ writer' = writer /\ server'.words = server.words
                             /\ server'.status = server.status
                          \/ writer' = t
           /\ Change => \/ /\ writer' = writer /\ server'.words = server.words
                           /\ server'.status = server.status
                        \/ writer' = World /\ server'.words = NoWords
<1>0. server \in [scope : BOOLEAN, status : Statuses, words : Phrases]
  BY DEF IInv, TypeOK
<1>1. GoesOn(t) => server'.words = server.words /\ server'.status = server.status
  BY <1>0 DEF GoesOn
<1>2. SetsPhrase(t) => server'.words = words[t] /\ server'.status = "set"
  BY <1>0 DEF SetsPhrase
<1>3. Locks(t) => server'.words = server.words /\ server'.status = server.status
  BY <1>0 DEF Locks
<1>4. Reactivates(t) => server'.words = words[t] /\ server'.status = "set"
  BY <1>0 DEF Reactivates
<1>5. Disables(t) => server'.words = NoWords /\ server'.status = "unset"
  BY <1>0 DEF Disables
<1>6. Fails(t) => \/ /\ writer' = writer /\ server'.words = server.words
                     /\ server'.status = server.status
                  \/ writer' = t
  BY <1>0 DEF Fails, FailsAfter
<1>7. Change => \/ /\ writer' = writer /\ server'.words = server.words
                   /\ server'.status = server.status
                \/ writer' = World /\ server'.words = NoWords
  BY <1>0 DEF Change
<1> QED
  BY <1>1, <1>2, <1>3, <1>4, <1>5, <1>6, <1>7

\* The page enables only what its switch says is not enabled.
LEMMA SwitchStep ==
    ASSUME IInv, [Next]_vars
    PROVE  SwitchInv'
<1>0. SwitchInv /\ PageInv /\ attached \subseteq Tasks /\ ui \in Uis
  BY DEF IInv, TypeOK, Uis
<1>1. ASSUME NEW t \in Tasks, NEW shown, Conclude(t, shown),
             t \in attached => ~(shown.sheet /\ shown.auth = "enable" /\ shown.enabled)
      PROVE  SwitchInv'
  <2>1. /\ attached' = attached \ {t} /\ ui' = IF t \in attached THEN shown ELSE ui
        /\ \A u \in attached' : job'[u] = job[u]
    BY <1>0, <1>1, Ending
  <2>2. CASE t \in attached
    <3>1. attached' = {}
      BY <1>0, <2>1, <2>2 DEF PageInv
    <3> QED
      BY <1>1, <2>1, <2>2, <3>1 DEF SwitchInv
  <2>3. CASE t \notin attached
    BY <1>0, <2>1, <2>3 DEF SwitchInv
  <2> QED
    BY <2>2, <2>3
<1>2. ASSUME UNCHANGED <<ui, attached>>, \A u \in attached : job'[u] = job[u]
      PROVE  SwitchInv'
  BY <1>0, <1>2 DEF SwitchInv
<1>3. ASSUME NEW t \in Tasks, Step(t)
      PROVE  SwitchInv'
  <2>0. t \in attached => ~ui.sheet
    BY <1>0 DEF PageInv
  <2>1. CASE GoesOn(t) \/ SetsPhrase(t)
    BY <1>2, <2>1, GoingOn DEF GoesOn, SetsPhrase
  <2>2. CASE Locks(t) \/ Reactivates(t)
    BY <1>1, <2>0, <2>2, Shows DEF Locks, Reactivates
  <2>3. CASE Disables(t)
    <3> DEFINE shown == [ui EXCEPT !.loading = FALSE, !.enabled = FALSE, !.auth = "no"]
    <3>1. ~shown.enabled
      BY <1>0 DEF Uis
    <3>2. Conclude(t, shown)
      BY <2>3 DEF Disables
    <3> HIDE DEF shown
    <3> QED
      BY <1>1, <3>1, <3>2
  <2>4. CASE AsksPassword(t)
    <3> DEFINE shown == [ui EXCEPT !.auth = IF job[t] = "disable_start" THEN "disable"
                                            ELSE "enable", !.sheet = TRUE]
    <3>1. shown.auth = (IF job[t] = "disable_start" THEN "disable" ELSE "enable")
          /\ shown.enabled = ui.enabled
      BY <1>0 DEF Uis
    <3>2. Conclude(t, shown) /\ job[t] \in {"enable_start", "disable_start"}
      BY <2>4 DEF AsksPassword
    <3> HIDE DEF shown
    <3>3. t \in attached => ~(shown.auth = "enable" /\ shown.enabled)
      BY <1>0, <3>1, <3>2 DEF SwitchInv, Enabling
    <3> QED
      BY <1>1, <3>2, <3>3
  <2>5. CASE Loads(t)
    <3> DEFINE shown == [ui EXCEPT !.loading = FALSE, !.enabled = server.status = "set"]
    <3>1. shown.sheet = ui.sheet
      BY <1>0 DEF Uis
    <3>2. Conclude(t, shown)
      BY <2>5 DEF Loads
    <3> HIDE DEF shown
    <3> QED
      BY <1>1, <2>0, <3>1, <3>2
  <2>6. CASE FindsItSet(t) \/ Finishes(t)
    BY <1>1, <2>0, <2>6 DEF FindsItSet, Finishes
  <2>7. CASE Fails(t)
    <3>1. Conclude(t, ui) \/ Conclude(t, Failed)
      BY <2>7 DEF Fails, Fail
    <3> QED
      BY <1>1, <2>0, <3>1, Shows
  <2>8. CASE OnlyGo
    BY <1>2, <2>8 DEF OnlyGo, pageVars
  <2> QED
    BY <1>3, <2>1, <2>2, <2>3, <2>4, <2>5, <2>6, <2>7, <2>8, Kinds
<1>4. ASSUME NEW t \in Tasks, NEW j \in Recovery, StartPage(t, j, ui'), attached = {},
             ~ui'.sheet, j \in Enabling => ~ui'.enabled
      PROVE  SwitchInv'
  <2>1. attached' = {t} /\ job'[t] = j
    BY <1>4, Starting DEF StartPage
  <2> QED
    BY <1>4, <2>1 DEF SwitchInv
<1>5. ASSUME NEW t \in Tasks, OpenPage(t) \/ StateReset(t)
      PROVE  SwitchInv'
  <2>1. ui' = [UiInit EXCEPT !.loading = TRUE] /\ StartPage(t, "load", ui') /\ attached = {}
    BY <1>0, <1>5 DEF OpenPage, StateReset, StartPage, PageInv
  <2>2. ~ui'.sheet
    BY <2>1 DEF UiInit
  <2> QED
    BY <1>4, <2>1, <2>2 DEF Recovery, Enabling
<1>6. ASSUME NEW t \in Tasks, Toggle(t)
      PROVE  SwitchInv'
  <2>1. /\ ui' = [ui EXCEPT !.loading = TRUE] /\ ~ui.loading
        /\ StartPage(t, IF ui.enabled THEN "disable_start" ELSE "enable_start", ui')
    BY <1>6 DEF Toggle, StartPage
  <2>2. attached = {} /\ ~ui.sheet
    BY <1>0, <2>1 DEF PageInv
  <2>3. ~ui'.sheet /\ ui'.enabled = ui.enabled
    BY <1>0, <2>1, <2>2 DEF Uis
  <2> QED
    BY <1>4, <2>1, <2>2, <2>3 DEF Recovery, Enabling
<1>7. ASSUME NEW t \in Tasks, Submit(t)
      PROVE  SwitchInv'
  <2>1. /\ ui' = [ui EXCEPT !.sheet = FALSE] /\ ui.sheet
        /\ StartPage(t, IF ui.auth = "disable" THEN "disable_auth" ELSE "enable_auth", ui')
    BY <1>7 DEF Submit, StartPage
  <2>2. attached = {} /\ ui.auth \in {"enable", "disable"}
    BY <1>0, <2>1 DEF PageInv
  <2>3. ~ui'.sheet /\ ui'.enabled = ui.enabled
    BY <1>0, <2>1 DEF Uis
  <2>4. CASE ui.auth = "disable"
    BY <1>4, <2>1, <2>2, <2>3, <2>4 DEF Recovery, Enabling
  <2>5. CASE ui.auth = "enable"
    BY <1>0, <1>4, <2>1, <2>2, <2>3, <2>5 DEF Recovery, SwitchInv
  <2> QED
    BY <2>2, <2>4, <2>5
<1>8. CASE \E t \in Tasks, j \in Features : Feature(t, j)
  <2>1. PICK t \in Tasks, j \in Features : Feature(t, j)
    BY <1>8
  <2>2. UNCHANGED <<ui, attached>> /\ \A u \in attached : job'[u] = job[u]
    BY <1>0, <2>1, Starting DEF Feature
  <2> QED
    BY <1>2, <2>2
<1>9. CASE Drag
  <2>1. ui' = [ui EXCEPT !.sheet = FALSE] /\ UNCHANGED <<attached, job>>
    BY <1>9 DEF Drag, jobVars
  <2>2. ~ui'.sheet /\ ui'.enabled = ui.enabled
    BY <1>0, <2>1 DEF Uis
  <2> QED
    BY <1>0, <2>1, <2>2 DEF SwitchInv
<1>10. CASE ClosePage
  BY <1>10 DEF ClosePage, SwitchInv, UiInit
<1>11. CASE Change \/ UNCHANGED vars
  BY <1>2, <1>11 DEF Change, pageVars, jobVars, vars
<1> QED
  BY <1>3, <1>5, <1>6, <1>7, <1>8, <1>9, <1>10, <1>11 DEF Next

\* Before the lock the phrase is set, and the page does not know yet.
LEMMA SetStep ==
    ASSUME IInv, [Next]_vars
    PROVE  SetInv'
<1>0. SetInv /\ PageInv /\ attached \subseteq Tasks
  BY DEF IInv, TypeOK
<1> SUFFICES ASSUME NEW v \in Tasks, todo'[v] = <<"lock">>
             PROVE  /\ v \in attached' => writer' # Nobody
                    /\ writer' = v => server'.words = words'[v] /\ server'.status = "set"
  BY DEF SetInv
<1> DEFINE Kept == /\ v \in attached' => writer' # Nobody
                   /\ writer' = v => server'.words = words'[v] /\ server'.status = "set"
<1>1. ASSUME NEW t \in Tasks, NEW shown, Conclude(t, shown),
             \/ /\ writer' = writer /\ server'.words = server.words
                /\ server'.status = server.status
             \/ t \in attached /\ writer' = Nobody
             \/ writer' = t
      PROVE  Kept
  <2>1. /\ todo'[t] = <<>> /\ attached' = attached \ {t}
        /\ \A u \in Tasks : u # t => todo'[u] = todo[u] /\ words'[u] = words[u]
    BY <1>1, Ending
  <2>2. v # t /\ todo[v] = <<"lock">> /\ words'[v] = words[v]
    BY <2>1
  <2>3. t \in attached => v \notin attached
    BY <1>0, <2>2 DEF PageInv
  <2> QED
    BY <1>0, <1>1, <2>1, <2>2, <2>3, NobodyElse DEF SetInv
<1>2. ASSUME NEW t \in Tasks, Step(t)
      PROVE  Kept
  <2>1. CASE GoesOn(t)
    <3>1. PICK rest : Continue(t, rest) /\ rest # <<"lock">>
      BY <2>1 DEF GoesOn
    <3>2. todo'[t] = rest /\ UNCHANGED <<words, attached>>
          /\ \A u \in Tasks : u # t => todo'[u] = todo[u]
      BY <3>1, GoingOn
    <3>3. writer' = writer /\ server'.words = server.words /\ server'.status = server.status
      BY <2>1, ServerFields DEF GoesOn
    <3> QED
      BY <1>0, <3>1, <3>2, <3>3 DEF SetInv
  <2>2. CASE SetsPhrase(t)
    <3>1. writer' = t /\ server'.words = words[t] /\ server'.status = "set" /\ words' = words
      BY <2>2, ServerFields, GoingOn DEF SetsPhrase
    <3> QED
      BY <3>1, NobodyElse
  <2>3. CASE Locks(t)
    BY <1>1, <2>3, ServerFields DEF Locks
  <2>4. CASE Reactivates(t) \/ Disables(t)
    BY <1>1, <2>4 DEF Reactivates, Disables
  <2>5. CASE AsksPassword(t) \/ Loads(t) \/ FindsItSet(t) \/ Finishes(t)
    BY <1>1, <2>5 DEF AsksPassword, Loads, FindsItSet, Finishes
  <2>6. CASE Fails(t)
    <3>1. \E shown : Conclude(t, shown)
      BY <2>6 DEF Fails, Fail
    <3> QED
      BY <1>1, <2>6, <3>1, ServerFields
  <2>7. CASE OnlyGo
    BY <1>0, <2>7 DEF OnlyGo, pageVars, SetInv
  <2> QED
    BY <1>2, <2>1, <2>2, <2>3, <2>4, <2>5, <2>6, <2>7, Kinds
<1>3. ASSUME NEW t \in Tasks, NEW j \in Recovery \union Features, Start(t, j),
             attached' \subseteq attached \union {t}
      PROVE  Kept
  <2>1. /\ todo'[t] = Program(j) /\ UNCHANGED <<server, writer>>
        /\ \A u \in Tasks : u # t => todo'[u] = todo[u] /\ words'[u] = words[u]
    BY <1>3, Starting
  <2>2. v # t
    BY <1>3, <2>1, NoLockFirst DEF EnableRest
  <2> QED
    BY <1>0, <1>3, <2>1, <2>2 DEF SetInv
<1>4. CASE \E t \in Tasks : OpenPage(t) \/ Toggle(t) \/ Submit(t) \/ StateReset(t)
  BY <1>3, <1>4, PageStarts
<1>5. CASE \E t \in Tasks, j \in Features : Feature(t, j)
  BY <1>3, <1>5 DEF Feature
<1>6. CASE Drag \/ ClosePage \/ UNCHANGED vars
  <2>1. UNCHANGED <<todo, words, server, writer>> /\ attached' \subseteq attached
    BY <1>0, <1>6 DEF Drag, ClosePage, vars, pageVars, jobVars, ghosts
  <2> QED
    BY <1>0, <2>1 DEF SetInv
<1>7. CASE Change
  <2>1. UNCHANGED <<todo, words, attached>>
    BY <1>7 DEF Change, pageVars, jobVars
  <2> QED
    BY <1>0, <1>7, <2>1, ServerFields, NobodyElse DEF SetInv, World, Nobody
<1> QED
  BY <1>2, <1>4, <1>5, <1>6, <1>7 DEF Next

\* The switch is only wrong before a load has set it.
LEMMA FlagStep ==
    ASSUME IInv, [Next]_vars
    PROVE  FlagInv'
<1>0. FlagInv /\ PageInv /\ SetInv /\ attached \subseteq Tasks /\ ui \in Uis
  BY DEF IInv, TypeOK, Uis
<1>1. ASSUME UNCHANGED <<ui, open, attached>>, \A u \in attached : job'[u] = job[u],
             writer' = Nobody => writer = Nobody /\ server'.status = server.status
      PROVE  FlagInv'
  BY <1>0, <1>1 DEF FlagInv
\* A job of another page or screen ends.
<1>2. ASSUME NEW t \in Tasks, NEW shown, Conclude(t, shown), t \notin attached, open' = open,
             writer' = Nobody => writer = Nobody /\ server'.status = server.status
      PROVE  FlagInv'
  <2>1. attached' = attached /\ ui' = ui /\ \A u \in attached : job'[u] = job[u]
    BY <1>0, <1>2, Ending
  <2> QED
    BY <1>1, <1>2, <2>1
\* A job of the page ends with the switch as it was, and was not a load.
<1>3. ASSUME NEW t \in Tasks, NEW shown, Conclude(t, shown), t \in attached, open' = open,
             job[t] # "load", shown.enabled = ui.enabled,
             writer' = Nobody => writer = Nobody /\ server'.status = server.status
      PROVE  FlagInv'
  <2>1. ui' = shown
    BY <1>3, Ending
  <2>2. open /\ writer = Nobody => (ui.enabled <=> server.status = "set")
    BY <1>0, <1>3 DEF FlagInv
  <2> QED
    BY <1>3, <2>1, <2>2 DEF FlagInv
\* ... or with the switch set to what the server has.
<1>4. ASSUME NEW t \in Tasks, NEW shown, Conclude(t, shown), t \in attached,
             shown.enabled <=> server'.status = "set"
      PROVE  FlagInv'
  <2>1. ui' = shown
    BY <1>4, Ending
  <2> QED
    BY <1>4, <2>1 DEF FlagInv
<1>5. ASSUME NEW t \in Tasks, Step(t)
      PROVE  FlagInv'
  <2>1. CASE GoesOn(t)
    <3>1. UNCHANGED <<ui, open, attached, job, writer>> /\ server'.status = server.status
      BY <2>1, GoingOn, ServerFields DEF GoesOn
    <3> QED
      BY <1>1, <3>1
  <2>2. CASE SetsPhrase(t)
    <3>1. writer' # Nobody
      BY <2>2, NobodyElse DEF SetsPhrase
    <3> QED
      BY <3>1 DEF FlagInv
  <2>3. CASE Locks(t)
    <3>1. /\ Conclude(t, Enabled(t)) /\ open' = open /\ server'.status = server.status
          /\ writer' = IF t \in attached /\ writer = t THEN Nobody ELSE writer
          /\ todo[t] = <<"lock">>
      BY <2>3, ServerFields DEF Locks
    <3>2. CASE t \notin attached
      BY <1>2, <3>1, <3>2
    <3>3. CASE t \in attached /\ writer = t
      <4>1. server.status = "set" /\ Enabled(t).enabled = TRUE
        BY <1>0, <3>1, <3>3, Shows DEF SetInv
      <4> QED
        BY <1>4, <3>1, <3>3, <4>1
    <3>4. CASE t \in attached /\ writer # t
      <4>1. writer' # Nobody
        BY <1>0, <3>1, <3>4 DEF SetInv
      <4> QED
        BY <4>1 DEF FlagInv
    <3> QED
      BY <3>2, <3>3, <3>4
  <2>4. CASE Reactivates(t)
    <3>1. Conclude(t, Enabled(t)) /\ open' = open /\ server'.status = "set"
          /\ Enabled(t).enabled = TRUE /\ (t \notin attached => writer' # Nobody)
      BY <2>4, ServerFields, Shows, NobodyElse DEF Reactivates
    <3> QED
      BY <1>2, <1>4, <3>1
  <2>5. CASE Disables(t)
    <3> DEFINE shown == [ui EXCEPT !.loading = FALSE, !.enabled = FALSE, !.auth = "no"]
    <3>1. Conclude(t, shown) /\ open' = open /\ server'.status = "unset"
          /\ (t \notin attached => writer' # Nobody)
      BY <2>5, ServerFields, NobodyElse DEF Disables
    <3>2. ~shown.enabled
      BY <1>0 DEF Uis
    <3> HIDE DEF shown
    <3> QED
      BY <1>2, <1>4, <3>1, <3>2
  <2>6. CASE AsksPassword(t)
    <3> DEFINE shown == [ui EXCEPT !.auth = IF job[t] = "disable_start" THEN "disable"
                                            ELSE "enable", !.sheet = TRUE]
    <3>1. /\ Conclude(t, shown) /\ UNCHANGED <<server, open, writer>> /\ job[t] # "load"
      BY <2>6 DEF AsksPassword
    <3>2. shown.enabled = ui.enabled
      BY <1>0 DEF Uis
    <3> HIDE DEF shown
    <3> QED
      BY <1>2, <1>3, <3>1, <3>2
  <2>7. CASE Loads(t)
    <3> DEFINE shown == [ui EXCEPT !.loading = FALSE, !.enabled = server.status = "set"]
    <3>1. Conclude(t, shown) /\ UNCHANGED <<server, open>> /\ (t \notin attached => writer' = writer)
      BY <2>7 DEF Loads
    <3>2. shown.enabled <=> server.status = "set"
      BY <1>0 DEF Uis
    <3> HIDE DEF shown
    <3> QED
      BY <1>2, <1>4, <3>1, <3>2
  <2>8. CASE FindsItSet(t) \/ Finishes(t)
    <3>1. /\ Conclude(t, ui) /\ UNCHANGED <<server, open, writer>> /\ job[t] # "load"
      BY <2>8 DEF FindsItSet, Finishes, Enabling, Features
    <3> QED
      BY <1>2, <1>3, <3>1
  <2>9. CASE Fails(t)
    <3>1. open' = open /\ (writer' = Nobody => writer = Nobody /\ server'.status = server.status)
      <4>1. \/ writer' = writer /\ server'.status = server.status
            \/ writer' = t
        BY <2>9, ServerFields
      <4> QED
        BY <2>9, <4>1, NobodyElse DEF Fails
    <3>2. CASE t \notin attached
      <4>1. Conclude(t, ui) \/ Conclude(t, Failed)
        BY <2>9 DEF Fails, Fail
      <4> QED
        BY <1>2, <3>1, <3>2, <4>1
    <3>3. CASE t \in attached /\ StepOf(t) \in {"status", "twofa"}
      <4>1. Conclude(t, ui)
        BY <2>9, <3>3 DEF Fails, Fail
      <4>2. attached' = {} /\ ui' = ui /\ ui.loading /\ ~ui.sheet
        BY <1>0, <3>3, <4>1, Ending DEF PageInv
      <4> QED
        BY <4>2 DEF FlagInv
    <3>4. CASE t \in attached /\ StepOf(t) \notin {"status", "twofa"}
      <4>1. Conclude(t, Failed) /\ job[t] # "load"
        BY <2>9, <3>4, LoadAsks DEF Fails, Fail
      <4> QED
        BY <1>3, <3>1, <3>4, <4>1, Shows
    <3> QED
      BY <3>2, <3>3, <3>4
  <2>10. CASE OnlyGo
    BY <1>1, <2>10 DEF OnlyGo, pageVars
  <2> QED
    BY <1>5, <2>1, <2>2, <2>3, <2>4, <2>5, <2>6, <2>7, <2>8, <2>9, <2>10, Kinds
<1>6. ASSUME NEW t \in Tasks, OpenPage(t) \/ StateReset(t)
      PROVE  FlagInv'
  <2>1. /\ ui' = [UiInit EXCEPT !.loading = TRUE] /\ Start(t, "load") /\ attached = {}
        /\ attached' = attached \union {t}
    BY <1>0, <1>6 DEF OpenPage, StateReset, StartPage, PageInv
  <2>2. ~ui'.sheet /\ ui'.loading /\ attached' = {t} /\ job'[t] = "load"
    BY <2>1, Starting DEF UiInit
  <2> QED
    BY <2>2 DEF FlagInv
<1>7. ASSUME NEW t \in Tasks, NEW j, Start(t, j), ui'.enabled = ui.enabled, open' = open,
             ~ui.loading \/ ui.sheet
      PROVE  FlagInv'
  <2>1. UNCHANGED <<server, writer>>
    BY <1>7, Starting
  <2> QED
    BY <1>0, <1>7, <2>1 DEF FlagInv
<1>8. ASSUME NEW t \in Tasks, Toggle(t) \/ Submit(t)
      PROVE  FlagInv'
  <2>1. /\ ui' = [ui EXCEPT !.loading = TRUE] \/ ui' = [ui EXCEPT !.sheet = FALSE]
        /\ ~ui.loading \/ ui.sheet
        /\ open' = open
        /\ \E j : Start(t, j)
    BY <1>8 DEF Toggle, Submit, StartPage
  <2>2. ui'.enabled = ui.enabled
    BY <1>0, <2>1 DEF Uis
  <2> QED
    BY <1>7, <2>1, <2>2
<1>9. ASSUME NEW t \in Tasks, NEW j \in Features, Feature(t, j)
      PROVE  FlagInv'
  <2>1. UNCHANGED <<ui, open, attached, server, writer>> /\ \A u \in attached : job'[u] = job[u]
    BY <1>0, <1>9, Starting DEF Feature
  <2> QED
    BY <1>1, <2>1
<1>10. CASE Drag
  <2>1. ui' = [ui EXCEPT !.sheet = FALSE] /\ ui.sheet /\ UNCHANGED <<open, server, writer>>
    BY <1>10 DEF Drag, ghosts
  <2>2. ui'.enabled = ui.enabled
    BY <1>0, <2>1 DEF Uis
  <2> QED
    BY <1>0, <2>1, <2>2 DEF FlagInv
<1>11. CASE ClosePage
  BY <1>11 DEF ClosePage, FlagInv
<1>12. CASE Change
  <2>2. UNCHANGED <<ui, open, attached, job>>
    BY <1>12 DEF Change, pageVars, jobVars
  <2>3. \/ writer' = writer /\ server'.status = server.status
        \/ writer' = World
    BY <1>12 DEF Change, IInv, TypeOK
  <2> QED
    BY <1>1, <2>2, <2>3 DEF Nobody, World
<1>13. CASE UNCHANGED vars
  BY <1>1, <1>13 DEF vars, pageVars, jobVars, ghosts
<1> QED
  BY <1>5, <1>6, <1>8, <1>9, <1>10, <1>11, <1>12, <1>13 DEF Next

\* The phrase the server has reaches the user, or is known as lost.
LEMMA SeenStep ==
    ASSUME IInv, [Next]_vars
    PROVE  SeenInv'
<1>0. /\ SeenInv /\ PageInv /\ attached \subseteq Tasks
      /\ \A t \in Tasks : OwnWords(t)
  BY DEF IInv, TypeOK, WordsInv
<1>1. ASSUME NEW t \in Tasks, NEW shown, Conclude(t, shown), lost \subseteq lost',
             \/ server'.words = NoWords
             \/ server'.words = words[t] /\ words[t] \in lost'
             \/ server'.words = words[t] /\ t \in attached /\ shown.words = words[t]
             \/ /\ server'.words = server.words
                /\ \/ todo[t] # <<"lock">>
                   \/ words[t] \in lost'
                   \/ shown.words = words[t]
      PROVE  SeenInv'
  <2>1. /\ seen' = seen \union {ui'.words} /\ attached' = attached \ {t}
        /\ ui' = IF t \in attached THEN shown ELSE ui
        /\ \A u \in Tasks : u # t => words'[u] = words[u]
    BY <1>1, Ending
  <2>2. NoWords \in seen'
    BY <1>0, <2>1 DEF SeenInv
  <2>3. CASE server'.words \in {NoWords, words[t]} /\ server'.words # server.words
    BY <1>1, <2>1, <2>2, <2>3 DEF SeenInv, PhraseReachesUser
  <2>4. CASE server'.words = server.words
    <3>1. CASE server.words \in seen \union lost
      BY <1>1, <2>1, <2>2, <2>4, <3>1 DEF SeenInv, PhraseReachesUser
    <3>2. CASE \E u \in attached \ {t} : server.words = words[u]
      <4>1. PICK u \in attached \ {t} : server.words = words[u]
        BY <3>2
      <4>2. u \in attached' /\ server'.words = words'[u]
        BY <1>0, <2>1, <2>4, <4>1
      <4> QED
        BY <2>2, <4>2 DEF SeenInv, PhraseReachesUser
    <3>3. CASE t \in attached /\ server.words = words[t]
      <4>1. CASE words[t] = NoWords
        BY <2>2, <2>4, <3>3, <4>1 DEF SeenInv, PhraseReachesUser
      <4>2. CASE words[t] # NoWords
        <5>1. todo[t] = <<"lock">>
          BY <1>0, <3>3, <4>2 DEF OwnWords
        <5>2. words[t] \in lost' \/ shown.words = words[t]
          BY <1>1, <2>4, <3>3, <4>2, <5>1
        <5> QED
          BY <2>1, <2>2, <2>4, <3>3, <5>2 DEF SeenInv, PhraseReachesUser
      <4> QED
        BY <4>1, <4>2
    <3> QED
      BY <1>0, <3>1, <3>2, <3>3 DEF SeenInv, PhraseReachesUser
  <2> QED
    BY <1>1, <2>3, <2>4
<1>2. ASSUME seen \subseteq seen', lost \subseteq lost', UNCHANGED <<attached, words>>,
             server'.words \in {server.words, NoWords}
      PROVE  SeenInv'
  BY <1>0, <1>2 DEF SeenInv, PhraseReachesUser
<1>3. ASSUME NEW t \in Tasks, Step(t)
      PROVE  SeenInv'
  <2>1. CASE GoesOn(t)
    BY <1>2, <2>1, GoingOn, ServerFields DEF GoesOn
  <2>2. CASE SetsPhrase(t)
    <3>1. server'.words = words[t] /\ UNCHANGED <<seen, lost, attached, words>>
      BY <2>2, GoingOn, ServerFields DEF SetsPhrase
    <3>2. words[t] = NoWords \/ words[t] \in lost \/ t \in attached
      BY <1>0 DEF OwnWords
    <3> QED
      BY <1>0, <3>1, <3>2 DEF SeenInv, PhraseReachesUser
  <2>3. CASE Locks(t)
    BY <1>1, <2>3, ServerFields, Shows DEF Locks
  <2>4. CASE Reactivates(t)
    <3>1. words[t] = NoWords \/ words[t] \in lost \/ t \in attached
      BY <1>0 DEF OwnWords
    <3> QED
      BY <1>1, <2>4, <3>1, ServerFields, Shows DEF Reactivates
  <2>5. CASE Disables(t)
    BY <1>1, <2>5, ServerFields DEF Disables
  <2>6. CASE AsksPassword(t) \/ Loads(t) \/ FindsItSet(t) \/ Finishes(t)
    BY <1>1, <2>6 DEF AsksPassword, Loads, FindsItSet, Finishes
  <2>7. CASE Fails(t)
    <3>1. PICK shown : Conclude(t, shown)
      BY <2>7 DEF Fails, Fail
    <3>2. CASE FailsAfter(t)
      <4>1. lost' = lost \union AtRisk(t)
        BY <3>2 DEF FailsAfter
      <4>2. todo[t] = <<"lock">> => words[t] \in lost'
        BY <4>1 DEF AtRisk, StepOf
      <4>3. \/ server'.words = server.words
            \/ StepOf(t) \in {"set", "reactivate"} /\ server'.words = words[t]
            \/ server'.words = NoWords
        BY <3>2 DEF FailsAfter, IInv, TypeOK
      <4>4. StepOf(t) \in {"set", "reactivate"} => words[t] \in lost'
        BY <4>1 DEF AtRisk
      <4> QED
        BY <1>1, <3>1, <4>1, <4>2, <4>3, <4>4
    <3>3. CASE todo[t] # <<"lock">> /\ UNCHANGED <<server, writer, lost>>
      BY <1>1, <3>1, <3>3
    <3> QED
      BY <2>7, <3>2, <3>3 DEF Fails
  <2>8. CASE OnlyGo
    BY <1>2, <2>8 DEF OnlyGo, pageVars
  <2> QED
    BY <1>3, <2>1, <2>2, <2>3, <2>4, <2>5, <2>6, <2>7, <2>8, Kinds
<1>4. ASSUME NEW t \in Tasks, NEW j, Start(t, j), attached \subseteq attached'
      PROVE  SeenInv'
  <2>1. /\ seen' = seen \intersect InUse /\ lost' = lost \intersect InUse
        /\ server' = server /\ t \notin attached
        /\ \A u \in Tasks : u # t => words'[u] = words[u]
    BY <1>4, Starting
  <2>2. server.words \in InUse /\ NoWords \in InUse
    BY DEF InUse
  <2>3. \A u \in attached : u \in attached' /\ words'[u] = words[u]
    BY <1>0, <1>4, <2>1
  <2> QED
    BY <1>0, <2>1, <2>2, <2>3 DEF SeenInv, PhraseReachesUser
<1>5. CASE \E t \in Tasks : OpenPage(t) \/ Toggle(t) \/ Submit(t) \/ StateReset(t)
  BY <1>4, <1>5, PageStarts
<1>6. CASE \E t \in Tasks, j \in Features : Feature(t, j)
  BY <1>4, <1>6 DEF Feature
<1>7. CASE ClosePage
  BY <1>0, <1>7 DEF ClosePage, jobVars, SeenInv, PhraseReachesUser
<1>8. CASE Drag \/ UNCHANGED vars
  BY <1>2, <1>8 DEF Drag, vars, pageVars, jobVars, ghosts
<1>9. CASE Change
  <2>1. server'.words \in {server.words, NoWords}
    BY <1>9 DEF Change, IInv, TypeOK
  <2> QED
    BY <1>2, <1>9, <2>1 DEF Change, pageVars, jobVars
<1> QED
  BY <1>3, <1>5, <1>6, <1>7, <1>8, <1>9 DEF Next

\* The words on the screen are the server's.
LEMMA ShownStep ==
    ASSUME IInv, [Next]_vars
    PROVE  ShownPhraseIsServers'
<1>0. /\ ShownPhraseIsServers /\ PageInv /\ SetInv /\ attached \subseteq Tasks /\ ui \in Uis
      /\ server \in [scope : BOOLEAN, status : Statuses, words : Phrases]
  BY DEF IInv, TypeOK, Uis
<1>1. ASSUME ui'.words \in {ui.words, NoWords},
             writer' = Nobody => writer = Nobody /\ server'.words = server.words
      PROVE  ShownPhraseIsServers'
  BY <1>0, <1>1 DEF ShownPhraseIsServers
\* A job ends without showing words.
<1>2. ASSUME NEW t \in Tasks, NEW shown, Conclude(t, shown), shown.words = ui.words,
             t \notin attached /\ writer' = Nobody =>
                 writer = Nobody /\ server'.words = server.words
      PROVE  ShownPhraseIsServers'
  <2>1. ui' = IF t \in attached THEN shown ELSE ui
    BY <1>2, Ending
  <2>2. CASE t \in attached
    <3>1. ui'.words = NoWords
      BY <1>0, <1>2, <2>1, <2>2 DEF PageInv
    <3> QED
      BY <3>1 DEF ShownPhraseIsServers
  <2>3. CASE t \notin attached
    BY <1>1, <1>2, <2>1, <2>3
  <2> QED
    BY <2>2, <2>3
\* It shows its own.
<1>3. ASSUME NEW t \in Tasks, Conclude(t, Enabled(t)), t \in attached,
             writer' = Nobody => server'.words = words[t]
      PROVE  ShownPhraseIsServers'
  <2>1. ui' = Enabled(t) /\ Enabled(t).words = words[t]
    BY <1>3, Ending, Shows
  <2> QED
    BY <1>3, <2>1 DEF ShownPhraseIsServers
<1>4. ASSUME NEW t \in Tasks, Step(t)
      PROVE  ShownPhraseIsServers'
  <2>1. CASE GoesOn(t)
    BY <1>1, <2>1, GoingOn, ServerFields DEF GoesOn
  <2>2. CASE SetsPhrase(t)
    <3>1. writer' # Nobody
      BY <2>2, NobodyElse DEF SetsPhrase
    <3> QED
      BY <3>1 DEF ShownPhraseIsServers
  <2>3. CASE Locks(t)
    <3>1. /\ Conclude(t, Enabled(t)) /\ server'.words = server.words
          /\ writer' = IF t \in attached /\ writer = t THEN Nobody ELSE writer
          /\ todo[t] = <<"lock">>
      BY <2>3, ServerFields DEF Locks
    <3>2. CASE t \in attached
      <4>1. writer' = Nobody => server.words = words[t]
        BY <1>0, <3>1, <3>2 DEF SetInv
      <4> QED
        BY <1>3, <3>1, <3>2, <4>1
    <3>3. CASE t \notin attached
      <4>1. ui' = ui
        BY <3>1, <3>3, Ending
      <4> QED
        BY <1>1, <3>1, <3>3, <4>1
    <3> QED
      BY <3>2, <3>3
  <2>4. CASE Reactivates(t)
    <3>1. /\ Conclude(t, Enabled(t)) /\ server'.words = words[t]
          /\ writer' = IF t \in attached THEN Nobody ELSE t
      BY <2>4, ServerFields DEF Reactivates
    <3>2. CASE t \in attached
      BY <1>3, <3>1, <3>2
    <3>3. CASE t \notin attached
      BY <3>1, <3>3, NobodyElse DEF ShownPhraseIsServers
    <3> QED
      BY <3>2, <3>3
  <2>5. CASE Disables(t)
    <3> DEFINE shown == [ui EXCEPT !.loading = FALSE, !.enabled = FALSE, !.auth = "no"]
    <3>1. Conclude(t, shown) /\ (t \notin attached => writer' # Nobody)
      BY <2>5, NobodyElse DEF Disables
    <3>2. shown.words = ui.words
      BY <1>0 DEF Uis
    <3> HIDE DEF shown
    <3> QED
      BY <1>2, <3>1, <3>2
  <2>6. CASE AsksPassword(t)
    <3> DEFINE shown == [ui EXCEPT !.auth = IF job[t] = "disable_start" THEN "disable"
                                            ELSE "enable", !.sheet = TRUE]
    <3>1. Conclude(t, shown) /\ UNCHANGED <<server, writer>>
      BY <2>6 DEF AsksPassword
    <3>2. shown.words = ui.words
      BY <1>0 DEF Uis
    <3> HIDE DEF shown
    <3> QED
      BY <1>2, <3>1, <3>2
  <2>7. CASE Loads(t)
    <3> DEFINE shown == [ui EXCEPT !.loading = FALSE, !.enabled = server.status = "set"]
    <3>1. Conclude(t, shown) /\ server' = server /\ (t \notin attached => writer' = writer)
      BY <2>7 DEF Loads
    <3>2. shown.words = ui.words
      BY <1>0 DEF Uis
    <3> HIDE DEF shown
    <3> QED
      BY <1>2, <3>1, <3>2
  <2>8. CASE FindsItSet(t) \/ Finishes(t)
    BY <1>2, <2>8 DEF FindsItSet, Finishes
  <2>9. CASE Fails(t)
    <3>1. writer' = Nobody => writer = Nobody /\ server'.words = server.words
      BY <2>9, ServerFields, NobodyElse
    <3>2. Conclude(t, ui) \/ Conclude(t, Failed)
      BY <2>9 DEF Fails, Fail
    <3> QED
      BY <1>2, <3>1, <3>2, Shows
  <2>10. CASE OnlyGo
    BY <1>1, <2>10 DEF OnlyGo, pageVars
  <2> QED
    BY <1>4, <2>1, <2>2, <2>3, <2>4, <2>5, <2>6, <2>7, <2>8, <2>9, <2>10, Kinds
<1>5. ASSUME NEW t \in Tasks, OpenPage(t) \/ Toggle(t) \/ Submit(t) \/ StateReset(t)
      PROVE  ShownPhraseIsServers'
  <2>1. \E j : Start(t, j)
    BY <1>5, PageStarts
  <2>2. ui'.words \in {ui.words, NoWords}
    BY <1>0, <1>5 DEF OpenPage, Toggle, Submit, StateReset, StartPage, UiInit, Uis
  <2> QED
    BY <1>1, <2>1, <2>2, Starting
<1>6. ASSUME NEW t \in Tasks, NEW j \in Features, Feature(t, j)
      PROVE  ShownPhraseIsServers'
  BY <1>1, <1>6, Starting DEF Feature
<1>7. CASE Drag
  BY <1>0, <1>1, <1>7 DEF Drag, ghosts, Uis
<1>8. CASE ClosePage
  <2>1. ui'.words = NoWords
    BY <1>8 DEF ClosePage, UiInit
  <2> QED
    BY <2>1 DEF ShownPhraseIsServers
<1>9. CASE Change
  <2>1. UNCHANGED ui
    BY <1>9 DEF Change, pageVars
  <2>2. \/ writer' = writer /\ server'.words = server.words
        \/ writer' = World
    BY <1>0, <1>9 DEF Change
  <2> QED
    BY <1>1, <2>1, <2>2 DEF Nobody, World
<1>10. CASE UNCHANGED vars
  BY <1>1, <1>10 DEF vars, pageVars, ghosts
<1> QED
  BY <1>4, <1>5, <1>6, <1>7, <1>8, <1>9, <1>10 DEF Next

\* The spinner turns for ever for a reason.
LEMMA SpinnerStep ==
    ASSUME IInv, [Next]_vars
    PROVE  SpinnerHasReason'
<1>0. /\ SpinnerHasReason /\ PageInv /\ FlagInv /\ SwitchInv /\ attached \subseteq Tasks
      /\ ui \in Uis
  BY DEF IInv, TypeOK, Uis
<1>1. ASSUME UNCHANGED <<ui, open, attached>>, reasons # {} => reasons' # {}
      PROVE  SpinnerHasReason'
  BY <1>0, <1>1 DEF SpinnerHasReason
<1>2. ASSUME NEW t \in Tasks, NEW shown, Conclude(t, shown), open' = open, reasons \subseteq reasons',
             t \in attached => ~shown.loading \/ shown.sheet \/ reasons' # {}
      PROVE  SpinnerHasReason'
  <2>1. attached' = attached \ {t} /\ ui' = IF t \in attached THEN shown ELSE ui
    BY <1>2, Ending
  <2>2. CASE t \in attached
    BY <1>2, <2>1, <2>2 DEF SpinnerHasReason
  <2>3. CASE t \notin attached
    BY <1>1, <1>2, <2>1, <2>3
  <2> QED
    BY <2>2, <2>3
<1>3. ASSUME NEW t \in Tasks, Step(t)
      PROVE  SpinnerHasReason'
  <2>1. CASE GoesOn(t) \/ SetsPhrase(t)
    BY <1>1, <2>1, GoingOn DEF GoesOn, SetsPhrase
  <2>2. CASE Locks(t) \/ Reactivates(t)
    BY <1>2, <2>2, Shows DEF Locks, Reactivates
  <2>3. CASE Disables(t)
    <3> DEFINE shown == [ui EXCEPT !.loading = FALSE, !.enabled = FALSE, !.auth = "no"]
    <3>1. Conclude(t, shown) /\ UNCHANGED <<open, reasons>>
      BY <2>3 DEF Disables
    <3>2. ~shown.loading
      BY <1>0 DEF Uis
    <3> HIDE DEF shown
    <3> QED
      BY <1>2, <3>1, <3>2
  <2>4. CASE AsksPassword(t)
    <3> DEFINE shown == [ui EXCEPT !.auth = IF job[t] = "disable_start" THEN "disable"
                                            ELSE "enable", !.sheet = TRUE]
    <3>1. Conclude(t, shown) /\ UNCHANGED <<open, reasons>>
      BY <2>4 DEF AsksPassword
    <3>2. shown.sheet
      BY <1>0 DEF Uis
    <3> HIDE DEF shown
    <3> QED
      BY <1>2, <3>1, <3>2
  <2>5. CASE Loads(t)
    <3> DEFINE shown == [ui EXCEPT !.loading = FALSE, !.enabled = server.status = "set"]
    <3>1. Conclude(t, shown) /\ UNCHANGED <<open, reasons>>
      BY <2>5 DEF Loads
    <3>2. ~shown.loading
      BY <1>0 DEF Uis
    <3> HIDE DEF shown
    <3> QED
      BY <1>2, <3>1, <3>2
  <2>6. CASE FindsItSet(t)
    <3>1. /\ Conclude(t, ui) /\ open' = open /\ job[t] \in Enabling /\ server.status = "set"
          /\ reasons' = IF t \in attached /\ writer # Nobody THEN reasons \union {"surprised"}
                        ELSE reasons
      BY <2>6 DEF FindsItSet
    <3>2. t \in attached => writer # Nobody
      <4>1. SUFFICES ASSUME t \in attached, writer = Nobody
                     PROVE  FALSE
        OBVIOUS
      <4>2. open /\ ~ui.enabled /\ job[t] # "load"
        BY <1>0, <3>1, <4>1 DEF PageInv, SwitchInv, Enabling
      <4> QED
        BY <1>0, <3>1, <4>1, <4>2 DEF FlagInv
    <3> QED
      BY <1>2, <3>1, <3>2
  <2>7. CASE Finishes(t)
    <3>1. t \notin attached
      BY <1>0, <2>7 DEF Finishes, PageInv, Features, Recovery
    <3> QED
      BY <1>2, <2>7, <3>1 DEF Finishes
  <2>8. CASE Fails(t)
    <3>1. CASE StepOf(t) \in {"status", "twofa"}
      BY <1>2, <2>8, <3>1 DEF Fails, Fail
    <3>2. CASE StepOf(t) \notin {"status", "twofa"}
      BY <1>2, <2>8, <3>2, Shows DEF Fails, Fail
    <3> QED
      BY <3>1, <3>2
  <2>9. CASE OnlyGo
    BY <1>1, <2>9 DEF OnlyGo, pageVars
  <2> QED
    BY <1>3, <2>1, <2>2, <2>3, <2>4, <2>5, <2>6, <2>7, <2>8, <2>9, Kinds
<1>4. CASE \E t \in Tasks : OpenPage(t) \/ Toggle(t) \/ Submit(t) \/ StateReset(t)
  BY <1>4, PageStarts DEF SpinnerHasReason
<1>5. CASE \E t \in Tasks, j \in Features : Feature(t, j)
  BY <1>1, <1>5 DEF Feature
<1>6. CASE Drag
  BY <1>6 DEF Drag, SpinnerHasReason
<1>7. CASE ClosePage
  BY <1>7 DEF ClosePage, SpinnerHasReason
<1>8. CASE Change \/ UNCHANGED vars
  BY <1>1, <1>8 DEF Change, pageVars, vars
<1> QED
  BY <1>3, <1>4, <1>5, <1>6, <1>7, <1>8 DEF Next

\* A step of an enabling job that has opened the scope.
LEMMA RestStep ==
    ASSUME IInv, NEW t \in Tasks, todo[t] \in EnableRest
    PROVE  /\ StepOf(t) \in {"relock", "set", "lock"}
           /\ StepOf(t) # "lock" => Len(todo[t]) # 1 /\ Tail(todo[t]) \in EnableRest
<1>1. CASE todo[t] = <<"relock", "set", "lock">>
  <2>1. Head(todo[t]) = "relock" /\ Len(todo[t]) = 3 /\ Tail(todo[t]) = <<"set", "lock">>
        /\ todo[t] # <<>>
    BY <1>1
  <2> QED
    BY <2>1 DEF StepOf, EnableRest
<1>2. CASE todo[t] = <<"set", "lock">>
  <2>1. Head(todo[t]) = "set" /\ Len(todo[t]) = 2 /\ Tail(todo[t]) = <<"lock">> /\ todo[t] # <<>>
    BY <1>2
  <2> QED
    BY <2>1 DEF StepOf, EnableRest
<1>3. CASE todo[t] = <<"lock">>
  <2>1. Head(todo[t]) = "lock" /\ todo[t] # <<>>
    BY <1>3
  <2> QED
    BY <2>1 DEF StepOf
<1> QED
  BY <1>1, <1>2, <1>3 DEF EnableRest

\* Failures and changes are counted within their bound.
LEMMA Counted ==
    ASSUME IInv, Break
    PROVE  faults' > 0 /\ faults' \in 0..MaxEvents
  BY SettingsAssumption DEF IInv, TypeOK, Break

\* An enabling job that has opened the scope still runs.
LEMMA ScopeStep ==
    ASSUME IInv, [Next]_vars
    PROVE  ScopeInv'
<1>0. /\ ScopeInv /\ StageInv /\ faults \in 0..MaxEvents
      /\ server \in [scope : BOOLEAN, status : Statuses, words : Phrases]
  BY DEF IInv, TypeOK
<1>1. ASSUME \A u \in Tasks : todo[u] \in EnableRest => todo'[u] \in EnableRest,
             server'.scope /\ opener' = "enable" => server.scope /\ opener = "enable",
             faults' = faults
      PROVE  ScopeInv'
  BY <1>0, <1>1 DEF ScopeInv
<1>2. ASSUME Break
      PROVE  ScopeInv'
  BY <1>2, Counted DEF ScopeInv
<1>3. ASSUME NEW t \in Tasks, todo[t] \notin EnableRest, UNCHANGED <<server, opener, faults>>,
             \A u \in Tasks : u # t => todo'[u] = todo[u]
      PROVE  ScopeInv'
  BY <1>1, <1>3
<1>4. ASSUME NEW t \in Tasks, Status(t)
      PROVE  ScopeInv'
  <2>1. todo[t] \notin EnableRest
    BY <1>4, RestStep DEF Status
  <2>2. \A u \in Tasks : u # t => todo'[u] = todo[u]
    BY <1>4, JobSteps, GoingOn, Ending DEF Step
  <2> QED
    BY <1>2, <1>3, <1>4, <2>1, <2>2 DEF Status
<1>5. ASSUME NEW t \in Tasks, Advance(t), StepOf(t) # "lock"
      PROVE  \A u \in Tasks : todo[u] \in EnableRest => todo'[u] \in EnableRest
  <2>1. CASE todo[t] \in EnableRest
    <3>1. Continue(t, Tail(todo[t])) /\ Tail(todo[t]) \in EnableRest
      BY <1>5, <2>1, RestStep DEF Advance
    <3> QED
      BY <3>1, GoingOn
  <2>2. CASE todo[t] \notin EnableRest
    BY <1>5, <2>2, GoingOn, Ending DEF Advance
  <2> QED
    BY <2>1, <2>2
<1>6. ASSUME NEW t \in Tasks, Accepted(t)
      PROVE  ScopeInv'
  <2>1. server' \in Effect(t) /\ Advance(t) /\ Opened(t) /\ faults' = faults
    BY <1>6 DEF Accepted, counters
  <2>2. CASE StepOf(t) = "lock"
    <3>1. ~server'.scope
      BY <1>0, <2>1, <2>2 DEF Effect
    <3> QED
      BY <3>1 DEF ScopeInv
  <2>3. CASE StepOf(t) \notin {"unlock", "lock"}
    <3>1. server'.scope = server.scope /\ opener' = opener
      BY <1>0, <2>1, <2>3 DEF Effect, Opened
    <3> QED
      BY <1>1, <1>5, <2>1, <2>3, <3>1
  <2>4. CASE StepOf(t) = "unlock" /\ todo[t] = <<"unlock", "relock", "set", "lock">>
    <3>1. Len(todo[t]) # 1 /\ Tail(todo[t]) = <<"relock", "set", "lock">>
      BY <2>4
    <3>2. todo'[t] = <<"relock", "set", "lock">>
      BY <2>1, <3>1, GoingOn DEF Advance
    <3> QED
      BY <3>2 DEF ScopeInv, EnableRest
  <2>5. CASE StepOf(t) = "unlock" /\ todo[t] # <<"unlock", "relock", "set", "lock">>
    <3>1. "set" \notin {todo[t][i] : i \in DOMAIN todo[t]}
      <4>1. todo[t] \in {<<"unlock", "relock", "reactivate">>, <<"unlock", "enable_2fa">>,
                         <<"unlock", "pgp">>, <<"unlock", "delete">>}
        BY <1>0, <2>5, StepFacts DEF StageInv
      <4>2. CASE todo[t] = <<"unlock", "relock", "reactivate">>
        BY <4>2
      <4>3. CASE todo[t] = <<"unlock", "enable_2fa">>
        BY <4>3
      <4>4. CASE todo[t] = <<"unlock", "pgp">>
        BY <4>4
      <4>5. CASE todo[t] = <<"unlock", "delete">>
        BY <4>5
      <4> QED
        BY <4>1, <4>2, <4>3, <4>4, <4>5
    <3>2. opener' = "other"
      BY <2>1, <2>5, <3>1 DEF Opened
    <3> QED
      BY <3>2 DEF ScopeInv
  <2> QED
    BY <2>2, <2>3, <2>4, <2>5
<1>7. ASSUME NEW t \in Tasks, Refused(t)
      PROVE  ScopeInv'
  <2>1. UNCHANGED <<server, opener, faults>>
    BY <1>7 DEF Refused, ghosts, counters
  <2>2. CASE StepOf(t) = "set"
    BY <1>0, <1>7, <2>1, <2>2 DEF Refused, NeedsScope, ScopeInv
  <2>3. CASE StepOf(t) # "set"
    <3>1. StepOf(t) \notin {"relock", "lock"}
      BY <1>7, <2>3 DEF Refused, NeedsScope
    <3>2. todo[t] \notin EnableRest
      BY <2>3, <3>1, RestStep
    <3>3. \A u \in Tasks : u # t => todo'[u] = todo[u]
      BY <1>7, JobSteps, GoingOn, Ending DEF Step
    <3> QED
      BY <1>3, <2>1, <3>2, <3>3
  <2> QED
    BY <2>2, <2>3
<1>8. ASSUME NEW t \in Tasks, EnterGo(t)
      PROVE  ScopeInv'
  BY <1>1, <1>8 DEF EnterGo, ghosts, counters
<1>9. ASSUME NEW t \in Tasks, LeaveGo(t)
      PROVE  ScopeInv'
  <2>1. CASE Break
    BY <1>2, <2>1
  <2>2. CASE Advance(t) /\ faults' = faults
    <3>1. StepOf(t) # "lock" /\ UNCHANGED <<server, opener>>
      BY <1>9 DEF LeaveGo, ghosts, IInv, TypeOK
    <3> QED
      BY <1>1, <1>5, <2>2, <3>1
  <2> QED
    BY <1>9, <2>1, <2>2 DEF LeaveGo
<1>10. ASSUME NEW t \in Tasks, NEW j, Start(t, j)
       PROVE  ScopeInv'
  <2>1. todo[t] = <<>> /\ UNCHANGED <<server, opener, faults>>
        /\ \A u \in Tasks : u # t => todo'[u] = todo[u]
    BY <1>10, Starting
  <2>2. todo[t] \notin EnableRest
    BY <2>1, RestStep DEF StepOf
  <2> QED
    BY <1>3, <2>1, <2>2
<1>11. CASE \E t \in Tasks : OpenPage(t) \/ Toggle(t) \/ Submit(t) \/ StateReset(t)
  BY <1>10, <1>11, PageStarts
<1>12. CASE \E t \in Tasks, j \in Features : Feature(t, j)
  BY <1>10, <1>12 DEF Feature
<1>13. CASE Drag \/ ClosePage \/ UNCHANGED vars
  BY <1>1, <1>13 DEF Drag, ClosePage, vars, jobVars, ghosts, counters
<1>14. CASE Change
  <2>1. server'.scope => server.scope
    BY <1>0, <1>14 DEF Change
  <2> QED
    BY <1>1, <1>14, <2>1 DEF Change, jobVars
<1>15. ASSUME NEW t \in Tasks, Lost(t)
       PROVE  ScopeInv'
  BY <1>2, <1>15 DEF Lost
<1> QED
  BY <1>4, <1>6, <1>7, <1>8, <1>9, <1>11, <1>12, <1>13, <1>14, <1>15 DEF Next, Step

\* The ghosts and the counters keep their types.
LEMMA GhostTypes ==
    ASSUME IInv, [Next]_vars
    PROVE  /\ opener' \in {Nobody, "enable", "other"} /\ lost' \subseteq Phrases
           /\ reasons' \subseteq {"uncaught", "surprised", "dragged"}
           /\ pages' \in 0..MaxPages /\ faults' \in 0..MaxEvents /\ changes' \in 0..MaxEvents
<1> DEFINE Typed ==
           /\ opener' \in {Nobody, "enable", "other"} /\ lost' \subseteq Phrases
           /\ reasons' \subseteq {"uncaught", "surprised", "dragged"}
           /\ pages' \in 0..MaxPages /\ faults' \in 0..MaxEvents /\ changes' \in 0..MaxEvents
<1>0. /\ opener \in {Nobody, "enable", "other"} /\ lost \subseteq Phrases
      /\ reasons \subseteq {"uncaught", "surprised", "dragged"}
      /\ pages \in 0..MaxPages /\ faults \in 0..MaxEvents /\ changes \in 0..MaxEvents
      /\ \A t \in Tasks : words[t] \in Phrases
      /\ attached \subseteq Tasks
  BY DEF IInv, TypeOK
<1>1. \A t \in Tasks : Fail(t) => reasons' \subseteq reasons \union {"uncaught"}
  BY DEF Fail
<1>2. \A t \in Tasks : Advance(t) => reasons' = reasons
  BY DEF Advance
<1>3. \A t \in Tasks : Opened(t) => opener' \in {opener, "enable", "other"}
  BY DEF Opened
<1>4. ASSUME NEW t \in Tasks, Status(t)
      PROVE  Typed
  <2>1. UNCHANGED <<opener, lost, pages, changes>> /\ (faults' = faults \/ Break)
    BY <1>4 DEF Status
  <2>2. reasons' \subseteq reasons \union {"uncaught", "surprised"}
    BY <1>1, <1>4 DEF Status
  <2> QED
    BY <1>0, <2>1, <2>2, Counted
<1>5. ASSUME NEW t \in Tasks, Accepted(t)
      PROVE  Typed
  BY <1>0, <1>2, <1>3, <1>5 DEF Accepted, counters
<1>6. ASSUME NEW t \in Tasks, Refused(t)
      PROVE  Typed
  <2>1. reasons' \subseteq reasons \union {"uncaught"}
    BY <1>1, <1>6 DEF Refused
  <2> QED
    BY <1>0, <1>6, <2>1 DEF Refused, ghosts, counters
<1>7. ASSUME NEW t \in Tasks, Lost(t)
      PROVE  Typed
  <2>1. reasons' \subseteq reasons \union {"uncaught"} /\ UNCHANGED <<pages, changes>> /\ Break
    BY <1>1, <1>7 DEF Lost
  <2>2. opener' \in {opener, "enable", "other"} /\ lost' \subseteq Phrases
    BY <1>0, <1>3, <1>7 DEF Lost
  <2> QED
    BY <1>0, <2>1, <2>2, Counted
<1>8. ASSUME NEW t \in Tasks, EnterGo(t)
      PROVE  Typed
  BY <1>0, <1>8 DEF EnterGo, pageVars, ghosts, counters
<1>9. ASSUME NEW t \in Tasks, LeaveGo(t)
      PROVE  Typed
  <2>1. UNCHANGED <<opener, lost, pages, changes>> /\ (faults' = faults \/ Break)
    BY <1>9 DEF LeaveGo, ghosts
  <2>2. reasons' \subseteq reasons \union {"uncaught"}
    BY <1>1, <1>2, <1>9 DEF LeaveGo
  <2> QED
    BY <1>0, <2>1, <2>2, Counted
<1>10. ASSUME NEW t \in Tasks, OpenPage(t) \/ Toggle(t) \/ Submit(t) \/ StateReset(t)
       PROVE  Typed
  <2>1. \E j : Start(t, j)
    BY <1>10, PageStarts
  <2>2. UNCHANGED <<opener, faults, changes>> /\ lost' \subseteq lost
    BY <2>1 DEF Start
  <2>3. reasons' \in {reasons, {}} /\ pages' \in 0..MaxPages
    BY <1>0, <1>10, SettingsAssumption DEF OpenPage, Toggle, Submit, StateReset
  <2> QED
    BY <1>0, <2>2, <2>3
<1>11. ASSUME NEW t \in Tasks, NEW j \in Features, Feature(t, j)
       PROVE  Typed
  BY <1>0, <1>11 DEF Feature, Start
<1>12. CASE Drag
  BY <1>0, <1>12 DEF Drag, ghosts, counters
<1>13. CASE ClosePage
  BY <1>0, <1>13 DEF ClosePage, counters
<1>14. CASE Change
  <2>1. UNCHANGED <<opener, lost, reasons, pages, faults>>
    BY <1>14 DEF Change, pageVars
  <2>2. faults + changes < MaxEvents /\ changes' = changes + 1
    BY <1>14 DEF Change
  <2>3. changes' \in 0..MaxEvents
    BY <1>0, <2>2, SettingsAssumption
  <2> QED
    BY <1>0, <2>1, <2>3
<1>15. CASE UNCHANGED vars
  BY <1>0, <1>15 DEF vars, pageVars, ghosts, counters
<1> QED
  BY <1>4, <1>5, <1>6, <1>7, <1>8, <1>9, <1>10, <1>11, <1>12, <1>13, <1>14, <1>15
     DEF Next, Step

\* Every variable keeps its type.
LEMMA TypeStep ==
    ASSUME IInv, [Next]_vars
    PROVE  TypeOK'
<1>1. StageInv'
  BY StageStep DEF IInv
<1>2. \A t \in Tasks : StepOf(t)' \in Requests \union {"none", "status", "relock", "pgp"}
                       /\ (job'[t] # "none" => todo'[t] # <<>>)
  <2>1. \A t \in Tasks : Stage(job'[t], todo'[t])
    BY <1>1 DEF StageInv, Stage
  <2> QED
    BY <2>1, HeadOf DEF StepOf
<1>3. attached' \subseteq {t \in Tasks : Busy(t)'}
  BY <1>2, JobTypes DEF Busy
<1>4. go' \subseteq {t \in Tasks : StepOf(t)' \in {"relock", "pgp"}}
  BY GoStep
<1>5. /\ ui' \in Uis /\ seen' \subseteq Phrases /\ open' \in BOOLEAN
      /\ job' \in [Tasks -> Recovery \union Features \union {"none"}]
      /\ words' \in [Tasks -> Phrases]
      /\ server' \in [scope : BOOLEAN, status : Statuses, words : Phrases]
      /\ writer' \in Tasks \union {Nobody, World}
  BY UiTypes, JobTypes, ServerTypes
<1> QED
  BY <1>2, <1>3, <1>4, <1>5, GhostTypes DEF TypeOK, Uis

\* The inductive invariant holds at the start.
LEMMA SafeAtStart ==
    ASSUME Init
    PROVE  IInv
<1>1. NoWords \in Phrases /\ 0 \in 0..MaxPages /\ 0 \in 0..MaxEvents
  BY SettingsAssumption, FS_CardinalityType DEF NoWords, Phrases
<1>2. \A t \in Tasks : job[t] = "none" /\ todo[t] = <<>> /\ words[t] = NoWords
                       /\ StepOf(t) = "none"
  BY DEF Init, StepOf
<1>3. /\ server.scope = FALSE /\ server.status \in Statuses /\ server.words = NoWords
      /\ ui.loading = FALSE /\ ui.sheet = FALSE /\ ui.words = NoWords
  BY DEF Init, UiInit
<1>4. TypeOK
  <2>1. server \in [scope : BOOLEAN, status : Statuses, words : Phrases]
    BY <1>1 DEF Init
  <2>2. ui \in [loading : BOOLEAN, enabled : BOOLEAN, auth : {"no", "enable", "disable"},
                sheet : BOOLEAN, words : Phrases]
    BY <1>1 DEF Init, UiInit
  <2> QED
    BY <1>1, <1>2, <2>1, <2>2 DEF Init, TypeOK
<1>5. StageInv
  BY <1>2 DEF Init, StageInv, Stage
<1>6. WordsInv
  BY <1>2 DEF WordsInv, OwnWords, Enabling
<1>7. PageInv /\ SwitchInv /\ FlagInv /\ SpinnerHasReason
  BY <1>3 DEF Init, PageInv, SwitchInv, FlagInv, SpinnerHasReason
<1>8. SetInv
  <2>1. <<>> # <<"lock">>
    OBVIOUS
  <2> QED
    BY <1>2, <2>1 DEF SetInv
<1>9. SeenInv /\ ShownPhraseIsServers /\ ScopeInv
  BY <1>3 DEF Init, SeenInv, PhraseReachesUser, ShownPhraseIsServers, ScopeInv
<1>10. GoCallsOverlapOnlyUnlocked
  BY DEF Init, GoCallsOverlapOnlyUnlocked
<1> QED
  BY <1>4, <1>5, <1>6, <1>7, <1>8, <1>9, <1>10 DEF IInv

\* The inductive invariant is kept by every step.
LEMMA SafetyKept ==
    ASSUME IInv, [Next]_vars
    PROVE  IInv'
<1>1. TypeOK' /\ StageInv' /\ WordsInv' /\ PageInv' /\ SwitchInv' /\ SetInv'
  BY TypeStep, StageStep, WordsStep, PageStep, SwitchStep, SetStep DEF IInv
<1>2. FlagInv' /\ SeenInv' /\ ShownPhraseIsServers' /\ SpinnerHasReason' /\ ScopeInv'
      /\ GoCallsOverlapOnlyUnlocked'
  BY FlagStep, SeenStep, ShownStep, SpinnerStep, ScopeStep, GoStep
<1> QED
  BY <1>1, <1>2 DEF IInv

\* The inductive invariant holds in every reachable state.
THEOREM SafetyInductive == Spec => []IInv
<1>1. Init => IInv
  BY SafeAtStart
<1>2. IInv /\ [Next]_vars => IInv'
  BY SafetyKept
<1> QED
  BY <1>1, <1>2, PTL DEF Spec

\* The variables of the settings stay within their types.
THEOREM TypeCorrect == Spec => []TypeOK
<1>1. IInv => TypeOK
  BY DEF IInv
<1> QED
  BY <1>1, SafetyInductive, PTL

\* set_mnemonic_settings: the phrase the server has was shown, is about to be
\* shown, or belongs to a job whose answer was lost or whose page was closed.
THEOREM PhraseKept == Spec => []PhraseReachesUser
<1>1. IInv => PhraseReachesUser
  BY DEF IInv, SeenInv
<1> QED
  BY <1>1, SafetyInductive, PTL

\* The words on the screen are those the server accepts, unless somebody else
\* has changed the phrase.
THEOREM ShownPhraseWorks == Spec => []ShownPhraseIsServers
<1>1. IInv => ShownPhraseIsServers
  BY DEF IInv
<1> QED
  BY <1>1, SafetyInductive, PTL

\* The switch of an idle page tells what the server has, unless a change has
\* not come back to it.
THEOREM SwitchIsRight == Spec => []FlagFollowsServer
<1>1. IInv => FlagFollowsServer
  BY DEF IInv, FlagInv, FlagFollowsServer, TypeOK
<1> QED
  BY <1>1, SafetyInductive, PTL

\* A page that spins with nothing running has one of three causes.
THEOREM SpinnerExplained == Spec => []SpinnerHasReason
<1>1. IInv => SpinnerHasReason
  BY DEF IInv
<1> QED
  BY <1>1, SafetyInductive, PTL

\* The scope an enabling job opened is closed again unless a request failed.
THEOREM ScopeClosed == Spec => []EnableClosesItsScope
<1>1. ASSUME NEW t \in Tasks, todo[t] \in EnableRest
      PROVE  \E i \in DOMAIN todo[t] : todo[t][i] \in {"set", "lock"}
  <2>1. CASE todo[t] = <<"relock", "set", "lock">>
    <3>1. 3 \in DOMAIN todo[t] /\ todo[t][3] = "lock"
      BY <2>1
    <3> QED
      BY <3>1
  <2>2. CASE todo[t] = <<"set", "lock">>
    <3>1. 2 \in DOMAIN todo[t] /\ todo[t][2] = "lock"
      BY <2>2
    <3> QED
      BY <3>1
  <2>3. CASE todo[t] = <<"lock">>
    <3>1. 1 \in DOMAIN todo[t] /\ todo[t][1] = "lock"
      BY <2>3
    <3> QED
      BY <3>1
  <2> QED
    BY <1>1, <2>1, <2>2, <2>3 DEF EnableRest
<1>2. IInv => EnableClosesItsScope
  BY <1>1 DEF IInv, ScopeInv, EnableClosesItsScope
<1> QED
  BY <1>2, SafetyInductive, PTL

\* crypto/pgp_lock.rs: two calls of Go overlap only when one of them relocks.
THEOREM GoCallsLocked == Spec => []GoCallsOverlapOnlyUnlocked
<1>1. IInv => GoCallsOverlapOnlyUnlocked
  BY DEF IInv
<1> QED
  BY <1>1, SafetyInductive, PTL
====
