---- MODULE SecureSettings ----
(***************************************************************************)
(* The account settings that need the password again: the recovery phrase  *)
(* (the Rust feature and the bloc of its page), and the features that      *)
(* share with it the password scope of the session, which the server opens *)
(* and closes for all of them.  A job is a list of requests; jobs of the   *)
(* page that is open, of a page that was closed and of other screens run   *)
(* at the same time.  Two of their steps enter the Go runtime.             *)
(***************************************************************************)
EXTENDS Naturals, FiniteSets, Sequences

CONSTANTS
    Tasks,         \* jobs that can run at the same time
    MaxPages,      \* bound: how often the page is opened
    MaxEvents      \* bound: requests that fail, changes by other clients or time

ASSUME SettingsAssumption ==
    /\ IsFiniteSet(Tasks) /\ {"nobody", "world"} \intersect Tasks = {}
    /\ MaxPages \in Nat /\ MaxEvents \in Nat

VARIABLES
    server,        \* the scope, MnemonicStatus and the phrase it was set with
    ui,            \* the bloc's state and what its listener has opened
    open,          \* the recovery page is open
    attached,      \* jobs of the page that is open
    job,           \* what each task runs
    todo,          \* the steps it has left
    words,         \* the phrase it has generated
    go,            \* tasks inside a call of the Go runtime
    writer,        \* last to change the status without the page knowing
    opener,        \* what kind of job opened the scope last
    seen,          \* phrases the user has been shown
    lost,          \* phrases nobody may ever see: their job failed at the end or lost its page
    reasons,       \* why the spinner may turn for ever
    pages, faults, changes  \* bounded counters

pageVars == <<ui, open, attached, seen, reasons>>
jobVars == <<job, todo, words, go>>
ghosts == <<writer, opener, lost>>
counters == <<pages, faults, changes>>
vars == <<server, pageVars, jobVars, ghosts, counters>>

Statuses == {"unset", "outdated", "set"}  \* MnemonicStatus 0 and 1, 2 and 4, and 3
NoWords == 0
Phrases == 0..Cardinality(Tasks) + 2       \* enough for those still in use
Nobody == "nobody"
World == "world"

Recovery == {"load", "enable_start", "enable_auth", "disable_start", "disable_auth"}
Features == {"setup_2fa", "disable_2fa", "view_seed", "delete_wallet", "crypto"}

\* The bloc's state when the page opens: the spinner, the switch, the
\* password it asks for and the words it shows.
UiInit == [loading |-> FALSE, enabled |-> FALSE, auth |-> "no", sheet |-> FALSE,
           words |-> NoWords]

Init ==
    /\ server \in [scope : {FALSE}, status : Statuses, words : {NoWords}]
    /\ ui = UiInit /\ open = FALSE /\ attached = {}
    /\ job = [t \in Tasks |-> "none"] /\ todo = [t \in Tasks |-> <<>>]
    /\ words = [t \in Tasks |-> NoWords] /\ go = {}
    /\ writer = Nobody /\ opener = Nobody
    /\ seen = {NoWords} /\ lost = {} /\ reasons = {}
    /\ pages = 0 /\ faults = 0 /\ changes = 0

----
(* Faulty variants, see the definitions named beside them.                 *)
NeverLock == <<"unlock", "relock", "set">>                               \* Enable
KeepFlag(t) == [ui EXCEPT !.loading = FALSE, !.auth = "no",
                          !.words = words[t]]                            \* Enabled
ForgetWords(t) == [ui EXCEPT !.loading = FALSE, !.enabled = TRUE,
                             !.auth = "no"]                              \* Enabled
OtherWords(t) == [ui EXCEPT !.loading = FALSE, !.enabled = TRUE,
                            !.auth = "no", !.words = words[t] - 1]       \* Enabled
KeepLoading == [ui EXCEPT !.auth = "no"]                                 \* Failed
NoLock == TRUE                                                           \* LockFree
LockTwice(t) == todo[t] = <<"pgp">> /\ go = {}                           \* MayEnter
GoIsARequest == {"twofa", "scope_twofa", "unlock", "set", "lock", "reactivate", "disable",
                 "enable_2fa", "disable_2fa", "delete", "pgp"}                          \* Requests

----
(* The jobs, as the requests and the calls of Go they make.  A request that *)
(* changes nothing on the server (auth_info, the user keys, the modulus)   *)
(* is one with the step after it, which may fail without effect.           *)

\* unlock_password_change, and relock_user_key_with.
Unlock == <<"unlock">>
Relock == <<"relock">>

\* enable_recovery, reactive_recovery (with a password it unlocks first) and
\* disable_recovery.
Enable == Unlock \o Relock \o <<"set", "lock">>
Reactivate == Relock \o <<"reactivate">>
Disable == <<"disable">>

\* The features, in Dart and in Rust, that share the scope; none locks it.
EnableTwofa == Unlock \o <<"enable_2fa">>
DisableTwofa == <<"disable_2fa">>
ViewSeed == Unlock \o <<"pgp">>
DeleteWallet == Unlock \o <<"delete">>

\* Everything else that uses keys.
UseKeys == <<"pgp">>

Program(j) ==
    CASE j \in {"load", "enable_start", "enable_auth"} -> <<"status">>
      [] j = "disable_start" -> <<"twofa">>
      [] j = "disable_auth" -> Disable
      [] j = "setup_2fa" -> EnableTwofa
      [] j = "disable_2fa" -> DisableTwofa
      [] j = "view_seed" -> ViewSeed
      [] j = "delete_wallet" -> DeleteWallet
      [] j = "crypto" -> UseKeys

\* What the handlers do once recoveryStatus has answered.
AfterStatus(j, status) ==
    CASE j = "enable_start" /\ status = "unset" -> <<"twofa">>
      [] j = "enable_start" /\ status = "outdated" -> Reactivate
      [] j = "enable_auth" /\ status = "unset" -> Enable
      [] j = "enable_auth" /\ status = "outdated" -> Unlock \o Reactivate
      [] OTHER -> <<>>

StepOf(t) == IF todo[t] = <<>> THEN "none" ELSE Head(todo[t])
Busy(t) == todo[t] # <<>>

----
(* How a job ends.                                                         *)

Enabled(t) == [ui EXCEPT !.loading = FALSE, !.enabled = TRUE, !.auth = "no",
                         !.words = words[t]]

\* What the handler emits when its last request succeeds ...
Succeeded(t) ==
    CASE StepOf(t) \in {"twofa", "scope_twofa"} ->
            [ui EXCEPT !.auth = IF job[t] = "disable_start" THEN "disable" ELSE "enable",
                       !.sheet = TRUE]
      [] StepOf(t) \in {"lock", "set", "reactivate"} -> Enabled(t)
      [] StepOf(t) = "disable" ->
            [ui EXCEPT !.loading = FALSE, !.enabled = FALSE, !.auth = "no"]
      [] OTHER -> ui

\* ... and in its catch branches.
Failed == [ui EXCEPT !.loading = FALSE, !.auth = "no"]

\* A bloc whose page was closed shows nothing to anybody.
Conclude(t, shown) ==
    /\ todo' = [todo EXCEPT ![t] = <<>>]
    /\ job' = [job EXCEPT ![t] = "none"] /\ words' = [words EXCEPT ![t] = NoWords]
    /\ attached' = attached \ {t}
    /\ ui' = IF t \in attached THEN shown ELSE ui
    /\ seen' = seen \union {ui'.words}

Continue(t, rest) ==
    /\ todo' = [todo EXCEPT ![t] = rest]
    /\ UNCHANGED <<job, words, ui, attached, seen>>

\* recoveryStatus, and twoFaStatus in the start steps, are called outside of
\* the handlers' try.
Fail(t) ==
    IF StepOf(t) \in {"status", "twofa"}
    THEN /\ Conclude(t, ui)
         /\ reasons' = IF t \in attached THEN reasons \union {"uncaught"} ELSE reasons
    ELSE Conclude(t, Failed) /\ UNCHANGED reasons

Advance(t) ==
    IF Len(todo[t]) = 1 THEN Conclude(t, Succeeded(t)) /\ UNCHANGED reasons
    ELSE Continue(t, Tail(todo[t])) /\ UNCHANGED reasons

Break == faults + changes < MaxEvents /\ faults' = faults + 1

----
(* Requests.                                                               *)

\* recoveryStatus: the switch is set by a load only; when the phrase is set
\* already the handler of EnableRecovery has no branch, and emits nothing.
Status(t) ==
    /\ StepOf(t) = "status"
    /\ \/ /\ UNCHANGED faults
          /\ LET rest == AfterStatus(job[t], server.status) IN
             IF rest # <<>>
             THEN Continue(t, rest) /\ UNCHANGED <<reasons, writer>>
             ELSE IF job[t] = "load"
             THEN /\ Conclude(t, [ui EXCEPT !.loading = FALSE,
                                            !.enabled = server.status = "set"])
                  /\ writer' = IF t \in attached THEN Nobody ELSE writer
                  /\ UNCHANGED reasons
             ELSE /\ Conclude(t, ui)
                  /\ reasons' = IF t \in attached /\ writer # Nobody
                                THEN reasons \union {"surprised"} ELSE reasons
                  /\ UNCHANGED writer
       \/ Break /\ Fail(t) /\ UNCHANGED writer
    /\ UNCHANGED <<server, open, go, opener, lost, pages, changes>>

\* What the server does with the others.
Effect(t) ==
    CASE StepOf(t) = "unlock" -> {[server EXCEPT !.scope = TRUE]}
      [] StepOf(t) = "lock" -> {[server EXCEPT !.scope = FALSE]}
      [] StepOf(t) \in {"set", "reactivate"} ->
            {[server EXCEPT !.status = "set", !.words = words[t]]}
      [] StepOf(t) = "disable" ->
            {[server EXCEPT !.status = "unset", !.words = NoWords]}
      [] OTHER -> {server}

NeedsScope(t) == StepOf(t) \in {"set", "reactivate", "enable_2fa"} => server.scope

Writes(t) == StepOf(t) \in {"set", "reactivate", "disable"}
Tells(t) == StepOf(t) \in {"lock", "reactivate", "disable"}

Requests == {"twofa", "scope_twofa", "unlock", "set", "lock", "reactivate", "disable",
             "enable_2fa", "disable_2fa", "delete"}

Opened(t) ==
    opener' = IF StepOf(t) # "unlock" THEN opener
              ELSE IF "set" \in {todo[t][i] : i \in DOMAIN todo[t]} THEN "enable" ELSE "other"

\* The page learns of its own change when the job ends well.
Accepted(t) ==
    /\ StepOf(t) \in Requests /\ NeedsScope(t)
    /\ server' \in Effect(t)
    /\ Advance(t) /\ Opened(t)
    /\ LET wrote == IF Writes(t) THEN t ELSE writer IN
       writer' = IF t \in attached /\ Tells(t) /\ wrote = t THEN Nobody ELSE wrote
    /\ UNCHANGED <<open, go, lost, counters>>

\* The scope is not open, or the password is wrong; reactivating without a
\* password then asks for one.
Refused(t) ==
    /\ ~NeedsScope(t) \/ StepOf(t) \in {"unlock", "disable", "disable_2fa"}
    /\ IF StepOf(t) = "reactivate" /\ job[t] = "enable_start"
       THEN Continue(t, <<"scope_twofa">>) /\ UNCHANGED reasons
       ELSE Fail(t)
    /\ UNCHANGED <<server, open, go, ghosts, counters>>

\* A request fails before or after the server has acted on it.
Lost(t) ==
    /\ StepOf(t) \in Requests /\ Break  \* the request may not even be made
    /\ \/ UNCHANGED <<server, writer, opener>>
       \/ /\ NeedsScope(t) /\ server' \in Effect(t) /\ Opened(t)
          /\ writer' = IF Writes(t) THEN t ELSE writer
    /\ Fail(t)
    /\ lost' = IF StepOf(t) \in {"set", "lock", "reactivate"}
               THEN lost \union {words[t]} ELSE lost
    /\ UNCHANGED <<open, go, pages, changes>>

----
(* Calls of the Go runtime.                                                *)

\* pgp_global_lock is taken around every use of keys but relocking them.
LockFree == \A u \in go : StepOf(u) # "pgp"
MayEnter(t) == StepOf(t) = "pgp" => LockFree

EnterGo(t) ==
    /\ StepOf(t) \in {"relock", "pgp"} /\ t \notin go /\ MayEnter(t)
    /\ go' = go \union {t}
    /\ UNCHANGED <<server, pageVars, job, todo, words, ghosts, counters>>

LeaveGo(t) ==
    /\ t \in go /\ go' = go \ {t}
    /\ (Advance(t) /\ UNCHANGED faults) \/ (Fail(t) /\ Break)
    /\ UNCHANGED <<server, open, ghosts, pages, changes>>

----
(* The page, the other screens, and the rest of the world.                 *)

InUse == {server.words, ui.words, NoWords} \union {words[t] : t \in Tasks}
NewWords == CHOOSE p \in Phrases : p \notin InUse

\* A job takes the first place that is free.
Start(t, j) ==
    /\ ~Busy(t) /\ t = CHOOSE u \in Tasks : ~Busy(u)
    /\ job' = [job EXCEPT ![t] = j]
    /\ todo' = [todo EXCEPT ![t] = Program(j)]
    /\ words' = [words EXCEPT ![t] =
                    IF j \in {"enable_start", "enable_auth"} THEN NewWords ELSE NoWords]
    /\ seen' = seen \intersect InUse /\ lost' = lost \intersect InUse
    /\ UNCHANGED <<server, go, writer, opener, faults, changes>>

\* A handler of the bloc begins with an emission.
StartPage(t, j, emitted) ==
    /\ Start(t, j)
    /\ attached' = attached \union {t}
    /\ ui' = emitted

OpenPage(t) ==
    /\ pages < MaxPages /\ pages' = pages + 1
    /\ ~open /\ open' = TRUE
    /\ StartPage(t, "load", [UiInit EXCEPT !.loading = TRUE])
    /\ reasons' = {}

\* The switch gives way to the spinner, and is under the sheets.
Toggle(t) ==
    /\ open /\ ~ui.loading /\ ui.words = NoWords
    /\ StartPage(t, IF ui.enabled THEN "disable_start" ELSE "enable_start",
                 [ui EXCEPT !.loading = TRUE])
    /\ UNCHANGED <<open, pages, reasons>>

Submit(t) ==
    /\ ui.sheet
    /\ StartPage(t, IF ui.auth = "disable" THEN "disable_auth" ELSE "enable_auth",
                 [ui EXCEPT !.sheet = FALSE])
    /\ UNCHANGED <<open, pages, reasons>>

\* The sheet is cancelled or the words are put away: LoadingRecovery.
StateReset(t) ==
    /\ ui.sheet \/ ui.words # NoWords
    /\ StartPage(t, "load", [UiInit EXCEPT !.loading = TRUE])
    /\ UNCHANGED <<open, pages, reasons>>

\* The sheet is not dismissible, but it can be dragged away.
Drag ==
    /\ ui.sheet /\ ui' = [ui EXCEPT !.sheet = FALSE]
    /\ reasons' = reasons \union {"dragged"}
    /\ UNCHANGED <<server, open, attached, seen, jobVars, ghosts, counters>>

ClosePage ==
    /\ open /\ ~ui.sheet /\ ui.words = NoWords
    /\ open' = FALSE /\ ui' = UiInit /\ attached' = {}
    /\ lost' = lost \union {words[t] : t \in attached}
    /\ UNCHANGED <<server, seen, reasons, jobVars, writer, opener, counters>>

Feature(t, j) ==
    /\ Start(t, j)
    /\ UNCHANGED <<pages, ui, open, attached, reasons>>

\* The scope expires; another client changes the recovery phrase.
Change ==
    /\ faults + changes < MaxEvents /\ changes' = changes + 1
    /\ \/ server' = [server EXCEPT !.scope = FALSE] /\ UNCHANGED writer
       \/ /\ \E s \in Statuses \ {server.status} :
                 server' = [server EXCEPT !.status = s, !.words = NoWords]
          /\ writer' = World
    /\ UNCHANGED <<pageVars, jobVars, opener, lost, pages, faults>>

Step(t) == Status(t) \/ Accepted(t) \/ Refused(t) \/ Lost(t) \/ EnterGo(t) \/ LeaveGo(t)

Next ==
    \/ \E t \in Tasks : Step(t) \/ OpenPage(t) \/ Toggle(t) \/ Submit(t) \/ StateReset(t)
    \/ \E t \in Tasks, j \in Features : Feature(t, j)
    \/ Drag \/ ClosePage \/ Change

Spec == Init /\ [][Next]_vars

\* Requests are answered or time out, and a call of Go returns.
FairSpec == Spec /\ \A t \in Tasks : WF_vars(Step(t))

----
TypeOK ==
    /\ server \in [scope : BOOLEAN, status : Statuses, words : Phrases]
    /\ ui \in [loading : BOOLEAN, enabled : BOOLEAN, auth : {"no", "enable", "disable"},
               sheet : BOOLEAN, words : Phrases]
    /\ open \in BOOLEAN /\ attached \subseteq {t \in Tasks : Busy(t)}
    /\ job \in [Tasks -> Recovery \union Features \union {"none"}]
    /\ \A t \in Tasks : StepOf(t) \in Requests \union {"none", "status", "relock", "pgp"}
    /\ words \in [Tasks -> Phrases]
    /\ go \subseteq {t \in Tasks : StepOf(t) \in {"relock", "pgp"}}
    /\ writer \in Tasks \union {Nobody, World} /\ opener \in {Nobody, "enable", "other"}
    /\ seen \subseteq Phrases /\ lost \subseteq Phrases
    /\ reasons \subseteq {"uncaught", "surprised", "dragged"}
    /\ pages \in 0..MaxPages /\ faults \in 0..MaxEvents /\ changes \in 0..MaxEvents

\* The phrase the server has is one the user has seen or is about to see,
\* unless the answer to the request that set it, or to the lock after it, was
\* lost, or the page was closed while the job ran.
PhraseReachesUser ==
    server.words \in seen \union lost \union {words[t] : t \in attached}

\* The words on the screen are those the server will accept, unless somebody
\* else has set or disabled the phrase in the meantime.
ShownPhraseIsServers ==
    ui.words # NoWords /\ writer = Nobody => server.words = ui.words

\* The switch tells what the server has, unless a change has not come back to
\* this page.
FlagFollowsServer ==
    open /\ ~ui.loading /\ writer = Nobody => ui.enabled = (server.status = "set")

\* A page that spins while no handler runs has lost a request outside a try,
\* has lost its sheet, or was told to enable what somebody else had enabled.
SpinnerHasReason ==
    open /\ ui.loading /\ attached = {} /\ ~ui.sheet => reasons # {}

\* An enabling job leaves the scope closed behind it unless a request failed.
EnableClosesItsScope ==
    server.scope /\ opener = "enable" =>
        faults > 0 \/ \E t \in Tasks : \E i \in DOMAIN todo[t] : todo[t][i] \in {"set", "lock"}

\* crypto/pgp_lock.rs: two calls are in Go at once only when one of them
\* relocks the user keys, which is done without the lock.
GoCallsOverlapOnlyUnlocked ==
    \A t, u \in go : t # u => "relock" \in {StepOf(t), StepOf(u)}

\* Every job of the page ends, however often others take the lock.
JobsEnd == \A t \in Tasks : job[t] \in Recovery ~> job[t] \notin Recovery
====
