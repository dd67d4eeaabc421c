----------------------------- MODULE TokenSlot ------------------------------
(***************************************************************************)
(* The tokens of one OIDC issuer and client                                 *)
(* (kubyl_kube_core/auth/oidc.rs): a slot in memory behind an asynchronous  *)
(* mutex, shared by all connections of the process, and its copy in the     *)
(* keychain.  Connections ask for a token, the user signs in and out.  A    *)
(* kubeconfig may bring tokens of its own: they are where the keychain has  *)
(* none, and are never written back.                                        *)
(*                                                                         *)
(* Keychain steps run on blocking threads: a future that is dropped gives   *)
(* the mutex back at once, its keychain step goes on.  The identity         *)
(* provider is external: a refresh token it has replaced is good no more.   *)
(***************************************************************************)
EXTENDS Naturals, FiniteSets

CONSTANTS
    Callers,        \* connections that ask for a token
    None,           \* absence: no token, no session
    In, Out,        \* the user's sign-in and sign-out
    Secrets,        \* the tokens in the kubeconfig of each connection
    MaxSessions,    \* bound: sign-ins
    MaxRefreshes,   \* bound: refresh tokens of a session
    MaxTime,        \* bound: times ID tokens expire
    MaxFaults       \* bound: dropped futures, failures, lost answers and restarts

Ops == Callers \union {In, Out}

ASSUME TokensAssumption ==
    /\ {MaxSessions, MaxRefreshes, MaxTime, MaxFaults} \subseteq Nat /\ MaxSessions > 0
    /\ None \notin Nat /\ In # Out /\ In \notin Callers /\ Out \notin Callers

VARIABLES
    slot,       \* `Tokens` in memory
    keychain,   \* the stored tokens
    lock,       \* who holds the slot's mutex, or None
    ops,        \* the calls: where they are, and how the last one ended
    jobs,       \* keychain steps on blocking threads
    idp,        \* the good refresh token of each session (external)
    now,        \* counts the expiries of ID tokens
    active,     \* the session the user is signed in to (history)
    faults,     \* so far
    lost,       \* sessions whose newest refresh token may not be stored (history)
    since       \* what has happened since the last sign-in or sign-out (history)

outside == <<idp, now>>
history == <<active, faults, lost, since>>
vars == <<slot, keychain, lock, ops, jobs, outside, history>>

-----------------------------------------------------------------------------
(* Tokens: the session they are of, and which one of it. *)
Refresh == [session : 1..MaxSessions, nr : 0..MaxRefreshes]
Id == [session : 1..MaxSessions, until : 0..MaxTime]

Phases == {"idle", "locking", "loading", "refreshing", "answered", "writing",
           "deleting"}
Endings == {None, "token", "signIn", "error"}

Call == [phase : Phases, ended : Endings, id : Id \union {None},
         refresh : Refresh \union {None}]

KeychainStep == [op : Ops, kind : {"read", "write", "delete"},
                 id : Id \union {None}, refresh : Refresh \union {None}]

ASSUME NoneAssumption ==
    /\ None \notin Id \union Refresh \union Ops
    /\ None \notin {"token", "signIn", "error"}

(* What a kubeconfig has was given out by the provider before. *)
First == [id |-> [session |-> 1, until |-> 0], refresh |-> [session |-> 1, nr |-> 0]]

ASSUME SecretsAssumption ==
    Secrets \in [Callers -> [id : {First.id, None}, refresh : {First.refresh, None}]]

Idle == [phase |-> "idle", ended |-> None, id |-> None, refresh |-> None]
Ended(how) == [Idle EXCEPT !.ended = how]

Empty == [loaded |-> TRUE, id |-> None, refresh |-> None]
Nothing == [id |-> None, refresh |-> None]

Events == {"restart", "fallback", "unread", "undeleted"}

(* `Option::or`. *)
OrElse(a, b) == IF a # None THEN a ELSE b

Of(refresh, session) == refresh # None /\ refresh.session = session

(* The sessions whose newest refresh token some of the calls have yet to    *)
(* bring to the keychain.                                                   *)
Unstored(calls) ==
    {s \in 1..MaxSessions :
        \/ \E job \in jobs : job.op \in calls /\ job.kind = "write" /\ Of(job.refresh, s)
        \/ \E o \in calls : ops[o].phase = "answered" /\ Of(ops[o].refresh, s)}

Fault == faults < MaxFaults /\ faults' = faults + 1
FaultIf(fails) == IF fails THEN Fault ELSE UNCHANGED faults

(* `valid_id_token`. *)
Valid(t) == t.id # None /\ t.id.until >= now

Op(o, value) == ops' = [ops EXCEPT ![o] = value]

(* Mutant: the mutex is only held to look at the tokens. *)
ContinueUnlocked(c, t) ==
    /\ lock' = None
    /\ IF Valid(t) THEN Op(c, Ended("token"))
       ELSE IF t.refresh = None THEN Op(c, Ended("signIn"))
       ELSE Op(c, [Idle EXCEPT !.phase = "refreshing", !.refresh = t.refresh])

(* `token` with the loaded tokens `t`: hand out the ID token, ask for a     *)
(* sign-in, or go to the provider with the mutex held.                      *)
Continue(c, t) ==
    IF Valid(t) THEN Op(c, Ended("token")) /\ lock' = None
    ELSE IF t.refresh = None THEN Op(c, Ended("signIn")) /\ lock' = None
    ELSE Op(c, [Idle EXCEPT !.phase = "refreshing", !.refresh = t.refresh]) /\ lock' = c

-----------------------------------------------------------------------------
(* A connection needs a token; the user begins to sign out. *)
Begin(o) ==
    /\ o # In /\ ops[o].phase = "idle"
    /\ Op(o, [Idle EXCEPT !.phase = "locking"])
    /\ UNCHANGED <<slot, keychain, lock, jobs, outside, history>>

(* The user signs in: the provider answers before the mutex is taken.  It   *)
(* need not give a refresh token (`offline_access` is asked for only where  *)
(* it is supported).                                                        *)
SignIn(withRefresh) ==
    LET session == Cardinality(DOMAIN idp) + 1
    IN  /\ ops[In].phase = "idle" /\ session <= MaxSessions
        /\ idp' = [s \in DOMAIN idp \union {session} |->
                      IF s # session THEN idp[s] ELSE IF withRefresh THEN 0 ELSE None]
        /\ Op(In, [phase |-> "locking", ended |-> None,
                   id |-> [session |-> session, until |-> now],
                   refresh |-> IF withRefresh THEN [session |-> session, nr |-> 0]
                               ELSE None])
        /\ UNCHANGED <<slot, keychain, lock, jobs, now, history>>

Job(o, kind, id, refresh) ==
    [op |-> o, kind |-> kind, id |-> id, refresh |-> refresh]

(* `token` takes the mutex; the first time, `load` reads the keychain. *)
LockToken(c) ==
    /\ ops[c].phase = "locking" /\ lock = None
    /\ IF slot.loaded
       THEN Continue(c, slot) /\ UNCHANGED <<slot, jobs>>
       ELSE /\ slot' = [slot EXCEPT !.loaded = TRUE]
            /\ lock' = c
            /\ Op(c, [Idle EXCEPT !.phase = "loading"])
            /\ jobs' = jobs \union {Job(c, "read", None, None)}
    /\ UNCHANGED <<keychain, outside, history>>

(* The keychain was read, or could not be.  Each token it does not have is  *)
(* taken from the kubeconfig of the connection that loads.                  *)
Loaded(c, fails) ==
    LET read == Job(c, "read", None, None)
        stored == IF fails THEN Nothing ELSE keychain
        t == [loaded |-> TRUE, id |-> OrElse(stored.id, Secrets[c].id),
              refresh |-> OrElse(stored.refresh, Secrets[c].refresh)]
    IN  /\ ops[c].phase = "loading" /\ read \in jobs
        /\ jobs' = jobs \ {read}
        /\ slot' = t
        /\ Continue(c, t)
        /\ FaultIf(fails)
        /\ since' = since \union (IF fails THEN {"unread"} ELSE {})
                          \union (IF t.id # stored.id \/ t.refresh # stored.refresh
                                  THEN {"fallback"} ELSE {})
        /\ UNCHANGED <<keychain, outside, active, lost>>

(* The refresh token the provider is shown is the last one it gave out. *)
Good(refresh) == idp[refresh.session] = refresh.nr

(* Mutant: a refused refresh token and an outage are the same. *)
RefreshGivesUp(c, rotates) ==
    /\ ops[c].phase = "refreshing" /\ ~rotates
    /\ slot' = [slot EXCEPT !.refresh = None]
    /\ Op(c, Ended("error")) /\ lock' = None
    /\ UNCHANGED <<keychain, jobs, outside, history>>

(* The request fails: the refresh token is kept.  The provider may have     *)
(* replaced it all the same, and only its answer was lost.                  *)
RefreshFails(c, rotates) ==
    LET old == ops[c].refresh
    IN  /\ ops[c].phase = "refreshing"
        /\ rotates => Good(old) /\ old.nr < MaxRefreshes
        /\ idp' = IF rotates THEN [idp EXCEPT ![old.session] = old.nr + 1] ELSE idp
        /\ lost' = lost \union (IF rotates THEN {old.session} ELSE {})
        /\ FaultIf(rotates)
        /\ Op(c, Ended("error")) /\ lock' = None
        /\ UNCHANGED <<slot, keychain, jobs, now, active, since>>

(* The provider refreshes, with a new refresh token or without one; an      *)
(* answer that has no ID token will be of no use.                           *)
Refreshed(c, rotates, withId) ==
    LET old == ops[c].refresh
        nr == IF rotates THEN old.nr + 1 ELSE old.nr
    IN  /\ ops[c].phase = "refreshing" /\ Good(old)
        /\ nr <= MaxRefreshes
        /\ idp' = [idp EXCEPT ![old.session] = nr]
        /\ Op(c, [phase |-> "answered", ended |-> None,
                  id |-> IF withId THEN [session |-> old.session, until |-> now]
                         ELSE None,
                  refresh |-> IF rotates THEN [old EXCEPT !.nr = nr] ELSE None])
        /\ FaultIf(~withId)
        /\ lost' = lost \union (IF rotates /\ ~withId THEN {old.session} ELSE {})
        /\ UNCHANGED <<slot, keychain, lock, jobs, now, active, since>>

(* `invalid_grant`: memory forgets the refresh token. *)
Rejected(c) ==
    /\ ops[c].phase = "refreshing" /\ ~Good(ops[c].refresh)
    /\ slot' = [slot EXCEPT !.refresh = None]
    /\ Op(c, Ended("signIn")) /\ lock' = None
    /\ UNCHANGED <<keychain, jobs, outside, history>>

(* `accept` of the answer of operation `o`: without an ID token it fails    *)
(* before anything is kept; otherwise both tokens go to memory and, on a    *)
(* blocking thread, to the keychain.                                        *)
Accept(o) ==
    LET t == [loaded |-> TRUE, id |-> ops[o].id,
              refresh |-> IF ops[o].refresh = None THEN slot.refresh
                          ELSE ops[o].refresh]
    IN  IF ops[o].id = None
        THEN /\ Op(o, Ended("error")) /\ lock' = None
             /\ UNCHANGED <<slot, jobs>>
        ELSE /\ slot' = t
             /\ lock' = o
             /\ Op(o, [Idle EXCEPT !.phase = "writing"])
             /\ jobs' = jobs \union {Job(o, "write", t.id, t.refresh)}

(* `token` takes the provider's answer. *)
AcceptRefreshed(c) ==
    /\ ops[c].phase = "answered"
    /\ Accept(c)
    /\ UNCHANGED <<keychain, outside, history>>

(* `sign_in` takes the mutex and stores the new session's tokens; without a *)
(* new refresh token `accept` keeps the one of the session before.  The     *)
(* keychain step of a dropped call may still be under way.                  *)
LockSignIn ==
    /\ ops[In].phase = "locking" /\ lock = None
    /\ Accept(In)
    /\ active' = ops[In].id.session
    /\ lost' = lost \union (IF jobs = {} THEN {} ELSE {ops[In].id.session})
    /\ since' = {}
    /\ UNCHANGED <<keychain, outside, faults>>

(* Mutant: memory would be read from the keychain again. *)
LockSignOutUnloaded ==
    /\ ops[Out].phase = "locking" /\ lock = None
    /\ slot' = [Empty EXCEPT !.loaded = FALSE]
    /\ active' = None /\ since' = {}
    /\ Op(Out, Idle)
    /\ jobs' = jobs \union {Job(Out, "delete", None, None)}
    /\ UNCHANGED <<lock, keychain, outside, faults, lost>>

(* `sign_out` takes the mutex and forgets the tokens.  A write of a dropped *)
(* call may still be under way.                                             *)
LockSignOut ==
    /\ ops[Out].phase = "locking" /\ lock = None
    /\ slot' = Empty
    /\ active' = None
    /\ lock' = Out
    /\ Op(Out, [Idle EXCEPT !.phase = "deleting"])
    /\ jobs' = jobs \union {Job(Out, "delete", None, None)}
    /\ since' = IF \E job \in jobs : job.kind = "write" THEN {"undeleted"} ELSE {}
    /\ UNCHANGED <<keychain, outside, faults, lost>>

(* A keychain step runs, whoever still waits for it, on all it is for or,   *)
(* failing, on part of it.  A write stops at a refresh token that cannot be *)
(* stored; an ID token too large to be stored is no fault, but leaves the   *)
(* one of an earlier session there.  The two deletes do not depend on each  *)
(* other.                                                                   *)
Works(job, done) ==
    LET fails == IF job.kind = "write" THEN "refresh" \notin done
                 ELSE done # {"refresh", "id"}
        refresh == IF job.kind = "write" THEN OrElse(job.refresh, keychain.refresh)
                   ELSE None
    IN  /\ job \in jobs /\ job.kind # "read"
        /\ job.kind = "write" /\ "id" \in done => "refresh" \in done
        /\ jobs' = jobs \ {job}
        /\ keychain' = [id |-> IF "id" \in done THEN job.id ELSE keychain.id,
                        refresh |-> IF "refresh" \in done THEN refresh
                                    ELSE keychain.refresh]
        /\ FaultIf(fails)
        /\ lost' = lost \union (IF fails /\ job.refresh # None
                                THEN {job.refresh.session} ELSE {})
        /\ since' = since \union (IF fails /\ job.kind = "delete"
                                  THEN {"undeleted"} ELSE {})
        /\ UNCHANGED <<slot, lock, ops, outside, active>>

(* Mutant: the call starts over with the mutex still held. *)
FinishedAsksAgain(o) ==
    /\ ops[o].phase \in {"writing", "deleting"} /\ lock = o
    /\ \A job \in jobs : job.op # o
    /\ IF o \in Callers
       THEN Op(o, [Idle EXCEPT !.phase = "locking"]) /\ UNCHANGED lock
       ELSE Op(o, Idle) /\ lock' = None
    /\ UNCHANGED <<slot, keychain, jobs, outside, history>>

(* The keychain step of an operation is over: the mutex is given back.      *)
Finished(o) ==
    /\ ops[o].phase \in {"writing", "deleting"} /\ lock = o
    /\ \A job \in jobs : job.op # o
    /\ Op(o, IF o \notin Callers THEN Idle
             ELSE IF Valid(slot) THEN Ended("token")
             ELSE Ended("signIn"))
    /\ lock' = None
    /\ UNCHANGED <<slot, keychain, jobs, outside, history>>

-----------------------------------------------------------------------------
(* The future of an operation is dropped: a connection attempt is given up, *)
(* the sign-in is cancelled.  `loaded` stays set when a load is dropped.    *)
Dropped(o) ==
    /\ ops[o].phase # "idle" /\ Fault
    /\ Op(o, Idle)
    /\ lock' = IF lock = o THEN None ELSE lock
    /\ jobs' = {job \in jobs : job.op # o \/ job.kind # "read"}
    /\ lost' = lost \union Unstored({o})
    /\ since' = since \union (IF ops[o].phase = "loading" THEN {"unread"} ELSE {})
    /\ UNCHANGED <<slot, keychain, outside, active>>

(* The process restarts; what was under way is lost. *)
Restart ==
    /\ Fault
    /\ slot' = [Empty EXCEPT !.loaded = FALSE]
    /\ ops' = [o \in Ops |-> Idle] /\ jobs' = {} /\ lock' = None
    /\ lost' = lost \union Unstored(Ops)
    /\ since' = since \union {"restart"}
                      \union (IF \E job \in jobs : job.kind = "delete"
                              THEN {"undeleted"} ELSE {})
    /\ UNCHANGED <<keychain, outside, active>>

(* Time passes; the provider ends a session. *)
Expires ==
    /\ now < MaxTime /\ now' = now + 1
    /\ UNCHANGED <<slot, keychain, lock, ops, jobs, idp, history>>

Revokes(s) ==
    /\ idp[s] # None /\ Fault
    /\ idp' = [idp EXCEPT ![s] = None]
    /\ UNCHANGED <<slot, keychain, lock, ops, jobs, now, active, lost, since>>

(* The user has signed in before and the keychain has the tokens, or has    *)
(* not and there are those of the kubeconfigs only.                         *)
Init ==
    /\ slot = [Empty EXCEPT !.loaded = FALSE]
    /\ \/ keychain = First /\ active = 1
       \/ keychain = Nothing /\ active = None
    /\ lock = None /\ ops = [o \in Ops |-> Idle] /\ jobs = {}
    /\ idp = [s \in {1} |-> 0] /\ now = 0
    /\ faults = 0 /\ lost = {} /\ since = {"restart"}

CallSteps(c) ==
    \/ Loaded(c, FALSE) \/ RefreshFails(c, FALSE) \/ Rejected(c)
    \/ \E rotates \in BOOLEAN : Refreshed(c, rotates, TRUE)
    \/ AcceptRefreshed(c) \/ Finished(c)

UserSteps == Finished(In) \/ Finished(Out)

Next ==
    \/ \E o \in Callers \union {Out} : Begin(o)
    \/ \E o \in Ops : Dropped(o)
    \/ \E c \in Callers :
          \/ LockToken(c) \/ CallSteps(c) \/ Loaded(c, TRUE) \/ RefreshFails(c, TRUE)
          \/ \E rotates \in BOOLEAN : Refreshed(c, rotates, FALSE)
    \/ \E withRefresh \in BOOLEAN : SignIn(withRefresh)
    \/ LockSignIn \/ LockSignOut \/ UserSteps
    \/ \E job \in jobs : \E done \in SUBSET {"refresh", "id"} : Works(job, done)
    \/ Restart \/ Expires \/ \E s \in DOMAIN idp : Revokes(s)

Spec == Init /\ [][Next]_vars

(* Futures are polled, keychain steps end, requests to the provider time    *)
(* out, and the mutex is handed on in the order it was asked for.           *)
Fairness ==
    /\ \A c \in Callers : SF_vars(LockToken(c)) /\ WF_vars(CallSteps(c))
    /\ SF_vars(LockSignIn) /\ SF_vars(LockSignOut) /\ WF_vars(UserSteps)
    /\ WF_vars(\E job \in jobs : Works(job, {"refresh", "id"}))

FairSpec == Spec /\ Fairness

-----------------------------------------------------------------------------
TypeOK ==
    /\ slot \in [loaded : BOOLEAN, id : Id \union {None},
                 refresh : Refresh \union {None}]
    /\ keychain \in [id : Id \union {None}, refresh : Refresh \union {None}]
    /\ lock \in Ops \union {None}
    /\ ops \in [Ops -> Call]
    /\ jobs \subseteq KeychainStep
    /\ \E n \in 1..MaxSessions : idp \in [1..n -> (0..MaxRefreshes) \union {None}]
    /\ now \in 0..MaxTime /\ active \in (1..MaxSessions) \union {None}
    /\ faults \in 0..MaxFaults /\ lost \subseteq 1..MaxSessions /\ since \subseteq Events

(* The session the user is signed in to has a refresh token, and the        *)
(* provider still takes it.                                                 *)
Honoured == active # None /\ idp[active] # None

(* No connection goes to the provider with a refresh token it has replaced  *)
(* (providers take that for theft and end the session), however many need a *)
(* token at once.  Two exceptions, both in the formula: a token that stands *)
(* in a kubeconfig, which is never written back and which `load` falls back *)
(* to when the keychain has none; and a session in `lost`: its new refresh  *)
(* token did not get to the keychain because the provider's answer was lost *)
(* or had no ID token, the call with it was dropped or the process ended    *)
(* before the write was over, or the keychain refused it; or a keychain     *)
(* step of a dropped call was under way when the session began.             *)
NeverReused ==
    \A c \in Callers : ops[c].phase = "refreshing" =>
        LET shown == ops[c].refresh
        IN  \/ idp[shown.session] \in {None, shown.nr}
            \/ \E d \in Callers : shown = Secrets[d].refresh
            \/ shown.session \in lost

(* Who has signed in is asked to sign in again only if they signed out, the *)
(* provider ended their session, or it gave no refresh token for it         *)
(* (~Honoured): not for a request that failed, an expired ID token, another *)
(* connection's refresh or a restart.  The exceptions: the session's newest *)
(* refresh token was lost (`lost`, see NeverReused: also by a request that  *)
(* failed after the provider had replaced the token); the keychain could    *)
(* not be read, or the call that read it was dropped ("unread"); or a new   *)
(* ID token is out of date by the time it is stored (phase "writing").      *)
AskedOnlyIfNeeded ==
    [][\A c \in Callers : ops'[c].ended = "signIn" /\ ops[c].ended # "signIn" =>
          \/ ~Honoured
          \/ active \in lost \/ "unread" \in since'
          \/ ops[c].phase = "writing"]_vars

(* After a sign-out ("Forgets the tokens (memory and keychain)") memory has *)
(* no token while the process runs, whatever fails or was under way, and    *)
(* the keychain has none once the delete is over; after a restart memory    *)
(* has none either.  Except that a restarted process falls back to the      *)
(* tokens of a kubeconfig, if that has any ("fallback": it is as if the     *)
(* user had signed in), and that tokens stay in the keychain if a delete    *)
(* fails, the process ends before it, or a dropped call's write was under   *)
(* way at the sign-out ("undeleted").                                       *)
SignedOutIsForgotten ==
    active = None =>
        /\ "restart" \notin since => slot = Empty
        /\ since \intersect {"fallback", "undeleted"} = {} =>
              /\ slot.id = None /\ slot.refresh = None
              /\ keychain = Nothing \/ \E job \in jobs : job.kind = "delete"

(* Every call ends, although each waits for the one before it. *)
CallsEnd == \A o \in Ops : ops[o].phase # "idle" ~> ops[o].phase = "idle"
=============================================================================
