------------------------------ MODULE Takeover ------------------------------
(***************************************************************************)
(* Kubyl's own MCP server in several instances of Kubyl that share a port,  *)
(* a token in the keychain and a start lock (kubyl_mcp_core/hub.rs): the    *)
(* first to bind serves, the others stand by and try to take over.          *)
(*                                                                         *)
(* A start is a blocking step (start lock, old server dropped, token read   *)
(* or replaced) followed by an asynchronous one that binds the port; the    *)
(* start lock is held until that one ends.  Dropping a start's handle ends  *)
(* the asynchronous part at once; the blocking part runs to its end.        *)
(***************************************************************************)
EXTENDS Naturals, FiniteSets

CONSTANTS
    Instances,      \* instances of Kubyl
    None,           \* absence: no token, nobody on the port
    Other,          \* a program that is not Kubyl
    Faults,         \* what may go wrong: "keychain", "slow", "other", "bind"
    MaxChanges      \* bound: launches, exits, settings, regenerations, other
                    \* programs

ASSUME TakeoverAssumption ==
    /\ MaxChanges \in Nat /\ Faults \subseteq {"keychain", "slow", "other", "bind"}
    /\ None \notin Nat /\ None \notin Instances /\ Other \notin Instances
    /\ None # Other

VARIABLES
    hub,        \* `McpHub` of each instance
    starts,     \* starts that have not been heard of yet
    port,       \* who listens: [inst, token, up], or None
    stored,     \* the token in the keychain
    made,       \* tokens made so far
    changes     \* so far

sharedVars == <<port, stored, made>>
vars == <<hub, starts, sharedVars, changes>>

-----------------------------------------------------------------------------
States == {"Off", "Starting", "Running", "Standby", "Failed"}

(* A start waits for the lock; the three that follow hold it until the      *)
(* future ends with one of the three results.                               *)
Holding == {"binding", "inUse"}
Results == {"Serving", "Standby", "Failed"}
Phases == {"blocked"} \union Holding \union Results

Token == Nat \ {0}

Hub == [up : BOOLEAN, enabled : BOOLEAN, state : States, server : BOOLEAN,
        token : Token \union {None}, replace : BOOLEAN]

Start == [inst : Instances, takeover : BOOLEAN, replace : BOOLEAN, old : BOOLEAN,
          latest : BOOLEAN, wanted : BOOLEAN, phase : Phases,
          token : Token \union {None}]

Listener == [inst : Instances \union {Other}, token : Token \union {None},
             up : BOOLEAN]

ASSUME ListenerAssumption == None \notin Listener

NotRunning == [up |-> FALSE, enabled |-> TRUE, state |-> "Off", server |-> FALSE,
               token |-> None, replace |-> FALSE]

(* Mutant: the lock is let go of once the token is known, so that a start   *)
(* that holds it keeps nobody waiting.                                      *)
LockFreeEarly == TRUE

(* The start lock: a start holds it from its blocking step to its end. *)
LockFree == \A s \in starts : s.phase \notin Holding

Serves == port # None /\ port.inst # Other /\ port.up

(* A server that is dropped stops answering, and frees the port a moment    *)
(* later.                                                                   *)
Stopped(i) == IF port # None /\ port.inst = i THEN [port EXCEPT !.up = FALSE]
              ELSE port

Mine(i) == {s \in starts : s.inst = i}

(* Dropping `starting`: what still blocks goes on unheard, the rest ends,   *)
(* with the server it may have started.                                     *)
Abandoned(i) == {[s EXCEPT !.wanted = FALSE] :
                   s \in {s \in Mine(i) : s.phase = "blocked"}}

(* A start ended with a server that nobody has taken over yet. *)
DropsServer(i) == \E s \in Mine(i) : s.phase = "Serving"

-----------------------------------------------------------------------------
(* Mutant: every start leaves the state on the screen. *)
StartServerQuietly(i, h, takeover) ==
    /\ hub' = [hub EXCEPT ![i] = [h EXCEPT !.server = FALSE]]
    /\ starts' = (starts \ Mine(i))
           \union {[s EXCEPT !.latest = FALSE] : s \in Abandoned(i)}
           \union {[inst |-> i, takeover |-> takeover, replace |-> h.replace,
                    old |-> h.server, latest |-> TRUE, wanted |-> TRUE,
                    phase |-> "blocked", token |-> None]}
    /\ port' = IF DropsServer(i) THEN Stopped(i) ELSE port

(* `start_server` of instance `i`, whose hub is `h`: switched off, nothing  *)
(* is started and the server is dropped without the lock; otherwise a start *)
(* takes the old server with it, and earlier ones are superseded.           *)
StartServer(i, h, takeover) ==
    IF ~h.enabled
    THEN /\ hub' = [hub EXCEPT ![i] = [h EXCEPT !.state = "Off", !.token = None,
                                                !.server = FALSE]]
         /\ starts' = (starts \ Mine(i)) \union Abandoned(i)
         /\ port' = IF h.server \/ DropsServer(i) THEN Stopped(i) ELSE port
    ELSE /\ hub' = [hub EXCEPT ![i] =
                IF takeover THEN [h EXCEPT !.server = FALSE]
                ELSE [h EXCEPT !.state = "Starting", !.token = None,
                               !.server = FALSE]]
         /\ starts' = (starts \ Mine(i))
                \union {[s EXCEPT !.latest = FALSE] : s \in Abandoned(i)}
                \union {[inst |-> i, takeover |-> takeover, replace |-> h.replace,
                         old |-> h.server, latest |-> TRUE, wanted |-> TRUE,
                         phase |-> "blocked", token |-> None]}
         /\ port' = IF DropsServer(i) THEN Stopped(i) ELSE port

Counted == changes < MaxChanges /\ changes' = changes + 1

(* `start`, when an instance is launched. *)
Launch(i) ==
    /\ Counted
    /\ ~hub[i].up
    /\ StartServer(i, [NotRunning EXCEPT !.up = TRUE], FALSE)
    /\ UNCHANGED <<stored, made>>

(* An instance ends: its lock and its sockets go with it. *)
Quit(i) ==
    /\ Counted
    /\ hub[i].up
    /\ hub' = [hub EXCEPT ![i] = NotRunning]
    /\ starts' = starts \ Mine(i)
    /\ port' = IF port # None /\ port.inst = i THEN None ELSE port
    /\ UNCHANGED <<stored, made>>

(* `settings_changed`: the server is switched on or off, or restarted with  *)
(* another limit.                                                           *)
SettingsChanged(i, enabled) ==
    /\ Counted
    /\ hub[i].up
    /\ StartServer(i, [hub[i] EXCEPT !.enabled = enabled], FALSE)
    /\ UNCHANGED <<stored, made>>

(* `regenerate_token`, which an instance on standby ignores. *)
RegenerateToken(i) ==
    /\ Counted
    /\ hub[i].up
    /\ hub[i].state # "Standby"
    /\ StartServer(i, [hub[i] EXCEPT !.replace = TRUE], FALSE)
    /\ UNCHANGED <<stored, made>>

(* Another program takes the port or leaves it. *)
OtherProgram ==
    /\ Counted /\ "other" \in Faults
    /\ \/ port = None /\ port' = [inst |-> Other, token |-> None, up |-> TRUE]
       \/ port # None /\ port.inst = Other /\ port' = None
    /\ UNCHANGED <<hub, starts, stored, made>>

-----------------------------------------------------------------------------
Goes(s, phase) == starts' = (starts \ {s}) \union {[s EXCEPT !.phase = phase]}

(* The blocking step takes the lock and drops the old server; superseded by *)
(* a newer start, it leaves the token alone; otherwise it reads the token,  *)
(* and makes one if it was to be replaced or none is stored.                *)
Acquire(s) ==
    /\ s \in starts /\ s.phase = "blocked"
    /\ LockFree
    /\ port' = IF s.old THEN Stopped(s.inst) ELSE port
    /\ IF ~s.latest
       THEN starts' = starts \ {s} /\ UNCHANGED <<stored, made>>
       ELSE LET fresh == s.replace \/ stored = None
                token == IF fresh THEN made + 1 ELSE stored
            IN  /\ stored' = token
                /\ made' = IF fresh THEN made + 1 ELSE made
                /\ starts' = (starts \ {s}) \union
                     (IF s.wanted
                      THEN {[s EXCEPT !.phase = "binding", !.token = token,
                                      !.old = FALSE]} ELSE {})
    /\ UNCHANGED <<hub, changes>>

(* The keychain fails: the old token may be gone already. *)
AcquireFails(s) ==
    /\ "keychain" \in Faults
    /\ s \in starts /\ s.phase = "blocked"
    /\ LockFree /\ s.latest
    /\ port' = IF s.old THEN Stopped(s.inst) ELSE port
    /\ stored' \in {stored} \union (IF s.replace THEN {None} ELSE {})
    /\ starts' = (starts \ {s}) \union
         (IF s.wanted THEN {[s EXCEPT !.phase = "Failed", !.old = FALSE]} ELSE {})
    /\ UNCHANGED <<hub, made, changes>>

(* `serve` binds the port. *)
Bind(s) ==
    /\ s \in starts /\ s.phase = "binding"
    /\ port = None
    /\ port' = [inst |-> s.inst, token |-> s.token, up |-> TRUE]
    /\ Goes(s, "Serving")
    /\ UNCHANGED <<hub, stored, made, changes>>

(* The port cannot be bound for another reason than that it is taken. *)
BindFails(s) ==
    /\ "bind" \in Faults
    /\ s \in starts /\ s.phase = "binding"
    /\ Goes(s, "Failed")
    /\ UNCHANGED <<hub, sharedVars, changes>>

(* The port is taken: a takeover looks once, any other start tries for a    *)
(* second, which outlasts a server that was just stopped.                   *)
GiveUp(s) ==
    /\ s \in starts /\ s.phase = "binding"
    /\ port # None
    /\ s.takeover \/ port.up
    /\ Goes(s, "inUse")
    /\ UNCHANGED <<hub, sharedVars, changes>>

(* `serves_kubyl`: whoever listens now proves that it knows the token, or   *)
(* does not in time.                                                        *)
Probe(s, answers) ==
    /\ s \in starts /\ s.phase = "inUse"
    /\ LET knows == Serves /\ port.token = s.token
       IN  answers \in IF knows /\ "slow" \in Faults THEN BOOLEAN ELSE {knows}
    /\ Goes(s, IF answers THEN "Standby" ELSE "Failed")
    /\ UNCHANGED <<hub, sharedVars, changes>>

(* The host hears how a start ended. *)
Heard(s) ==
    LET h == hub[s.inst]
    IN  /\ s \in starts /\ s.phase \in Results
        /\ starts' = starts \ {s}
        /\ hub' = [hub EXCEPT ![s.inst] =
             CASE s.phase = "Serving" ->
                    [h EXCEPT !.state = "Running", !.server = TRUE,
                              !.token = s.token, !.replace = FALSE]
               [] s.phase = "Standby" ->
                    [h EXCEPT !.state = "Standby", !.token = s.token]
               [] s.phase = "Failed" ->
                    [h EXCEPT !.state = "Failed", !.token = None]]
        /\ UNCHANGED <<sharedVars, changes>>

(* Mutant: a takeover is tried once. *)
StandbyRetryNever(i) == FALSE /\ i \in Instances /\ UNCHANGED vars

(* The timer of an instance on standby. *)
StandbyRetry(i) ==
    /\ hub[i].state = "Standby"
    /\ \A s \in Mine(i) : ~s.wanted
    /\ StartServer(i, hub[i], TRUE)
    /\ UNCHANGED <<stored, made, changes>>

(* The listener of a stopped server is closed. *)
Closes ==
    /\ port # None /\ ~port.up
    /\ port' = None
    /\ UNCHANGED <<hub, starts, stored, made, changes>>

-----------------------------------------------------------------------------
Init ==
    /\ hub = [i \in Instances |-> NotRunning]
    /\ starts = {} /\ port = None /\ stored = None
    /\ made = 0 /\ changes = 0

Starts(i) == \E s \in Mine(i) : Acquire(s)
Works(i) == \E s \in Mine(i) :
               Bind(s) \/ GiveUp(s) \/ Heard(s) \/ \E a \in BOOLEAN : Probe(s, a)

Next ==
    \/ \E i \in Instances :
          \/ Launch(i) \/ Quit(i) \/ RegenerateToken(i) \/ StandbyRetry(i)
          \/ \E enabled \in BOOLEAN : SettingsChanged(i, enabled)
          \/ \E s \in Mine(i) : AcquireFails(s) \/ BindFails(s)
          \/ Starts(i) \/ Works(i)
    \/ OtherProgram \/ Closes

Spec == Init /\ [][Next]_vars

(* The timers fire, futures and blocking steps run, the lock is handed on   *)
(* to who waits for it although a standby keeps asking for it.              *)
Fairness ==
    /\ \A i \in Instances :
          SF_vars(Starts(i)) /\ WF_vars(Works(i)) /\ WF_vars(StandbyRetry(i))
    /\ WF_vars(Closes)

FairSpec == Spec /\ Fairness

-----------------------------------------------------------------------------
TypeOK ==
    /\ hub \in [Instances -> Hub] /\ starts \subseteq Start
    /\ port \in Listener \union {None}
    /\ stored \in Token \union {None} /\ made \in Nat /\ changes \in 0..MaxChanges

(* An instance that begins to serve does so with the token that is stored   *)
(* at that moment: no standby takes the port over with a token that was     *)
(* replaced since it looked (`start_lock` is held until the port is bound). *)
ServesTheStored ==
    [][Serves' /\ port' # port => port'.token = stored]_vars

(* What an instance shows as running is what answers: its server holds the  *)
(* port with the token on its screen, whatever was started, superseded and  *)
(* dropped on the way.                                                      *)
RunningServes ==
    \A i \in Instances : hub[i].state = "Running" =>
        Serves /\ port.inst = i /\ port.token = hub[i].token

(* In the end every instance that is on serves, has failed, or stands by    *)
(* for one that serves the very token it shows ("the standby picks the new  *)
(* one up on its next try"; "one of them carries on when the serving one    *)
(* quits").                                                                 *)
StandbyAgrees ==
    <>[](\A i \in Instances : hub[i].up /\ hub[i].enabled =>
            \/ hub[i].state \in {"Running", "Failed"}
            \/ hub[i].state = "Standby" /\ Serves /\ port.token = hub[i].token)
=============================================================================
