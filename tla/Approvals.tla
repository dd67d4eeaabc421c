----------------------------- MODULE Approvals ------------------------------
(***************************************************************************)
(* The change tools of the MCP server: a call of an agent is checked,       *)
(* shown to the user, allowed once more and carried out                     *)
(* (kubyl_mcp_core/changes.rs, handler.rs, approval.rs), while the hub      *)
(* keeps what waits for the user (hub.rs).                                  *)
(*                                                                         *)
(* A call is a future on the server's runtime; the hub runs on the host     *)
(* thread; the agent, the settings, other tools and the API server act at   *)
(* any time.  The API server is external: it takes a request after it was   *)
(* sent, whether or not somebody still waits for the answer.                *)
(***************************************************************************)
EXTENDS Integers, Sequences, FiniteSets, SequencesExt

CONSTANTS
    Calls,          \* calls of change tools
    Asks,           \* what each call may ask for: sets of [kind, docs]
    Objects,        \* names of objects
    None,           \* absence: no object, no decision, no outcome
    MaxDocs,        \* `MAX_DOCS` of `apply_manifest`
    MaxVersions,    \* bound: versions of objects the server hands out
    MaxToggles      \* bound: changes of the settings and of the cluster list

ASSUME ApprovalsAssumption ==
    /\ MaxDocs \in Nat \ {0} /\ MaxVersions \in Nat /\ MaxToggles \in Nat
    /\ None \notin Nat /\ None \notin BOOLEAN
    /\ \A c \in Calls : \A ask \in Asks[c] :
          /\ ask.kind \in {"apply", "patch", "delete"}
          /\ ask.docs \in Seq(Objects) /\ Len(ask.docs) \in 1..MaxDocs
          /\ ask.kind # "apply" => Len(ask.docs) = 1

VARIABLES
    writes,     \* `McpHub::writes`: whether changes may be asked for
    cluster,    \* whether the cluster is listed, and read-only
    objects,    \* the API server's objects: [uid, version] or None
    version,    \* the last version the API server handed out
    calls,      \* the calls' futures
    channel,    \* requests on their way to the hub
    pending,    \* `McpHub::pending`
    requests,   \* changes on their way to the API server
    toggles,    \* so far
    effects,    \* what the API server did for calls (history)
    said        \* the calls the user said yes to (history)

serverVars == <<objects, version, requests, effects>>
hubVars == <<channel, pending, said>>
userVars == <<writes, cluster, toggles>>
vars == <<serverVars, hubVars, userVars, calls>>

-----------------------------------------------------------------------------
(* `scale_resource` and `restart_resource` carry the reviewed version as    *)
(* `patch_resource` does.                                                   *)
Kinds == {"apply", "patch", "delete"}

(* Where a call is, and how it ended. *)
Phases == {"new", "checking", "asking", "executing", "ended"}
Outcomes == {"off", "nothing", "refused", "rejected", "stopped", "done", "failed",
             "timeout", "aborted"}

Decisions == {"Approved", "Rejected"}

(* What the API server answers; a call may also lose the answer. *)
Replies == {"ok", "missing", "conflict"}

ASSUME NoneAssumption == None \notin Outcomes \union Replies \union Decisions

(* An object as the API server has it. *)
Live == [uid : Nat, version : Nat]

(* A call: its documents, what it reviewed of them so far, and what its     *)
(* requests came to; `sent` is the last document a request was sent for.    *)
CallState == [phase : Phases, kind : Kinds, docs : Seq(Objects),
              reviewed : Seq(Live \union {None}),
              decision : Decisions \union {None}, sent : Nat,
              results : Seq(Replies \union {"lost"}),
              outcome : Outcomes \union {None}]

(* A request to the API server, with what it has to find. *)
Needs == [version : Nat] \union [uid : Nat] \union [absent : {TRUE}]
           \union [force : {FALSE}]

Request == [call : Calls, doc : Nat, object : Objects, kind : Kinds,
            requires : Needs, answer : Replies \union {None}]

NewCall == [phase |-> "new", kind |-> "apply", docs |-> <<>>, reviewed |-> <<>>,
            decision |-> None, sent |-> 0, results |-> <<>>, outcome |-> None]

Allowed == writes /\ cluster.listed /\ ~cluster.readOnly

Waits(c) == calls[c].phase = "asking"

(* A future that ended; what it sent is kept for the properties. *)
Ended(call, outcome) ==
    [(IF call.sent = 0 THEN NewCall ELSE call) EXCEPT !.phase = "ended",
                                                      !.outcome = outcome]

Becomes(c, call) == calls' = [calls EXCEPT ![c] = call]

-----------------------------------------------------------------------------
(* An agent calls a tool; `ToolsHandler::change` looks at the settings.     *)
(* Without the cluster there is no such tool.                               *)
Call(c, ask) ==
    /\ calls[c].phase = "new"
    /\ cluster.listed
    /\ Becomes(c, IF Allowed
                  THEN [NewCall EXCEPT !.phase = "checking", !.kind = ask.kind,
                                       !.docs = ask.docs]
                  ELSE Ended(NewCall, "off"))
    /\ UNCHANGED serverVars /\ UNCHANGED hubVars /\ UNCHANGED userVars

(* `check` reads the next object.  Patch and delete need it; what would not *)
(* change it (`same`) is left out of an apply and ends a patch.             *)
CheckReads(c, same) ==
    LET call == calls[c]
        next == Len(call.reviewed) + 1
        live == objects[call.docs[next]]
    IN  /\ call.phase = "checking"
        /\ next <= Len(call.docs)
        /\ same => live # None /\ call.kind # "delete"
        /\ Becomes(c,
             CASE live = None /\ call.kind # "apply" -> Ended(call, "refused")
               [] same /\ call.kind = "patch" -> Ended(call, "nothing")
               [] same /\ call.kind = "apply" ->
                    [call EXCEPT !.docs = RemoveAt(@, next)]
               [] OTHER -> [call EXCEPT !.reviewed = Append(@, live)])
        /\ UNCHANGED serverVars /\ UNCHANGED hubVars /\ UNCHANGED userVars

(* The server refuses the dry run, a read fails or the check takes longer   *)
(* than `STEP_TIMEOUT`.                                                     *)
CheckFails(c) ==
    /\ calls[c].phase = "checking"
    /\ Becomes(c, Ended(calls[c], "refused"))
    /\ UNCHANGED serverVars /\ UNCHANGED hubVars /\ UNCHANGED userVars

(* The check is over: `ChannelApprover::approve` sends the proposal to the  *)
(* hub, unless nothing would change.                                        *)
Ask(c) ==
    LET call == calls[c]
    IN  /\ call.phase = "checking"
        /\ Len(call.reviewed) = Len(call.docs)
        /\ IF call.docs = <<>>
           THEN Becomes(c, Ended(call, "nothing")) /\ UNCHANGED channel
           ELSE /\ Becomes(c, [call EXCEPT !.phase = "asking"])
                /\ channel' = Append(channel, c)
        /\ UNCHANGED <<pending, said>> /\ UNCHANGED serverVars /\ UNCHANGED userVars

(* The call hears of a decision, if it still waits. *)
Replied(heard, decision) ==
    [c \in Calls |-> IF c \in heard /\ Waits(c)
                     THEN [calls[c] EXCEPT !.decision = decision] ELSE calls[c]]

(* `requested`: the hub takes a request. *)
Requested ==
    /\ channel # <<>>
    /\ channel' = Tail(channel)
    /\ IF ~writes
       THEN calls' = Replied({Head(channel)}, "Rejected") /\ UNCHANGED pending
       ELSE /\ UNCHANGED calls
            /\ pending' = IF Waits(Head(channel)) THEN pending \union {Head(channel)}
                          ELSE pending
    /\ UNCHANGED said /\ UNCHANGED serverVars /\ UNCHANGED userVars

(* `answer`: the user decides. *)
Answer(c, decision) ==
    /\ c \in pending
    /\ pending' = pending \ {c}
    /\ calls' = Replied({c}, decision)
    /\ said' = IF decision = "Approved" THEN said \union {c} ELSE said
    /\ UNCHANGED channel /\ UNCHANGED serverVars /\ UNCHANGED userVars

(* `prune`, every five seconds. *)
Prune ==
    /\ \E c \in pending : ~Waits(c)
    /\ pending' = {c \in pending : Waits(c)}
    /\ UNCHANGED <<channel, said, calls>>
    /\ UNCHANGED serverVars /\ UNCHANGED userVars

(* Nobody answers within `ANSWER_TIMEOUT`. *)
AnswerTimeout(c) ==
    /\ Waits(c)
    /\ calls[c].decision = None
    /\ Becomes(c, Ended(calls[c], "rejected"))
    /\ UNCHANGED serverVars /\ UNCHANGED hubVars /\ UNCHANGED userVars

(* Mutant: an approved change is not checked again. *)
DecidedAtOnce(c) ==
    LET call == calls[c]
    IN  /\ Waits(c) /\ call.decision # None
        /\ Becomes(c, IF call.decision = "Rejected" THEN Ended(call, "rejected")
                      ELSE [call EXCEPT !.phase = "executing", !.decision = None])
        /\ UNCHANGED serverVars /\ UNCHANGED hubVars /\ UNCHANGED userVars

(* The call hears the decision; `recheck` (`still_allowed`) right before it *)
(* acts.                                                                    *)
Decided(c) ==
    LET call == calls[c]
    IN  /\ Waits(c) /\ call.decision # None
        /\ Becomes(c, IF call.decision = "Rejected" THEN Ended(call, "rejected")
                      ELSE IF ~Allowed THEN Ended(call, "stopped")
                      ELSE [call EXCEPT !.phase = "executing", !.decision = None])
        /\ UNCHANGED serverVars /\ UNCHANGED hubVars /\ UNCHANGED userVars

-----------------------------------------------------------------------------
(* Mutant: an object that was not there is merged into as well. *)
PreconditionForgetsAbsence(call, i) ==
    CASE call.kind = "patch" -> [version |-> call.reviewed[i].version]
      [] call.kind = "delete" -> [uid |-> call.reviewed[i].uid]
      [] OTHER -> [force |-> FALSE]

(* What the API server has to find for document `i` of `call`: the version  *)
(* the user reviewed, its identity, nothing at all (`create_absent`), or    *)
(* whatever is there, as long as no other manager owns the fields.          *)
Precondition(call, i) ==
    CASE call.kind = "patch" -> [version |-> call.reviewed[i].version]
      [] call.kind = "delete" -> [uid |-> call.reviewed[i].uid]
      [] call.reviewed[i] = None -> [absent |-> TRUE]
      [] OTHER -> [force |-> FALSE]

(* `execute` sends the next request of an approved call. *)
Execute(c) ==
    LET call == calls[c]
        next == Len(call.results) + 1
    IN  /\ call.phase = "executing"
        /\ call.sent < next /\ next <= Len(call.docs)
        /\ requests' = requests \union
                 {[call |-> c, doc |-> next, object |-> call.docs[next],
                   kind |-> call.kind, requires |-> Precondition(call, next),
                   answer |-> None]}
        /\ Becomes(c, [call EXCEPT !.sent = next])
        /\ UNCHANGED <<objects, version, effects>>
        /\ UNCHANGED hubVars /\ UNCHANGED userVars

(* The call that waits for request `r`. *)
Heard(r) == /\ calls[r.call].phase = "executing"
            /\ r.doc = Len(calls[r.call].results) + 1

(* The API server's answer to a request that finds `live`. *)
Fits(r, live) ==
    LET has(f) == f \in DOMAIN r.requires
    IN  /\ has("version") => live # None /\ live.version = r.requires.version
        /\ has("uid") => live # None /\ live.uid = r.requires.uid
        /\ has("absent") => live = None

Answers(r, live) ==
    IF live = None /\ r.kind # "apply" THEN {"missing"}
    ELSE IF ~Fits(r, live) THEN {"conflict"}
    ELSE IF "force" \in DOMAIN r.requires THEN {"ok", "conflict"}
    ELSE {"ok"}

(* The API server takes a request, whoever still waits for it. *)
ServerTakes(r, answer) ==
    LET live == objects[r.object]
        fresh == [uid |-> IF live = None THEN version + 1 ELSE live.uid,
                  version |-> version + 1]
    IN  /\ r \in requests /\ r.answer = None
        /\ answer \in Answers(r, live)
        /\ requests' = (requests \ {r}) \union
                 (IF Heard(r) THEN {[r EXCEPT !.answer = answer]} ELSE {})
        /\ IF answer # "ok" THEN UNCHANGED <<objects, version, effects>>
           ELSE /\ objects' = [objects EXCEPT
                         ![r.object] = IF r.kind = "delete" THEN None ELSE fresh]
                /\ version' = IF r.kind = "delete" THEN version ELSE version + 1
                /\ effects' = effects \union
                         {[call |-> r.call, doc |-> r.doc, onto |-> live]}
        /\ UNCHANGED calls /\ UNCHANGED hubVars /\ UNCHANGED userVars

(* Mutant: only the last document decides. *)
TookLast(call, result) ==
    LET results == Append(call.results, result)
        over == [call EXCEPT !.results = results]
    IN  IF Len(results) < Len(call.docs) THEN over
        ELSE Ended(over, IF Last(results) = "ok" THEN "done" ELSE "failed")

(* `call` after its next result: an apply goes on after a failed document,  *)
(* and has failed if one did; a delete that finds nothing did what was      *)
(* asked.                                                                   *)
Took(call, result) ==
    LET results == Append(call.results, result)
        over == [call EXCEPT !.results = results]
        good == {"ok"} \union (IF call.kind = "delete" THEN {"missing"} ELSE {})
    IN  IF Len(results) < Len(call.docs) THEN over
        ELSE Ended(over, IF ToSet(results) \subseteq good THEN "done" ELSE "failed")

(* The call hears the API server. *)
Hears(r) ==
    /\ r \in requests /\ r.answer # None
    /\ requests' = requests \ {r}
    /\ Becomes(r.call, Took(calls[r.call], r.answer))
    /\ UNCHANGED <<objects, version, effects>>
    /\ UNCHANGED hubVars /\ UNCHANGED userVars

(* What the call no longer listens to: the API server may still take it. *)
Unheard(c) == {r \in requests : ~(r.call = c /\ r.answer # None)}

(* Mutant: a request without an answer is sent again. *)
LostIsRetried(c) ==
    /\ calls[c].phase = "executing" /\ calls[c].sent = Len(calls[c].results) + 1
    /\ requests' = Unheard(c)
    /\ Becomes(c, [calls[c] EXCEPT !.sent = @ - 1])
    /\ UNCHANGED <<objects, version, effects>>
    /\ UNCHANGED hubVars /\ UNCHANGED userVars

(* The connection breaks before the answer arrives. *)
Lost(c) ==
    /\ calls[c].phase = "executing" /\ calls[c].sent = Len(calls[c].results) + 1
    /\ requests' = Unheard(c)
    /\ Becomes(c, Took(calls[c], "lost"))
    /\ UNCHANGED <<objects, version, effects>>
    /\ UNCHANGED hubVars /\ UNCHANGED userVars

(* Mutant: the change is carried out without a limit. *)
StepTimeoutNever(c) == FALSE /\ c \in Calls /\ UNCHANGED vars

(* The change takes longer than `STEP_TIMEOUT`. *)
StepTimeout(c) ==
    /\ calls[c].phase = "executing"
    /\ requests' = Unheard(c)
    /\ Becomes(c, Ended(calls[c], "timeout"))
    /\ UNCHANGED <<objects, version, effects>>
    /\ UNCHANGED hubVars /\ UNCHANGED userVars

(* The future of a call is dropped: the server restarts. *)
Abort(c) ==
    /\ calls[c].phase \notin {"new", "ended"}
    /\ requests' = Unheard(c)
    /\ Becomes(c, Ended(calls[c], "aborted"))
    /\ UNCHANGED <<objects, version, effects>>
    /\ UNCHANGED hubVars /\ UNCHANGED userVars

-----------------------------------------------------------------------------
(* `settings_changed`: changes are switched on or off.  Dropping what waits *)
(* closes the way back, which reads as a rejection.                         *)
SettingsChanged ==
    /\ toggles < MaxToggles
    /\ toggles' = toggles + 1
    /\ writes' = ~writes
    /\ IF writes' THEN UNCHANGED <<pending, calls>>
       ELSE pending' = {} /\ calls' = Replied(pending, "Rejected")
    /\ UNCHANGED <<cluster, channel, said>> /\ UNCHANGED serverVars

(* `set_clusters`: the cluster becomes read-only, goes or comes back. *)
ClustersChanged ==
    /\ toggles < MaxToggles
    /\ toggles' = toggles + 1
    /\ cluster' \in [listed : BOOLEAN, readOnly : BOOLEAN] \ {cluster}
    /\ UNCHANGED <<writes, calls>> /\ UNCHANGED serverVars /\ UNCHANGED hubVars

(* Somebody else creates, changes or deletes an object. *)
OthersWrite(o) ==
    /\ version < MaxVersions
    /\ version' = version + 1
    /\ \/ /\ objects[o] = None
          /\ objects' = [objects EXCEPT ![o] = [uid |-> version', version |-> version']]
       \/ /\ objects[o] # None
          /\ \/ objects' = [objects EXCEPT ![o].version = version']
             \/ objects' = [objects EXCEPT ![o] = None]
    /\ UNCHANGED <<requests, effects, calls>>
    /\ UNCHANGED hubVars /\ UNCHANGED userVars

-----------------------------------------------------------------------------
Init ==
    /\ writes = TRUE
    /\ cluster = [listed |-> TRUE, readOnly |-> FALSE]
    /\ objects \in [Objects -> {None, [uid |-> 1, version |-> 1]}]
    /\ version = 1
    /\ calls = [c \in Calls |-> NewCall]
    /\ channel = <<>> /\ pending = {} /\ requests = {}
    /\ toggles = 0 /\ effects = {} /\ said = {}

CallSteps(c) ==
    \/ \E same \in BOOLEAN : CheckReads(c, same)
    \/ Ask(c) \/ Decided(c) \/ Execute(c)
    \/ CheckFails(c) \/ AnswerTimeout(c) \/ StepTimeout(c)

Next ==
    \/ \E c \in Calls :
          \/ \E ask \in Asks[c] : Call(c, ask)
          \/ \E decision \in Decisions : Answer(c, decision)
          \/ CallSteps(c) \/ Lost(c) \/ Abort(c)
    \/ \E r \in requests :
          \/ \E answer \in Replies : ServerTakes(r, answer)
          \/ Hears(r)
    \/ Requested \/ Prune \/ SettingsChanged \/ ClustersChanged
    \/ \E o \in Objects : OthersWrite(o)

Spec == Init /\ [][Next]_vars

(* A future is polled while it has something to do and its timers fire; the *)
(* hub takes its channel and prunes every five seconds.  The user, the      *)
(* agent and the API server owe nothing.                                    *)
Fairness == /\ \A c \in Calls : WF_vars(CallSteps(c))
            /\ WF_vars(Requested) /\ WF_vars(Prune)

FairSpec == Spec /\ Fairness

-----------------------------------------------------------------------------
(* Every variable keeps to its type. *)
TypeOK ==
    /\ writes \in BOOLEAN /\ cluster \in [listed : BOOLEAN, readOnly : BOOLEAN]
    /\ toggles \in 0..MaxToggles
    /\ objects \in [Objects -> Live \union {None}] /\ version \in Nat
    /\ calls \in [Calls -> CallState]
    /\ channel \in Seq(Calls) /\ pending \in SUBSET Calls /\ said \in SUBSET Calls
    /\ requests \in SUBSET Request
    /\ effects \in SUBSET [call : Calls, doc : Nat, onto : Live \union {None}]

(* Every change the API server makes for a call was said yes to by the user *)
(* and is made once, whatever is lost, late or answered twice.              *)
ApprovedOnce ==
    \A e \in effects :
        /\ e.call \in said
        /\ \A f \in effects : f.call = e.call /\ f.doc = e.doc => f = e

(* A patch changes the very version the user reviewed, a delete removes the *)
(* object they reviewed and no replacement, and what was to be created was  *)
(* not there (`resource_version`, `uid` and `create_absent` in changes.rs). *)
ReviewedIsChanged ==
    \A e \in effects :
        LET call == calls[e.call]
            seen == call.reviewed[e.doc]
        IN  /\ call.kind = "patch" => e.onto = seen
            /\ call.kind = "delete" => e.onto.uid = seen.uid
            /\ seen = None => e.onto = None

(* What an agent is told is so: "nothing was changed" of a rejected or      *)
(* stopped call stays true, a call that succeeded did every document (or    *)
(* found nothing to delete), and a conflict did nothing.                    *)
AnswersAreTrue ==
    \A c \in Calls :
        LET call == calls[c]
            did == {e.doc : e \in {e \in effects : e.call = c}}
        IN  /\ call.outcome \in {"off", "nothing", "refused", "rejected", "stopped"}
                 => did = {} /\ \A r \in requests : r.call # c
            /\ call.outcome = "done"
                 => \/ did = DOMAIN call.docs
                    \/ call.kind = "delete" /\ call.results = <<"missing">>
            /\ \A i \in DOMAIN call.results :
                 call.results[i] \in {"conflict", "missing"} => i \notin did

(* A change that still waits for the user when the permission is withdrawn  *)
(* for good (changes are off, the cluster is read-only or no longer listed) *)
(* is never made, whether or not they say yes (`recheck` in changes.rs).    *)
WithdrawnIsNotDone ==
    \A c \in Calls :
        [](Waits(c) /\ []~Allowed => [](\A e \in effects : e.call # c))

(* Every call ends: neither the user nor the API server can keep it.        *)
CallsEnd == \A c \in Calls : calls[c].phase # "new" ~> calls[c].phase = "ended"
=============================================================================
