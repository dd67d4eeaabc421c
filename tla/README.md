# Verification of kubyl's cluster core

kubyl is a desktop client for Kubernetes, written in Rust. Its `*_core` crates hold
the logic behind every view: plain state machines that run on one host thread,
start work elsewhere, and have the results applied by callbacks. This directory
holds TLA+ models of those state machines, the TLC runs that check them on small
instances, and TLAPS proofs of their safety properties for every instance.

Paths below are relative to `src/crates/` unless they start with `src/`.
`PROJECT.json` lists every component, run, mutant, finding, hazard and theorem, and
maps each definition to the lines it models.

1. [The system](#1-the-system)
2. [The plan](#2-the-plan)
3. [Modules and the code they model](#3-modules-and-the-code-they-model)
4. [Runs](#4-runs)
5. [Where code and comments disagree](#5-where-code-and-comments-disagree)
6. [Fairness](#6-fairness)
7. [Proofs](#7-proofs)
8. [What is not covered](#8-what-is-not-covered)

To repeat a check: `tlc -config MCConnections.cfg MCConnections`;
to repeat a proof: `tlapm ConnectionsProofs.tla`, and so for the seven other `*Proofs` modules.

## 1. The system

### How a core runs

A core (`ManagerCore`, `ForwardsCore`, ...) is a struct of plain data with a handle
to its *host* (`kubyl_base/src/host.rs`). Every public call and every callback runs alone on the
host thread. A core asks the host to

- `spawn` a future elsewhere and run a callback with its result,
- run a callback after a delay, or for each batch of a stream.

Each gives a `TaskHandle`: *dropping the handle cancels the work, and its callback never
runs*. Handles live in the core's state, next to what they work for. Two consequences
shape all models: a call or callback is one atomic action, and what can interleave
is exactly the set of handles that are held, plus the few things that run outside of
any handle (access checks, features on other threads, the API server, the file
system).

### Components

| Component | State | Operations | Talks to | What makes it correct |
|---|---|---|---|---|
| **Connections** (`kubyl_kube_core/manager.rs`) | per cluster: state, generation, client, tasks, health step, failures, cached permissions; active cluster; clusters the user asked for | connect (four forms), disconnect, outcome of an attempt, retry timer, health tick, ping, permission check, rebuild after a load | loading, entries, auth, every feature that needs a client | results of old attempts are ignored; a client never outlives its kubeconfig; a state that promises something has the task that fulfils it |
| **Loading and hot reload** (`manager.rs`, `kubeconfig.rs`) | loaded kubeconfigs, reload generation, handles, file watcher | reload, finish, settings change, file events, watcher planning, building, adoption | file system; hands entries to connections | the newest load wins; the watcher follows the sources; reported changes are shown (both with exceptions, section 5) |
| **Entries and groups** (`groups.rs`, `manager.rs`) | entries, members, aliases | group, separate, re-key connections, resolve an id | loading; connections | a connection never ends up under other credentials; callbacks find it; the active cluster follows |
| **CRD watch and discovery** (`watches.rs`, `manager.rs`, `discovery.rs`) | generations and shapes per CRD, discovery, retries | list, apply, delete, discovery, re-runs | API server; resource views | nothing missed over breaks; re-runs happen, and only a few |
| **Port-forwards** (`kubyl_portforward_core`, `kubyl_portforward/lib.rs`) | forwards, waiting requests, watchers; listeners on their own threads | start, stop, check, probe, listener events, requests of features with timeout and grace | connections (client); metrics, web views, alerts (requests) | every request is answered, nothing runs without an owner, counts are right |
| **Target resolution** (`kubyl_portforward_core/resolve.rs`) | none | which pod a Service, workload or Route stands for | forwards | a pure function |
| **Resource caches and leases** (`kubyl_resources_core/store.rs`, `kubyl_resources/store.rs`) | objects, status, running and paused; leases with their idle time | watch events, batches, ensure_running, pause, resume, acquire, sweep, connection changes | connections; all views | the cache is a state the server had and never goes back; its watch uses the connection's client; an idle cache is dropped, a used one is not |
| **OIDC tokens** (`kubyl_kube_core/auth/oidc.rs`) | a slot per issuer and client behind a mutex, a copy in the keychain | token, load, refresh, accept, sign in, sign out | client building; keychain; identity provider | a replaced refresh token is not shown again; the user signs in only when needed; sign-out leaves nothing (exceptions in section 3) |
| **Other auth** (exec plugins, OpenShift, sign-in flows) | slots of the same kind | run a plugin, serve a redirect | client building | one at a time |
| **Logs** (`kubyl_logs_core`) | a task per container with its cursor, the merge of the backlogs | fetch, merge, look up, connect, read, resume | connections | no line lost, repeated or out of order; a recreated pod is followed |
| **MCP change tools and approvals** (`kubyl_mcp_core`: `changes.rs`, `approval.rs`, `handler.rs`, `hub.rs`) | calls, the channel of requests, waiting changes | check, ask, answer, execute, time out, switch off | agents, the user, API server | a change is done at most once, as reviewed, only while allowed; reports are true |
| **MCP server start** (`hub.rs`, `server.rs`) | server state, token, starts under way; shared: port, lock file, stored token | start, restart, regenerate the token, stand by, take over | other instances, keychain | what is shown as running answers; nobody serves a replaced token |
| **Files, settings, kubeconfig editor, update** | files on disk | save, back up, rename, transfer | file system; loading | a save neither loses another tool's edit nor leaves half a file |
| **Metrics, alerts, network flows** | demand-driven caches | demand, fetch, expire | forwards | no stale answer; no poller without demand |
| **Argo CD, Flux, Helm, operators, applications, cost, security, YAML, ...** | views over cached objects | pure functions, single API calls | resource caches | unit-testable |
| **Desktop UI** (GPUI crates) | windows, panels | render, input | all cores | not a state machine of its own |

### How they interact

```
 files --events--> Reload --loaded--> Entries --ids, fingerprints--> Connections
                      ^                                               |        |
   settings, user ----+                                        client |        | tasks
                                              TokenSlot <-- token --  |        v
 features --requests (channel)--> Forwards <-----client---------------+   Discovery
 views ------leases-------------> Store    <-----client, discovery----+
 agents --> Approvals --(client of the call)--> API server            |
 log views -> LogStreams <-----------------------client---------------+
```

`apply_loaded` and `apply_entries` are direct calls on the host thread; the arrows from
files, features, listeners and the API server are queues whose ends run on different
threads.

### What is hard here

- *Stale results.* Every callback compares the generation it was started with; every
  new attempt drops the old one's handles. Two mechanisms, both needed, in every
  operation.
- *Work outside handles.* Permission checks and `reach` futures cannot be cancelled by
  the core.
- *Dropped handles.* A handle that is dropped too early (a trimmed list, a replaced
  field) leaves a state that nothing will move on.
- *Ids that change.* Connections are re-keyed while their tasks keep the old id.
- *Overlap without order.* Loads, watcher builds and discoveries run several at a
  time and end in any order.
- *Timeouts racing answers.* A request's timeout, its grace period, its caller and its
  forward can each end it; the same for an approval and the change it allows.
- *Other writers.* Other tools change an object between its review and its change, other
  instances of kubyl take the port, the provider replaces tokens.
- *Blocking steps.* Work on blocking threads (keychain, lock file) goes on when the future
  that waits for it is dropped.
- *Resuming.* Watches, logs and sessions break and are taken up again from a cursor
  that is coarser than what it stands for.

The list in `PROJECT.json` under `hazards` places each of these at its line.

## 2. The plan

The order follows what the rest of the program depends on.

| # | Module | Subject | State |
|---|---|---|---|
| 1 | `Connections`, `ConnectionsProofs` | life of a connection | modelled, checked, safety proved |
| 2 | `Reload`, `ReloadProofs` | loading and watching kubeconfigs | modelled, checked, safety proved |
| 3 | `EntryIds`, `Entries` (proofs in `ReloadProofs`) | grouping and re-keying | modelled, checked, safety proved |
| 4 | `Discovery`, `DiscoveryProofs` | CRD watch and discovery of one connection | modelled, checked, safety proved |
| 5 | `Forwards`, `ForwardsProofs` | forwards, listeners, requests of features | modelled, checked, safety proved |
| 6 | `Replica`, `Store`, `StoreProofs` | watch caches with their leases, and what they promise | modelled, checked, safety and refinement proved |
| 7 | `Approvals`, `ApprovalsProofs` | MCP change tools and approvals | modelled, checked, safety proved |
| 8 | `Takeover`, `TakeoverProofs` | start, standby and takeover of the MCP server | modelled, checked, safety proved |
| 9 | `LogView`, `LogStreams`, `LogMerge` (proofs in `StoreProofs`) | following the containers of a pod | modelled, checked; safety proved but for the merge |
| 10 | `TokenSlot`, `TokenSlotProofs` | OIDC tokens in memory and keychain | modelled, checked, safety proved |
| 11 | `KubeconfigSave`, `Transfers` | saving with a changed-on-disk check; the transfer queue | planned |
| 12 | `Demand` | demand-driven caches of metrics and alerts | planned |

Composition: `Reload` decides *which* load is applied, `Entries` what entries and moves a
load means, `Connections` what that does to connections, `Discovery` what a connected
cluster's watches do until the next attempt drops them. `Forwards` and `Store` take their
client from `Connections`; `Store` has the events of a connection that reach a cache (attempts,
connects, pings, discoveries, re-keys) as actions of its own. Each module leaves the others' part nondeterministic (any load may arrive,
any attempt may fail, the cluster may go at any time), so what it shows holds in
every composition that respects those interfaces.

Abstract specifications:

- *a replica* (`Replica`): a cache that only ever shows states the server had, and never an
  earlier one but for starting over. `Store` implements it with `shown <- store.objects`
  (property `ShowsThePast` of the run `store`, theorem `AlwaysShowsThePast`);
- worth stating next: *a host task* ("a cancelled task never calls back") for the handles of
  `Connections` and `Reload`, and *a promise* (asked, then answered once) for `Forwards` and
  `Approvals`.

Theorems worth proving next: the safety side of the modules still planned. The models are written for proofs: named
assumptions, one action per operation, and one `RECURSIVE` operator, the merge of `LogMerge`, in a module of its own that
only the runs use.

## 3. Modules and the code they model

### Connections

One record per cluster id mirrors `Cluster`; a `generation` of 0 means that `clusters` has
no such key. `tasks` and `health` are the handles that are held; a task carries the
generation and the kubeconfig contents it was started with. `config` is what is loaded for
each id: contents, `Broken` (`info.error`) or nothing.

| Actions | Code |
|---|---|
| `Connect`, `EnsureConnected`, `ConnectInteractive`, `Activate` | the four ways to start an attempt; `Attempt` is `connect` itself |
| `Disconnect` | everything but the generation is reset |
| `FinishConnect`, `FailConnect` | `finish_connect` and `fail`, for every error and with or without a client |
| `RetryFires` | the timer of `fail` |
| `HealthRebuilds`, `HealthPings`, `PingSucceeds`, `PingFails` | `start_health`, `health_tick`, `finish_ping` |
| `AskAccess`, `RecordAccess`, `AccessFails` | `can_i`, `access_check`, `record_access`; no handle, so nothing cancels them |
| `ApplyEntries` | the part of `apply_entries` that drops or reconnects connections |

Abstractions: grouping is off, so `resolve` and `key` are the identity (`EntryIds` has them);
watches and discovery are one task (`Discovery` has them); `failures` saturates at 5,
where `backoff` is at its maximum; cluster info, latency and capabilities are left out.

### Reload

`tasks` is the core's list of handles in its order, finished ones included, because
`reload` trims it by position. A load reads its files in one step in the background,
some time before its callback. `watcher` is the one adopted; a watcher that was
built and waits for its callback reports changes too. `unreported` is a history
variable: files whose latest change happened while no watcher covered them.

`pinged` has the files with an event in the channel (which itself carries only that something changed), and only the first task of the list takes them out. `Sources` are the sets of
files that settings may name, `Directory` the folder of each file.

`SourcesAreWatched` and `ReportedIsShown` say in their formula what the code does not do. A source that came to a folder watched already is not reported,
since `build_watcher` compares folders only. A change is not shown when no watcher reported it, when its event still waits (`OnTheWay`), or when the
task that would take it was dropped from the list (`Stranded`), which does not happen before the fifth reload.

Abstractions: a file's contents are its number of edits; a watcher always starts
and delivers at once; a batch of events is taken as one; restoring the active
cluster after the first load is left out.

### EntryIds and Entries

`EntryIds` has what does not change anything: `EntryOf`, `Entries`, `Fingerprint` and `Heir` are the pure grouping of
`groups.rs`, `ResolveIn` and `Key` are `resolve_in` and `key`, and the two properties follow. In `Entries`, `Moves`, `Aliases`, `ActiveAfter` and
`ApplyEntries` are `apply_entries` in its order. The loop of `resolve_in` is four `Hop`s, what
comes after it `AtEnd`. A connection remembers the id its tasks look it up with (`started_as`), and
as history whether that id has come to stand for something else since (`reused`). Which of two connections takes a free place depends on the
order of a hash map, so it is a choice of the model.

Abstractions: one file; contexts differ only in their user entry, so that group names
need no `#n` counter; contexts with errors are left out.

### Discovery

One connection from `finish_connect` on. `server` and `stream` are external: the API server and
kube's `watcher`, which lists, then reports changes in order, and after a break lists
again. `known` is what `watch_crds` remembers, `lists` the messages it sent, `crds`, `retries`,
`discovery` and `tasks` the core's part. `TakeEvent` chooses which CRDs can be fetched.

Abstractions: a list arrives as one event; a fetch is made in the step that processes its
event, but sees the server as it is then, which may be later than the event;
discovery reads what is served in one step. `told`, `past`, `unusual`, `batches` and `failed` are history
variables for the properties. A change that goes back to an earlier shape, and a CRD that
is deleted and created again with another shape, are excepted from `ChangesAreTold`
(`unusual`): by the code a fetch that came late can hide them.

### Forwards

A forward's record has the core's part (`state`, `port`, `connections`, `probe`) and the truth of its
listener (`listener`, `bound`, `open`), with the queue of `events` between them. `requests` are the
features' sides of `ChannelReach`, `commands` the channel. `waiting` and `watchers` are the core's.

| Actions | Code |
|---|---|
| `Start`, `Stop`, `HandleOpen`, `HandleStop` | `start`, `remove` and `release`, `handle` |
| `CheckSucceeds`, `CheckFails`, `ProbeFires` | `check_target`, `finish_check` and the probe timer |
| `ApplyEvent`, `BindFails` | `apply_event`, and the callback of a listener that could not bind |
| `Expire`, `GraceEnds` | the timers of `Waiting` |
| `BindSucceeds`, `ConnectionOpens`, `ConnectionCloses`, `ConnectionFails` | `listener.rs` |
| `Ask`, `LookupFinds`, `LookupFails`, `Receive`, `DropFuture`, `DropReached` | `reach.rs` |
| `ClusterLost`, `ClusterConnects` | the sweep of `kubyl_portforward/lib.rs`; external |

Each of the core's actions ends with `Settle`, as in the code. Abstractions: batches are their
items one by one; one cluster (a re-key only relabels); saved forwards start like the
user's; byte counts, rows and messages are left out. A named port that `handle` itself would refuse
cannot come from `ChannelReach`, which looks it up first.

### Replica and Store

`Replica` is a server's `log` of writes and a reader whose `shown` is the state after some
`position` in it: `Follows` moves the position forward, `Forgets` starts over.

`Store` is one cache from its first use on. `conn` is what the connection manager has for its
cluster, `store` is `StoreCore`, `watch` its two tasks with what is between them (the stream, `pump`'s pending
changes, and in `sent` the changes of the batches in the host's queue), `lease` its `Entry` and the handles of views.

| Actions | Code |
|---|---|
| `WatchInit`, `WatchLists`, `WatchDelivers`, `WatchFails`, `WatchRefused`, `FrameEnds` | `pump`, for each event of kube's `watcher` |
| `TakeBatches` | the callback that runs `apply` for each batch |
| `Attempts`, `Connects`, `PingFails`, `PingWorks`, `Discovers`, `Moves` | events of the connection; `ConnectionChanged` is `connection_changed`, with `retry_unsupported` and `ensure_running` |
| `Pause`, `Resume` | `pause`, `resume` and the `ensure_running` after it |
| `Acquire`, `Release`, `Sweep` | `acquire`, the drop of a `StoreHandle`, `sweep` on its timer |

Abstractions: an object is the number of the write it has; time is counted in sweeps; a list
is delivered at once. `changes_since` and its history have no caller and are left out.

### Approvals

A call goes through `checking` (dry run and live read), `asking`, `executing` and `ended`. `channel`, `pending` and `said` are
the path of a question to the hub's list and of the answer back; `requests` are
the writes on their way to the API server, one document after the other, and
`effects` what the server took (history).

| Actions | Code |
|---|---|
| `Call`, `CheckReads`, `CheckFails` | `ToolsHandler::change`, `run_with`, `check_*`: what is reviewed is the object as read |
| `Ask`, `AnswerTimeout`, `Decided` | `ChannelApprover::approve` and `change`, with the second look at `still_allowed` |
| `Requested`, `Answer`, `Prune`, `SettingsChanged`, `ClustersChanged` | the hub |
| `Execute`, `Hears`, `Lost`, `StepTimeout`, `Abort` | `execute` with its preconditions, its timeout, and a server that is dropped |
| `ServerTakes`, `OthersWrite` | external: the API server and other writers |

Abstractions: an object is a version; scaling and restarting are patches; a manifest has up to
two documents; texts, masking and diffs are left out. So is `replace_or_create`, which `apply_one` falls back to on servers without server-side
apply (a 415): it replaces the object as it is then, which like the apply it stands for has no precondition from the review.

### Takeover

`hub` is the state of each instance, `starts` the futures of `start_server` with their blocking step:
dropped futures stay as long as they block (`wanted` is off), superseded ones too (`latest` is off).
`port`, `stored` and the lock (held by the starts in `Holding`) are shared by the instances.

| Actions | Code |
|---|---|
| `Launch`, `Quit`, `SettingsChanged`, `RegenerateToken`, `StandbyRetry` | `start`, the end of the process, `settings_changed`, `regenerate_token`, the timer of a standby; each but `Quit` runs `start_server` |
| `Acquire`, `AcquireFails` | the blocking step: lock, old server, generation, token |
| `Bind`, `BindFails`, `GiveUp`, `Probe`, `Heard` | the bind loop (another error than a taken port ends it), `serves_kubyl`, the callback |
| `Closes`, `OtherProgram` | a stopped listener frees the port; external |

Abstractions: one port; tokens are numbered; the twenty tries of a start are one wait that
outlasts a stopped listener; the lock can always be taken.

### LogView, LogStreams and LogMerge

`LogView` has the logs, the lines in the view and what is promised of them; `LogStreams` how they get there.
One `container_task` per container with its flags (`first`, `retry`, `gone`, `ended`, `instance`) and its
`Resume` (`last`, `atLast`, and `seen` of the connection). Time is counted in half seconds, since
the API can only be asked for whole ones. `logs` has the lines of each run (a restart or a
recreated pod begins another), `shown` what the view got. `merge_by_time` is the parameter `Merge` of the module;
`LogMerge` defines it, and the runs use that definition. `RecordAll` is `record` over a backlog, whose lines come in the order of time.

Abstractions: lookup and backoff are steps without time; the lookup after a connection only
decides what is announced, and is left out; lines without a timestamp occur in the merge only; the containers of a pod finish together
(in the code each by itself; the run has one container, which is the whole pod). A line is `strayed` when
its connection reached another pod than the lookup before it.

### TokenSlot

`slot` is `Tokens` behind its mutex (`lock`), `keychain` its copy, `jobs` the keychain steps on blocking
threads, which a dropped future leaves running. `ops` are calls of `token` by connections, the
sign-in and the sign-out. The provider (`idp`) knows the good refresh token of each
session, if the sign-in gave one. `Secrets` are the tokens in the kubeconfig of each connection, which `load` falls back to. Three history variables are for the properties:
`active`, the session the user is in; `lost`, the sessions whose newest refresh token may not have got to the keychain;
`since`, what has happened since the last sign-in or sign-out (a restart, a fallback to the kubeconfig, a keychain that was not read, a delete that did not happen or was overtaken).

| Actions | Code |
|---|---|
| `Begin`, `LockToken`, `Loaded`, `Finished` | `token` and `load` |
| `Refreshed`, `RefreshFails`, `Rejected`, `AcceptRefreshed` | `refresh` and its outcomes, `accept` |
| `SignIn`, `LockSignIn`, `LockSignOut` | `sign_in`, `sign_out` |
| `Works` | the keychain steps, complete, in part or not at all; the two deletes fail independently |
| `Dropped`, `Restart` | futures that are dropped, and the process that ends |
| `Expires`, `Revokes` | time and the provider; external |

The properties name the cases in which the code does otherwise:

- `NeverReused`: a replaced refresh token is shown to the provider if it stands in a kubeconfig, or if its successor is of a session in `lost`. That is so when the provider's answer
  was lost after it had rotated the token (`RefreshFails` with `rotates`: for the code it is an outage, and the token is kept), or had no ID token; when the call was dropped or the process ended before the
  write was over; when the keychain refused the write; or when a keychain step of a dropped call was under way as the session began.
- `AskedOnlyIfNeeded`: besides a session that ended, that the user left, or that has no refresh token (`SignIn` without one: the next
  sign-in comes when the ID token expires), the same losses, a keychain that was not read, and an ID token out of date when it is stored.
- `SignedOutIsForgotten`: memory stays empty while the process runs. After a restart it has what a kubeconfig brings, and
  what a delete that failed, never ran or was overtaken by an earlier write has left.

Abstractions: one issuer and client; a sign-in's flow is the provider's answer; the tokens of the kubeconfigs are all of one session from before; two equal keychain
steps of one caller that are under way at once count as one.

## 4. Runs

`CHECK_DEADLOCK FALSE` everywhere: the bounds on attempts, loads, forwards and changes end
every behaviour, and an app with nothing to do may rest.

| Run | States | Bounds | What it shows |
|---|---|---|---|
| `connections` | 0.12 M | 1 id, 2 contents, 3 attempts, 3 loads, 1 removal | current tasks and clients, supervision, closed connections, permissions; promised retries happen |
| `reload` | 6.8 M | 2 files in one folder, of which none, one or both are sources; 2 edits of the second; 5 reloads | the newest load survives, the watcher follows the sources, reported changes are shown; with the exceptions of section 3 |
| `entries` | 0.07 M | 3 contexts, 2 user entries, 2 attempts, 2 loads, 2 moves | credentials never mixed, moved connections are found |
| `discovery` | 2.5 M | 2 CRDs, 2 shapes, 3 changes, 1 break, 3 discoveries, 1 re-run, symmetric | changes told, re-runs under way and bounded |
| `forwards` | 0.06 M | 1 forward, 1 request, 2 ports, 3 queued events, 2 connections, 2 clients | probing, counting; every request ends |
| `forwards_reach` | 1.5 M | 2 forwards, 2 requests, 1 port, 2 clients, 1 answer dropped unread | watchers and owners when features and the user share the core |
| `store` | 0.2 M | 2 objects, 2 writes, 1 error, 2 clients, 1 user, 1 of (pause, failed ping, discovery, re-key, reopening), grace of 1 sweep | `Store` implements `Replica`; the watch uses the client; none is dropped early; caches catch up |
| `approvals` | 0.47 M | 2 calls (a manifest of two documents; a patch or a delete) about 1 object, 2 versions, 1 switch | at most once, as reviewed, only while allowed, true reports; every call ends |
| `takeover` | 0.24 M | 2 instances, 6 launches, quits and changes, all faults | tokens, servers and states of the instances agree |
| `logs` | 0.76 M | 1 container, 4 lines, 4 half seconds, backlog of 2, 2 runs, 2 failures | each line once and in order, none left out, the merge of two backlogs, the last line shown |
| `tokens` | 0.18 M | 2 connections, 1 with tokens in its kubeconfig, 2 sessions, 2 rotations, 1 expiry, 1 fault | refresh tokens, sign-in and sign-out over the shared slot; every call ends |

`logs_same_instant` refutes one property; section 5 has it.

Why the bounds are enough for what they ask:

- *connections.* Ids share only `active`, `interactive` and `checks`, and no action reads another
  id's part: one id shows every interleaving of one connection. Three attempts give an
  old one, a current one and a rebuild in between, with any task left over from
  either; two contents tell a stale client from a current one. The proofs of
  section 7 remove the bounds for safety.
- *reload.* The list of handles is trimmed at nine. Each reload adds up to two, so the fifth
  reload is the first that trims, and edits happen after it. The second file can become a source while its folder
  is watched for the first, which is the case `SourcesAreWatched` excepts; two edits tell a load that saw one from a load
  that saw both, and let one be reported and the other not.
- *entries.* Two contexts form, leave and rejoin a group, and a third lets an id end up in another group than its
  connection; two moves are what it takes for an id to be an alias and then an entry again.
- *discovery.* Two CRDs tell a name that came from one that went. A change, a break, a change and
  another one cover what a relist can have missed. `UNSERVED_RETRIES` is 5 in the
  code and a constant of the module: with 1 the limit is reached.
- *forwards.* Three queued events hold a close, its error and the next open. Two requests
  and two forwards let one be answered while the other waits.
- *store.* One error is a list that fails, a version that expired or a refusal; two clients are a
  lost and a new connection. Two writes of two objects tell an old object from a deleted one.
- *approvals.* Two documents are the least of which one can fail after another; the second call is the one
  that changes the object under the first. `MaxVersions` counts other writers' changes.
- *takeover.* Six changes are two launches and four more: enough for a token that is replaced while a
  standby retries and its server restarts. More instances only add standbys.
- *logs.* Containers share nothing but the merge, which `MergeIsSorted` checks for pairs of backlogs of
  its own. Four lines over two seconds give a delivered, a skipped and a new line in one
  second; two runs are a restart or a recreated pod.
- *tokens.* Two connections race for one refresh; a second session is one after a sign-out or a rejected token. One fault is enough for
  each exception of the properties; liveness is what limits the run to one. The safety properties were also checked with two (0.9 M states), and
  are proved for any number.

No run lists `TypeOK`: the proofs have it, and for `Store`, `Entries` and `LogStreams` (whose inductive invariants say more of the state) it documents the state.
Each property of a passing run has a mutant in `PROJECT.json`: a change of the code's model, of the
kind a slip in that function would be, that TLC finds with the run's own bounds.

## 5. Where code and comments disagree

`logs_same_instant` states what the comment of `is_duplicate` says of the lines it drops: they are
lines "from a resumed stream" that were "already delivered". TLC finds three lines
of one instant, written while the container is followed: the second is dropped, on a connection that
was never resumed, because `seen_at_last` counts only dropped lines and `at_last` the
delivered ones of every connection. With one line per instant the passing run shows
`OnceInOrder` and `NothingLeftOut`.

Met while modelling; where a passing run has a property about it, it is the weaker form that holds:

| Where | The comment | The behaviour | What is checked |
|---|---|---|---|
| `record_access` | an answer is cached "for the connection it was asked on" | a removed and restored context counts generations from 1 again; an old answer matches | `AccessUnlessRemoved`: while no entry is removed |
| `reload`; `src/plans/01-cluster-connectivity.md:19` | "Finished loads stay in the list until the next reload; keep it short."; "context list updates without a restart" | the first handle is the task that takes file events, which never finishes; the fifth reload drops it (if the ones before it were applied), and from then on changed files are not loaded until something else reloads | `ReportedIsShown`: but for changes whose event nobody takes (`Stranded`), none before the fifth reload |
| `update_watcher` | "Watches the parent folders of source files" | it is kept if the folders are the same, also if a source was added in one of them, which it then does not report | `SourcesAreWatched`: but for a source in a folder that was watched for another file |
| `sign_out` | "Forgets the tokens (memory and keychain)." | after a restart `load` falls back to the tokens of the kubeconfig (as its own comment says), even to a refresh token the provider has replaced | `SignedOutIsForgotten`, `NeverReused`: but for that fallback |
| `token` | "A network or IdP outage says nothing about the token: keep it for the retry." | if the provider had rotated it and the answer was lost, the retry shows the replaced token and costs a sign-in | `NeverReused`, `AskedOnlyIfNeeded`: but for such a session (`lost`) |
| `key` | serves "an id from before a re-key" | later the tasks' id can be an entry again, or a member of another group, and `key` answers that one | `MovedConnectionsAreFound` otherwise |
| `run_discovery` | "While a CRD the watch listed isn't in discovery, discovery re-runs" | a failed discovery ends the chain | `UnservedIsRetriedUnlessFailed` |
| `settle` (forwards) | "Dropping the `Reached` stops the forward." | a future dropped with its answer unread has no guard | `NoOrphans`: without such a drop (`lateDrops = 0`) |
| sweep of forwards | forwards are dropped when their client "goes away" | an `Open` that was on its way is started after the sweep, with the old client | modelled, no property |
| `pump` | an event after an error means that the watch works | after a failed first list the next `Init` makes the cache `Ready` with nothing listed | modelled, no property about the status |
| `connection_changed` | `Rekeyed`: "Things keyed by `from` should follow" | caches are not re-keyed; no event reaches them any more | `WatchUsesTheClient`, `CatchesUp`: unless re-keyed |
| head of `hub.rs` | "one of them carries on when the serving one quits" | a start that finds the port taken and then probes an instance that has just quit is `Failed`, which is not retried | `StandbyAgrees`: running, failed, or a standby of one that serves |
| `container_task` | a recreated pod "is a new instance: its log starts over" | one that is recreated between lookup and connection is read as the old one, then again as the new one | `OnceInOrder` but for such connections |
| `accept` | large ID tokens "only live in memory", "the next start refreshes them" | the keychain keeps the ID token of the session before, and the next start hands it out while it is valid | modelled (`Works`), no property about whose token is handed out |

Others without a comment that says otherwise: a watch that recovers without an event leaves its cache on
`Error` until the next one; refused caches are started again on every ping; `load` marks the slot as loaded before it awaits the keychain,
so a future dropped there costs a sign-in; a keychain write of a dropped future can land after a
sign-out; a sign-in without a refresh token keeps that of the session before; a refresh answer without an ID token loses the rotated refresh token; a new ID token that is
out of date when it is stored (or lives less than `EXPIRY_MARGIN`) asks for a sign-in; a container
that finishes while its stream is broken is announced as ended without its last lines.

## 6. Fairness

Liveness is checked by `connections`, `forwards`, `store`, `approvals`, `takeover`, `logs` and `tokens`. Assumed is weak
fairness of what the host and the runtime do:

- every spawned future runs and its result is applied once; connects, probes, pings, lookups, refreshes and
  resolutions end because the HTTP clients have timeouts;
- every timer fires (retries, probes, the sweep, the standby's, the answer's and the step's timeout);
- every queue is served, and a task that was answered is polled again.

Nothing is assumed of the user, of loads, of the cluster, of pods, of other writers, of local connections, of outcomes
(an attempt may fail for ever), or of how long a feature keeps its forward. `RetryHappens` and
`RequestsEnd` name the bound in their conclusion, since a behaviour that used up its attempts or
forwards stops there.

Strong fairness is needed twice, for a lock that others keep taking. `tokens`: tokio's mutex is handed on in the
order it was asked for, so who waits gets it. `takeover`: the lock file promises no order, but a standby asks
only every three seconds and holds it for one bind, so a start that waits gets it between two tries.

## 7. Proofs

Ten models have proofs, in eight modules: `ConnectionsProofs`, `ReloadProofs` and so on extend the model of their name, `ReloadProofs`
also has those of `Entries` (a load and what it does to the entries), and `StoreProofs` those of `LogStreams` (the two things that are followed over
reconnects), as the instances `E` and `L`; `EntryIds` and `LogView`, which these proofs and the runs extend, have the properties. The theorems hold for every value of the constants: any number of ids, contexts, files, CRDs, objects, forwards, calls,
instances, connections or containers, and every bound, so for behaviours of every finite length. Of the 27 invariants the runs check, 26 are theorems, and so are
six of the 13 action and temporal properties (the other seven are liveness). The proofs about one model begin with `Invariance` (`Spec => []IInv`; `EntriesInvariance`,
and `LogInit` with `LogStep` for `LogInv`) for its inductive invariant; TLC checked each on the instance of the module's run before it was proved. All but
`Store`, `Entries` and `LogStreams` have `TypeCorrect` (`TypeOK`); the others are:

| Module | Theorem | Property |
|---|---|---|
| `ConnectionsProofs` | `CurrentTasks` | `TasksAreCurrent`: what still runs belongs to the current attempt |
| | `CurrentClients` | `ClientMatchesKubeconfig`: no client outlives its kubeconfig |
| | `NothingStranded`, `NoDoubleRetry` | `Supervised`, `OneSupervisor`: what is promised has its task, and only one |
| | `ActiveExists` | `ActiveIsEntry` |
| | `CachedAccessIsCurrent` | `AccessUnlessRemoved`: late permission answers are not cached |
| | `ClosedStaysClosed`, `GenerationsOnlyGrow` | `DisconnectedStaysClosed`, `GenerationsGrow` (action properties) |
| `ReloadProofs` | `LatestLoadAlwaysSurvives` | `LatestLoadSurvives`: trimming never drops the load that is waited for |
| | `ReportedIsAlwaysShown` | `ReportedIsShown`: what was reported is read, unless its event waits or is stranded, which none is before the fifth reload |
| | `SourcesAlwaysWatched` | `SourcesAreWatched`: the watcher ends up on the folders of the sources and reports them, but for late-comers to a folder |
| | `ConnectionsAlwaysMatchEntries` | `ConnectionsMatchEntries`: no move hands a client to an entry with other credentials |
| | `MovedConnectionsAreAlwaysFound` | `MovedConnectionsAreFound`: a task's id leads to its connection over any number of loads |
| `DiscoveryProofs` | `ChangesAlwaysTold` | `ChangesAreTold`: no change is missed over breaks and failed fetches |
| | `UnservedAlwaysRetried`, `RunsAlwaysBounded` | `UnservedIsRetriedUnlessFailed`, `RunsAreBounded`: re-runs happen, and only a few |
| `ForwardsProofs` | `ReconnectingIsAlwaysProbed` | `ReconnectingIsProbed` |
| | `ConnectionsAlwaysCounted` | `ConnectionsAreCounted`: the count neither saturates nor drifts |
| | `HeldIsAlwaysWatched`, `NeverOrphans` | `HeldIsWatched`, `NoOrphans`: features and forwards keep track of each other |
| `StoreProofs` | `AlwaysUsesTheClient` | `WatchUsesTheClient` |
| | `OnlyDroppedAfterGrace` | `DroppedAfterGrace` (action property) |
| | `AlwaysShowsThePast` | `ShowsThePast`: `Store` implements `Replica` (refinement) |
| | `LinesOnceInOrder` | `OnceInOrder`: each line once, in the order it was written |
| | `NoLineLeftOut` | `NothingLeftOut`: what a reconnect passes over was delivered |
| `ApprovalsProofs` | `AlwaysApprovedOnce`, `AlwaysReviewedIsChanged` | `ApprovedOnce`, `ReviewedIsChanged`: a change is done once, as reviewed |
| | `AnswersAlwaysTrue` | `AnswersAreTrue`: reports are true |
| | `WithdrawnIsNeverDone` | `WithdrawnIsNotDone` (temporal, no fairness) |
| `TakeoverProofs` | `RunningAlwaysServes` | `RunningServes`: what is shown as running answers |
| | `AlwaysServesTheStored` | `ServesTheStored` (action property) |
| `TokenSlotProofs` | `RefreshTokensNeverReused` | `NeverReused`, with its exceptions in the formula, as in the next two |
| | `SignOutForgets` | `SignedOutIsForgotten` |
| | `AlwaysAskedOnlyIfNeeded` | `AskedOnlyIfNeeded` (action property) |

Runs leave `TypeOK`, `ActiveIsEntry` and `GenerationsGrow` to the proofs.

### Assumptions

All are named `ASSUME`s of the models, and TLC evaluates them in every run. They say that bounds are naturals, that
`None` (and `Broken`, `Other`, the two user operations `In` and `Out`) is none of the values it stands beside, and that ports are numbers. Four are
more than that: there is a port (`PortsAssumption`), there may be a sign-in (`MaxSessions > 0`), the discovery that connecting starts is within the
bound (`MaxRuns > 0`), and a call of the agents names between one and `MAX_DOCS` documents, one if it is a patch or a delete
(`ApprovalsAssumption`; `check_apply` refuses others).
The tokens of a kubeconfig, if it has any, are of one session that was there before (`SecretsAssumption`), and settings name files there are (`ReloadBounds`).
The theorems about `Entries` and `LogStreams` have the assumptions of their model as hypotheses (`E!Parameters`, `L!Parameters`). Those about `LogStreams` have one more,
`MergeKeepsEach`: the lines of a container in the merged list are its backlog. It is the first half of `MergeIsSorted`, which TLC checks of `merge_by_time` for pairs of backlogs;
for all of them it is an induction over the lists.

### The arguments

None of the properties is inductive by itself. What `IInv` adds, and why:

- **Connections.** That a finished attempt leaves a client for the entry *as loaded now* needs that the attempt was for
  it, which needs that a rebuild drops attempts in every state but `Disconnected`, which needs that a disconnected
  connection runs nothing. `Attended(c, cfg)` puts this together as a predicate of one connection and its entry alone, so each helper
  (`Attempt`, `Succeeded`, `Failed`, `Pinged`, ...) has a lemma that it preserves it, and `OneConnection` lifts that to the
  step of an action. `ApplyEntries`, the only action that changes entries, is treated for each id by the three cases of the code: gone,
  changed, neither. The action properties follow from `StepAdvances`, which says what any step may do to one connection.
  It also carries `AccessInv`: a check never has a later generation than its connection, and one with the same generation was asked with the
  entry's contents as they are now. This is what fails once a rebuild forgot a connection, since its generations start again.
- **Reload.** There is one load of the newest reload or, after it, at most one watcher plan (`TasksInv`); `ShortenedOK` shows that the
  trimmed list keeps the task that was added last. The newest load is of the sources in the settings (`SpecsInv`), its plan was made for the watcher
  there is, which no other plan replaces (`PlanInv`), and what it has read, and what is shown when it is done, is what is
  on disk but for unreported changes and files whose event waits in the channel (`ShownInv`). That none is stranded before the fifth reload is a count: until then the list is too short
  to be shortened, and the task for events is its first (`EventsInv`).
- **Discovery.** The queued events lead what is known of each CRD to the server's generation (`StreamInv`), also over a relist;
  no event or known generation is ahead of the server; what is known of a CRD as it is now was told, and every shape that is
  remembered is one the CRD had (`NewsInv`, `PastInv`). `RunsInv` counts runs by batch: those of earlier batches, the first of this one and its retries.
- **Forwards.** `ConnectionsAreCounted` speaks of the whole queue; the code applies it one event at a time with a subtraction that saturates. `ForwardOK` says
  that no *prefix* of the queue takes the count below zero; `Count` has lemmas for appending an event and for taking the first.
  Ids are never used twice (`IdsInv`), so a stale command, answer or watcher cannot mean a later forward; `WantedInv` names why a feature's forward may run: its wait, its holder, or its stop on the way.
- **Store.** A cache runs only in an open entry, unpaused and with the client there is (`RunInv`); the idle time counts sweeps since
  the last handle went, and the first only starts it, so it is less than what has passed (`IdleInv`).
  For the refinement, `PastInv` speaks of all changes on their way, those in the host's queue and those `pump` still has: after each of them the store shows
  nothing or a state of the server, later ones never earlier, and a stream that watches is where the last leads to (`Given`, `Reaches`, `Final`). `ObjectsAfter` says what an object is after the first
  *m* changes by the last that touches it, not by a fold, so that a change appended at the end and a batch taken from the front have lemmas without induction.
- **Entries.** The id a connection was started as leads to it by one alias, with nothing that `resolve_in` looks at first in between (`AliasInv`, `LeadsTo`): `apply_entries` bends the aliases
  of a moved id to where it goes, so chains never grow. That a moved connection fits its entry needs that what was kept under an id matched that id before the load. The proof showed
  that an id can also become a member of *another* group, which two contexts cannot show: hence the history variable `reused`, and a third context in the run.
- **LogStreams.** The lines a container has in the view, or gets with the merge, are all that the invariant `FollowsLog` speaks of. Besides the two properties it says that of the run there is, everything up to `Resume`'s last instant
  was shown from the first shown line on (`UpToLast`), and so was what a connection has passed (`UpToPos`); that runs have no instant in common (`InTime`), so that what a restart leaves in `Resume` passes over nothing of the new run; and that a
  task whose pod was replaced has shown nothing of the new one as its own until it starts over (`OfPod`). A line written at the last instant breaks none of it, because it is not alone there.
- **Approvals.** A version of an object stands for one state of it: nothing that was seen or is there has a version the server has not handed out, and
  two sightings with one version are the same (`Seen`). Each document has at most one request, sent in order after a yes; a change was made if and only if the request was answered "ok"
  (`RequestsInv`, `EffectsInv`), and what a call heard is so and stays so (`ResultsInv`).
- **Takeover.** A server that answers has one owner: the hub that shows it, the start that ended with it and was not heard of, or the start that took it along to drop it. The lock
  has one holder, which knows the stored token, and a hub has at most one start it still wants.
- **TokenSlot.** `Base` is what holds whatever fails: a call past `locking` holds the lock (`LockInv`) and has with it what its phase says, so who refreshes has the token of memory (`Shape`);
  no token anywhere is of a session that is yet to begin (`Sessions`); a keychain step is the holder's, or of a dropped call, whose session is then in `lost` (`Steps`); and before the keychain was read nothing else has happened (`Loads`). On it rest three invariants, one for each property. `FreshInv`: a refresh token in memory,
  in the keychain, in a write or with a call is the provider's newest of its session, unless a holder is on the way to replace it, it stands in a kubeconfig, or the session is in `lost`. `AskInv`: while the user is in a session
  the provider honours, memory has its newest refresh token once it is loaded, and the keychain has it or a write is under way. `OutInv`: after a sign-out nothing in memory, and in the keychain nothing that is not being deleted. Each needs to know
  that a step of a dropped call can still be under way, which is why sessions begun over one are in `lost` and sign-outs over a write are "undeleted".

### Only model-checked

- Liveness (`RetryHappens`, `RequestsEnd`, both `CatchesUp`, `StandbyAgrees`, both `CallsEnd`): out of the proof system's reach, like everything
  under fairness.
- `MergeIsSorted`: what `merge_by_time`, a `RECURSIVE` operator, computes for every input is an induction over its lists, which the provers cannot do.
- `TypeOK` of `Store`, `Entries` and `LogStreams`, which no run lists.

## 8. What is not covered

`PROJECT.json` gives the status and the reason for each component. In short:

- *next on the plan*: saving files and transfers, demand-driven caches, the pods of a selector in
  the logs;
- *assumed*: the host itself (callbacks one at a time, dropped handles never call back),
  kube's `watcher`, the API server, the file watcher's delivery;
- *left out*: HTTP, TLS and terminal I/O, text processing (YAML, columns, filters), pure views
  over objects, and the desktop UI.
