------------------------------- MODULE Reload -------------------------------
(***************************************************************************)
(* Loading and hot-reloading kubeconfig files in `ManagerCore`              *)
(* (kubyl_kube_core/manager.rs: `reload`, `finish_reload`, `apply_loaded`,  *)
(* `start_file_events`, `update_watcher`, `build_watcher`).                 *)
(*                                                                         *)
(* Files are read, and watchers built, in the background; the callbacks run *)
(* on the host thread if their handle is still in `tasks` by then.  What a  *)
(* load means for entries and connections is module Connections.            *)
(***************************************************************************)
EXTENDS Naturals, Sequences

CONSTANTS
    Files,          \* kubeconfig files
    Directory(_),   \* the folder of a file
    Sources,        \* the sets of files that settings may name
    Edited,         \* bound: the files that are edited
    None,           \* no watcher, a file that is not loaded
    MaxReloads,     \* bound: reloads
    MaxEdits        \* bound: edits of each file

ASSUME ReloadBounds ==
    /\ Sources \subseteq SUBSET Files /\ Edited \subseteq Files
    /\ MaxReloads \in Nat /\ MaxEdits \in Nat

VARIABLES
    disk,           \* what each file holds: its number of edits
    settings,       \* the files that are sources
    generation,     \* `reload_generation`
    loading,        \* `loading`
    loaded,         \* `loaded`: what was read, by which reload
    tasks,          \* `tasks`, oldest first, finished ones included
    watcher,        \* `watcher` and `watched`
    pinged,         \* file events that wait in the channel, by their file
    unreported      \* files whose latest change no watcher reported (history)

vars == <<disk, settings, generation, loading, loaded, tasks, watcher, pinged,
          unreported>>

-----------------------------------------------------------------------------
Content == [Files -> 0..MaxEdits \union {None}]

Load == [generation : Nat, specs : SUBSET Files, content : Content]

Nothing == [generation |-> 0, specs |-> {}, content |-> [f \in Files |-> None]]

Folders(S) == {Directory(f) : f \in S}

(* A watcher reports changes of `files`, the ones relevant when it was built, *)
(* in `dirs`.                                                               *)
Watcher == [dirs : SUBSET Folders(Files), files : SUBSET Files]

ASSUME NoneAssumption == None \notin Watcher

(* A task works and holds its result for its callback; a finished one stays *)
(* in the list.                                                             *)
Stages == {"working", "result"}

Done == [kind |-> "done", stage |-> "done"]

Task == {Done} \union [kind : {"events"}, stage : {"working"}]
          \union [kind : {"load"}, stage : Stages, load : Load]
          \union [kind : {"watch"}, stage : Stages, generation : Nat,
                  specs : SUBSET Files, known : Watcher \union {None},
                  built : Watcher \union {None}]

EventsAlive == \E i \in DOMAIN tasks : tasks[i].kind = "events"

(* Who reports a change of f: the watcher in place, or one that was built   *)
(* and waits for its callback.                                              *)
Watchers == {watcher}
              \union {tasks[i].built : i \in {j \in DOMAIN tasks :
                         tasks[j].kind = "watch" /\ tasks[j].stage = "result"}}

IsWatched(f) == \E w \in Watchers :
    w # None /\ f \in w.files /\ Directory(f) \in w.dirs

-----------------------------------------------------------------------------
(* Mutant: the newest tasks are dropped. *)
ShortenedAtTheEnd(s) == IF Len(s) > 8 THEN SubSeq(s, 1, 4) ELSE s

(* "keep it short": the oldest handles are dropped, and their work with     *)
(* them.                                                                    *)
Shortened(s) == IF Len(s) > 8 THEN SubSeq(s, Len(s) - 3, Len(s)) ELSE s

(* `reload` with sources S and the tasks of before. *)
ReloadOf(S, before) ==
    /\ generation < MaxReloads
    /\ generation' = generation + 1
    /\ loading' = TRUE
    /\ tasks' = Shortened(Append(before,
                   [kind |-> "load", stage |-> "working",
                    load |-> [Nothing EXCEPT !.generation = generation + 1,
                                             !.specs = S]]))

(* `start`: file events first, then the first load. *)
Start ==
    /\ generation = 0
    /\ ReloadOf(settings, <<[kind |-> "events", stage |-> "working"]>>)
    /\ UNCHANGED <<disk, settings, loaded, watcher, pinged, unreported>>

(* The user, or a dialog that wrote a file, reloads. *)
Reload ==
    /\ generation > 0
    /\ ReloadOf(settings, tasks)
    /\ UNCHANGED <<disk, settings, loaded, watcher, pinged, unreported>>

(* `settings_changed` with other sources. *)
SettingsChanged(S) ==
    /\ generation > 0
    /\ S # settings
    /\ settings' = S
    /\ ReloadOf(S, tasks)
    /\ UNCHANGED <<disk, loaded, watcher, pinged, unreported>>

(* A debounced batch of file events, if the task that takes them still is.  *)
FileEvents ==
    /\ pinged # {}
    /\ EventsAlive
    /\ pinged' = {}
    /\ ReloadOf(settings, tasks)
    /\ UNCHANGED <<disk, settings, loaded, watcher, unreported>>

(* `kubeconfig::load` reads the sources, in the background. *)
LoadReads(i) ==
    /\ tasks[i].kind = "load" /\ tasks[i].stage = "working"
    /\ tasks' = [tasks EXCEPT ![i].stage = "result",
                    ![i].load.content =
                        [f \in Files |-> IF f \in tasks[i].load.specs
                                         THEN disk[f] ELSE None]]
    /\ UNCHANGED <<disk, settings, generation, loading, loaded, watcher, pinged,
                   unreported>>

(* Mutant: a load is applied although a newer one started. *)
FinishAnyReload(i) ==
    /\ tasks[i].kind = "load" /\ tasks[i].stage = "result"
    /\ loading' = FALSE
    /\ loaded' = tasks[i].load
    /\ tasks' = Append([tasks EXCEPT ![i] = Done],
                       [kind |-> "watch", stage |-> "working",
                        generation |-> generation,
                        specs |-> tasks[i].load.specs,
                        known |-> watcher, built |-> None])
    /\ UNCHANGED <<disk, settings, generation, watcher, pinged, unreported>>

(* `finish_reload`: the newest load is applied (`apply_loaded`) and the     *)
(* watcher brought up to date (`update_watcher`); older ones are ignored.   *)
FinishReload(i) ==
    LET done == [tasks EXCEPT ![i] = Done] IN
    /\ tasks[i].kind = "load" /\ tasks[i].stage = "result"
    /\ IF tasks[i].load.generation = generation
       THEN /\ loading' = FALSE
            /\ loaded' = tasks[i].load
            /\ tasks' = Append(done, [kind |-> "watch", stage |-> "working",
                                      generation |-> generation,
                                      specs |-> tasks[i].load.specs,
                                      known |-> watcher, built |-> None])
       ELSE tasks' = done /\ UNCHANGED <<loading, loaded>>
    /\ UNCHANGED <<disk, settings, generation, watcher, pinged, unreported>>

(* `build_watcher`, in the background: nothing when the same folders were   *)
(* watched already as the task was made.  (The platform's watcher starts.)  *)
BuildWatcher(i) ==
    /\ tasks[i].kind = "watch" /\ tasks[i].stage = "working"
    /\ LET t == tasks[i]
           dirs == Folders(t.specs)
           same == t.known # None /\ t.known.dirs = dirs
       IN  tasks' = [tasks EXCEPT ![i].stage = "result",
                        ![i].built = IF same THEN None
                                     ELSE [dirs |-> dirs, files |-> t.specs]]
    /\ UNCHANGED <<disk, settings, generation, loading, loaded, watcher, pinged,
                   unreported>>

(* Mutant: a watcher planned by an older reload replaces a newer one. *)
FinishAnyWatcher(i) ==
    /\ tasks[i].kind = "watch" /\ tasks[i].stage = "result"
    /\ watcher' = IF tasks[i].built # None THEN tasks[i].built ELSE watcher
    /\ tasks' = [tasks EXCEPT ![i] = Done]
    /\ UNCHANGED <<disk, settings, generation, loading, loaded, pinged,
                   unreported>>

(* The watcher is kept unless a newer reload plans its own. *)
FinishWatcher(i) ==
    /\ tasks[i].kind = "watch" /\ tasks[i].stage = "result"
    /\ watcher' = IF tasks[i].built # None /\ tasks[i].generation = generation
                  THEN tasks[i].built ELSE watcher
    /\ tasks' = [tasks EXCEPT ![i] = Done]
    /\ UNCHANGED <<disk, settings, generation, loading, loaded, pinged,
                   unreported>>

(* Somebody changes a file; a watcher that covers it pings the channel. *)
Edit(f) ==
    /\ disk[f] < MaxEdits
    /\ disk' = [disk EXCEPT ![f] = @ + 1]
    /\ pinged' = IF IsWatched(f) THEN pinged \union {f} ELSE pinged
    /\ unreported' = IF IsWatched(f) THEN unreported \ {f}
                     ELSE unreported \union {f}
    /\ UNCHANGED <<settings, generation, loading, loaded, tasks, watcher>>

-----------------------------------------------------------------------------
Init ==
    /\ disk = [f \in Files |-> 0]
    /\ settings \in Sources
    /\ generation = 0
    /\ loading = FALSE
    /\ loaded = Nothing
    /\ tasks = <<>>
    /\ watcher = None
    /\ pinged = {}
    /\ unreported = {}

Background(i) == \/ LoadReads(i) \/ FinishReload(i)
                 \/ BuildWatcher(i) \/ FinishWatcher(i)

Next ==
    \/ Start \/ Reload \/ FileEvents
    \/ \E S \in Sources : SettingsChanged(S)
    \/ \E i \in DOMAIN tasks : Background(i)
    \/ \E f \in Edited : Edit(f)

Spec == Init /\ [][Next]_vars

-----------------------------------------------------------------------------
(* Every variable keeps to its type. *)
TypeOK ==
    /\ disk \in [Files -> 0..MaxEdits]
    /\ settings \in SUBSET Files
    /\ generation \in 0..MaxReloads
    /\ loading \in BOOLEAN
    /\ loaded \in Load
    /\ tasks \in Seq(Task)
    /\ watcher \in Watcher \union {None}
    /\ pinged \in SUBSET Files
    /\ unreported \in SUBSET Files

(* A reload that is shown as loading will end: shortening `tasks` never     *)
(* drops the load everybody waits for.                                      *)
LatestLoadSurvives ==
    loading => \E i \in DOMAIN tasks : /\ tasks[i].kind = "load"
                                       /\ tasks[i].load.generation = generation

(* Nothing is under way for the newest reload. *)
Quiet == /\ generation > 0
         /\ ~loading
         /\ \A i \in DOMAIN tasks : tasks[i].kind = "watch" =>
                tasks[i].generation # generation

(* Whatever order reloads and watcher builds finish in, the file watcher    *)
(* ends up on the folders of the files that are sources now, and reports    *)
(* their changes; except those of a source that was not one yet when the    *)
(* watcher was built, if another file of its folder was: folders are all    *)
(* that `build_watcher` compares, so the watcher that was there is kept.    *)
SourcesAreWatched ==
    Quiet =>
        /\ watcher # None /\ watcher.dirs = Folders(loaded.specs)
        /\ \A f \in loaded.specs \ watcher.files :
              \E g \in watcher.files : Directory(g) = Directory(f)

(* The events in the channel will be taken; or never: `reload` drops the    *)
(* oldest handles, and the task that takes events is the oldest of all.     *)
OnTheWay == IF EventsAlive THEN pinged ELSE {}
Stranded == IF EventsAlive THEN {} ELSE pinged

(* Nothing is under way: the contexts shown are those on disk.  Whichever   *)
(* load a change overlaps, it is read, though not (1) a change no watcher   *)
(* reported, (2) one whose event is yet to be taken, nor (3) one whose      *)
(* event nobody takes any more (Stranded), which there is none of before    *)
(* the fifth reload.  Because of (3) "context list updates without a        *)
(* restart" (plans/01-cluster-connectivity.md) is true of the code only up  *)
(* to there: once the task for events is dropped, a change is shown when    *)
(* something else reloads.                                                  *)
ReportedIsShown ==
    Quiet =>
        /\ \A f \in settings \ (unreported \union OnTheWay \union Stranded) :
               loaded.content[f] = disk[f]
        /\ Stranded # {} => generation >= 5
=============================================================================
