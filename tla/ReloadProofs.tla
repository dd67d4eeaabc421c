---------------------------- MODULE ReloadProofs ----------------------------
(***************************************************************************)
(* Proofs about Reload: the newest load survives, what it read is shown,    *)
(* and its files are watched.  Then about Entries, which a load is handed   *)
(* to: connections keep to their entries, and their tasks find them.        *)
(***************************************************************************)
EXTENDS Reload, EntryIds, TLAPS

USE ReloadBounds, NoneAssumption

(* The other parameters and the rest of the state of Entries. *)
CONSTANTS Contents, Kubes, MaxAttempts, MaxLoads, MaxRekeys
VARIABLES active, attempts, loads, rekeys

E == INSTANCE Entries

-----------------------------------------------------------------------------
(* The tasks of the newest reload: its load, and then its watcher. *)
IsLoad(t, n) == t.kind = "load" /\ t.load.generation = n
IsPlan(t, n) == t.kind = "watch" /\ t.generation = n

(* No task is of a later reload; there is one load or, after it, at most    *)
(* one plan of the newest.                                                  *)
TasksInv ==
    /\ \A i \in DOMAIN tasks :
          /\ tasks[i].kind = "load" => tasks[i].load.generation <= generation
          /\ tasks[i].kind = "watch" => tasks[i].generation <= generation
    /\ \A i, j \in DOMAIN tasks :
          \/ IsLoad(tasks[i], generation) /\ IsLoad(tasks[j], generation)
          \/ IsPlan(tasks[i], generation) /\ IsPlan(tasks[j], generation)
          => i = j
    /\ loading <=> \E i \in DOMAIN tasks : IsLoad(tasks[i], generation)
    /\ loading => \A i \in DOMAIN tasks : ~IsPlan(tasks[i], generation)
    /\ generation = 0 => tasks = <<>>

(* The newest load is of the sources in the settings, and so is what was    *)
(* loaded when it is done.                                                  *)
SpecsInv ==
    /\ \A i \in DOMAIN tasks :
          IsLoad(tasks[i], generation) => tasks[i].load.specs = settings
    /\ ~loading /\ generation > 0 => loaded.specs = settings

(* A watcher watches the folders of its files. *)
Covers(w) == w # None => w.dirs = Folders(w.files)

IsSame(w, dirs) == w # None /\ w.dirs = dirs

(* The plan of the newest reload is made for the watcher there is, which no *)
(* other plan replaces; once it is carried out, the folders are watched.    *)
PlanInv ==
    /\ Covers(watcher)
    /\ \A i \in DOMAIN tasks : IsPlan(tasks[i], generation) =>
          /\ tasks[i].specs = loaded.specs /\ tasks[i].known = watcher
          /\ tasks[i].stage = "result" =>
               tasks[i].built = IF IsSame(watcher, Folders(loaded.specs)) THEN None
                                ELSE [dirs |-> Folders(loaded.specs), files |-> loaded.specs]
    /\ Quiet => IsSame(watcher, Folders(loaded.specs))

(* What was read and what is shown is what is on disk, but for changes that *)
(* nobody reported or whose file event waits in the channel.                *)
ShownInv ==
    \A f \in settings \ (unreported \union pinged) :
        /\ \A i \in DOMAIN tasks :
              IsLoad(tasks[i], generation) /\ tasks[i].stage = "result"
              => tasks[i].load.content[f] = disk[f]
        /\ ~loading /\ generation > 0 => loaded.content[f] = disk[f]

IInv == TypeOK /\ TasksInv /\ SpecsInv /\ PlanInv /\ ShownInv

-----------------------------------------------------------------------------
(* The list of tasks after one was added: the new one is last, and the      *)
(* others were there.                                                       *)
LEMMA ShortenedOK ==
    ASSUME NEW s \in Seq(Task), NEW x \in Task
    PROVE  LET t == Shortened(Append(s, x)) IN
           /\ t \in Seq(Task) /\ Len(t) \in DOMAIN t /\ t[Len(t)] = x
           /\ \A i \in DOMAIN t : i = Len(t) \/ \E j \in DOMAIN s : t[i] = s[j]
  <1> DEFINE a == Append(s, x)
             t == Shortened(a)
  <1>1. /\ a \in Seq(Task) /\ Len(a) = Len(s) + 1 /\ a[Len(a)] = x /\ Len(s) \in Nat
        /\ DOMAIN s = 1..Len(s) /\ DOMAIN a = 1..Len(a)
        /\ \A i \in 1..Len(s) : a[i] = s[i]
    OBVIOUS
  <1> HIDE DEF a
  <1>2. CASE ~(Len(a) > 8)
    <2>1. t = a
      BY <1>2 DEF Shortened
    <2>2. PICK n \in Nat : n = Len(s) /\ Len(a) = n + 1
      BY <1>1
    <2>3. \A i \in 1..(n + 1) : i = n + 1 \/ i \in 1..n
      OBVIOUS
    <2>4. ASSUME NEW i \in DOMAIN a, i # Len(a)
          PROVE  i \in DOMAIN s /\ a[i] = s[i]
      <3>1. DOMAIN a = 1..(n + 1) /\ DOMAIN s = 1..n
        BY <1>1, <2>2
      <3>2. i \in 1..n
        BY <2>2, <2>3, <2>4, <3>1
      <3> QED BY <1>1, <2>2, <3>1, <3>2
    <2>5. Len(a) \in DOMAIN a
      BY <1>1, <2>2
    <2> QED BY <1>1, <2>1, <2>4, <2>5 DEF a
  <1>3. CASE Len(a) > 8
    <2>1. PICK n \in Nat : n = Len(a) /\ n > 8
      BY <1>1, <1>3
    <2>2. t = SubSeq(a, n - 3, n)
      BY <2>1 DEF Shortened
    <2>3. \A i \in (n - 3)..n : a[i] \in Task
      BY <1>1, <2>1
    <2>4. /\ t \in Seq(Task) /\ Len(t) = 4 /\ DOMAIN t = 1..4
          /\ \A i \in 1..4 : t[i] = a[n - 3 + i - 1]
      BY <1>1, <2>1, <2>2, <2>3
    <2>5. t[4] = x
      BY <1>1, <2>1, <2>4
    <2>6. \A i \in 1..4 : i = 4 \/ (n - 4 + i \in DOMAIN s /\ t[i] = s[n - 4 + i])
      BY <1>1, <2>1, <2>4
    <2> QED BY <2>4, <2>5, <2>6 DEF a
  <1> QED BY <1>2, <1>3

(* What a load task holds. *)
LEMMA TaskKinds ==
    ASSUME NEW t \in Task
    PROVE  /\ t.kind = "load" => /\ t.load \in Load /\ t.stage \in Stages
                                 /\ t \in [kind : {"load"}, stage : Stages, load : Load]
                                 /\ t.load.generation \in Nat
                                 /\ t.load.specs \in SUBSET Files
                                 /\ t.load.content \in Content
           /\ t.kind = "watch" =>
                /\ t \in [kind : {"watch"}, stage : Stages, generation : Nat,
                          specs : SUBSET Files, known : Watcher \union {None},
                          built : Watcher \union {None}]
                /\ t.generation \in Nat /\ t.specs \in SUBSET Files
                /\ t.known \in Watcher \union {None} /\ t.built \in Watcher \union {None}
  <1>1. t.kind = "load" => t \in [kind : {"load"}, stage : Stages, load : Load]
    BY DEF Task, Done
  <1>2. t.kind = "watch" => t \in [kind : {"watch"}, stage : Stages, generation : Nat,
                          specs : SUBSET Files, known : Watcher \union {None},
                          built : Watcher \union {None}]
    BY DEF Task, Done
  <1> QED BY <1>1, <1>2 DEF Load

(* A reload starts: its load is the only task of its generation. *)
LEMMA ReloadOfInv ==
    ASSUME IInv, NEW S \in SUBSET Files, NEW before \in Seq(Task), ReloadOf(S, before),
           \A j \in DOMAIN before :
              /\ before[j].kind = "load" => before[j].load.generation <= generation
              /\ before[j].kind = "watch" => before[j].generation <= generation,
           settings' = S, pinged' \in SUBSET Files, UNCHANGED <<disk, loaded, watcher, unreported>>
    PROVE  IInv'
  <1> DEFINE load == [Nothing EXCEPT !.generation = generation + 1, !.specs = S]
             new == [kind |-> "load", stage |-> "working", load |-> load]
  <1>1. TypeOK /\ TasksInv /\ SpecsInv /\ PlanInv /\ ShownInv /\ generation \in Nat
    BY DEF IInv, TypeOK
  <1>2. /\ generation < MaxReloads /\ generation' = generation + 1 /\ loading' = TRUE
        /\ tasks' = Shortened(Append(before, new))
    BY DEF ReloadOf
  <1>3. load \in Load /\ load.generation = generation + 1 /\ load.specs = S
    <2>1. [f \in Files |-> None] \in Content
      BY DEF Content
    <2>2. Nothing \in Load
      BY <2>1 DEF Nothing, Load
    <2>3. generation + 1 \in Nat
      BY <1>1
    <2> QED BY <2>2, <2>3 DEF Load
  <1> HIDE DEF load
  <1>4. /\ new \in Task /\ new.kind = "load" /\ new.stage = "working" /\ new.load = load
    BY <1>3 DEF Task, Stages
  <1> HIDE DEF new
  <1>5. /\ tasks' \in Seq(Task) /\ Len(tasks') \in DOMAIN tasks' /\ tasks'[Len(tasks')] = new
        /\ \A i \in DOMAIN tasks' : i = Len(tasks')
              \/ \E j \in DOMAIN before : tasks'[i] = before[j]
    <2> DEFINE t == Shortened(Append(before, new))
    <2>1. /\ t \in Seq(Task) /\ Len(t) \in DOMAIN t /\ t[Len(t)] = new
          /\ \A i \in DOMAIN t : i = Len(t) \/ \E j \in DOMAIN before : t[i] = before[j]
      BY <1>4, ShortenedOK
    <2>2. tasks' = t
      BY <1>2
    <2> HIDE DEF t
    <2> QED BY <2>1, <2>2
  <1>6. \A j \in DOMAIN before : before[j] \in Task
    OBVIOUS
  <1>7. \A j \in DOMAIN before : /\ ~IsLoad(before[j], generation + 1)
                                 /\ ~IsPlan(before[j], generation + 1)
    BY <1>1, <1>6, TaskKinds DEF IsLoad, IsPlan
  <1>8. \A i \in DOMAIN tasks' :
           /\ IsLoad(tasks'[i], generation') => i = Len(tasks')
           /\ ~IsPlan(tasks'[i], generation')
    BY <1>2, <1>4, <1>5, <1>7 DEF IsPlan
  <1>9. IsLoad(new, generation')
    BY <1>2, <1>3, <1>4 DEF IsLoad
  <1>10. TypeOK'
    BY <1>1, <1>2, <1>5 DEF TypeOK
  <1>11. TasksInv'
    <2>1. ASSUME NEW i \in DOMAIN tasks'
          PROVE  /\ tasks'[i].kind = "load" => tasks'[i].load.generation <= generation'
                 /\ tasks'[i].kind = "watch" => tasks'[i].generation <= generation'
      <3>1. CASE tasks'[i] = new
        BY <1>1, <1>2, <1>3, <1>4, <3>1
      <3>2. ASSUME NEW j \in DOMAIN before, tasks'[i] = before[j]
            PROVE  /\ tasks'[i].kind = "load" => tasks'[i].load.generation <= generation'
                   /\ tasks'[i].kind = "watch" => tasks'[i].generation <= generation'
        BY <1>1, <1>2, <1>6, <3>2, TaskKinds
      <3> QED BY <1>5, <3>1, <3>2
    <2>2. generation' # 0
      BY <1>1, <1>2
    <2> QED BY <1>2, <1>5, <1>8, <1>9, <2>1, <2>2 DEF TasksInv
  <1>12. SpecsInv'
    BY <1>2, <1>3, <1>4, <1>5, <1>8 DEF SpecsInv
  <1>13. PlanInv'
    BY <1>1, <1>2, <1>8 DEF PlanInv, Quiet
  <1>14. ShownInv'
    BY <1>2, <1>4, <1>5, <1>8 DEF ShownInv
  <1> QED BY <1>10, <1>11, <1>12, <1>13, <1>14 DEF IInv

(* The reloads there are. *)
LEMMA ReloadInv ==
    ASSUME IInv,
           Start \/ Reload \/ FileEvents \/ \E S \in SUBSET Files : SettingsChanged(S)
    PROVE  IInv'
  <1>1. /\ settings \in SUBSET Files /\ tasks \in Seq(Task) /\ pinged \in SUBSET Files
        /\ \A j \in DOMAIN tasks :
              /\ tasks[j].kind = "load" => tasks[j].load.generation <= generation
              /\ tasks[j].kind = "watch" => tasks[j].generation <= generation
    BY DEF IInv, TypeOK, TasksInv
  <1>2. CASE Start
    <2> DEFINE before == <<[kind |-> "events", stage |-> "working"]>>
    <2>1. [kind |-> "events", stage |-> "working"] \in Task
      BY DEF Task
    <2>2. /\ before \in Seq(Task) /\ \A j \in DOMAIN before : before[j].kind = "events"
      BY <2>1
    <2>3. ReloadOf(settings, before) /\ UNCHANGED <<disk, settings, loaded, watcher, pinged,
                                                    unreported>>
      BY <1>2 DEF Start
    <2> HIDE DEF before
    <2> QED BY <1>1, <2>2, <2>3, ReloadOfInv
  <1>3. CASE Reload
    BY <1>1, <1>3, ReloadOfInv DEF Reload
  <1>4. CASE FileEvents
    BY <1>1, <1>4, ReloadOfInv DEF FileEvents
  <1>5. ASSUME NEW S \in SUBSET Files, SettingsChanged(S)
        PROVE  IInv'
    BY <1>1, <1>5, ReloadOfInv DEF SettingsChanged
  <1> QED BY <1>2, <1>3, <1>4, <1>5

-----------------------------------------------------------------------------
(* A task that goes on, or an older one that ends, is of the same reload as *)
(* before or of none.                                                       *)
LEMMA Replaced ==
    ASSUME TasksInv, tasks \in Seq(Task), NEW i \in DOMAIN tasks, NEW u \in Task,
           tasks' = [tasks EXCEPT ![i] = u], UNCHANGED <<generation, loading>>,
           \A n : (IsLoad(u, n) => IsLoad(tasks[i], n)) /\ (IsPlan(u, n) => IsPlan(tasks[i], n)),
           IsLoad(tasks[i], generation) => IsLoad(u, generation)
    PROVE  /\ tasks' \in Seq(Task) /\ DOMAIN tasks' = DOMAIN tasks /\ tasks'[i] = u
           /\ \A j \in DOMAIN tasks : j # i => tasks'[j] = tasks[j]
           /\ TasksInv'
  <1>1. /\ tasks' \in Seq(Task) /\ DOMAIN tasks' = DOMAIN tasks /\ tasks'[i] = u
        /\ \A j \in DOMAIN tasks : j # i => tasks'[j] = tasks[j]
    OBVIOUS
  <1>2. \A j \in DOMAIN tasks : \A n : /\ IsLoad(tasks'[j], n) => IsLoad(tasks[j], n)
                                       /\ IsPlan(tasks'[j], n) => IsPlan(tasks[j], n)
    BY <1>1
  <1>3. \A j \in DOMAIN tasks :
           IsLoad(tasks[j], generation) => IsLoad(tasks'[j], generation)
    BY <1>1
  <1>4. \A j \in DOMAIN tasks :
           /\ tasks'[j].kind = "load" => tasks'[j].load.generation <= generation
           /\ tasks'[j].kind = "watch" => tasks'[j].generation <= generation
    BY <1>2 DEF TasksInv, IsLoad, IsPlan
  <1>5. generation = 0 => tasks' = <<>>
    BY DEF TasksInv
  <1>6. TasksInv'
    BY <1>1, <1>2, <1>3, <1>4, <1>5 DEF TasksInv
  <1> QED BY <1>1, <1>6

(* The files are read. *)
LEMMA LoadReadsInv ==
    ASSUME IInv, NEW i \in DOMAIN tasks, LoadReads(i)
    PROVE  IInv'
  <1> DEFINE content == [f \in Files |-> IF f \in tasks[i].load.specs THEN disk[f] ELSE None]
             u == [[tasks[i] EXCEPT !.stage = "result"] EXCEPT !.load.content = content]
  <1>1. /\ TypeOK /\ TasksInv /\ SpecsInv /\ PlanInv /\ ShownInv
        /\ tasks \in Seq(Task) /\ disk \in [Files -> 0..MaxEdits]
    BY DEF IInv, TypeOK
  <1>2. /\ tasks[i].kind = "load" /\ tasks[i].stage = "working"
        /\ UNCHANGED <<disk, settings, generation, loading, loaded, watcher, pinged, unreported>>
    BY DEF LoadReads
  <1>3. PICK t \in Task : t = tasks[i]
    BY <1>1
  <1>4. /\ t \in [kind : {"load"}, stage : Stages, load : Load] /\ t.load \in Load
    BY <1>2, <1>3, TaskKinds
  <1>5. content \in Content
    BY <1>1 DEF Content
  <1>6. tasks' = [tasks EXCEPT ![i] = u]
    BY <1>1 DEF LoadReads
  <1>7. u = [[t EXCEPT !.stage = "result"] EXCEPT !.load.content = content]
    BY <1>3
  <1>8. /\ \A f \in Files : f \in t.load.specs => content[f] = disk[f]
    BY <1>3
  <1> HIDE DEF content, u
  <1>9. PICK l : l = [t.load EXCEPT !.content = content]
    OBVIOUS
  <1>10. /\ l \in Load /\ l.generation = t.load.generation /\ l.specs = t.load.specs
         /\ l.content = content
    BY <1>4, <1>5, <1>9 DEF Load
  <1>11. u = [kind |-> "load", stage |-> "result", load |-> l]
    BY <1>4, <1>7, <1>9
  <1>12. u \in Task /\ u.kind = "load" /\ u.stage = "result" /\ u.load = l
    BY <1>10, <1>11 DEF Task, Stages
  <1>13. \A n : (IsLoad(u, n) <=> IsLoad(tasks[i], n)) /\ ~IsPlan(u, n)
    BY <1>2, <1>3, <1>10, <1>12 DEF IsLoad, IsPlan
  <1>14. /\ tasks' \in Seq(Task) /\ DOMAIN tasks' = DOMAIN tasks /\ tasks'[i] = u
         /\ \A j \in DOMAIN tasks : j # i => tasks'[j] = tasks[j]
         /\ TasksInv'
    BY <1>1, <1>2, <1>6, <1>12, <1>13, Replaced
  <1>15. TypeOK'
    BY <1>1, <1>2, <1>14 DEF TypeOK
  <1>16. SpecsInv'
    BY <1>1, <1>2, <1>3, <1>10, <1>12, <1>13, <1>14 DEF SpecsInv
  <1>17. PlanInv'
    <2>1. \A j \in DOMAIN tasks : IsPlan(tasks'[j], generation) =>
              IsPlan(tasks[j], generation) /\ tasks'[j] = tasks[j]
      BY <1>13, <1>14
    <2>2. Quiet' => Quiet
      BY <1>2, <1>14 DEF Quiet
    <2> QED BY <1>1, <1>2, <1>14, <2>1, <2>2 DEF PlanInv
  <1>18. ShownInv'
    <2>1. IsLoad(tasks[i], generation) => t.load.specs = settings
      BY <1>1, <1>3 DEF SpecsInv
    <2>2. settings \in SUBSET Files
      BY <1>1 DEF TypeOK
    <2>3. \A f \in settings : IsLoad(u, generation) => u.load.content[f] = disk[f]
      BY <1>8, <1>10, <1>12, <1>13, <2>1, <2>2
    <2> QED BY <1>1, <1>2, <1>14, <2>3 DEF ShownInv
  <1> QED BY <1>14, <1>15, <1>16, <1>17, <1>18 DEF IInv

(* A load ends.  The newest is applied and plans a watcher for the one      *)
(* there is; an older one changes nothing.                                  *)
LEMMA FinishReloadInv ==
    ASSUME IInv, NEW i \in DOMAIN tasks, FinishReload(i)
    PROVE  IInv'
  <1> DEFINE rest == [tasks EXCEPT ![i] = Done]
             plan == [kind |-> "watch", stage |-> "working", generation |-> generation,
                      specs |-> tasks[i].load.specs, known |-> watcher, built |-> None]
  <1>1. /\ TypeOK /\ TasksInv /\ SpecsInv /\ PlanInv /\ ShownInv
        /\ tasks \in Seq(Task) /\ generation \in Nat /\ watcher \in Watcher \union {None}
    BY DEF IInv, TypeOK
  <1>2. /\ tasks[i].kind = "load" /\ tasks[i].stage = "result" /\ tasks[i] \in Task
        /\ UNCHANGED <<disk, settings, generation, watcher, pinged, unreported>>
    BY <1>1 DEF FinishReload
  <1>3. Done \in Task /\ Done.kind = "done" /\ \A n : ~IsLoad(Done, n) /\ ~IsPlan(Done, n)
    BY DEF Task, Done, IsLoad, IsPlan
  <1>4. /\ tasks[i].load \in Load /\ tasks[i].load.specs \in SUBSET Files
    BY <1>2, TaskKinds
  <1>5. CASE tasks[i].load.generation # generation
    <2>1. tasks' = [tasks EXCEPT ![i] = Done] /\ UNCHANGED <<loading, loaded>>
      BY <1>5 DEF FinishReload
    <2>2. ~IsLoad(tasks[i], generation)
      BY <1>5 DEF IsLoad
    <2>3. /\ tasks' \in Seq(Task) /\ DOMAIN tasks' = DOMAIN tasks /\ tasks'[i] = Done
          /\ \A j \in DOMAIN tasks : j # i => tasks'[j] = tasks[j]
          /\ TasksInv'
      BY <1>1, <1>2, <1>3, <2>1, <2>2, Replaced
    <2>4. \A j \in DOMAIN tasks : \A n : IsPlan(tasks'[j], n) \/ IsLoad(tasks'[j], n) =>
              tasks'[j] = tasks[j]
      BY <1>3, <2>3
    <2>5. TypeOK'
      BY <1>1, <1>2, <2>1, <2>3 DEF TypeOK
    <2>6. SpecsInv'
      BY <1>1, <1>2, <2>1, <2>3, <2>4 DEF SpecsInv
    <2>7. Quiet' => Quiet
      BY <1>2, <2>1, <2>3 DEF Quiet
    <2>8. PlanInv'
      BY <1>1, <1>2, <2>1, <2>3, <2>4, <2>7 DEF PlanInv
    <2>9. ShownInv'
      BY <1>1, <1>2, <2>1, <2>3, <2>4 DEF ShownInv
    <2> QED BY <2>3, <2>5, <2>6, <2>8, <2>9 DEF IInv
  <1>6. CASE tasks[i].load.generation = generation
    <2>1. /\ loading' = FALSE /\ loaded' = tasks[i].load /\ tasks' = Append(rest, plan)
      BY <1>6 DEF FinishReload
    <2>2. /\ plan \in Task /\ plan.kind = "watch" /\ plan.stage = "working"
          /\ plan.generation = generation /\ plan.specs = tasks[i].load.specs
          /\ plan.known = watcher
      BY <1>1, <1>4 DEF Task, Stages
    <2>3. /\ rest \in Seq(Task) /\ DOMAIN rest = DOMAIN tasks /\ rest[i] = Done
          /\ \A j \in DOMAIN tasks : j # i => rest[j] = tasks[j]
      BY <1>1, <1>3
    <2> HIDE DEF plan, rest
    <2>4. /\ tasks' \in Seq(Task) /\ Len(rest) \in Nat /\ DOMAIN tasks' = 1..(Len(rest) + 1)
          /\ DOMAIN rest = 1..Len(rest) /\ tasks'[Len(rest) + 1] = plan
          /\ \A j \in DOMAIN rest : tasks'[j] = rest[j]
      BY <2>1, <2>2, <2>3
    <2>5. PICK k : /\ k = Len(rest) + 1 /\ k \in DOMAIN tasks' /\ tasks'[k] = plan
                   /\ \A j \in DOMAIN tasks' : j # k => j \in DOMAIN tasks
      BY <2>3, <2>4
    <2>6. \A j \in DOMAIN tasks' : j # k => tasks'[j] = Done \/ (tasks'[j] = tasks[j] /\ j # i)
      <3>1. \A j \in DOMAIN tasks : tasks'[j] = Done \/ (tasks'[j] = tasks[j] /\ j # i)
        BY <2>3, <2>4
      <3> QED BY <2>5, <3>1
    <2>7. IsLoad(tasks[i], generation) /\ loading /\ generation > 0
      <3>1. IsLoad(tasks[i], generation)
        BY <1>2, <1>6 DEF IsLoad
      <3>2. generation # 0
        BY <1>1 DEF TasksInv
      <3> QED BY <1>1, <3>1, <3>2 DEF TasksInv
    <2>8. \A j \in DOMAIN tasks : /\ j # i => ~IsLoad(tasks[j], generation)
                                  /\ ~IsPlan(tasks[j], generation)
      BY <1>1, <2>7 DEF TasksInv
    <2>9. /\ IsPlan(plan, generation) /\ \A n : ~IsLoad(plan, n)
      BY <2>2 DEF IsPlan, IsLoad
    <2>10. \A j \in DOMAIN tasks' : /\ ~IsLoad(tasks'[j], generation)
                                    /\ IsPlan(tasks'[j], generation) => j = k
      BY <1>3, <2>5, <2>6, <2>8, <2>9
    <2>11. TypeOK'
      BY <1>1, <1>2, <1>4, <2>1, <2>4 DEF TypeOK
    <2>12. TasksInv'
      <3>1. ASSUME NEW j \in DOMAIN tasks'
            PROVE  /\ tasks'[j].kind = "load" => tasks'[j].load.generation <= generation
                   /\ tasks'[j].kind = "watch" => tasks'[j].generation <= generation
        BY <1>1, <1>3, <2>2, <2>5, <2>6 DEF TasksInv
      <3> QED BY <1>2, <2>1, <2>7, <2>10, <3>1 DEF TasksInv
    <2>13. SpecsInv'
      BY <1>1, <1>2, <2>1, <2>7, <2>10 DEF SpecsInv
    <2>14. PlanInv'
      <3>1. ~Quiet'
        BY <1>2, <2>5, <2>9 DEF Quiet, IsPlan
      <3>2. ASSUME NEW j \in DOMAIN tasks', IsPlan(tasks'[j], generation)
            PROVE  /\ tasks'[j].specs = loaded'.specs /\ tasks'[j].known = watcher
                   /\ tasks'[j].stage # "result"
        BY <2>1, <2>2, <2>5, <2>10, <3>2
      <3> QED BY <1>1, <1>2, <3>1, <3>2 DEF PlanInv
    <2>15. ShownInv'
      BY <1>1, <1>2, <2>1, <2>7, <2>10 DEF ShownInv
    <2> QED BY <2>11, <2>12, <2>13, <2>14, <2>15 DEF IInv
  <1> QED BY <1>5, <1>6

(* A watcher is built: one of the plan's files, unless the folders are      *)
(* those of the watcher the plan was made for.                              *)
LEMMA BuildWatcherInv ==
    ASSUME IInv, NEW i \in DOMAIN tasks, BuildWatcher(i)
    PROVE  IInv'
  <1> DEFINE dirs == Folders(tasks[i].specs)
             built == IF IsSame(tasks[i].known, dirs) THEN None
                      ELSE [dirs |-> dirs, files |-> tasks[i].specs]
             u == [[tasks[i] EXCEPT !.stage = "result"] EXCEPT !.built = built]
  <1>1. /\ TypeOK /\ TasksInv /\ SpecsInv /\ PlanInv /\ ShownInv /\ tasks \in Seq(Task)
    BY DEF IInv, TypeOK
  <1>2. /\ tasks[i].kind = "watch" /\ tasks[i].stage = "working"
        /\ UNCHANGED <<disk, settings, generation, loading, loaded, watcher, pinged, unreported>>
    BY DEF BuildWatcher
  <1>3. PICK t \in Task : t = tasks[i]
    BY <1>1
  <1>4. /\ t \in [kind : {"watch"}, stage : Stages, generation : Nat,
                  specs : SUBSET Files, known : Watcher \union {None},
                  built : Watcher \union {None}]
        /\ t.specs \in SUBSET Files
    BY <1>2, <1>3, TaskKinds
  <1>5. built \in Watcher \union {None}
    BY <1>3, <1>4 DEF Watcher, Folders
  <1>6. tasks' = [tasks EXCEPT ![i] = u]
    BY <1>1 DEF BuildWatcher, IsSame
  <1>7. u = [[t EXCEPT !.stage = "result"] EXCEPT !.built = built]
    BY <1>3
  <1>8. built = IF IsSame(t.known, Folders(t.specs)) THEN None
                ELSE [dirs |-> Folders(t.specs), files |-> t.specs]
    BY <1>3
  <1> HIDE DEF u, built, dirs
  <1>9. /\ u \in Task /\ u.kind = "watch" /\ u.generation = t.generation
        /\ u.specs = t.specs /\ u.known = t.known /\ u.built = built
    <2>1. u \in [kind : {"watch"}, stage : Stages, generation : Nat,
                 specs : SUBSET Files, known : Watcher \union {None},
                 built : Watcher \union {None}]
      BY <1>4, <1>5, <1>7 DEF Stages
    <2>2. u \in Task
      BY <2>1 DEF Task
    <2> QED BY <1>4, <1>7, <2>2
  <1>10. \A n : (IsPlan(u, n) <=> IsPlan(tasks[i], n)) /\ ~IsLoad(u, n)
                /\ ~IsLoad(tasks[i], n)
    BY <1>2, <1>3, <1>9 DEF IsLoad, IsPlan
  <1>11. /\ tasks' \in Seq(Task) /\ DOMAIN tasks' = DOMAIN tasks /\ tasks'[i] = u
         /\ \A j \in DOMAIN tasks : j # i => tasks'[j] = tasks[j]
         /\ TasksInv'
    BY <1>1, <1>2, <1>6, <1>9, <1>10, Replaced
  <1>12. TypeOK'
    BY <1>1, <1>2, <1>11 DEF TypeOK
  <1>13. SpecsInv'
    BY <1>1, <1>2, <1>10, <1>11 DEF SpecsInv
  <1>14. PlanInv'
    <2>1. Quiet' => Quiet
      BY <1>2, <1>3, <1>9, <1>11 DEF Quiet
    <2>2. IsPlan(u, generation) =>
             /\ u.specs = loaded.specs /\ u.known = watcher
             /\ u.built = IF IsSame(watcher, Folders(loaded.specs)) THEN None
                          ELSE [dirs |-> Folders(loaded.specs), files |-> loaded.specs]
      BY <1>1, <1>3, <1>8, <1>9, <1>10 DEF PlanInv
    <2> QED BY <1>1, <1>2, <1>11, <2>1, <2>2 DEF PlanInv
  <1>15. ShownInv'
    BY <1>1, <1>2, <1>10, <1>11 DEF ShownInv
  <1> QED BY <1>11, <1>12, <1>13, <1>14, <1>15 DEF IInv

(* A watcher that was planned by the newest reload takes over; an older     *)
(* one, or none, leaves the one there is.                                   *)
LEMMA FinishWatcherInv ==
    ASSUME IInv, NEW i \in DOMAIN tasks, FinishWatcher(i)
    PROVE  IInv'
  <1>1. /\ TypeOK /\ TasksInv /\ SpecsInv /\ PlanInv /\ ShownInv /\ tasks \in Seq(Task)
    BY DEF IInv, TypeOK
  <1>2. /\ tasks[i].kind = "watch" /\ tasks[i].stage = "result" /\ tasks[i] \in Task
        /\ watcher' = IF tasks[i].built # None /\ tasks[i].generation = generation
                      THEN tasks[i].built ELSE watcher
        /\ tasks' = [tasks EXCEPT ![i] = Done]
        /\ UNCHANGED <<disk, settings, generation, loading, loaded, pinged, unreported>>
    BY <1>1 DEF FinishWatcher
  <1>3. Done \in Task /\ Done.kind = "done" /\ \A n : ~IsLoad(Done, n) /\ ~IsPlan(Done, n)
    BY DEF Task, Done, IsLoad, IsPlan
  <1>4. ~IsLoad(tasks[i], generation)
    BY <1>2 DEF IsLoad
  <1>5. /\ tasks' \in Seq(Task) /\ DOMAIN tasks' = DOMAIN tasks /\ tasks'[i] = Done
        /\ \A j \in DOMAIN tasks : j # i => tasks'[j] = tasks[j]
        /\ TasksInv'
    BY <1>1, <1>2, <1>3, <1>4, Replaced
  <1>6. \A j \in DOMAIN tasks : \A n : IsPlan(tasks'[j], n) \/ IsLoad(tasks'[j], n) =>
            tasks'[j] = tasks[j] /\ j # i
    BY <1>3, <1>5
  <1>7. TypeOK'
    <2>1. watcher' \in Watcher \union {None}
      BY <1>1, <1>2, TaskKinds DEF TypeOK
    <2> QED BY <1>1, <1>2, <1>5, <2>1 DEF TypeOK
  <1>8. SpecsInv'
    BY <1>1, <1>2, <1>5, <1>6 DEF SpecsInv
  <1>9. ShownInv'
    BY <1>1, <1>2, <1>5, <1>6 DEF ShownInv
  <1>10. CASE IsPlan(tasks[i], generation)
    <2> DEFINE w == [dirs |-> Folders(loaded.specs), files |-> loaded.specs]
    <2>1. tasks[i].built = IF IsSame(watcher, Folders(loaded.specs)) THEN None ELSE w
      BY <1>1, <1>2, <1>10 DEF PlanInv
    <2>2. w # None /\ w.dirs = Folders(loaded.specs) /\ w.files = loaded.specs
      <3>1. loaded.specs \in SUBSET Files
        BY <1>1 DEF TypeOK, Load
      <3>2. w \in Watcher
        BY <3>1 DEF Watcher, Folders
      <3> QED BY <3>2
    <2> HIDE DEF w
    <2>3. watcher' = IF IsSame(watcher, Folders(loaded.specs)) THEN watcher ELSE w
      BY <1>2, <1>10, <2>1, <2>2 DEF IsPlan
    <2>4. IsSame(watcher', Folders(loaded.specs)) /\ Covers(watcher')
      BY <1>1, <2>2, <2>3 DEF IsSame, Covers, PlanInv
    <2>5. \A j \in DOMAIN tasks' : ~IsPlan(tasks'[j], generation)
      BY <1>1, <1>5, <1>6, <1>10 DEF TasksInv
    <2>6. PlanInv'
      BY <1>2, <2>4, <2>5 DEF PlanInv
    <2> QED BY <1>5, <1>7, <1>8, <1>9, <2>6 DEF IInv
  <1>11. CASE ~IsPlan(tasks[i], generation)
    <2>1. watcher' = watcher
      BY <1>2, <1>11 DEF IsPlan
    <2>2. Quiet' => Quiet
      BY <1>2, <1>5, <1>11 DEF Quiet, IsPlan
    <2>3. PlanInv'
      BY <1>1, <1>2, <1>5, <1>6, <2>1, <2>2 DEF PlanInv
    <2> QED BY <1>5, <1>7, <1>8, <1>9, <2>3 DEF IInv
  <1> QED BY <1>10, <1>11

(* An edit is reported, so that a file event waits, or counts as one nobody *)
(* reported.                                                                *)
LEMMA EditInv ==
    ASSUME IInv, NEW f \in Files, Edit(f)
    PROVE  IInv'
  <1>1. /\ TypeOK /\ TasksInv /\ SpecsInv /\ PlanInv /\ ShownInv
        /\ disk \in [Files -> 0..MaxEdits]
        /\ UNCHANGED <<settings, generation, loading, loaded, tasks, watcher>>
    BY DEF IInv, TypeOK, Edit
  <1>2. disk' \in [Files -> 0..MaxEdits] /\ \A g \in Files : g # f => disk'[g] = disk[g]
    <2>1. disk[f] + 1 \in 0..MaxEdits
      BY <1>1 DEF Edit
    <2> QED BY <1>1, <2>1 DEF Edit
  <1>3. /\ pinged' \in SUBSET Files /\ unreported' \in SUBSET Files
        /\ unreported' \union pinged' = unreported \union pinged \union {f}
    BY <1>1 DEF Edit, TypeOK
  <1>4. TypeOK'
    BY <1>1, <1>2, <1>3 DEF TypeOK
  <1>5. TasksInv' /\ SpecsInv' /\ PlanInv'
    BY <1>1 DEF TasksInv, SpecsInv, PlanInv, Quiet
  <1>6. ShownInv'
    <2>1. settings \in SUBSET Files
      BY <1>1 DEF TypeOK
    <2> QED BY <1>1, <1>2, <1>3, <2>1 DEF ShownInv
  <1> QED BY <1>4, <1>5, <1>6 DEF IInv

-----------------------------------------------------------------------------
(* Before `start` nothing is loaded, and nothing watches. *)
LEMMA InitInv == Init => IInv
  <1> SUFFICES ASSUME Init
               PROVE  IInv
    OBVIOUS
  <1>1. Nothing \in Load
    <2>1. [f \in Files |-> None] \in Content
      BY DEF Content
    <2> QED BY <2>1 DEF Nothing, Load
  <1>2. tasks \in Seq(Task) /\ DOMAIN tasks = {}
    BY DEF Init
  <1>3. TypeOK
    <2>1. disk \in [Files -> 0..MaxEdits] /\ generation \in 0..MaxReloads
      BY DEF Init
    <2> QED BY <1>1, <1>2, <2>1 DEF Init, TypeOK
  <1>4. TasksInv /\ SpecsInv /\ ShownInv
    BY <1>2 DEF Init, TasksInv, SpecsInv, ShownInv
  <1>5. PlanInv
    BY <1>2 DEF Init, PlanInv, Covers, Quiet
  <1> QED BY <1>3, <1>4, <1>5 DEF IInv

(* Every step keeps the invariant. *)
LEMMA Inductive == IInv /\ [Next]_vars => IInv'
  <1> SUFFICES ASSUME IInv, [Next]_vars
               PROVE  IInv'
    OBVIOUS
  <1>1. CASE UNCHANGED vars
    BY <1>1 DEF vars, IInv, TypeOK, TasksInv, SpecsInv, PlanInv, ShownInv, Quiet
  <1>2. CASE Next
    BY <1>2, ReloadInv, LoadReadsInv, FinishReloadInv, BuildWatcherInv, FinishWatcherInv,
       EditInv DEF Next, Background
  <1> QED BY <1>1, <1>2

(* The inductive invariant holds in every reachable state: the newest       *)
(* reload has one load or, after it, at most one plan for a watcher, both   *)
(* of the sources in the settings.                                          *)
THEOREM Invariance == Spec => []IInv
  BY InitInv, Inductive, PTL DEF Spec

(* Every variable keeps to its type, for all files and folders. *)
THEOREM TypeCorrect == Spec => []TypeOK
  <1>1. IInv => TypeOK
    BY DEF IInv
  <1> QED BY <1>1, Invariance, PTL

(* `keep it short`: however many reloads, watchers and file events overlap, *)
(* the load that is shown as under way is never one of the handles that are *)
(* dropped.                                                                 *)
THEOREM LatestLoadAlwaysSurvives == Spec => []LatestLoadSurvives
  <1>1. IInv => LatestLoadSurvives
    BY DEF IInv, TasksInv, IsLoad, LatestLoadSurvives
  <1> QED BY <1>1, Invariance, PTL

-----------------------------------------------------------------------------
(* Up to the fifth reload the list of tasks is too short to be shortened:   *)
(* each reload adds a load and, when that is applied, a plan.  The task for *)
(* file events is its first.                                                *)
EventsInv ==
    generation \in 1..4 =>
        /\ Len(tasks) \in 1..(2 * generation + (IF loading THEN 0 ELSE 1))
        /\ tasks[1].kind = "events"

(* A reload up to the fourth drops no handle. *)
LEMMA ReloadOfKeepsEvents ==
    ASSUME generation \in Nat, NEW S, NEW before \in Seq(Task), ReloadOf(S, before),
           generation < 4 => /\ Len(before) \in 1..(2 * generation + 1)
                             /\ before[1].kind = "events"
    PROVE  EventsInv'
  <1> DEFINE new == [kind |-> "load", stage |-> "working",
                     load |-> [Nothing EXCEPT !.generation = generation + 1, !.specs = S]]
             a == Append(before, new)
  <1>1. generation' = generation + 1 /\ loading' = TRUE /\ tasks' = Shortened(a)
    BY DEF ReloadOf
  <1> HIDE DEF new
  <1> SUFFICES ASSUME generation < 4
               PROVE  Len(tasks') \in 1..(2 * (generation + 1)) /\ tasks'[1].kind = "events"
    BY <1>1 DEF EventsInv
  <1>2. /\ Len(a) = Len(before) + 1 /\ a[1] = before[1] /\ Len(before) \in Nat
        /\ Len(before) >= 1 /\ Len(before) <= 2 * generation + 1
    OBVIOUS
  <1>3. tasks' = a
    BY <1>1, <1>2 DEF Shortened
  <1> HIDE DEF a
  <1> QED BY <1>2, <1>3

(* The list keeps its first task as long as it is not shortened. *)
LEMMA EventsStay == IInv /\ EventsInv /\ [Next]_vars => EventsInv'
  <1> SUFFICES ASSUME IInv, EventsInv, [Next]_vars
               PROVE  EventsInv'
    OBVIOUS
  <1>1. /\ generation \in Nat /\ tasks \in Seq(Task) /\ Len(tasks) \in Nat
        /\ DOMAIN tasks = 1..Len(tasks) /\ loading \in BOOLEAN
    BY DEF IInv, TypeOK
  <1>2. generation > 0 /\ generation < 4 =>
           Len(tasks) \in 1..(2 * generation + 1) /\ tasks[1].kind = "events"
    BY <1>1 DEF EventsInv
  <1>3. CASE Start
    <2> DEFINE before == <<[kind |-> "events", stage |-> "working"]>>
    <2>1. before \in Seq(Task) /\ Len(before) = 1 /\ before[1].kind = "events"
      BY DEF Task
    <2>2. ReloadOf(settings, before) /\ generation = 0
      BY <1>3 DEF Start
    <2> HIDE DEF before
    <2> QED BY <1>1, <2>1, <2>2, ReloadOfKeepsEvents
  <1>4. ASSUME NEW S, ReloadOf(S, tasks), generation > 0
        PROVE  EventsInv'
    BY <1>1, <1>2, <1>4, ReloadOfKeepsEvents
  <1>5. CASE FileEvents
    <2>1. generation > 0
      BY <1>1, <1>5 DEF FileEvents, EventsAlive, IInv, TasksInv
    <2> QED BY <1>4, <1>5, <2>1 DEF FileEvents
  <1>6. ASSUME NEW i \in DOMAIN tasks, Background(i)
        PROVE  EventsInv'
    <2> SUFFICES ASSUME generation' \in 1..4
                 PROVE  /\ Len(tasks') \in 1..(2 * generation' + (IF loading' THEN 0 ELSE 1))
                        /\ tasks'[1].kind = "events"
      BY DEF EventsInv
    <2>1. generation' = generation /\ tasks[i].kind # "events" /\ generation \in 1..4
      BY <1>6 DEF Background, LoadReads, FinishReload, BuildWatcher, FinishWatcher
    <2>2. /\ Len(tasks) >= 1 /\ tasks[1].kind = "events" /\ i # 1 /\ 1 \in DOMAIN tasks
          /\ Len(tasks) <= 2 * generation + (IF loading THEN 0 ELSE 1)
      BY <1>1, <2>1 DEF EventsInv
    <2>3. CASE LoadReads(i) \/ BuildWatcher(i) \/ FinishWatcher(i)
      <3>1. /\ tasks'[1] = tasks[1] /\ Len(tasks') = Len(tasks) /\ loading' = loading
        BY <1>1, <2>2, <2>3 DEF LoadReads, BuildWatcher, FinishWatcher
      <3> QED BY <1>1, <2>1, <2>2, <3>1
    <2>4. CASE FinishReload(i)
      <3> DEFINE rest == [tasks EXCEPT ![i] = Done]
      <3>1. rest \in Seq(Task) /\ Len(rest) = Len(tasks) /\ rest[1] = tasks[1]
        BY <1>1, <2>2 DEF Task
      <3>2. CASE tasks[i].load.generation = generation
        <4>1. loading
          BY <1>6, <2>4, <3>2 DEF FinishReload, IInv, TasksInv, IsLoad
        <4>2. PICK plan : tasks' = Append(rest, plan) /\ ~loading'
          BY <2>4, <3>2 DEF FinishReload
        <4>3. Len(tasks') = Len(tasks) + 1 /\ tasks'[1] = tasks[1]
          BY <1>1, <2>2, <3>1, <4>2
        <4> QED BY <1>1, <2>1, <2>2, <4>1, <4>2, <4>3
      <3>3. CASE tasks[i].load.generation # generation
        <4>1. tasks' = rest /\ loading' = loading
          BY <2>4, <3>3 DEF FinishReload
        <4> QED BY <1>1, <2>1, <2>2, <3>1, <4>1
      <3> QED BY <3>2, <3>3
    <2> QED BY <1>6, <2>3, <2>4 DEF Background
  <1>7. ASSUME NEW f, Edit(f)
        PROVE  EventsInv'
    BY <1>7 DEF Edit, EventsInv
  <1>8. CASE UNCHANGED vars
    BY <1>8 DEF vars, EventsInv
  <1>9. CASE Reload
    BY <1>4, <1>9 DEF Reload
  <1>10. ASSUME NEW S, SettingsChanged(S)
         PROVE  EventsInv'
    BY <1>4, <1>10 DEF SettingsChanged
  <1> QED BY <1>3, <1>5, <1>6, <1>7, <1>8, <1>9, <1>10 DEF Next

(* `finish_reload`: when nothing is under way the contexts shown are those  *)
(* on disk, but for changes nobody reported and changes whose file event is *)
(* yet to be taken or, the task for them being dropped, never will be; and  *)
(* the latter does not happen before the fifth reload.                      *)
THEOREM ReportedIsAlwaysShown == Spec => []ReportedIsShown
  <1>1. Init => EventsInv
    BY DEF Init, EventsInv
  <1>2. IInv /\ EventsInv => ReportedIsShown
    <2> SUFFICES ASSUME IInv, EventsInv, Quiet
                 PROVE  /\ \A f \in settings \ (unreported \union OnTheWay \union Stranded) :
                               loaded.content[f] = disk[f]
                        /\ Stranded # {} => generation >= 5
      BY DEF ReportedIsShown
    <2>1. OnTheWay \union Stranded = pinged
      BY DEF OnTheWay, Stranded
    <2>2. \A f \in settings \ (unreported \union OnTheWay \union Stranded) :
             loaded.content[f] = disk[f]
      BY <2>1 DEF IInv, ShownInv, Quiet
    <2>3. ASSUME ~(generation >= 5)
          PROVE  Stranded = {}
      <3>1. generation \in 1..4 /\ tasks \in Seq(Task)
        BY <2>3 DEF IInv, TypeOK, Quiet
      <3>2. 1 \in DOMAIN tasks /\ tasks[1].kind = "events"
        BY <3>1 DEF EventsInv
      <3> QED BY <3>2 DEF EventsAlive, Stranded
    <2> QED BY <2>2, <2>3
  <1> QED BY <1>1, <1>2, EventsStay, Invariance, PTL DEF Spec

(* `update_watcher`: whatever order reloads and watcher builds end in, and   *)
(* however the files are spread over folders, the watcher ends up on the     *)
(* folders of the sources and reports every source, but for one that came to *)
(* a folder that was watched for another file.                               *)
THEOREM SourcesAlwaysWatched == Spec => []SourcesAreWatched
  <1>1. IInv => SourcesAreWatched
    <2> SUFFICES ASSUME IInv, Quiet
                 PROVE  /\ watcher # None /\ watcher.dirs = Folders(loaded.specs)
                        /\ \A f \in loaded.specs \ watcher.files :
                              \E g \in watcher.files : Directory(g) = Directory(f)
      BY DEF SourcesAreWatched
    <2>1. /\ watcher # None /\ watcher.dirs = Folders(loaded.specs)
          /\ watcher.dirs = Folders(watcher.files)
      BY DEF IInv, PlanInv, IsSame, Covers
    <2>2. ASSUME NEW f \in loaded.specs
          PROVE  \E g \in watcher.files : Directory(g) = Directory(f)
      <3>1. Directory(f) \in Folders(watcher.files)
        BY <2>1 DEF Folders
      <3> QED BY <3>1 DEF Folders
    <2> QED BY <2>1, <2>2
  <1> QED BY <1>1, Invariance, PTL

-----------------------------------------------------------------------------
(* Entries: what a load does to connections.  A connection is a record, and *)
(* the id its tasks know is an id.                                          *)
Shape(c) == [attempt : {c.attempt}, generation : {c.generation}, started_as : E!Ids,
             contents : {c.contents}, open : BOOLEAN, reused : BOOLEAN]

ClustersInv ==
    /\ clusters = [id \in E!Ids |-> clusters[id]]
    /\ \A id \in E!Ids : clusters[id] # Absent => clusters[id] \in Shape(clusters[id])

(* An id that still stands for the connection that was started as it: the   *)
(* alias leads there, and nothing else takes precedence over the alias.     *)
LeadsTo(s, id) ==
    /\ aliases[s] = id
    /\ s \notin E!Entries(kube)
    /\ E!Member(kube, s) => E!EntryOf(kube, s.name) = id

AliasInv == \A id \in E!Ids :
    /\ clusters[id] # Absent
    /\ clusters[id].open
    /\ ~clusters[id].reused
    /\ clusters[id].started_as # id
    => LeadsTo(clusters[id].started_as, id)

EntriesInv == ClustersInv /\ E!ConnectionsMatchEntries /\ AliasInv

(* A new attempt is known by the id it is kept under. *)
LEMMA AttemptOK ==
    ASSUME NEW id \in E!Ids, NEW k, NEW n
    PROVE  /\ E!Attempt(id, k, n) \in Shape(E!Attempt(id, k, n))
           /\ E!Attempt(id, k, n).started_as = id
           /\ E!Attempt(id, k, n).contents = E!Fingerprint(k, id)
  BY DEF E!Attempt, Shape

(* `connect` *)
LEMMA ConnectEntries ==
    ASSUME EntriesInv, NEW id \in E!Ids, E!Connect(id)
    PROVE  EntriesInv'
  <1>1. PICK c : /\ clusters' = [clusters EXCEPT ![id] = c]
                 /\ c \in Shape(c) /\ c.started_as = id
                 /\ c.contents = E!Fingerprint(kube, id)
    BY AttemptOK DEF E!Connect
  <1>2. UNCHANGED <<kube, aliases>> /\ id \in E!Entries(kube)
    BY DEF E!Connect
  <1>3. /\ clusters' = [x \in E!Ids |-> clusters'[x]]
        /\ \A x \in E!Ids : clusters'[x] = IF x = id THEN c ELSE clusters[x]
    BY <1>1 DEF EntriesInv, ClustersInv
  <1>4. ClustersInv'
    BY <1>1, <1>3 DEF EntriesInv, ClustersInv, Shape, E!Ids
  <1>5. E!ConnectionsMatchEntries'
    <2>1. /\ E!Entries(kube') = E!Entries(kube)
          /\ \A x : E!Fingerprint(kube', x) = E!Fingerprint(kube, x)
      BY <1>2
    <2>2. SUFFICES ASSUME NEW x \in E!Ids, clusters'[x] # Absent
                   PROVE  /\ x \in E!Entries(kube')
                          /\ clusters'[x].open =>
                                clusters'[x].contents = E!Fingerprint(kube', x)
      BY DEF E!ConnectionsMatchEntries
    <2>3. CASE x = id
      BY <1>1, <1>2, <1>3, <2>1, <2>3
    <2>4. CASE x # id
      BY <1>3, <2>1, <2>2, <2>4 DEF EntriesInv, E!ConnectionsMatchEntries
    <2> QED BY <2>3, <2>4
  <1>6. AliasInv'
    BY <1>1, <1>2, <1>3 DEF EntriesInv, AliasInv, LeadsTo
  <1> QED BY <1>4, <1>5, <1>6 DEF EntriesInv

(* `disconnect` *)
LEMMA DisconnectEntries ==
    ASSUME EntriesInv, NEW id \in E!Ids, E!Disconnect(id)
    PROVE  EntriesInv'
  <1>1. PICK c : /\ clusters' = [clusters EXCEPT ![id] = c]
                 /\ c \in Shape(c) /\ ~c.open
    <2> DEFINE d == [clusters[id] EXCEPT !.open = FALSE,
                                         !.generation = clusters[id].generation + 1]
    <2>1. clusters[id] \in Shape(clusters[id])
      BY DEF E!Disconnect, EntriesInv, ClustersInv
    <2>2. d \in Shape(d) /\ ~d.open
      BY <2>1 DEF Shape
    <2>3. clusters' = [clusters EXCEPT ![id] = d]
      BY <2>1 DEF E!Disconnect, EntriesInv, ClustersInv, Shape
    <2> HIDE DEF d
    <2> QED BY <2>2, <2>3
  <1>2. UNCHANGED <<kube, aliases>> /\ clusters[id] # Absent
    BY DEF E!Disconnect
  <1>3. /\ clusters' = [x \in E!Ids |-> clusters'[x]]
        /\ \A x \in E!Ids : clusters'[x] = IF x = id THEN c ELSE clusters[x]
    BY <1>1 DEF EntriesInv, ClustersInv
  <1>4. ClustersInv'
    BY <1>1, <1>3 DEF EntriesInv, ClustersInv, Shape, E!Ids
  <1>5. E!ConnectionsMatchEntries'
    <2>1. /\ E!Entries(kube') = E!Entries(kube)
          /\ \A x : E!Fingerprint(kube', x) = E!Fingerprint(kube, x)
      BY <1>2
    <2>2. SUFFICES ASSUME NEW x \in E!Ids, clusters'[x] # Absent
                   PROVE  /\ x \in E!Entries(kube')
                          /\ clusters'[x].open =>
                                clusters'[x].contents = E!Fingerprint(kube', x)
      BY DEF E!ConnectionsMatchEntries
    <2> QED BY <1>1, <1>2, <1>3, <2>1, <2>2 DEF EntriesInv, E!ConnectionsMatchEntries
  <1>6. AliasInv'
    BY <1>1, <1>2, <1>3 DEF EntriesInv, AliasInv, LeadsTo
  <1> QED BY <1>4, <1>5, <1>6 DEF EntriesInv

(* A step that leaves the connections, the aliases and the kubeconfig. *)
LEMMA SameEntries ==
    ASSUME EntriesInv, UNCHANGED <<kube, clusters, aliases>>
    PROVE  EntriesInv'
  <1>1. E!ConnectionsMatchEntries'
    <2>1. /\ E!Entries(kube') = E!Entries(kube)
          /\ \A x : E!Fingerprint(kube', x) = E!Fingerprint(kube, x)
      OBVIOUS
    <2> QED BY <2>1 DEF EntriesInv, E!ConnectionsMatchEntries
  <1>2. AliasInv'
    BY DEF EntriesInv, AliasInv, LeadsTo
  <1>3. ClustersInv'
    BY DEF EntriesInv, ClustersInv
  <1> QED BY <1>1, <1>2, <1>3 DEF EntriesInv

(* A connection that is kept stays as it is, but for its history. *)
LEMMA KeptOK ==
    ASSUME NEW new, NEW c, NEW id, c # Absent, c \in Shape(c)
    PROVE  LET d == E!Kept(new, c, id) IN
           /\ d \in Shape(d)
           /\ d.open = c.open /\ d.contents = c.contents
           /\ d.started_as = c.started_as
           /\ ~d.reused => ~c.reused /\ ~E!Reused(new, c.started_as, id)
  BY DEF E!Kept, Shape

(* A move of `apply_entries` takes the connection of a gone id to an entry  *)
(* that stands for the same cluster and user.                               *)
LEMMA MovesOK ==
    ASSUME NEW new, NEW S \in E!Moves(new), NEW m \in S
    PROVE  /\ m = <<m[1], m[2]>> /\ m[1] \in E!Gone(new)
           /\ m[2] = E!ResolveIn(new, aliases, m[1])
           /\ m[2] \in E!Entries(new) /\ clusters[m[2]] = Absent
           /\ E!Fingerprint(kube, m[1]) = E!Fingerprint(new, m[2])
  BY DEF E!Moves, E!SameConnection

(* Where a connection that is there after the load comes from. *)
LEMMA MovedFrom ==
    ASSUME NEW new, NEW S \in E!Moves(new), NEW id \in E!Ids,
           E!Moved(new, S)[id] # Absent
    PROVE  \/ \E x \in E!Gone(new) :
                /\ <<x, id>> \in S
                /\ E!Moved(new, S)[id] = E!Kept(new, clusters[x], id)
           \/ /\ id \notin E!Gone(new) /\ clusters[id] # Absent
              /\ E!Moved(new, S)[id] = E!Kept(new, clusters[id], id)
  <1>1. CASE \E m \in S : m[2] = id
    <2>1. PICK m \in S : m = CHOOSE n \in S : n[2] = id
      BY <1>1
    <2>2. m[2] = id
      BY <1>1, <2>1
    <2>3. m = <<m[1], id>> /\ m[1] \in E!Gone(new)
      BY <2>2, MovesOK
    <2>4. E!Moved(new, S)[id] = E!Kept(new, clusters[m[1]], id)
      BY <1>1, <2>1 DEF E!Moved
    <2> QED BY <2>3, <2>4
  <1>2. CASE ~\E m \in S : m[2] = id
    BY <1>2 DEF E!Moved, E!Kept
  <1> QED BY <1>1, <1>2

(* The aliases follow the connections. *)
LEMMA AliasesOK ==
    ASSUME NEW new, NEW S \in E!Moves(new), NEW s \in E!Ids
    PROVE  /\ \A id : <<s, id>> \in S => E!Aliases(S)[s] = id
           /\ \A x, id : /\ <<x, id>> \in S /\ aliases[s] = x /\ x # Absent
                         /\ clusters[s] = Absent
                         => E!Aliases(S)[s] = id
           /\ clusters[s] = Absent /\ clusters[aliases[s]] # Absent
              /\ aliases[s] \notin E!Gone(new)
              => E!Aliases(S)[s] = aliases[s]
  <1>1. \A m \in S : \A x : m[1] = x => m = <<x, E!ResolveIn(new, aliases, x)>>
    BY MovesOK
  <1>2. \A m \in S : clusters[m[1]] # Absent /\ m[1] \in E!Gone(new)
    BY MovesOK DEF E!Gone
  <1> QED BY <1>1, <1>2 DEF E!Aliases

(* `apply_entries` *)
LEMMA ApplyEntriesKeeps ==
    ASSUME E!Parameters, EntriesInv, NEW new, E!ApplyEntries(new)
    PROVE  EntriesInv'
  <1>1. PICK S \in E!Moves(new) :
          /\ clusters' = [id \in E!Ids |->
                IF id \in E!Changed(new)
                THEN E!Attempt(id, new, clusters[id].generation + 1)
                ELSE E!Moved(new, S)[id]]
          /\ aliases' = E!Aliases(S)
    BY DEF E!ApplyEntries
  <1>2. kube' = new
    BY DEF E!ApplyEntries
  <1>3. Absent \notin E!Ids
    BY DEF E!Parameters
  <1>4. \A x \in E!Gone(new) : x \in E!Ids /\ clusters[x] # Absent
    BY DEF E!Gone
  <1>5. \A x \in E!Ids : clusters[x] # Absent => clusters[x] \in Shape(clusters[x])
    BY DEF EntriesInv, ClustersInv
  <1>6. \A id \in E!Ids : clusters'[id] # Absent =>
          /\ clusters'[id] \in Shape(clusters'[id])
          /\ id \in E!Entries(new)
          /\ clusters'[id].open => clusters'[id].contents = E!Fingerprint(new, id)
          /\ clusters'[id].open /\ ~clusters'[id].reused
             /\ clusters'[id].started_as # id
             => /\ E!Aliases(S)[clusters'[id].started_as] = id
                /\ ~E!Reused(new, clusters'[id].started_as, id)
    <2> SUFFICES ASSUME NEW id \in E!Ids, clusters'[id] # Absent
                 PROVE  /\ clusters'[id] \in Shape(clusters'[id])
                        /\ id \in E!Entries(new)
                        /\ clusters'[id].open =>
                              clusters'[id].contents = E!Fingerprint(new, id)
                        /\ clusters'[id].open /\ ~clusters'[id].reused
                           /\ clusters'[id].started_as # id
                           => /\ E!Aliases(S)[clusters'[id].started_as] = id
                              /\ ~E!Reused(new, clusters'[id].started_as, id)
      OBVIOUS
    <2>1. CASE id \in E!Changed(new)
      <3>1. PICK n : clusters'[id] = E!Attempt(id, new, n)
        BY <1>1, <2>1
      <3>2. id \in E!Entries(new)
        BY <2>1 DEF E!Changed
      <3> QED BY <3>1, <3>2, AttemptOK
    <2>2. CASE id \notin E!Changed(new)
      <3>1. clusters'[id] = E!Moved(new, S)[id]
        BY <1>1, <2>2
      <3>2. CASE \E x \in E!Gone(new) :
                   /\ <<x, id>> \in S
                   /\ E!Moved(new, S)[id] = E!Kept(new, clusters[x], id)
        <4>1. PICK x \in E!Gone(new) :
                   /\ <<x, id>> \in S
                   /\ E!Moved(new, S)[id] = E!Kept(new, clusters[x], id)
          BY <3>2
        <4>2. /\ x \in E!Ids /\ clusters[x] # Absent
              /\ clusters[x] \in Shape(clusters[x])
          BY <1>4, <1>5
        <4>3. /\ clusters'[id] \in Shape(clusters'[id])
              /\ clusters'[id].open = clusters[x].open
              /\ clusters'[id].contents = clusters[x].contents
              /\ clusters'[id].started_as = clusters[x].started_as
              /\ ~clusters'[id].reused =>
                    ~clusters[x].reused /\ ~E!Reused(new, clusters[x].started_as, id)
          BY <3>1, <4>1, <4>2, KeptOK
        <4>4. /\ id \in E!Entries(new)
              /\ E!Fingerprint(kube, x) = E!Fingerprint(new, id)
          <5>1. PICK m \in S : m = <<x, id>>
            BY <4>1
          <5> QED BY <5>1, MovesOK
        <4>5. clusters[x].open => clusters[x].contents = E!Fingerprint(kube, x)
          BY <4>2 DEF EntriesInv, E!ConnectionsMatchEntries
        <4>6. ASSUME clusters[x].open, ~clusters[x].reused
              PROVE  E!Aliases(S)[clusters[x].started_as] = id
          <5>1. clusters[x].started_as \in E!Ids
            BY <4>2 DEF Shape
          <5>2. CASE clusters[x].started_as = x
            BY <4>1, <4>2, <5>2, AliasesOK
          <5>3. CASE clusters[x].started_as # x
            <6>1. /\ aliases[clusters[x].started_as] = x
                  /\ clusters[x].started_as \notin E!Entries(kube)
              BY <4>2, <4>6, <5>3 DEF EntriesInv, AliasInv, LeadsTo
            <6>2. clusters[clusters[x].started_as] = Absent
              BY <5>1, <6>1 DEF EntriesInv, E!ConnectionsMatchEntries
            <6>3. x # Absent
              BY <1>3, <4>2
            <6> QED BY <4>1, <5>1, <6>1, <6>2, <6>3, AliasesOK
          <5> QED BY <5>2, <5>3
        <4> QED BY <4>3, <4>4, <4>5, <4>6
      <3>3. CASE /\ id \notin E!Gone(new) /\ clusters[id] # Absent
                 /\ E!Moved(new, S)[id] = E!Kept(new, clusters[id], id)
        <4>1. clusters[id] \in Shape(clusters[id])
          BY <1>5, <3>3
        <4>2. /\ clusters'[id] \in Shape(clusters'[id])
              /\ clusters'[id].open = clusters[id].open
              /\ clusters'[id].contents = clusters[id].contents
              /\ clusters'[id].started_as = clusters[id].started_as
              /\ ~clusters'[id].reused =>
                    ~clusters[id].reused /\ ~E!Reused(new, clusters[id].started_as, id)
          BY <3>1, <3>3, <4>1, KeptOK
        <4>3. id \in E!Entries(new)
          BY <3>3 DEF E!Gone
        <4>4. clusters[id].open => E!Fingerprint(kube, id) = E!Fingerprint(new, id)
          BY <2>2, <3>3, <4>3 DEF E!Changed
        <4>5. clusters[id].open => clusters[id].contents = E!Fingerprint(kube, id)
          BY <3>3 DEF EntriesInv, E!ConnectionsMatchEntries
        <4>6. ASSUME clusters[id].open, ~clusters[id].reused,
                     clusters[id].started_as # id
              PROVE  E!Aliases(S)[clusters[id].started_as] = id
          <5>1. clusters[id].started_as \in E!Ids
            BY <4>1 DEF Shape
          <5>2. /\ aliases[clusters[id].started_as] = id
                /\ clusters[id].started_as \notin E!Entries(kube)
            BY <3>3, <4>6 DEF EntriesInv, AliasInv, LeadsTo
          <5>3. clusters[clusters[id].started_as] = Absent
            BY <5>1, <5>2 DEF EntriesInv, E!ConnectionsMatchEntries
          <5> QED BY <3>3, <5>1, <5>2, <5>3, AliasesOK
        <4> QED BY <4>2, <4>3, <4>4, <4>5, <4>6
      <3> QED BY <3>1, <3>2, <3>3, MovedFrom
    <2> QED BY <2>1, <2>2
  <1>7. ClustersInv'
    BY <1>1, <1>6 DEF ClustersInv, Shape, E!Ids
  <1>8. E!ConnectionsMatchEntries'
    <2>1. /\ E!Entries(kube') = E!Entries(new)
          /\ \A x : E!Fingerprint(kube', x) = E!Fingerprint(new, x)
      BY <1>2
    <2> QED BY <1>6, <2>1 DEF E!ConnectionsMatchEntries
  <1>9. AliasInv'
    <2> SUFFICES ASSUME NEW id \in E!Ids, NEW s, s = clusters'[id].started_as,
                        clusters'[id] # Absent, clusters'[id].open,
                        ~clusters'[id].reused, s # id
                 PROVE  /\ aliases'[s] = id
                        /\ s \notin E!Entries(kube')
                        /\ E!Member(kube', s) => E!EntryOf(kube', s.name) = id
      BY DEF AliasInv, LeadsTo
    <2>1. aliases'[s] = id /\ ~E!Reused(new, s, id)
      BY <1>1, <1>6
    <2> QED BY <1>2, <2>1 DEF E!Reused
  <1> QED BY <1>7, <1>8, <1>9 DEF EntriesInv

(* Entries starts without connections. *)
LEMMA InitEntries == E!Init => EntriesInv
  BY DEF E!Init, EntriesInv, ClustersInv, E!ConnectionsMatchEntries, AliasInv

(* Every step of Entries keeps the invariant. *)
LEMMA InductiveEntries ==
    ASSUME E!Parameters
    PROVE  EntriesInv /\ [E!Next]_(E!vars) => EntriesInv'
  <1> SUFFICES ASSUME EntriesInv, [E!Next]_(E!vars)
               PROVE  EntriesInv'
    OBVIOUS
  <1>1. CASE UNCHANGED E!vars
    BY <1>1, SameEntries DEF E!vars
  <1>2. CASE E!Next
    <2>1. CASE \E id \in E!Ids : E!Connect(id)
      BY <2>1, ConnectEntries
    <2>2. CASE \E id \in E!Ids : E!Disconnect(id)
      BY <2>2, DisconnectEntries
    <2>3. CASE \E id \in E!Ids : E!Activate(id)
      BY <2>3, SameEntries DEF E!Activate
    <2>4. CASE \E new \in Kubes : E!ApplyEntries(new)
      BY <2>4, ApplyEntriesKeeps
    <2> QED BY <1>2, <2>1, <2>2, <2>3, <2>4 DEF E!Next
  <1> QED BY <1>1, <1>2

(* `key` and `resolve_in`: an id whose connection moved and that stands for *)
(* nothing else leads to where the connection is now, in one alias.         *)
LEMMA LeadsToFound ==
    ASSUME E!Parameters, EntriesInv, NEW id \in E!Ids, NEW s \in E!Ids,
           clusters[id] # Absent, LeadsTo(s, id)
    PROVE  E!Key(s) = id
  <1>1. clusters[s] = Absent /\ id \in E!Entries(kube)
    BY DEF EntriesInv, E!ConnectionsMatchEntries, LeadsTo
  <1>2. id # Absent
    BY DEF E!Parameters
  <1>3. \A rest : E!Hop(kube, aliases, rest)[id] = id
    BY <1>1 DEF E!Hop
  <1>4. E!Resolve(s) = id
    <2>1. \A rest : rest[id] = id => E!Hop(kube, aliases, rest)[s] = id
      BY <1>2 DEF E!Hop, LeadsTo
    <2> QED BY <1>3, <2>1 DEF E!Resolve, E!ResolveIn
  <1> QED BY <1>1, <1>4 DEF E!Key

(* The inductive invariant of Entries: besides that a connection matches    *)
(* its entry, one alias leads from the id its tasks know to where it is.    *)
THEOREM EntriesInvariance ==
    ASSUME E!Parameters
    PROVE  E!Spec => []EntriesInv
  BY InitEntries, InductiveEntries, PTL DEF E!Spec

(* The ids, entries and properties of module EntryIds are those of Entries. *)
LEMMA SameIds ==
    /\ \A k, n : E!EntryOf(k, n) = EntryOf(k, n)
    /\ \A k : E!Contexts(k) = Contexts(k) /\ E!Entries(k) = Entries(k)
    /\ \A k, id : E!Fingerprint(k, id) = Fingerprint(k, id)
    /\ \A id : E!Key(id) = Key(id)
    /\ E!Ids = Ids
  <1>1. E!Ids = Ids
    BY DEF E!Ids, Ids
  <1>2. \A k : E!Contexts(k) = Contexts(k)
    BY DEF E!Contexts, Contexts
  <1>3. \A k, n : E!Identity(k, n) = Identity(k, n)
    BY DEF E!Identity, Identity
  <1>4. \A k, n : E!Bucket(k, n) = Bucket(k, n)
    BY <1>2, <1>3 DEF E!Bucket, Bucket
  <1>5. \A S : E!Min(S) = Min(S) /\ E!Cardinality(S) = Cardinality(S)
    BY DEF E!Min, Min, E!Cardinality, Cardinality
  <1>6. \A k, n : E!GroupName(k, n) = GroupName(k, n)
    BY <1>4, <1>5 DEF E!GroupName, GroupName
  <1>7. \A k, n : E!Grouped(k, n) = Grouped(k, n)
    BY <1>4, <1>5, <1>6 DEF E!Grouped, Grouped
  <1>8. \A k, n : E!EntryOf(k, n) = EntryOf(k, n)
    BY <1>6, <1>7 DEF E!EntryOf, EntryOf, E!Grp, Grp, E!Ctx, Ctx
  <1>9. \A k : E!Entries(k) = Entries(k)
    BY <1>2, <1>8 DEF E!Entries, Entries
  <1>10. \A k, id : E!Fingerprint(k, id) = Fingerprint(k, id)
    BY <1>2, <1>3, <1>8 DEF E!Fingerprint, Fingerprint
  <1>11. \A k, u : E!Heir(k, u) = Heir(k, u)
    BY <1>2, <1>5 DEF E!Heir, Heir
  <1>12. \A k : E!AtEnd(k) = AtEnd(k)
    BY <1>1, <1>2, <1>8, <1>11 DEF E!AtEnd, AtEnd
  <1>13. \A k, al, rest : E!Hop(k, al, rest) = Hop(k, al, rest)
    BY <1>1, <1>2, <1>8, <1>9, <1>12 DEF E!Hop, Hop, E!Member, Member
  <1>14. \A id : E!Key(id) = Key(id)
    BY <1>12, <1>13 DEF E!Key, Key, E!Resolve, Resolve, E!ResolveIn, ResolveIn
  <1> QED BY <1>1, <1>2, <1>8, <1>9, <1>10, <1>14

(* `apply_entries`: however contexts come and go, are grouped and taken     *)
(* apart, an open connection is of the cluster and user its entry stands    *)
(* for now.                                                                 *)
THEOREM ConnectionsAlwaysMatchEntries ==
    ASSUME E!Parameters
    PROVE  E!Spec => []ConnectionsMatchEntries
  <1>1. EntriesInv => ConnectionsMatchEntries
    BY SameIds DEF EntriesInv, E!ConnectionsMatchEntries, ConnectionsMatchEntries
  <1> QED BY <1>1, EntriesInvariance, PTL

(* `key`: tasks find their connection by the id they were started with,     *)
(* after any number of moves, unless that id came to stand for something    *)
(* else.                                                                    *)
THEOREM MovedConnectionsAreAlwaysFound ==
    ASSUME E!Parameters
    PROVE  E!Spec => []MovedConnectionsAreFound
  <1>1. EntriesInv => MovedConnectionsAreFound
    <2> SUFFICES ASSUME EntriesInv, NEW id \in E!Ids,
                        clusters[id] # Absent, clusters[id].open,
                        clusters[id].started_as # id, ~clusters[id].reused
                 PROVE  E!Key(clusters[id].started_as) = id
      BY SameIds DEF MovedConnectionsAreFound
    <2>1. clusters[id].started_as \in E!Ids
      BY DEF EntriesInv, ClustersInv, Shape
    <2>2. LeadsTo(clusters[id].started_as, id)
      BY DEF EntriesInv, AliasInv
    <2> QED BY <2>1, <2>2, LeadsToFound
  <1> QED BY <1>1, EntriesInvariance, PTL
=============================================================================
