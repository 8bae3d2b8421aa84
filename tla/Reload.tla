------------------------------ MODULE Reload ------------------------------
(***************************************************************************)
(* Hot reload of the gateway's configuration: HotReloader (loader.go) and  *)
(* the callbacks main registers with it.                                   *)
(*                                                                         *)
(* An operator edits configuration files and secret files, or sends        *)
(* SIGHUP.  fsnotify queues events; the loop goroutine filters them and    *)
(* re-arms a debounce timer; each expiry of the timer runs reload in a     *)
(* goroutine of its own (time.AfterFunc), which reads the files one by     *)
(* one, and on success swaps h.current, adjusts the secret watches and     *)
(* hands the new configuration to its seven holders one after the other.   *)
(* All of these steps interleave.                                          *)
(*                                                                         *)
(* Writing a file in place is two edits (emptied, then filled); replacing  *)
(* it with a rename is one.  main reads the configuration before it        *)
(* connects to the database, starts the watcher afterwards ("wiring"),     *)
(* registers the full callback ("registered"), and fills the team registry *)
(* from what it read at start before it serves requests ("serving").       *)
(***************************************************************************)
EXTENDS LiveConfig, FiniteSets

CONSTANTS
    Contents,      \* file -> the contents an editor may give it
    Paths,         \* secret files
    Keys,          \* first lines of secret files
    Initial,       \* [files, secrets] the gateway may find when it starts
    Endpoints,     \* endpoint ids of all pools contents
    Goroutines,    \* reloads that may be in flight at once (bound)
    MaxEdits,      \* edits and SIGHUPs in a behaviour (bound)
    Unread         \* placeholder for what a reload has not read yet

ASSUME ContentsAssumption ==
    /\ DOMAIN Contents = Files
    /\ \A f \in Files : Unread \notin Contents[f]
ASSUME InitialAssumption ==
    \A i \in Initial : /\ i.files \in [Files -> UNION {Contents[f] : f \in Files}]
                        /\ \A f \in Files : i.files[f] \in Contents[f]
                        /\ i.secrets \in [Paths -> Keys]
ASSUME PoolsAssumption ==
    \A c \in Contents["pools"] : Body[c] # Unreadable =>
        /\ DOMAIN Body[c].endpoints \subseteq Endpoints
        /\ \A e \in DOMAIN Body[c].endpoints : Body[c].endpoints[e].ref \in Paths \union Keys
ASSUME PathsAssumption == Paths \intersect Files = {}
ASSUME EditsAssumption == MaxEdits \in Nat
ASSUME KeysAssumption == Unread \notin Keys /\ Unreadable \notin Keys /\ "" \in Keys

VARIABLES
    disk,          \* file -> content
    secret,        \* path -> first line, or Unreadable when there is no file
    boot,          \* "connecting", "wiring", "registered", "serving", or "dead"
    watched,       \* secret files with a kernel watch
    secretPaths,   \* h.secretPaths
    events,        \* h.watcher.Events: files with undelivered events
    trigger,       \* h.manualTrigger (capacity 1)
    timer,         \* the debounce timer is armed
    at,            \* goroutine -> step of reload
    todo,          \* goroutine -> files still to read, or holders to update
    got,           \* goroutine -> contents read
    keys,          \* goroutine -> endpoint keys resolved
    current,       \* h.current
    edits,         \* edits and SIGHUPs so far
    seen,          \* file -> content found by the latest read (history)
    missed,        \* files edited before the watcher started, not read since (history)
    disturbed,     \* what has come in the way of a reload (history)
    startup        \* cfg in main: the configuration read at start

watcherVars == <<watched, secretPaths, events, trigger, timer>>
reloadVars == <<at, todo, got, keys>>
vars == <<disk, secret, boot, watcherVars, reloadVars, current, live, edits, seen, missed, disturbed,
          startup>>

NothingRead == [f \in Files |-> Unread]
NoKeys == [e \in Endpoints |-> Unread]

-----------------------------------------------------------------------------
(* Resolving keys. *)

PoolsOf(got_) == Body[got_["pools"]]

\* secretref.Resolve for an endpoint: only file:// references can vary.
Resolve(got_, sec, e) ==
    LET ref == PoolsOf(got_).endpoints[e].ref
    IN  IF ref \in Paths THEN sec[ref] ELSE ref

\* Everything Load looks at is in order.
Loads(files, sec) ==
    /\ Acceptable(files)
    /\ \A e \in DOMAIN PoolsOf(files).endpoints : Resolve(files, sec, e) # Unreadable

KeysOf(files, sec) ==
    [e \in Endpoints |-> IF e \in DOMAIN PoolsOf(files).endpoints
                         THEN Resolve(files, sec, e) ELSE Unread]

-----------------------------------------------------------------------------
Init ==
    /\ \E i \in Initial : disk = i.files /\ secret = i.secrets
    /\ Loads(disk, secret)
    /\ boot = "connecting"
    /\ watched = {} /\ secretPaths = {} /\ events = {}
    /\ trigger = FALSE /\ timer = FALSE
    /\ at = [g \in Goroutines |-> "idle"]
    /\ todo = [g \in Goroutines |-> <<>>]
    /\ got = [g \in Goroutines |-> NothingRead]
    /\ keys = [g \in Goroutines |-> NoKeys]
    /\ current = [files |-> disk, keys |-> KeysOf(disk, secret)]
    /\ startup = current
    /\ live = Wired(startup)
    /\ edits = 0
    /\ seen = disk
    /\ missed = {}
    /\ disturbed = {}

-----------------------------------------------------------------------------
(* The operator. *)

Watching == boot \in {"wiring", "registered", "serving"}

\* The second OnReload has replaced the pricing-only callback.
Registered == boot \in {"registered", "serving"}

\* A configuration file is written or replaced; its directory is watched, so the
\* event arrives either way.
EditFile(f, c) ==
    /\ edits < MaxEdits
    /\ boot # "dead"
    /\ disk[f] # c
    /\ disk' = [disk EXCEPT ![f] = c]
    /\ events' = IF Watching THEN events \union {f} ELSE events
    /\ missed' = IF Watching THEN missed ELSE missed \union {f}
    /\ edits' = edits + 1
    /\ UNCHANGED <<secret, boot, watched, secretPaths, trigger, timer, reloadVars,
                   current, live, seen, disturbed, startup>>

\* A secret file is written in place.
WriteSecret(p, k) ==
    /\ edits < MaxEdits
    /\ boot # "dead"
    /\ secret[p] \notin {k, Unreadable}
    /\ secret' = [secret EXCEPT ![p] = k]
    /\ events' = IF p \in watched THEN events \union {p} ELSE events
    /\ missed' = IF Watching THEN missed ELSE missed \union {p}
    /\ edits' = edits + 1
    /\ UNCHANGED <<disk, boot, watched, secretPaths, trigger, timer, reloadVars,
                   current, live, seen, disturbed, startup>>

\* A secret file is replaced by another one, created, or removed: a watch on the
\* old file reports its removal and is gone.
ReplaceSecret(p, k) ==
    /\ edits < MaxEdits
    /\ boot # "dead"
    /\ secret[p] # k
    /\ secret' = [secret EXCEPT ![p] = k]
    /\ events' = IF p \in watched THEN events \union {p} ELSE events
    /\ watched' = watched \ {p}
    /\ missed' = IF Watching THEN missed ELSE missed \union {p}
    /\ edits' = edits + 1
    /\ UNCHANGED <<disk, boot, secretPaths, trigger, timer, reloadVars,
                   current, live, seen, disturbed, startup>>

\* SIGHUP: main's handler calls TriggerReload, whose send is dropped when one is pending.
TriggerReload ==
    /\ edits < MaxEdits
    /\ Watching
    /\ trigger' = TRUE
    /\ edits' = edits + 1
    /\ UNCHANGED <<disk, secret, boot, watched, secretPaths, events, timer, reloadVars,
                   current, live, seen, missed, disturbed, startup>>

-----------------------------------------------------------------------------
(* main *)

\* Start: watch the directories, and every secret file that can be watched.
Start ==
    /\ boot = "connecting"
    /\ boot' = "wiring"
    /\ LET present == {p \in fileRefPaths(PoolsOf(current.files), Paths) : secret[p] # Unreadable}
       IN  /\ watched' = present
           /\ secretPaths' = present
    /\ UNCHANGED <<disk, secret, events, trigger, timer, reloadVars, current, live,
                   edits, seen, missed, disturbed, startup>>

\* The second OnReload replaces the pricing-only callback.
OnReload ==
    /\ boot = "wiring"
    /\ boot' = "registered"
    /\ UNCHANGED <<disk, secret, watcherVars, reloadVars, current, live, edits, seen,
                   missed, disturbed, startup>>

\* main fills the team registry from the configuration it read at start, whatever a
\* reload has put there since, and starts to serve.
rebuildTeamRegistry ==
    /\ boot = "registered"
    /\ boot' = "serving"
    /\ live' = [live EXCEPT !.registry = startup.files["teams"]]
    /\ disturbed' = IF live.registry = startup.files["teams"] THEN disturbed
                    ELSE disturbed \union {"registry reset"}
    /\ UNCHANGED <<disk, secret, watcherVars, reloadVars, current, edits, seen, missed, startup>>

-----------------------------------------------------------------------------
(* loop *)

HandleEventDropsTimer(n) ==
    /\ Watching
    /\ n \in events
    /\ events' = events \ {n}
    /\ timer' = (~timer /\ n \in Files \union secretPaths)
    /\ UNCHANGED <<disk, secret, boot, watched, secretPaths, trigger, reloadVars,
                   current, live, edits, seen, missed, disturbed, startup>>

\* An event for a configuration file or a known secret file re-arms the timer.
HandleEvent(n) ==
    /\ Watching
    /\ n \in events
    /\ events' = events \ {n}
    /\ timer' = (timer \/ n \in Files \union secretPaths)
    /\ UNCHANGED <<disk, secret, boot, watched, secretPaths, trigger, reloadVars,
                   current, live, edits, seen, missed, disturbed, startup>>

HandleTriggerForgets ==
    /\ Watching
    /\ trigger
    /\ trigger' = FALSE
    /\ UNCHANGED <<disk, secret, boot, watched, secretPaths, events, timer, reloadVars,
                   current, live, edits, seen, missed, disturbed, startup>>

HandleTrigger ==
    /\ Watching
    /\ trigger
    /\ trigger' = FALSE
    /\ timer' = TRUE
    /\ UNCHANGED <<disk, secret, boot, watched, secretPaths, events, reloadVars,
                   current, live, edits, seen, missed, disturbed, startup>>

-----------------------------------------------------------------------------
(* reload *)

Running(g) == boot # "dead" /\ at[g] # "idle"

\* The timer expires: reload starts in goroutine g.
Expire(g) ==
    /\ Watching
    /\ timer
    /\ at[g] = "idle"
    /\ timer' = FALSE
    /\ at' = [at EXCEPT ![g] = "read"]
    /\ todo' = [todo EXCEPT ![g] = ReadOrder]
    /\ disturbed' = IF \E other \in Goroutines : at[other] # "idle"
                    THEN disturbed \union {"overlap"} ELSE disturbed
    /\ UNCHANGED <<disk, secret, boot, watched, secretPaths, events, trigger, got, keys,
                   current, live, edits, seen, missed, startup>>

\* reload returns; what it read is forgotten.
Finish(g) ==
    /\ at' = [at EXCEPT ![g] = "idle"]
    /\ todo' = [todo EXCEPT ![g] = <<>>]
    /\ got' = [got EXCEPT ![g] = NothingRead]
    /\ keys' = [keys EXCEPT ![g] = NoKeys]

ReadFileUnvalidated(g) ==
    /\ Running(g)
    /\ at[g] = "read"
    /\ LET f == Head(todo[g])
           files == [got[g] EXCEPT ![f] = disk[f]]
       IN  /\ seen' = [seen EXCEPT ![f] = disk[f]]
           /\ missed' = missed \ {f}
           /\ IF Body[disk[f]] # Unreadable
              THEN /\ got' = [got EXCEPT ![g] = files]
                   /\ todo' = [todo EXCEPT ![g] = Tail(@)]
                   /\ at' = [at EXCEPT ![g] = IF Len(todo[g]) = 1 THEN "resolve" ELSE "read"]
                   /\ UNCHANGED keys
              ELSE Finish(g)
    /\ UNCHANGED <<disk, secret, boot, watcherVars, current, live, edits, disturbed, startup>>

\* Load reads the next file; the old configuration stays when it is not accepted.
ReadFile(g) ==
    /\ Running(g)
    /\ at[g] = "read"
    /\ LET f == Head(todo[g])
           files == [got[g] EXCEPT ![f] = disk[f]]
       IN  /\ seen' = [seen EXCEPT ![f] = disk[f]]
           /\ missed' = missed \ {f}
           /\ IF AcceptsRead(f, files)
              THEN /\ got' = [got EXCEPT ![g] = files]
                   /\ todo' = [todo EXCEPT ![g] = Tail(@)]
                   /\ at' = [at EXCEPT ![g] = IF Len(todo[g]) = 1 THEN "resolve" ELSE "read"]
                   /\ UNCHANGED keys
              ELSE Finish(g)
    /\ UNCHANGED <<disk, secret, boot, watcherVars, current, live, edits, disturbed, startup>>

\* Endpoints whose key is still to be resolved.
Unresolved(g) == {e \in DOMAIN PoolsOf(got[g]).endpoints : keys[g][e] = Unread}

ResolveKeyWaits(g, e) ==
    /\ Running(g)
    /\ at[g] = "resolve"
    /\ e \in Unresolved(g)
    /\ LET key == Resolve(got[g], secret, e)
       IN  /\ key \notin {Unreadable, ""}
           /\ keys' = [keys EXCEPT ![g][e] = key]
    /\ missed' = missed \ (Paths \intersect {PoolsOf(got[g]).endpoints[e].ref})
    /\ UNCHANGED <<at, todo, got, disturbed, disk, secret, boot, watcherVars, current, live,
                   edits, seen, startup>>

\* resolveKeys, for one endpoint.
ResolveKey(g, e) ==
    /\ Running(g)
    /\ at[g] = "resolve"
    /\ e \in Unresolved(g)
    /\ LET key == Resolve(got[g], secret, e)
       IN  IF key # Unreadable
           THEN /\ keys' = [keys EXCEPT ![g][e] = key]
                /\ UNCHANGED <<at, todo, got, disturbed>>
           ELSE /\ Finish(g)
                /\ disturbed' = disturbed \union {"missing secret"}
    /\ missed' = missed \ (Paths \intersect {PoolsOf(got[g]).endpoints[e].ref})
    /\ UNCHANGED <<disk, secret, boot, watcherVars, current, live, edits, seen, startup>>

Loaded(g) == [files |-> got[g], keys |-> keys[g]]

Swap(g) ==
    /\ Running(g)
    /\ at[g] = "resolve"
    /\ Unresolved(g) = {}
    /\ current' = Loaded(g)
    /\ at' = [at EXCEPT ![g] = "sync"]
    /\ UNCHANGED <<disk, secret, boot, watcherVars, todo, got, keys, live, edits, seen,
                   missed, disturbed, startup>>

\* Secret files that the configuration of g refers to.
Referenced(g) == fileRefPaths(PoolsOf(got[g]), Paths)

\* A path already in secretPaths is not watched again; one whose file is missing
\* cannot be.
NewPaths(g) == {p \in Referenced(g) \ secretPaths : secret[p] # Unreadable}
SyncedPaths(g) == (secretPaths \union NewPaths(g)) \intersect Referenced(g)

syncSecretWatches(g) ==
    /\ Running(g)
    /\ at[g] = "sync"
    /\ watched' = (watched \union NewPaths(g)) \ (secretPaths \ Referenced(g))
    /\ secretPaths' = SyncedPaths(g)
    /\ at' = [at EXCEPT ![g] = "call"]
    /\ UNCHANGED <<disk, secret, boot, events, trigger, timer, todo, got, keys, current,
                   live, edits, seen, missed, disturbed, startup>>

\* secretPaths has no lock: when one goroutine changes it while the loop or another
\* reload looks at it, the Go runtime may abort the process.
MapRace(g) ==
    /\ Running(g)
    /\ at[g] = "sync"
    /\ SyncedPaths(g) # secretPaths
    /\ \/ events \ Files # {}
       \/ \E other \in Goroutines \ {g} : at[other] = "sync"
    /\ boot' = "dead"
    /\ UNCHANGED <<disk, secret, watcherVars, reloadVars, current, live, edits, seen,
                   missed, disturbed, startup>>

CallOnReloadStopsShort(g) ==
    /\ Running(g)
    /\ at[g] = "call"
    /\ at' = [at EXCEPT ![g] = "publish"]
    /\ todo' = [todo EXCEPT ![g] = IF Registered THEN SubSeq(HolderOrder, 1, 6)
                                    ELSE <<"selPricing">>]
    /\ disturbed' = IF Registered THEN disturbed ELSE disturbed \union {"early callback"}
    /\ UNCHANGED <<disk, secret, boot, watcherVars, got, keys, current, live, edits, seen, missed,
                   startup>>

\* The callback registered at this moment is called.
CallOnReload(g) ==
    /\ Running(g)
    /\ at[g] = "call"
    /\ at' = [at EXCEPT ![g] = "publish"]
    /\ todo' = [todo EXCEPT ![g] = IF Registered THEN HolderOrder ELSE <<"selPricing">>]
    /\ disturbed' = IF Registered THEN disturbed ELSE disturbed \union {"early callback"}
    /\ UNCHANGED <<disk, secret, boot, watcherVars, got, keys, current, live, edits, seen, missed,
                   startup>>

PublishOverruns(g) ==
    /\ Running(g)
    /\ at[g] = "publish"
    /\ LET h == Head(todo[g])
       IN  live' = [live EXCEPT ![h] = Updated(h, Loaded(g))]
    /\ todo' = [todo EXCEPT ![g] = Tail(@)]
    /\ UNCHANGED <<at, got, keys, disk, secret, boot, watcherVars, current, edits, seen,
                   missed, disturbed, startup>>

\* The callback updates its next holder.
Publish(g) ==
    /\ Running(g)
    /\ at[g] = "publish"
    /\ LET h == Head(todo[g])
       IN  live' = [live EXCEPT ![h] = Updated(h, Loaded(g))]
    /\ IF Len(todo[g]) > 1
       THEN todo' = [todo EXCEPT ![g] = Tail(@)] /\ UNCHANGED <<at, got, keys>>
       ELSE Finish(g)
    /\ UNCHANGED <<disk, secret, boot, watcherVars, current, edits, seen, missed, disturbed, startup>>

-----------------------------------------------------------------------------
reload(g) ==
    \/ Expire(g)
    \/ ReadFile(g)
    \/ \E e \in Endpoints : ResolveKey(g, e)
    \/ Swap(g)
    \/ syncSecretWatches(g)
    \/ CallOnReload(g)
    \/ Publish(g)

loop == HandleTrigger \/ \E n \in Files \union Paths : HandleEvent(n)

Next ==
    \/ \E f \in Files : \E c \in Contents[f] : EditFile(f, c)
    \/ \E p \in Paths, k \in Keys : WriteSecret(p, k)
    \/ \E p \in Paths, k \in Keys \union {Unreadable} : ReplaceSecret(p, k)
    \/ TriggerReload
    \/ Start
    \/ OnReload
    \/ rebuildTeamRegistry
    \/ loop
    \/ \E g \in Goroutines : reload(g) \/ MapRace(g)

Spec == Init /\ [][Next]_vars

\* main, the loop and each reload goroutine are scheduled; timers expire.
FairSpec ==
    /\ Spec
    /\ WF_vars(Start \/ OnReload \/ rebuildTeamRegistry)
    /\ WF_vars(loop)
    /\ \A g \in Goroutines : WF_vars(reload(g))

-----------------------------------------------------------------------------
(* Properties *)

Steps == {"idle", "read", "resolve", "sync", "call", "publish"}
ContentIds == UNION {Contents[f] : f \in Files}
FileMaps == [Files -> ContentIds \union {Unread}]
KeyMaps == [Endpoints -> Keys \union {Unread}]

\* Types of the reloader's state; what a reload still has to do fits its step
\* (loader.go, HotReloader and reload).
TypeOK ==
    /\ \A f \in Files : disk[f] \in Contents[f] /\ seen[f] \in Contents[f]
    /\ secret \in [Paths -> Keys \union {Unreadable}]
    /\ boot \in {"connecting", "wiring", "registered", "serving", "dead"}
    /\ watched \subseteq Paths /\ secretPaths \subseteq Paths
    /\ events \subseteq Files \union Paths
    /\ trigger \in BOOLEAN /\ timer \in BOOLEAN
    /\ at \in [Goroutines -> Steps]
    /\ got \in [Goroutines -> FileMaps] /\ keys \in [Goroutines -> KeyMaps]
    /\ \A g \in Goroutines :
          /\ at[g] = "read" => \E i \in 1..6 : todo[g] = SubSeq(ReadOrder, i, 6)
          /\ at[g] = "publish" => todo[g] # <<>>
    /\ current \in [files : FileMaps, keys : KeyMaps]
    /\ DOMAIN live = Holders
    /\ edits \in 0..MaxEdits
    /\ missed \subseteq Files \union Paths
    /\ disturbed \subseteq {"overlap", "early callback", "registry reset", "missing secret"}
    /\ startup \in [files : FileMaps, keys : KeyMaps]

\* Nothing is queued, armed or in flight.
Idle ==
    /\ events = {} /\ ~trigger /\ ~timer
    /\ \A g \in Goroutines : at[g] = "idle"

\* No edit of a configuration file is lost between the kernel queue, the debounce
\* timer and a reload that has already read past it: when nothing is pending and
\* the files on disk are acceptable, the latest read of each file found what is on
\* disk now.  Files edited before the watcher started are excepted.
NoLostEdit ==
    Watching /\ Idle /\ Acceptable(disk) => \A f \in Files \ missed : seen[f] = disk[f]

\* Last known good (loader.go:89, "Reload failure retains the old configuration"):
\* however reloads interleave with edits and with each other, the current
\* configuration passed every check with all its keys resolved, and so did the
\* content of each holder of the request path.
LastKnownGood ==
    /\ \A cfg \in {current, live.config} :
          /\ Acceptable(cfg.files)
          /\ \A e \in DOMAIN PoolsOf(cfg.files).endpoints : cfg.keys[e] \in Keys \union {PoolsOf(cfg.files).endpoints[e].ref}
    /\ ValidPools(Body[live.selPools])
    /\ ValidPolicy(Body[live.policy])
    /\ ValidPricing(Body[live.selPricing]) /\ ValidPricing(Body[live.costPricing])

\* Between reloads the request path runs on one configuration, the one Current
\* returns, and only three things can bring it out of line: two reloads that
\* overlapped, one that called the pricing-only callback (main.go:106), and one whose
\* teams main's own rebuildTeamRegistry put back (main.go:278).
OneConfiguration ==
    /\ boot = "serving"
    /\ \A g \in Goroutines : at[g] = "idle"
    /\ disturbed \subseteq {"missing secret"}
    => Uniform(current)

\* config-reload.md:124: "No request is ever served with a partially-loaded or invalid
\* config."  Between reloads, what a forwarded request reads (main.go:202-219: the
\* selector's pools, the engine's policy, the pipeline's configuration) is of one
\* configuration.
NeverPartlyLoaded ==
    /\ boot = "serving"
    /\ \A g \in Goroutines : at[g] = "idle"
    => /\ live.selPools = live.config.files["pools"]
       /\ live.policy = live.config.files["policy"]

\* Once the operator stops editing, the request path runs on the files that are on
\* disk, provided they load and nothing has disturbed a reload.
EditTakesEffect ==
    <>[](\/ boot = "dead"
         \/ disturbed # {} \/ missed # {}
         \/ ~Loads(disk, secret)
         \/ Uniform(current) /\ current.files = disk)

\* A SIGHUP makes the gateway read a secret file again, watched or not: the key
\* reaches the request path unless the file changes once more.
SighupRereadsSecrets ==
    \A p \in Paths, k \in Keys :
        boot = "serving" /\ trigger /\ secret[p] = k
        ~> \/ secret[p] # k \/ ~Loads(disk, secret)
           \/ boot = "dead" \/ disturbed # {}
           \/ \A e \in DOMAIN PoolsOf(live.config.files).endpoints :
                 PoolsOf(live.config.files).endpoints[e].ref = p => live.config.keys[e] = k

\* config-reload.md: file:// secrets "are also watched and re-resolved on change".
\* When nothing is pending, every key in use is the one in its secret file.
SecretsReResolved ==
    /\ boot = "serving" /\ Idle
    /\ disturbed = {} /\ missed = {}
    /\ Loads(disk, secret)
    => live.config.keys = KeysOf(live.config.files, secret)

=============================================================================
