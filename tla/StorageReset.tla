---------------------------- MODULE StorageReset ----------------------------
(***************************************************************************)
(* Storage resets of the node server (server.cjs, storage-reset-units.cjs):*)
(* an import, a snapshot restore or the removal of the database replaces   *)
(* the data under requests that were admitted, operations that wait in the *)
(* storage queue, debounced saves, a chat store that is being loaded, and  *)
(* server runs that will commit. A reset can fail before its transaction   *)
(* commits, and the process can restart anywhere.                          *)
(*                                                                         *)
(* Data is abstracted to the reset that installed it and the writes it     *)
(* contains. An operation of the queue is one step, except the reset, in   *)
(* whose slot timers, readers and requests go on.                          *)
(***************************************************************************)
EXTENDS Naturals, Sequences, FiniteSets, SequencesExt

CONSTANTS
    Saves,       \* requests that save a chat: journal, memory, timer
    Files,       \* requests that write a key of their own at once
    Runs,        \* server runs that commit an answer to a chat
    Timers,      \* identities of save timers
    None,        \* no data, no timer, no load
    MaxResets,   \* bound: resets that are started in a behaviour
    MaxFailures, \* bound: writes and transactions that fail
    MaxRestarts  \* bound: restarts of the process

Requests == Saves \cup Files
Writes == Requests \cup Runs
Kinds == {"restore", "remove", "empty"}
Data == [base : 0..MaxResets, writes : SUBSET Writes]
Database(base) == [base |-> base, writes |-> {}]

ASSUME ResetAssumption ==
    /\ {MaxResets, MaxFailures, MaxRestarts} \subseteq Nat
    /\ Saves \cap Files = {} /\ Requests \cap Runs = {}
    /\ None \notin Data \cup Timers
    /\ IsFiniteSet(Timers) =>
          Cardinality(Timers) >= 2 + Cardinality(Saves) + Cardinality(Runs)

VARIABLES
    database, \* database.bin, durable
    journal,  \* the chat write journal, durable: the chats saved over it
    unrepaired,\* database.bin is as it was copied in: a load must repair it
    files,    \* the keys that Files have written, durable
    rows,     \* operation rows of the runs, durable
    epoch,    \* the storage epoch, durable
    cache,    \* fullChatStore and dbCache
    loading,  \* a load of the chat store that a reader awaits
    storeGen, \* chatStoreGeneration
    queue,    \* the storage queue; its head is running
    timer,    \* saveTimers: the armed save, None if there is none
    reset,    \* the reset in progress: stage, kind, recorded timer
    resetGen, \* storageResetGeneration
    recovery, \* storageRecoveryRequired
    request,  \* each request: stage, and the generation of its admission
    run,      \* each run: stage, its epoch, cancelled in the registry
    acked,    \* history: acknowledged writes that no reset replaced
    installed,\* history: the epoch of the last reset that replaced the data
    barrier,  \* history: the number of the last reset that replaced the files
    lapsed,   \* history: a save failed and nothing retries it before a restart
    overrun,  \* history: a load ended over a store that was newer than it
    failures, restarts

durable == <<database, journal, unrepaired, files, rows, epoch>>
history == <<acked, installed, barrier, lapsed, overrun>>
bounds == <<failures, restarts>>
resetVars == <<durable, cache, loading, storeGen, queue, timer, reset,
               resetGen, recovery, request, run, history, bounds>>

Quiet == [at |-> "none", kind |-> "empty", timer |-> None]
Unsent == [at |-> "new", gen |-> 0]
NoRun == [at |-> "none", epoch |-> 0, cancelled |-> FALSE]

ResetInit ==
    /\ database = Database(0) /\ journal = None /\ files = {} /\ rows = {}
    /\ unrepaired \in BOOLEAN /\ epoch = 0
    /\ cache = None /\ loading = None /\ storeGen = 0
    /\ queue = <<>> /\ timer = None
    /\ reset = Quiet /\ resetGen = 0 /\ recovery = FALSE
    /\ request = [r \in Requests |-> Unsent]
    /\ run = [u \in Runs |-> NoRun]
    /\ acked = {} /\ installed = 0 /\ barrier = 0 /\ lapsed = FALSE /\ overrun = FALSE
    /\ failures = 0 /\ restarts = 0
---------------------------------------------------------------------------
(* The chat store                                                          *)

(* initChatStore: the durable journal over the database that was read.     *)
LoadedFrom(db) == IF journal # None THEN journal
                  ELSE IF db # None THEN db ELSE Database(installed)

(* A reader outside the queue starts to load a store that is not there.    *)
BeginLoad ==
    /\ cache = None /\ loading = None
    /\ loading' = [gen |-> storeGen, db |-> database, repair |-> unrepaired]
    /\ UNCHANGED <<durable, cache, storeGen, queue, timer, reset, resetGen,
                   recovery, request, run, history, bounds>>

(* The store was loaded or replaced by others while this load awaited.     *)
Late == cache # None \/ loading.gen # storeGen

(* What a load writes when it ends: the database it read, repaired.        *)
WritesRepair ==
    /\ database' = IF loading.repair THEN loading.db ELSE database
    /\ unrepaired' = (unrepaired /\ ~loading.repair)
    /\ overrun' = (overrun \/ (Late /\ (loading.repair \/ loading.gen = storeGen)))

(* Mutation: a loaded store is published whatever happened meanwhile.      *)
EndLoadAlways ==
    /\ loading # None
    /\ cache' = LoadedFrom(loading.db)
    /\ WritesRepair
    /\ loading' = None
    /\ UNCHANGED <<journal, files, rows, epoch, storeGen, queue, timer, reset,
                   resetGen, recovery, request, run, acked, installed, barrier,
                   lapsed, bounds>>

(* A load that a reset overtook is not published, but its repair of the    *)
(* database is written. The journal is replayed over what is published.    *)
EndLoad ==
    /\ loading # None
    /\ cache' = IF loading.gen = storeGen THEN LoadedFrom(loading.db) ELSE cache
    /\ WritesRepair
    /\ loading' = None
    /\ UNCHANGED <<journal, files, rows, epoch, storeGen, queue, timer, reset,
                   resetGen, recovery, request, run, acked, installed, barrier,
                   lapsed, bounds>>

InSlot == queue # <<>> /\ Head(queue).op = "reset"

(* A page reads the database, in a slot of its own: it is decoded, repaired *)
(* and published beside a load in flight. With a pending save it is Persist.*)
ReadDatabase ==
    /\ ~(InSlot /\ reset.at \in {"recorded", "cleared"})
    /\ cache = None /\ timer = None /\ database # None
    /\ cache' = LoadedFrom(database)
    /\ unrepaired' = FALSE
    /\ UNCHANGED <<database, journal, files, rows, epoch, loading, storeGen,
                   queue, timer, reset, resetGen, recovery, request, run,
                   history, bounds>>

(* ensureChatStore within the queue: waits for a load in flight.           *)
StoreReady == cache # None \/ loading = None
Store == IF cache # None THEN cache ELSE LoadedFrom(database)

(* The timers whose callbacks wait in the queue.                           *)
Callbacks == {queue[k].timer : k \in {j \in DOMAIN queue : queue[j].op = "persist"}}
(* A timer that was never armed, for all that the queue can tell.          *)
NewTimer == CHOOSE t \in Timers : t # timer /\ t \notin Callbacks

(* A chat of the store, loaded and repaired if it must be, changes:        *)
(* journal, memory, and the debounced save.                                *)
Change(w) ==
    LET changed == [Store EXCEPT !.writes = @ \cup {w}]
    IN  /\ journal' = changed
        /\ cache' = changed
        /\ unrepaired' = FALSE
        /\ timer' = NewTimer
        /\ lapsed' = FALSE
---------------------------------------------------------------------------
(* Requests                                                                *)

Stale(r) == recovery \/ reset.at # "none" \/ request[r].gen # resetGen
Answer(r, stage) == request' = [request EXCEPT ![r].at = stage]

(* The router refuses a writer during a reset, and records the generation. *)
Admit(r) ==
    /\ request[r].at = "new"
    /\ request' = [request EXCEPT ![r] =
           IF recovery \/ reset.at # "none" THEN [at |-> "refused", gen |-> resetGen]
           ELSE [at |-> "admitted", gen |-> resetGen]]
    /\ UNCHANGED <<durable, cache, loading, storeGen, queue, timer, reset,
                   resetGen, recovery, run, history, bounds>>

(* The body has been read: refused if a reset started meanwhile.           *)
Enqueue(r) ==
    /\ request[r].at = "admitted"
    /\ IF Stale(r)
       THEN Answer(r, "refused") /\ UNCHANGED queue
       ELSE Answer(r, "queued") /\ queue' = Append(queue, [op |-> "request", id |-> r])
    /\ UNCHANGED <<durable, cache, loading, storeGen, timer, reset,
                   resetGen, recovery, run, history, bounds>>

Running(op, x) == queue # <<>> /\ Head(queue) = [op |-> op, id |-> x]

(* The slot starts: refused if a reset started since the admission.        *)
StaleInSlot(r) == Stale(r)

SaveChat(r) ==
    /\ r \in Saves /\ Running("request", r)
    /\ queue' = Tail(queue)
    /\ IF StaleInSlot(r)
       THEN /\ Answer(r, "refused")
            /\ UNCHANGED <<journal, unrepaired, cache, timer, acked, lapsed>>
       ELSE /\ StoreReady
            /\ Change(r)
            /\ Answer(r, "done")
            /\ acked' = acked \cup {r}
    /\ UNCHANGED <<database, files, rows, epoch, loading, storeGen, reset,
                   resetGen, recovery, run, installed, barrier, overrun, bounds>>

WriteKey(r) ==
    /\ r \in Files /\ Running("request", r)
    /\ queue' = Tail(queue)
    /\ IF StaleInSlot(r)
       THEN Answer(r, "refused") /\ UNCHANGED <<files, acked>>
       ELSE /\ files' = files \cup {r}
            /\ acked' = acked \cup {r}
            /\ Answer(r, "done")
    /\ UNCHANGED <<database, journal, unrepaired, rows, epoch, cache, loading,
                   storeGen, timer, reset, resetGen, recovery, run, installed,
                   barrier, lapsed, overrun, bounds>>
---------------------------------------------------------------------------
(* The debounced save                                                      *)

TimerFires ==
    /\ timer # None /\ timer \notin Callbacks
    /\ queue' = Append(queue, [op |-> "persist", timer |-> timer])
    /\ UNCHANGED <<durable, cache, loading, storeGen, timer, reset, resetGen,
                   recovery, request, run, history, bounds>>

(* persistCurrentChatStore: the store becomes the database, unless there   *)
(* is no database whose chats it could fill; then the journal keeps them.  *)
SaveStore ==
    IF database = None THEN UNCHANGED <<database, journal, unrepaired, cache>>
    ELSE /\ StoreReady
         /\ database' = Store /\ cache' = Store
         /\ journal' = None /\ unrepaired' = FALSE

(* Only the callback of the timer that is still armed saves. A save that   *)
(* fails is reported and not retried: the journal still has the chats.     *)
Persist ==
    /\ queue # <<>> /\ Head(queue).op = "persist"
    /\ queue' = Tail(queue)
    /\ \/ /\ Head(queue).timer # timer
          /\ UNCHANGED <<database, journal, unrepaired, cache, timer, lapsed, failures>>
       \/ /\ Head(queue).timer = timer
          /\ SaveStore
          /\ timer' = None
          /\ UNCHANGED <<lapsed, failures>>
       \/ /\ Head(queue).timer = timer /\ failures < MaxFailures
          /\ failures' = failures + 1
          /\ timer' = None
          /\ lapsed' = TRUE
          /\ UNCHANGED <<database, journal, unrepaired, cache>>
    /\ UNCHANGED <<files, rows, epoch, loading, storeGen, reset, resetGen,
                   recovery, request, run, acked, installed, barrier, overrun,
                   restarts>>
---------------------------------------------------------------------------
(* Server runs                                                             *)

(* The start is a writer request; the run takes the epoch of its row.      *)
StartRun(u) ==
    /\ run[u].at = "none" /\ ~recovery /\ reset.at = "none"
    /\ run' = [run EXCEPT ![u] = [at |-> "generating", epoch |-> epoch,
                                  cancelled |-> FALSE]]
    /\ rows' = rows \cup {u}
    /\ UNCHANGED <<database, journal, unrepaired, files, epoch, cache, loading,
                   storeGen, queue, timer, reset, resetGen, recovery, request, history, bounds>>

(* The answer is there; a run that was cancelled does not commit it.       *)
QueueCommit(u) ==
    /\ run[u].at = "generating"
    /\ IF run[u].cancelled
       THEN run' = [run EXCEPT ![u].at = "ended"] /\ UNCHANGED queue
       ELSE /\ run' = [run EXCEPT ![u].at = "queued"]
            /\ queue' = Append(queue, [op |-> "commit", id |-> u])
    /\ UNCHANGED <<durable, cache, loading, storeGen, timer, reset, resetGen,
                   recovery, request, history, bounds>>

(* The gate of the commit: the operation row, of the current epoch.        *)
Gate(u) == u \in rows /\ run[u].epoch = epoch

Commit(u) ==
    /\ Running("commit", u)
    /\ queue' = Tail(queue)
    /\ run' = [run EXCEPT ![u].at = "ended"]
    /\ IF Gate(u) THEN StoreReady /\ Change(u) /\ acked' = acked \cup {u}
       ELSE UNCHANGED <<journal, unrepaired, cache, timer, acked, lapsed>>
    /\ UNCHANGED <<database, files, rows, epoch, loading, storeGen, reset,
                   resetGen, recovery, request, installed, barrier, overrun, bounds>>
---------------------------------------------------------------------------
(* The reset                                                               *)

(* Requests are refused from here on; what was admitted before is stale.   *)
StartReset(kind) ==
    /\ ~recovery /\ reset.at = "none" /\ resetGen < MaxResets
    /\ reset' = [at |-> "preparing", kind |-> kind, timer |-> None]
    /\ resetGen' = resetGen + 1
    /\ UNCHANGED <<durable, cache, loading, storeGen, queue, timer, recovery,
                   request, run, history, bounds>>

(* The data to restore is decoded before the reset takes its slot.         *)
Prepare ==
    /\ reset.at = "preparing"
    /\ \/ /\ reset' = [reset EXCEPT !.at = "queued"]
          /\ queue' = Append(queue, [op |-> "reset"])
          /\ UNCHANGED failures
       \/ /\ failures < MaxFailures
          /\ failures' = failures + 1
          /\ reset' = [reset EXCEPT !.at = "cleanup"]
          /\ UNCHANGED queue
    /\ UNCHANGED <<durable, cache, loading, storeGen, timer, resetGen,
                   recovery, request, run, history, restarts>>

RecordSaves ==
    /\ reset.at = "queued" /\ InSlot
    /\ reset' = [reset EXCEPT !.at = "recorded", !.timer = timer]
    /\ UNCHANGED <<durable, cache, loading, storeGen, queue, timer, resetGen,
                   recovery, request, run, history, bounds>>

(* Mutation: the pending save is disarmed without being made.              *)
DisarmOnly ==
    /\ reset.at = "recorded" /\ InSlot
    /\ reset' = [reset EXCEPT !.at = "cleared"]
    /\ timer' = IF timer = reset.timer THEN None ELSE timer
    /\ run' = [u \in Runs |->
                 [run[u] EXCEPT !.cancelled = run[u].at \in {"generating", "queued"}]]
    /\ UNCHANGED <<durable, cache, loading, storeGen, queue, resetGen,
                   recovery, request, history, bounds>>

(* The pending save is made and disarmed; then the runs are cancelled.     *)
ClearSaves ==
    /\ reset.at = "recorded" /\ InSlot
    /\ IF reset.timer = None THEN UNCHANGED <<database, journal, unrepaired, cache>>
       ELSE SaveStore
    /\ reset' = [reset EXCEPT !.at = "cleared"]
    /\ timer' = IF timer = reset.timer THEN None ELSE timer
    /\ run' = [u \in Runs |->
                 [run[u] EXCEPT !.cancelled = run[u].at \in {"generating", "queued"}]]
    /\ UNCHANGED <<files, rows, epoch, loading, storeGen, queue, resetGen,
                   recovery, request, history, bounds>>

(* The transaction discards the journal with the other recovery rows.      *)
ClearedJournal == None

(* The transaction: data, recovery rows and epoch together. The caches are *)
(* replaced in the same step, before anything else can run.                *)
Apply ==
    /\ reset.at = "cleared" /\ InSlot
    /\ epoch' = epoch + 1
    /\ CASE reset.kind = "restore" ->
              /\ database' = Database(epoch + 1)
              /\ cache' = Database(epoch + 1)
              /\ journal' = ClearedJournal /\ rows' = {} /\ files' = {}
              /\ unrepaired' = FALSE
              /\ storeGen' = storeGen + 1
              /\ installed' = epoch + 1 /\ barrier' = resetGen
              /\ acked' = {}
              /\ UNCHANGED timer
         [] reset.kind = "remove" ->
              /\ database' = None
              /\ cache' = None
              /\ journal' = ClearedJournal /\ rows' = {}
              /\ unrepaired' = FALSE
              /\ storeGen' = storeGen + 1
              /\ timer' = None
              /\ installed' = epoch + 1
              /\ acked' = acked \cap files
              /\ UNCHANGED <<files, barrier>>
         [] reset.kind = "empty" ->
              UNCHANGED <<database, cache, journal, unrepaired, rows, files, storeGen,
                          installed, barrier, acked, timer>>
    /\ lapsed' = IF reset.kind = "empty" THEN lapsed ELSE FALSE
    /\ reset' = [reset EXCEPT !.at = "cleanup"]
    /\ queue' = Tail(queue)
    /\ UNCHANGED <<loading, resetGen, recovery, request, run, overrun, bounds>>

(* rearmPendingSaves: a recorded save without a timer gets a new one.      *)
Rearmed == IF timer = None /\ reset.timer # None THEN NewTimer ELSE timer

(* A step fails before the transaction commits: it is rolled back, and if  *)
(* the image directory cannot be put back either, the server stays closed. *)
Fail ==
    /\ reset.at \in {"recorded", "cleared"} /\ InSlot
    /\ failures < MaxFailures
    /\ failures' = failures + 1
    /\ timer' = Rearmed
    /\ recovery' \in {FALSE, reset.kind = "restore" /\ reset.at = "cleared"}
    /\ reset' = [reset EXCEPT !.at = "cleanup"]
    /\ queue' = Tail(queue)
    /\ UNCHANGED <<durable, cache, loading, storeGen, resetGen, request, run,
                   history, restarts>>

EndReset ==
    /\ reset.at = "cleanup"
    /\ reset' = Quiet
    /\ UNCHANGED <<durable, cache, loading, storeGen, queue, timer, resetGen,
                   recovery, request, run, history, bounds>>

(* Memory is lost, and with it what was admitted but not answered.         *)
Restart ==
    /\ restarts < MaxRestarts
    /\ restarts' = restarts + 1
    /\ cache' = None /\ loading' = None
    /\ queue' = <<>> /\ timer' = None
    /\ reset' = Quiet /\ recovery' = FALSE
    /\ request' = [r \in Requests |->
          IF request[r].at \in {"admitted", "queued"}
          THEN [request[r] EXCEPT !.at = "refused"] ELSE request[r]]
    /\ run' = [u \in Runs |-> IF run[u].at = "none" THEN run[u]
                              ELSE [run[u] EXCEPT !.at = "ended"]]
    /\ lapsed' = (journal # None)
    /\ UNCHANGED <<durable, storeGen, resetGen, acked, installed, barrier, overrun,
                   failures>>
---------------------------------------------------------------------------
SavesStep ==
    \/ \E r \in Saves : Admit(r) \/ Enqueue(r)
    \/ \E u \in Runs : StartRun(u) \/ QueueCommit(u)
KeysStep == \E r \in Files : Admit(r) \/ Enqueue(r)
QueueStep ==
    \/ \E r \in Requests : SaveChat(r) \/ WriteKey(r)
    \/ \E u \in Runs : Commit(u)
    \/ Persist \/ RecordSaves
ResetStep == Prepare \/ Fail \/ EndReset

(* The queue goes on to its next operation, timers run out, loads end, and *)
(* a reset goes on to its next step.                                       *)
ResetFairness ==
    /\ WF_resetVars(QueueStep) /\ WF_resetVars(TimerFires)
    /\ WF_resetVars(EndLoad)
    /\ WF_resetVars(Prepare \/ ClearSaves \/ Apply \/ EndReset)
---------------------------------------------------------------------------
DataOrNone == Data \cup {None}

ResetTypeOK ==
    /\ {database, journal, cache} \subseteq DataOrNone
    /\ files \in SUBSET Files /\ rows \in SUBSET Runs
    /\ epoch \in 0..MaxResets /\ resetGen \in 0..MaxResets
    /\ storeGen \in 0..MaxResets
    /\ loading \in [gen : 0..MaxResets, db : DataOrNone, repair : BOOLEAN]
                   \cup {None}
    /\ timer \in Timers \cup {None}
    /\ reset \in [at : {"none", "preparing", "queued", "recorded", "cleared",
                         "cleanup"},
                   kind : Kinds, timer : Timers \cup {None}]
    /\ {unrepaired, recovery, lapsed, overrun} \subseteq BOOLEAN
    /\ request \in [Requests ->
          [at : {"new", "admitted", "queued", "done", "refused"},
           gen : 0..MaxResets]]
    /\ run \in [Runs -> [at : {"none", "generating", "queued", "ended"},
                         epoch : 0..MaxResets, cancelled : BOOLEAN]]
    /\ acked \in SUBSET Writes
    /\ installed \in 0..epoch /\ barrier \in 0..resetGen
    /\ failures \in 0..MaxFailures /\ restarts \in 0..MaxRestarts

(* Nothing from before a reset that replaced the data comes back: not from *)
(* the database, the journal, a store that was being loaded, a run that    *)
(* was generating, or a request that had been admitted.                    *)
OldIsGone ==
    /\ \A d \in {database, journal, cache} \ {None} :
          /\ d.base = installed
          /\ \A u \in d.writes \cap Runs : run[u].epoch >= installed
    /\ \A r \in files : request[r].gen >= barrier

(* What was acknowledged and not replaced is served, and a restart at any  *)
(* point would serve it, whether or not a reset was tried and failed.      *)
AckedIsServed ==
    /\ acked \cap Files \subseteq files
    /\ \A store \in {Store, LoadedFrom(database)} :
          acked \ Files \subseteq store.writes

(* Both hold of every interleaving in which no load outside the queue ends  *)
(* after the store it read has been published, changed or replaced by      *)
(* others; such a load breaks both, as the runs of OldIsGone and of        *)
(* AckedIsServed show.                                                     *)
NothingOldReturns == overrun \/ OldIsGone
AckedIsKept == overrun \/ AckedIsServed

(* Every acknowledged change reaches the database, also when a reset that  *)
(* had disarmed its save fails, unless it is replaced, its save failed,    *)
(* there is no database yet, or a late load wrote over it.                 *)
AckedReachesDatabase ==
    \A w \in Saves \cup Runs :
        w \in acked ~>
            (w \notin acked \/ lapsed \/ overrun \/ database = None
               \/ w \in database.writes)
=============================================================================
