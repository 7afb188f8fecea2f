------------------------ MODULE ServerStorageProofs ------------------------
(***************************************************************************)
(* Theorems about storage resets and about the drain of waiting inputs,    *)
(* for every number of requests, runs, inputs, passes, resets, failures    *)
(* and restarts and within the whole server. Nothing in them depends on    *)
(* the order of the storage queue: they hold of any order in which its     *)
(* operations run one after the other.                                     *)
(***************************************************************************)
EXTENDS ResultDeliveryProofs, FiniteSetTheorems, SequenceTheorems


(* Data of the last reset that replaced it, with no write of a run of an   *)
(* earlier epoch, and with every acknowledged change; or any data, once a  *)
(* load has ended over a newer store.                                      *)
Ours(d, runs, base, over) ==
    /\ d \in Data
    /\ over \/ (d.base = base /\ \A u \in d.writes \cap Runs : runs[u].epoch >= base)
Current(d, runs, base, ack, over) ==
    Ours(d, runs, base, over) /\ (over \/ ack \ Files \subseteq d.writes)

Resetting == {"preparing", "queued", "recorded", "cleared"}

IsReset(r) ==
    \E at, tm : \E kind \in Kinds : r = [at |-> at, kind |-> kind, timer |-> tm]

ShapeInv ==
    /\ IsReset(reset)
    /\ request \in [Requests ->
          [at : {"new", "admitted", "queued", "done", "refused"}, gen : Nat]]
    /\ run \in [Runs -> [at : {"none", "generating", "queued", "ended"},
                         epoch : Nat, cancelled : BOOLEAN]]

(* A reset in progress has a number that no epoch has reached.             *)
OrderInv ==
    /\ {epoch, resetGen, storeGen, installed, barrier} \subseteq Nat
    /\ installed <= epoch /\ epoch <= resetGen /\ resetGen <= MaxResets
    /\ barrier <= resetGen
    /\ reset.at \in Resetting => epoch < resetGen

(* A load that nothing has overtaken read the database of now.             *)
LoadInv ==
    loading # None =>
        /\ loading.gen \in Nat /\ loading.gen <= storeGen /\ loading.db \in DataOrNone
        /\ \/ overrun \/ cache # None
           \/ loading.gen = storeGen => loading.db = database

DataInv ==
    /\ database # None => Ours(database, run, installed, overrun)
    /\ journal # None => Current(journal, run, installed, acked, overrun)
    /\ cache # None => Current(cache, run, installed, acked, overrun)
    /\ journal = None =>
          \/ overrun
          \/ IF database = None THEN acked \subseteq Files
             ELSE acked \ Files \subseteq database.writes

FilesInv ==
    /\ files \subseteq Files /\ acked \cap Files \subseteq files
    /\ \A r \in files : request[r].gen >= barrier

ResetInv == ShapeInv /\ OrderInv /\ LoadInv /\ DataInv /\ FilesInv

LEMMA Constants ==
    /\ MaxResets \in Nat /\ None \notin Data
    /\ Saves \cap Files = {} /\ Requests \cap Runs = {}
    /\ Saves \subseteq Requests /\ Files \subseteq Requests
  BY ResetAssumption DEF Requests

LEMMA DatabaseOurs ==
    ASSUME NEW base \in 0..MaxResets, NEW runs
    PROVE  Ours(Database(base), runs, base, overrun) /\ Database(base).writes = {}
  BY DEF Ours, Database, Data

(* What a reader finds in memory or would load.                            *)
LEMMA StoreCurrent ==
    ASSUME ResetInv
    PROVE  /\ Current(LoadedFrom(database), run, installed, acked, overrun)
           /\ Current(Store, run, installed, acked, overrun)
  <1>1. Current(LoadedFrom(database), run, installed, acked, overrun)
    <2>1. CASE journal # None
      BY <2>1 DEF LoadedFrom, ResetInv, DataInv
    <2>2. CASE journal = None /\ database # None
      BY <2>2 DEF LoadedFrom, ResetInv, DataInv, Current
    <2>3. CASE journal = None /\ database = None
      <3>1. installed \in 0..MaxResets
        BY Constants DEF ResetInv, OrderInv
      <3>2. LoadedFrom(database) = Database(installed) /\ (overrun \/ acked \ Files = {})
        BY <2>3 DEF LoadedFrom, ResetInv, DataInv
      <3> QED BY <3>1, <3>2, DatabaseOurs DEF Current
    <2> QED BY <2>1, <2>2, <2>3
  <1> QED BY <1>1 DEF Store, ResetInv, DataInv

(* Steps that leave the data and its order alone.                          *)
RunsKept ==
    \A u \in Runs : run'[u].epoch = run[u].epoch \/ run'[u].epoch >= installed
RequestsKept ==
    \A r \in Requests : request'[r].gen = request[r].gen \/ request'[r].gen >= barrier

LEMMA OursKept ==
    ASSUME NEW d, NEW r1, NEW r2, NEW base, Ours(d, r1, base, overrun),
           \A u \in Runs : r2[u].epoch = r1[u].epoch \/ r2[u].epoch >= base
    PROVE  Ours(d, r2, base, overrun)
  BY DEF Ours

LEMMA DataStays ==
    ASSUME ResetInv, RunsKept, UNCHANGED <<database, journal, cache, installed, acked, overrun>>
    PROVE  DataInv'
  <1>1. \A d : Ours(d, run, installed, overrun) => Ours(d, run', installed, overrun)
    BY OursKept DEF RunsKept
  <1> QED BY <1>1 DEF ResetInv, DataInv, Current

LEMMA FilesStay ==
    ASSUME ResetInv, RequestsKept, UNCHANGED <<files, acked, barrier>>
    PROVE  FilesInv'
  BY Constants DEF ResetInv, FilesInv, RequestsKept

(* A chat that is changed in the journal and in memory.                    *)
LEMMA ChangeKeeps ==
    ASSUME ResetInv, NEW w \in Saves \cup Runs, w \in Runs => run[w].epoch >= installed,
           Change(w), StoreReady, RunsKept, acked' = acked \cup {w},
           UNCHANGED <<database, loading, storeGen, installed, files, barrier, overrun>>,
           RequestsKept
    PROVE  DataInv' /\ FilesInv' /\ LoadInv'
  <1> DEFINE changed == [Store EXCEPT !.writes = @ \cup {w}]
  <1>1. Current(Store, run, installed, acked, overrun)
    BY StoreCurrent
  <1>2. /\ changed \in Data /\ changed.base = Store.base
        /\ changed.writes = Store.writes \cup {w}
    BY <1>1 DEF Current, Ours, Data, Writes, Requests
  <1>3. journal' = changed /\ cache' = changed
    BY DEF Change
  <1> HIDE DEF changed
  <1>4. Current(changed, run', installed', acked', overrun')
    <2>1. Ours(changed, run, installed, overrun)
      BY <1>1, <1>2 DEF Current, Ours
    <2>2. Ours(changed, run', installed, overrun)
      BY <2>1, OursKept DEF RunsKept
    <2> QED BY <1>1, <1>2, <2>2 DEF Current
  <1>5. database # None => Ours(database, run', installed, overrun)
    BY OursKept DEF RunsKept, ResetInv, DataInv
  <1>6. changed # None
    BY <1>2, Constants
  <1>7. DataInv'
    BY <1>3, <1>4, <1>5, <1>6 DEF DataInv
  <1>8. FilesInv'
    BY Constants DEF ResetInv, FilesInv, RequestsKept
  <1>9. LoadInv'
    BY <1>3, <1>6 DEF ResetInv, LoadInv, DataOrNone, Data
  <1> QED BY <1>7, <1>8, <1>9

(* The store that is saved as the database.                                *)
LEMMA SaveKeeps ==
    ASSUME ResetInv, SaveStore, RunsKept, UNCHANGED <<loading, storeGen, installed, acked,
                                                    overrun>>
    PROVE  DataInv' /\ LoadInv'
  <1>1. CASE database = None
    <2>1. UNCHANGED <<database, journal, cache>>
      BY <1>1 DEF SaveStore
    <2> QED BY <2>1, DataStays DEF ResetInv, LoadInv
  <1>2. CASE database # None
    <2>1. StoreReady /\ database' = Store /\ cache' = Store /\ journal' = None
      BY <1>2 DEF SaveStore
    <2>2. Current(Store, run, installed, acked, overrun)
      BY StoreCurrent
    <2>3. Ours(Store, run', installed, overrun)
      BY <2>2, OursKept DEF RunsKept, Current
    <2>4. Store # None
      BY <2>3, Constants DEF Ours
    <2>5. DataInv'
      BY <2>1, <2>2, <2>3, <2>4 DEF DataInv, Current
    <2>6. LoadInv'
      BY <2>1, <2>4 DEF ResetInv, LoadInv, DataOrNone, Data
    <2> QED BY <2>5, <2>6
  <1> QED BY <1>1, <1>2
---------------------------------------------------------------------------
(* The steps                                                               *)

kept == <<database, journal, files, epoch, cache, loading, storeGen, acked,
          installed, barrier, overrun>>

(* A step that moves only requests, runs and the reset.                    *)
LEMMA KeptKeeps ==
    ASSUME ResetInv, UNCHANGED kept, RunsKept, RequestsKept, ShapeInv', OrderInv'
    PROVE  ResetInv'
  BY DataStays, FilesStay DEF kept, ResetInv, LoadInv

LEMMA SameReset ==
    ASSUME ShapeInv, UNCHANGED <<request, run>>
    PROVE  RunsKept /\ RequestsKept /\ (UNCHANGED reset => ShapeInv')
  BY DEF RunsKept, RequestsKept, ShapeInv, IsReset

LEMMA SameOrder ==
    ASSUME OrderInv,
           UNCHANGED <<epoch, resetGen, storeGen, installed, barrier>>,
           reset'.at \in Resetting => reset.at \in Resetting
    PROVE  OrderInv'
  BY DEF OrderInv

LEMMA ResetMoves ==
    \A r, to, tm : IsReset(r) =>
        /\ IsReset([r EXCEPT !.at = to]) /\ [r EXCEPT !.at = to].at = to
        /\ IsReset([r EXCEPT !.at = to, !.timer = tm])
        /\ [r EXCEPT !.at = to, !.timer = tm].at = to
  <1> SUFFICES ASSUME NEW r, NEW to, NEW tm, IsReset(r)
        PROVE  /\ IsReset([r EXCEPT !.at = to]) /\ [r EXCEPT !.at = to].at = to
               /\ IsReset([r EXCEPT !.at = to, !.timer = tm])
               /\ [r EXCEPT !.at = to, !.timer = tm].at = to
    OBVIOUS
  <1>1. PICK at0, tm0 : \E kind \in Kinds :
            r = [at |-> at0, kind |-> kind, timer |-> tm0]
    BY DEF IsReset
  <1>2. PICK kind \in Kinds : r = [at |-> at0, kind |-> kind, timer |-> tm0]
    BY <1>1
  <1> DEFINE r1 == [r EXCEPT !.at = to]
  <1>3. r1 = [at |-> to, kind |-> kind, timer |-> tm0]
    BY <1>2
  <1>4. [r EXCEPT !.at = to, !.timer = tm] = [r1 EXCEPT !.timer = tm]
    OBVIOUS
  <1>5. [r EXCEPT !.at = to] = [at |-> to, kind |-> kind, timer |-> tm0]
    BY <1>3
  <1> HIDE DEF r1
  <1>6. [r1 EXCEPT !.timer = tm] = [at |-> to, kind |-> kind, timer |-> tm]
    BY <1>3
  <1>7. [r EXCEPT !.at = to, !.timer = tm] = [at |-> to, kind |-> kind, timer |-> tm]
    BY <1>4, <1>6
  <1>8. \A at2, tm2 : /\ IsReset([at |-> at2, kind |-> kind, timer |-> tm2])
                     /\ [at |-> at2, kind |-> kind, timer |-> tm2].at = at2
    BY <1>2 DEF IsReset
  <1> QED BY <1>5, <1>7, <1>8

LEMMA Answered ==
    ASSUME ShapeInv, NEW r \in Requests, NEW stage \in {"queued", "done", "refused"},
           Answer(r, stage)
    PROVE  /\ request' \in [Requests ->
                  [at : {"new", "admitted", "queued", "done", "refused"}, gen : Nat]]
           /\ RequestsKept
  BY DEF ShapeInv, Answer, RequestsKept

LEMMA RunMoves ==
    ASSUME ShapeInv, NEW u \in Runs, NEW to \in {"queued", "ended"},
           run' = [run EXCEPT ![u].at = to]
    PROVE  /\ run' \in [Runs -> [at : {"none", "generating", "queued", "ended"},
                                 epoch : Nat, cancelled : BOOLEAN]]
           /\ RunsKept
  BY DEF ShapeInv, RunsKept

LEMMA Loads ==
    ASSUME ResetInv, BeginLoad \/ EndLoad \/ ReadDatabase
    PROVE  ResetInv'
  <1>1. /\ UNCHANGED <<journal, files, epoch, storeGen, acked, installed, barrier>>
        /\ UNCHANGED <<request, run, reset, resetGen>>
    BY DEF BeginLoad, EndLoad, ReadDatabase, durable, history
  <1>2. ShapeInv' /\ RunsKept /\ RequestsKept
    BY <1>1, SameReset DEF ResetInv
  <1>3. OrderInv' /\ FilesInv'
    BY <1>1, <1>2, SameOrder, FilesStay DEF ResetInv
  <1>4. Current(LoadedFrom(database), run, installed, acked, overrun)
    BY StoreCurrent
  <1>5. CASE BeginLoad
    <2>1. DataInv'
      BY <1>1, <1>2, <1>5, DataStays DEF BeginLoad, durable, history
    <2>2. database \in DataOrNone
      BY DEF ResetInv, DataInv, Ours, DataOrNone
    <2>3. UNCHANGED DataOrNone
      BY DEF DataOrNone, Data
    <2>4. LoadInv'
      BY <1>5, <2>2, <2>3 DEF BeginLoad, durable, LoadInv, ResetInv, OrderInv
    <2> QED BY <1>2, <1>3, <2>1, <2>4 DEF ResetInv
  <1>6. CASE ReadDatabase
    <2>1. cache' = LoadedFrom(database) /\ UNCHANGED <<database, loading, overrun>>
      BY <1>6 DEF ReadDatabase, history
    <2>2. cache' # None
      BY <1>4, <2>1, Constants DEF Current, Ours
    <2>3. DataInv'
      BY <1>1, <1>4, <2>1 DEF ResetInv, DataInv
    <2>4. LoadInv'
      BY <1>1, <2>1, <2>2 DEF ResetInv, LoadInv, DataOrNone, Data
    <2> QED BY <1>2, <1>3, <2>3, <2>4 DEF ResetInv
  <1>7. CASE EndLoad
    <2>1. loading # None /\ loading' = None
      BY <1>7 DEF EndLoad
    <2>2. /\ cache' = cache \/ cache' = LoadedFrom(loading.db)
          /\ database' = database \/ database' = loading.db
      BY <1>7 DEF EndLoad, WritesRepair
    <2>3. CASE overrun'
      <3>1. loading.db # None => loading.db \in Data
        BY <2>1 DEF ResetInv, LoadInv, DataOrNone
      <3>2. /\ database # None => database \in Data
            /\ journal # None => journal \in Data
            /\ cache # None => cache \in Data
        BY DEF ResetInv, DataInv, Current, Ours
      <3>3. Database(installed) \in Data
        BY Constants DEF ResetInv, OrderInv, Database, Data
      <3>4. LoadedFrom(loading.db) \in Data
        BY <3>1, <3>2, <3>3 DEF LoadedFrom
      <3>5. /\ database' # None => database' \in Data
            /\ cache' # None => cache' \in Data
        BY <2>2, <3>1, <3>2, <3>4
      <3>6. DataInv'
        BY <1>1, <2>3, <3>2, <3>5 DEF DataInv, Current, Ours, Data
      <3> QED BY <1>2, <1>3, <2>1, <3>6 DEF ResetInv, LoadInv
    <2>4. CASE ~overrun'
      <3>1. overrun' = (overrun \/ (Late /\ (loading.repair \/ loading.gen = storeGen)))
        BY <1>7 DEF EndLoad, WritesRepair
      <3>2. ~overrun /\ (~Late \/ (~loading.repair /\ loading.gen # storeGen))
        BY <2>4, <3>1, Zenon
      <3>3. CASE ~Late
        <4>1. loading.db = database /\ loading.gen = storeGen
          BY <2>1, <3>2, <3>3 DEF Late, ResetInv, LoadInv
        <4>2. database' = database /\ cache' = LoadedFrom(database)
          BY <1>7, <4>1 DEF EndLoad, WritesRepair
        <4>3. DataInv'
          BY <1>1, <1>4, <2>4, <3>2, <4>2 DEF ResetInv, DataInv, Current, Ours
        <4> QED BY <1>2, <1>3, <2>1, <4>3 DEF ResetInv, LoadInv
      <3>4. CASE ~loading.repair /\ loading.gen # storeGen
        <4>1. database' = database /\ cache' = cache
          BY <1>7, <3>4 DEF EndLoad, WritesRepair
        <4>2. DataInv'
          BY <1>1, <2>4, <3>2, <4>1 DEF ResetInv, DataInv, Current, Ours
        <4> QED BY <1>2, <1>3, <2>1, <4>2 DEF ResetInv, LoadInv
      <3> QED BY <3>2, <3>3, <3>4
    <2> QED BY <2>3, <2>4
  <1> QED BY <1>5, <1>6, <1>7

LEMMA Arrivals ==
    ASSUME ResetInv,
           \/ \E r \in Requests : Admit(r) \/ Enqueue(r)
           \/ \E u \in Runs : StartRun(u) \/ QueueCommit(u)
           \/ TimerFires
    PROVE  ResetInv'
  <1>0. ShapeInv /\ OrderInv
    BY DEF ResetInv
  <1>1. ASSUME NEW r \in Requests, Admit(r) PROVE ResetInv'
    <2>1. UNCHANGED kept /\ UNCHANGED <<run, reset, resetGen>>
      BY <1>1 DEF Admit, kept, durable, history
    <2>2. RequestsKept /\ ShapeInv'
      BY <1>0, <1>1, <2>1 DEF Admit, RequestsKept, ShapeInv, OrderInv
    <2> QED BY <1>0, <2>1, <2>2, KeptKeeps, SameReset, SameOrder DEF kept, RunsKept
  <1>2. ASSUME NEW r \in Requests, Enqueue(r) PROVE ResetInv'
    <2>1. UNCHANGED kept /\ UNCHANGED <<run, reset, resetGen>>
      BY <1>2 DEF Enqueue, kept, durable, history
    <2>2. Answer(r, "refused") \/ Answer(r, "queued")
      BY <1>2 DEF Enqueue
    <2>3. RequestsKept /\ ShapeInv'
      BY <1>0, <2>1, <2>2, Answered DEF ShapeInv
    <2> QED BY <1>0, <2>1, <2>3, KeptKeeps, SameOrder DEF kept, RunsKept
  <1>3. ASSUME NEW u \in Runs, StartRun(u) PROVE ResetInv'
    <2>1. UNCHANGED <<database, journal, files, epoch, cache, loading, storeGen, acked,
                      installed, barrier, overrun, request, reset, resetGen>>
      BY <1>3 DEF StartRun, history
    <2>2. RunsKept /\ ShapeInv'
      BY <1>0, <1>3, <2>1 DEF StartRun, RunsKept, ShapeInv, OrderInv
    <2> QED BY <1>0, <2>1, <2>2, KeptKeeps, SameOrder DEF kept, RequestsKept
  <1>4. ASSUME NEW u \in Runs, QueueCommit(u) PROVE ResetInv'
    <2>1. UNCHANGED kept /\ UNCHANGED <<request, reset, resetGen>>
      BY <1>4 DEF QueueCommit, kept, durable, history
    <2>2. run' = [run EXCEPT ![u].at = "queued"] \/ run' = [run EXCEPT ![u].at = "ended"]
      BY <1>4 DEF QueueCommit
    <2>3. RunsKept /\ ShapeInv'
      BY <1>0, <2>1, <2>2, RunMoves DEF ShapeInv
    <2> QED BY <1>0, <2>1, <2>3, KeptKeeps, SameOrder DEF kept, RequestsKept
  <1>5. CASE TimerFires
    <2>1. UNCHANGED kept /\ UNCHANGED <<request, run, reset, resetGen>>
      BY <1>5 DEF TimerFires, kept, durable, history
    <2> QED BY <1>0, <2>1, KeptKeeps, SameReset, SameOrder DEF kept
  <1> QED BY <1>1, <1>2, <1>3, <1>4, <1>5

LEMMA QueueKeeps ==
    ASSUME ResetInv, QueueStep
    PROVE  ResetInv'
  <1>0. ShapeInv /\ OrderInv
    BY DEF ResetInv
  <1>1. ASSUME NEW r \in Requests, SaveChat(r) PROVE ResetInv'
    <2>1. UNCHANGED <<database, files, epoch, loading, storeGen, reset, resetGen, run,
                      installed, barrier, overrun>>
      BY <1>1 DEF SaveChat
    <2>2. Answer(r, "refused") \/ Answer(r, "done")
      BY <1>1 DEF SaveChat
    <2>3. RunsKept /\ RequestsKept /\ ShapeInv' /\ OrderInv'
      BY <1>0, <2>1, <2>2, Answered, SameOrder DEF ShapeInv, RunsKept
    <2>4. CASE UNCHANGED <<journal, cache, acked>>
      BY <2>1, <2>3, <2>4, KeptKeeps DEF kept
    <2>5. CASE StoreReady /\ Change(r) /\ acked' = acked \cup {r}
      <3>1. r \in Saves \cup Runs /\ r \notin Runs
        BY <1>1, Constants DEF SaveChat
      <3>2. DataInv' /\ FilesInv' /\ LoadInv'
        BY <2>1, <2>3, <2>5, <3>1, ChangeKeeps
      <3> QED BY <2>3, <3>2 DEF ResetInv
    <2> QED BY <1>1, <2>4, <2>5 DEF SaveChat
  <1>2. ASSUME NEW r \in Requests, WriteKey(r) PROVE ResetInv'
    <2>1. UNCHANGED <<database, journal, epoch, cache, loading, storeGen, reset, resetGen,
                      run, installed, barrier, overrun>> /\ r \in Files
      BY <1>2 DEF WriteKey
    <2>2. Answer(r, "refused") \/ Answer(r, "done")
      BY <1>2 DEF WriteKey
    <2>3. RunsKept /\ RequestsKept /\ ShapeInv' /\ OrderInv'
      BY <1>0, <2>1, <2>2, Answered, SameOrder DEF ShapeInv, RunsKept
    <2>4. CASE UNCHANGED <<files, acked>>
      BY <2>1, <2>3, <2>4, KeptKeeps DEF kept
    <2>5. CASE ~StaleInSlot(r) /\ files' = files \cup {r} /\ acked' = acked \cup {r}
      <3>1. request[r].gen = resetGen /\ resetGen >= barrier
        BY <2>5 DEF StaleInSlot, Stale, ResetInv, OrderInv
      <3>2. request'[r].gen >= barrier
        BY <2>3, <3>1 DEF RequestsKept
      <3>3. FilesInv'
        BY <2>1, <2>3, <2>5, <3>2, Constants DEF FilesInv, ResetInv, RequestsKept
      <3>4. DataInv'
        BY <2>1, <2>5 DEF ResetInv, DataInv, Current
      <3>5. LoadInv'
        BY <2>1 DEF ResetInv, LoadInv
      <3> QED BY <2>3, <3>3, <3>4, <3>5 DEF ResetInv
    <2> QED BY <1>2, <2>4, <2>5 DEF WriteKey
  <1>3. ASSUME NEW u \in Runs, Commit(u) PROVE ResetInv'
    <2>1. UNCHANGED <<database, files, epoch, loading, storeGen, reset, resetGen, request,
                      installed, barrier, overrun>>
      BY <1>3 DEF Commit
    <2>2. RunsKept /\ RequestsKept /\ ShapeInv' /\ OrderInv'
      BY <1>0, <1>3, <2>1, RunMoves, SameOrder DEF Commit, ShapeInv, RequestsKept
    <2>3. CASE UNCHANGED <<journal, cache, acked>>
      BY <2>1, <2>2, <2>3, KeptKeeps DEF kept
    <2>4. CASE Gate(u) /\ StoreReady /\ Change(u) /\ acked' = acked \cup {u}
      <3>1. run[u].epoch >= installed
        BY <2>4 DEF Gate, ResetInv, OrderInv
      <3>2. DataInv' /\ FilesInv' /\ LoadInv'
        BY <2>1, <2>2, <2>4, <3>1, ChangeKeeps
      <3> QED BY <2>2, <3>2 DEF ResetInv
    <2> QED BY <1>3, <2>3, <2>4 DEF Commit
  <1>4. CASE Persist
    <2>1. UNCHANGED <<files, epoch, loading, storeGen, reset, resetGen, request, run, acked,
                      installed, barrier, overrun>>
      BY <1>4 DEF Persist
    <2>2. RunsKept /\ RequestsKept /\ ShapeInv' /\ OrderInv'
      BY <1>0, <2>1, SameReset, SameOrder
    <2>3. CASE UNCHANGED <<database, journal, cache>>
      BY <2>1, <2>2, <2>3, KeptKeeps DEF kept
    <2>4. CASE SaveStore
      BY <2>1, <2>2, <2>4, SaveKeeps, FilesStay DEF ResetInv
    <2> QED BY <1>4, <2>3, <2>4 DEF Persist
  <1>5. CASE RecordSaves
    <2>1. UNCHANGED kept /\ UNCHANGED <<request, run, resetGen>>
      BY <1>5 DEF RecordSaves, kept, durable, history
    <2>2. reset.at = "queued" /\ reset' = [reset EXCEPT !.at = "recorded", !.timer = timer]
      BY <1>5 DEF RecordSaves
    <2>3. ShapeInv' /\ reset'.at = "recorded"
      <3>1. IsReset(reset') /\ reset'.at = "recorded"
        <4>1. IsReset(reset)
          BY <1>0 DEF ShapeInv
        <4>2. \A tm : /\ IsReset([reset EXCEPT !.at = "recorded", !.timer = tm])
                      /\ [reset EXCEPT !.at = "recorded", !.timer = tm].at = "recorded"
          BY <4>1, ResetMoves, Zenon
        <4> QED BY <2>2, <4>2, Zenon
      <3> QED BY <1>0, <2>1, <3>1 DEF ShapeInv
    <2>4. OrderInv'
      BY <1>0, <2>1, <2>2, <2>3, SameOrder DEF Resetting, kept
    <2> QED BY <1>0, <2>1, <2>3, <2>4, KeptKeeps, SameReset
  <1> QED BY <1>1, <1>2, <1>3, <1>4, <1>5 DEF QueueStep

(* The stages of a reset other than its transaction.                       *)
LEMMA ResetGoesTo ==
    ASSUME ShapeInv, NEW to, reset' = [reset EXCEPT !.at = to],
           UNCHANGED request,
           run' \in [Runs -> [at : {"none", "generating", "queued", "ended"},
                              epoch : Nat, cancelled : BOOLEAN]]
    PROVE  ShapeInv' /\ reset'.at = to
  <1>1. IsReset(reset') /\ reset'.at = to
    BY ResetMoves DEF ShapeInv
  <1> QED BY <1>1 DEF ShapeInv

LEMMA Begins ==
    ASSUME ResetInv, NEW kind \in Kinds, StartReset(kind)
    PROVE  ResetInv'
  <1>0. ShapeInv /\ OrderInv
    BY DEF ResetInv
  <1>1. UNCHANGED kept /\ UNCHANGED <<request, run>>
    BY DEF StartReset, kept, durable, history
  <1>2. reset' = [at |-> "preparing", kind |-> kind, timer |-> None]
    BY DEF StartReset
  <1>3. ShapeInv'
    BY <1>0, <1>1, <1>2 DEF ShapeInv, IsReset
  <1>4. OrderInv'
    BY <1>0, <1>1, Constants DEF StartReset, OrderInv, kept
  <1> QED BY <1>0, <1>1, <1>3, <1>4, KeptKeeps, SameReset

LEMMA QuietShape ==
    /\ Quiet.at = "none"
    /\ IsReset(Quiet)
  BY DEF Quiet, Kinds, IsReset

LEMMA ResetStages ==
    ASSUME ResetInv, ResetStep
    PROVE  ResetInv'
  <1>0. ShapeInv /\ OrderInv
    BY DEF ResetInv
  <1>1. UNCHANGED kept /\ UNCHANGED <<request, run, resetGen>>
    BY DEF ResetStep, Prepare, Fail, EndReset, kept, durable, history
  <1>2. RunsKept /\ RequestsKept
    BY <1>0, <1>1, SameReset
  <1>3. ASSUME NEW to \in {"queued", "cleanup"}, reset' = [reset EXCEPT !.at = to],
               to = "queued" => reset.at = "preparing"
        PROVE  ResetInv'
    <2>1. ShapeInv' /\ reset'.at = to
      BY <1>0, <1>1, <1>3, ResetGoesTo DEF ShapeInv
    <2>2. OrderInv'
      BY <1>0, <1>1, <1>3, <2>1, SameOrder DEF Resetting, kept
    <2> QED BY <1>1, <1>2, <2>1, <2>2, KeptKeeps
  <1>4. CASE EndReset
    <2>1. reset' = Quiet
      BY <1>4 DEF EndReset
    <2>2. ShapeInv' /\ OrderInv'
      BY <1>0, <1>1, <2>1, QuietShape, SameOrder DEF ShapeInv, Resetting, kept
    <2> QED BY <1>1, <1>2, <2>2, KeptKeeps
  <1>5. CASE Prepare \/ Fail
    <2>1. \/ reset.at = "preparing" /\ reset' = [reset EXCEPT !.at = "queued"]
          \/ reset' = [reset EXCEPT !.at = "cleanup"]
      BY <1>5 DEF Prepare, Fail
    <2> QED BY <1>3, <2>1
  <1> QED BY <1>4, <1>5 DEF ResetStep

LEMMA Clears ==
    ASSUME ResetInv, ClearSaves
    PROVE  ResetInv'
  <1>0. ShapeInv /\ OrderInv
    BY DEF ResetInv
  <1>1. UNCHANGED <<files, epoch, loading, storeGen, resetGen, request, acked, installed,
                    barrier, overrun>>
    BY DEF ClearSaves, history
  <1>2. /\ run' \in [Runs -> [at : {"none", "generating", "queued", "ended"},
                              epoch : Nat, cancelled : BOOLEAN]]
        /\ RunsKept /\ RequestsKept
    <2> DEFINE cancelled(u) == run[u].at \in {"generating", "queued"}
    <2>1. run' = [u \in Runs |-> [run[u] EXCEPT !.cancelled = cancelled(u)]]
      BY DEF ClearSaves
    <2>2. \A u : cancelled(u) \in BOOLEAN
      OBVIOUS
    <2> HIDE DEF cancelled
    <2> QED BY <1>0, <1>1, <2>1, <2>2 DEF ShapeInv, RunsKept, RequestsKept
  <1>3. ShapeInv' /\ OrderInv'
    <2>1. reset' = [reset EXCEPT !.at = "cleared"] /\ reset.at = "recorded"
      BY DEF ClearSaves
    <2>2. ShapeInv' /\ reset'.at = "cleared"
      BY <1>0, <1>1, <1>2, <2>1, ResetGoesTo
    <2> QED BY <1>0, <1>1, <2>1, <2>2, SameOrder DEF Resetting
  <1>4. CASE SaveStore
    BY <1>1, <1>2, <1>3, <1>4, SaveKeeps, FilesStay DEF ResetInv
  <1>5. CASE UNCHANGED <<database, journal, cache>>
    BY <1>1, <1>2, <1>3, <1>5, KeptKeeps DEF kept
  <1> QED BY <1>4, <1>5 DEF ClearSaves

LEMMA Applies ==
    ASSUME ResetInv, Apply
    PROVE  ResetInv'
  <1>0. ShapeInv /\ OrderInv
    BY DEF ResetInv
  <1>1. UNCHANGED <<loading, resetGen, request, run, overrun>> /\ epoch' = epoch + 1
    BY DEF Apply, bounds
  <1>2. RunsKept /\ RequestsKept
    BY <1>0, <1>1, SameReset
  <1>3. reset' = [reset EXCEPT !.at = "cleanup"] /\ reset.at = "cleared"
    BY DEF Apply
  <1>4. ShapeInv' /\ reset'.at = "cleanup"
    BY <1>0, <1>1, <1>3, ResetGoesTo DEF ShapeInv
  <1>5. epoch < resetGen /\ epoch + 1 \in 0..MaxResets
    BY <1>0, <1>3, Constants DEF OrderInv, Resetting
  <1>6. CASE reset.kind = "restore"
    <2>1. /\ database' = Database(epoch + 1) /\ cache' = Database(epoch + 1)
          /\ journal' = None /\ files' = {} /\ acked' = {}
          /\ storeGen' = storeGen + 1 /\ installed' = epoch + 1 /\ barrier' = resetGen
      BY <1>6 DEF Apply, ClearedJournal
    <2>2. OrderInv'
      BY <1>0, <1>1, <1>4, <1>5, <2>1 DEF OrderInv, Resetting
    <2>3. Ours(Database(epoch + 1), run', epoch + 1, overrun) /\ Database(epoch + 1) # None
      BY <1>5, DatabaseOurs, Constants DEF Ours
    <2>4. DataInv'
      BY <1>1, <2>1, <2>3 DEF DataInv, Current
    <2>5. FilesInv'
      BY <2>1 DEF FilesInv
    <2>6. LoadInv'
      BY <1>0, <1>1, <2>1 DEF ResetInv, LoadInv, OrderInv
    <2> QED BY <1>4, <2>2, <2>4, <2>5, <2>6 DEF ResetInv
  <1>7. CASE reset.kind = "remove"
    <2>1. /\ database' = None /\ cache' = None /\ journal' = None
          /\ storeGen' = storeGen + 1 /\ installed' = epoch + 1
          /\ acked' = acked \cap files /\ UNCHANGED <<files, barrier>>
      BY <1>7 DEF Apply, ClearedJournal
    <2>2. OrderInv'
      BY <1>0, <1>1, <1>4, <1>5, <2>1 DEF OrderInv, Resetting
    <2>3. FilesInv'
      BY <1>1, <2>1 DEF ResetInv, FilesInv
    <2>4. DataInv'
      BY <2>1 DEF ResetInv, FilesInv, DataInv
    <2>5. LoadInv'
      BY <1>0, <1>1, <2>1 DEF ResetInv, LoadInv, OrderInv
    <2> QED BY <1>4, <2>2, <2>3, <2>4, <2>5 DEF ResetInv
  <1>8. CASE reset.kind = "empty"
    <2>1. UNCHANGED <<database, cache, journal, files, storeGen, installed, barrier, acked>>
      BY <1>8 DEF Apply
    <2>2. OrderInv'
      BY <1>0, <1>1, <1>4, <1>5, <2>1 DEF OrderInv, Resetting
    <2>3. DataInv' /\ FilesInv'
      BY <1>1, <1>2, <2>1, DataStays, FilesStay
    <2>4. LoadInv'
      BY <1>1, <2>1 DEF ResetInv, LoadInv
    <2> QED BY <1>4, <2>2, <2>3, <2>4 DEF ResetInv
  <1>9. reset.kind \in Kinds
    BY <1>0 DEF ShapeInv, IsReset
  <1> QED BY <1>6, <1>7, <1>8, <1>9 DEF Kinds

LEMMA RestartKeeps ==
    ASSUME ResetInv, Restart
    PROVE  ResetInv'
  <1>0. ShapeInv /\ OrderInv
    BY DEF ResetInv
  <1>1. UNCHANGED <<database, journal, files, epoch, storeGen, resetGen, acked, installed,
                    barrier, overrun>> /\ cache' = None /\ loading' = None /\ reset' = Quiet
    BY DEF Restart, durable
  <1>2. /\ request' \in [Requests ->
              [at : {"new", "admitted", "queued", "done", "refused"}, gen : Nat]]
        /\ RequestsKept
    BY <1>0 DEF Restart, ShapeInv, RequestsKept
  <1>3. /\ run' \in [Runs -> [at : {"none", "generating", "queued", "ended"},
                              epoch : Nat, cancelled : BOOLEAN]]
        /\ RunsKept
    BY <1>0 DEF Restart, ShapeInv, RunsKept
  <1>4. ShapeInv' /\ OrderInv'
    BY <1>0, <1>1, <1>2, <1>3, QuietShape, SameOrder DEF ShapeInv, Resetting
  <1>5. \A d : Ours(d, run, installed, overrun) => Ours(d, run', installed, overrun)
    BY <1>3, OursKept DEF RunsKept
  <1>6. DataInv'
    BY <1>1, <1>5 DEF ResetInv, DataInv, Current
  <1> QED BY <1>1, <1>2, <1>4, <1>6, FilesStay DEF ResetInv, LoadInv

(* What a step of the server does to the storage.                          *)
StorageMove ==
    \/ BeginLoad \/ EndLoad \/ ReadDatabase \/ TimerFires \/ QueueStep \/ ResetStep
    \/ ClearSaves \/ Apply \/ Restart
    \/ \E r \in Requests : Admit(r) \/ Enqueue(r)
    \/ \E u \in Runs : StartRun(u) \/ QueueCommit(u)
    \/ \E kind \in Kinds : StartReset(kind)
    \/ UNCHANGED resetVars

LEMMA StorageMoves == [Next]_vars => StorageMove
  <1>1. StorageStep => StorageMove
    BY Constants DEF StorageStep, SavesStep, KeysStep, ResetsStart, StorageMove
  <1>2. ResetClears \/ ResetApplies \/ Restarts => StorageMove
    BY DEF ResetClears, ResetApplies, Restarts, StorageMove
  <1>3. UNCHANGED resetVars => StorageMove
    BY DEF StorageMove
  <1> QED BY <1>1, <1>2, <1>3 DEF Next, vars

LEMMA ResetNext == ResetInv /\ [Next]_vars => ResetInv'
  <1> SUFFICES ASSUME ResetInv, StorageMove PROVE ResetInv'
    BY StorageMoves
  <1>1. CASE UNCHANGED resetVars
    <2>1. UNCHANGED kept /\ UNCHANGED <<request, run, reset, resetGen>>
      BY <1>1 DEF resetVars, kept, durable, history
    <2> QED BY <2>1, KeptKeeps, SameReset, SameOrder DEF ResetInv, kept
  <1> QED BY <1>1, Loads, Arrivals, QueueKeeps, ResetStages, Clears, Applies, RestartKeeps,
             Begins DEF StorageMove

LEMMA ResetInvHolds == Spec => []ResetInv
  <1>1. Init => ResetInv
    <2> SUFFICES ASSUME Init PROVE ResetInv
      OBVIOUS
    <2>1. 0 \in 0..MaxResets
      BY Constants
    <2>2. Ours(Database(0), run, 0, overrun) /\ Database(0) # None
      BY <2>1, DatabaseOurs, Constants DEF Ours
    <2>3. ShapeInv
      BY QuietShape DEF Init, ResetInit, ShapeInv, Unsent, NoRun
    <2>4. OrderInv
      BY QuietShape, Constants DEF Init, ResetInit, OrderInv, Resetting
    <2>5. DataInv /\ LoadInv /\ FilesInv
      BY <2>2 DEF Init, ResetInit, DataInv, LoadInv, FilesInv
    <2> QED BY <2>3, <2>4, <2>5 DEF ResetInv
  <1> QED BY <1>1, ResetNext, PTL DEF Spec

(* Nothing from before a reset comes back, from a store that was being     *)
(* loaded, a save that was pending, a run that was generating or a request *)
(* that had been admitted (initChatStore, persistCurrentChatStore, the     *)
(* gate of the commit, the two checks of a writer), as long as no load     *)
(* outside the queue has written or published over a newer store.          *)
THEOREM ResetIsFinal == Spec => []NothingOldReturns
  <1>1. ResetInv => NothingOldReturns
    BY DEF ResetInv, DataInv, FilesInv, Current, Ours, NothingOldReturns, OldIsGone
  <1> QED BY <1>1, ResetInvHolds, PTL

(* What was acknowledged and not replaced is in memory and in what a       *)
(* restart would load, through resets that fail and restarts (the journal, *)
(* the debounced save and clearPendingSaves), with the same exception.     *)
THEOREM AcknowledgedIsServed == Spec => []AckedIsKept
  <1>1. ResetInv => AckedIsKept
    BY StoreCurrent DEF ResetInv, FilesInv, Current, AckedIsKept, AckedIsServed
  <1> QED BY <1>1, ResetInvHolds, PTL
-----------------------------------------------------------------------------
(* What a step of the server does to the drain.                            *)
DrainMove ==
    \/ \E i \in Inputs : EnqueueInput(i)
    \/ DrainNext
    \/ DrainReset /\ UNCHANGED passes
    \/ DrainRestart
    \/ UNCHANGED <<waiting, drainTimer, active, generation, passes>>

LEMMA DrainMoves == [Next]_vars => DrainMove
  <1>1. InputStep => DrainMove
    BY DEF InputStep, DrainMove
  <1>2. ResetClears \/ ResetApplies \/ Restarts => DrainMove
    BY DEF ResetClears, ResetApplies, Restarts, DrainMove
  <1>3. UNCHANGED drainVars => DrainMove
    BY DEF drainVars, DrainMove
  <1> QED BY <1>1, <1>2, <1>3 DEF Next, vars

(* Passes are records with a generation that has begun.                    *)
Shaped(p) ==
    \E gen \in Nat : \E seen, input, at :
        p = [gen |-> gen, seen |-> seen, input |-> input, at |-> at]

PassesShaped ==
    /\ generation \in Nat
    /\ \A p \in passes : Shaped(p) /\ p.gen <= generation

Live(p) == p.gen = generation

PassInv ==
    /\ PassesShaped
    /\ \A p, q \in passes : Live(p) /\ Live(q) => p = q
    /\ active <=> \E p \in passes : Live(p)
    /\ EnvelopeHasWakeup

(* Pass p at another input.                                                *)
AtInput(p, sn, inp, to) == [p EXCEPT !.seen = sn, !.input = inp, !.at = to]

LEMMA PassMoves ==
    ASSUME NEW p, Shaped(p), NEW to
    PROVE  Shaped([p EXCEPT !.at = to]) /\ [p EXCEPT !.at = to].gen = p.gen
  <1>1. PICK g \in Nat : \E s, i, a :
            p = [gen |-> g, seen |-> s, input |-> i, at |-> a]
    BY DEF Shaped
  <1>2. PICK s, i, a : p = [gen |-> g, seen |-> s, input |-> i, at |-> a]
    BY <1>1
  <1>3. [p EXCEPT !.at = to] = [gen |-> g, seen |-> s, input |-> i, at |-> to]
    BY <1>2
  <1> QED BY ZenonT(40), <1>2, <1>3 DEF Shaped

LEMMA PassAtInput ==
    \A p, sn, inp, to : Shaped(p) =>
        Shaped(AtInput(p, sn, inp, to)) /\ AtInput(p, sn, inp, to).gen = p.gen
  <1> SUFFICES ASSUME NEW p, NEW sn, NEW inp, NEW to, Shaped(p)
               PROVE  /\ Shaped(AtInput(p, sn, inp, to))
                      /\ AtInput(p, sn, inp, to).gen = p.gen
    OBVIOUS
  <1>1. PICK g \in Nat : \E s, i, a :
            p = [gen |-> g, seen |-> s, input |-> i, at |-> a]
    BY DEF Shaped
  <1>2. PICK s, i, a : p = [gen |-> g, seen |-> s, input |-> i, at |-> a]
    BY <1>1
  <1> DEFINE p1 == [p EXCEPT !.seen = sn]
             p2 == [p1 EXCEPT !.input = inp]
  <1>3. p1 = [gen |-> g, seen |-> sn, input |-> i, at |-> a]
    BY <1>2
  <1>4. AtInput(p, sn, inp, to) = [p2 EXCEPT !.at = to]
    BY DEF AtInput
  <1> HIDE DEF p1
  <1>5. p2 = [gen |-> g, seen |-> sn, input |-> inp, at |-> a]
    BY <1>3
  <1> HIDE DEF p2
  <1>6. AtInput(p, sn, inp, to) = [gen |-> g, seen |-> sn, input |-> inp, at |-> to]
    BY <1>4, <1>5
  <1>7. p.gen = g
    BY <1>2
  <1>8. \A s2, i2, a2 :
            /\ Shaped([gen |-> g, seen |-> s2, input |-> i2, at |-> a2])
            /\ [gen |-> g, seen |-> s2, input |-> i2, at |-> a2].gen = g
    BY DEF Shaped
  <1> QED BY <1>6, <1>7, <1>8

(* A pass that goes on stays of its generation.                            *)
LEMMA PassGoesOn ==
    ASSUME PassInv, NEW p \in passes, NEW r, Shaped(r), r.gen = p.gen,
           passes' = (passes \ {p}) \cup {r}, UNCHANGED <<active, generation>>,
           Live(p) \/ UNCHANGED <<waiting, drainTimer>>
    PROVE  PassInv'
  <1>1. /\ \A q \in passes' : q = r \/ (q \in passes /\ q # p)
        /\ r \in passes' /\ \A q \in passes : q = p \/ q \in passes'
    OBVIOUS
  <1>2. PassesShaped'
    BY <1>1 DEF PassInv, PassesShaped, Shaped
  <1>3. \A q, q2 \in passes' : Live(q)' /\ Live(q2)' => q = q2
    BY <1>1 DEF PassInv, Live
  <1>4. active' <=> \E q \in passes' : Live(q)'
    BY <1>1 DEF PassInv, Live
  <1>5. EnvelopeHasWakeup'
    BY DEF PassInv, EnvelopeHasWakeup
  <1> QED BY <1>2, <1>3, <1>4, <1>5 DEF PassInv

(* A pass that ends leaves a timer behind if there is an envelope.         *)
LEMMA PassEnds ==
    ASSUME PassInv, NEW p \in passes, NEW envelopes, Finish(p, envelopes),
           waiting' = envelopes, UNCHANGED generation, Live(p) \/ envelopes = waiting
    PROVE  PassInv'
  <1>1. passes' = passes \ {p}
    BY DEF Finish
  <1>2. PassesShaped'
    BY <1>1 DEF PassInv, PassesShaped, Shaped
  <1>3. CASE Live(p)
    <2>1. active' = FALSE /\ drainTimer' = (drainTimer \/ envelopes # <<>>)
      BY <1>3 DEF Finish, Live
    <2>2. \A q \in passes' : ~Live(q)'
      BY <1>1, <1>3 DEF PassInv, Live
    <2>3. EnvelopeHasWakeup'
      BY <2>1 DEF EnvelopeHasWakeup
    <2> QED BY <1>2, <2>1, <2>2, <2>3 DEF PassInv
  <1>4. CASE ~Live(p)
    <2>1. UNCHANGED <<active, drainTimer, waiting>>
      BY <1>4 DEF Finish, Live
    <2>2. \A q \in passes : Live(q) => q \in passes' /\ Live(q)'
      BY <1>1, <1>4 DEF Live
    <2>3. \A q \in passes' : q \in passes /\ (Live(q)' => Live(q))
      BY <1>1 DEF Live
    <2>4. EnvelopeHasWakeup'
      BY <2>1 DEF PassInv, EnvelopeHasWakeup
    <2>5. active' <=> \E q \in passes' : Live(q)'
      BY <2>1, <2>2, <2>3 DEF PassInv
    <2> QED BY <1>2, <2>3, <2>4, <2>5 DEF PassInv
  <1> QED BY <1>3, <1>4

LEMMA PassLeavesInput ==
    ASSUME PassInv, NEW p \in passes, NEW envelopes, GoOn(p, envelopes),
           UNCHANGED generation, Live(p)
    PROVE  PassInv'
  <1> DEFINE seen == (p.seen \cup {p.input}) \cap ToSet(envelopes)
             next == Unvisited(envelopes, seen)
             r    == [p EXCEPT !.seen = seen, !.input = envelopes[next], !.at = "load"]
  <1>1. waiting' = envelopes
    BY DEF GoOn
  <1>2. CASE next = 0
    <2>1. Finish(p, envelopes)
      BY <1>2, Zenon DEF GoOn
    <2> QED BY <1>1, <2>1, PassEnds
  <1>3. CASE next # 0
    <2>1. passes' = (passes \ {p}) \cup {r} /\ UNCHANGED <<active, drainTimer>>
      BY <1>3, Zenon DEF GoOn
    <2>2. Shaped(p)
      BY DEF PassInv, PassesShaped
    <2> HIDE DEF seen, next
    <2>3. r = AtInput(p, seen, envelopes[next], "load")
      BY Zenon DEF AtInput
    <2> HIDE DEF r
    <2>4. Shaped(r) /\ r.gen = p.gen
      BY <2>2, <2>3, PassAtInput
    <2> QED BY <2>1, <2>4, PassGoesOn
  <1> QED BY <1>2, <1>3

LEMMA PassReturns ==
    ASSUME PassInv, NEW p \in passes, Return(p), UNCHANGED generation
    PROVE  PassInv'
  BY PassEnds DEF Return

LEMMA PassNext ==
    ASSUME PassInv, NEW p \in passes, PassStep(p) \/ LoadFails(p)
    PROVE  PassInv'
  <1>0. Shaped(p)
    BY DEF PassInv, PassesShaped
  <1>1. CASE Fenced(p) /\ (LoadFails(p) \/ Load(p) \/ StartReturns(p))
    <2>1. Return(p) /\ UNCHANGED generation
      BY <1>1, Zenon DEF LoadFails, Load, StartReturns
    <2> QED BY <2>1, PassReturns
  <1>2. CASE ~Fenced(p) /\ (LoadFails(p) \/ Load(p) \/ StartReturns(p))
    <2>1. Live(p) /\ UNCHANGED generation
      BY <1>2 DEF Fenced, Live, LoadFails, Load, StartReturns
    <2>2. \/ \E envelopes : GoOn(p, envelopes)
          \/ /\ passes' = (passes \ {p}) \cup {[p EXCEPT !.at = "start"]}
             /\ UNCHANGED active
      BY <1>2, Zenon DEF LoadFails, Load, StartReturns
    <2>3. CASE \E envelopes : GoOn(p, envelopes)
      BY <2>1, <2>3, PassLeavesInput
    <2>4. CASE /\ passes' = (passes \ {p}) \cup {[p EXCEPT !.at = "start"]}
               /\ UNCHANGED active
      <3>1. Shaped([p EXCEPT !.at = "start"]) /\ [p EXCEPT !.at = "start"].gen = p.gen
        BY <1>0, PassMoves
      <3> QED BY <2>1, <2>4, <3>1, PassGoesOn
    <2> QED BY <2>2, <2>3, <2>4
  <1>3. CASE StartInput(p)
    <2>1. PICK at \in {"answered", "failed"} :
              passes' = (passes \ {p}) \cup {[p EXCEPT !.at = at]}
      BY <1>3 DEF StartInput
    <2>2. Shaped([p EXCEPT !.at = at]) /\ [p EXCEPT !.at = at].gen = p.gen
      BY <1>0, PassMoves
    <2>3. UNCHANGED <<active, generation, waiting, drainTimer>>
      BY <1>3 DEF StartInput
    <2> QED BY <2>1, <2>2, <2>3, PassGoesOn
  <1> QED BY <1>1, <1>2, <1>3 DEF PassStep

LEMMA DrainInvNext ==
    ASSUME PassInv, DrainMove
    PROVE  PassInv'
  <1>1. ASSUME UNCHANGED <<active, generation, passes>>, EnvelopeHasWakeup'
        PROVE  PassInv'
    BY <1>1 DEF PassInv, PassesShaped, Live
  <1>2. ASSUME NEW i \in Inputs, EnqueueInput(i) PROVE PassInv'
    BY <1>1, <1>2 DEF EnqueueInput, EnvelopeHasWakeup
  <1>3. ASSUME NEW i \in Inputs, AdvanceInput(i) PROVE PassInv'
    BY <1>1, <1>3 DEF AdvanceInput, EnvelopeHasWakeup, PassInv
  <1>4. CASE BeginPass
    <2>1. CASE active \/ waiting = <<>>
      BY <1>1, <1>4, <2>1 DEF BeginPass, EnvelopeHasWakeup
    <2>2. CASE ~active /\ waiting # <<>>
      <3> DEFINE first == [gen |-> generation, seen |-> {}, input |-> Head(waiting),
                           at |-> "load"]
      <3>1. /\ passes' = passes \cup {first} /\ active' = TRUE
            /\ UNCHANGED <<generation, waiting>>
        BY <1>4, <2>2, Zenon DEF BeginPass
      <3>2. first.gen = generation /\ (generation \in Nat => Shaped(first))
        BY DEF Shaped
      <3> HIDE DEF first
      <3>3. \A q \in passes : ~Live(q)
        BY <2>2 DEF PassInv
      <3>4. PassesShaped'
        BY <3>1, <3>2 DEF PassInv, PassesShaped, Shaped
      <3>5. \A q \in passes' : Live(q)' <=> q = first
        BY <3>1, <3>2, <3>3 DEF Live
      <3>6. first \in passes' /\ EnvelopeHasWakeup'
        BY <3>1 DEF EnvelopeHasWakeup
      <3> QED BY <3>1, <3>4, <3>5, <3>6 DEF PassInv
    <2> QED BY <2>1, <2>2
  <1>5. ASSUME NEW p \in passes, PassStep(p) \/ LoadFails(p) PROVE PassInv'
    BY <1>5, PassNext
  <1>6. CASE DrainReset /\ UNCHANGED passes
    <2>1. PassesShaped' /\ \A q \in passes' : ~Live(q)'
      BY <1>6 DEF DrainReset, PassInv, PassesShaped, Shaped, Live
    <2> QED BY <1>6, <2>1 DEF DrainReset, PassInv, EnvelopeHasWakeup
  <1>7. CASE DrainRestart
    BY <1>7 DEF DrainRestart, PassInv, PassesShaped, EnvelopeHasWakeup
  <1>8. CASE UNCHANGED <<waiting, drainTimer, active, generation, passes>>
    BY <1>1, <1>8 DEF PassInv, EnvelopeHasWakeup
  <1> QED BY <1>2, <1>3, <1>4, <1>5, <1>6, <1>7, <1>8 DEF DrainMove, DrainNext

LEMMA PassInvHolds == Spec => []PassInv
  <1>1. Init => PassInv
    BY DEF Init, DrainInit, PassInv, PassesShaped, EnvelopeHasWakeup
  <1>2. PassInv /\ [Next]_vars => PassInv'
    BY DrainInvNext, DrainMoves
  <1> QED BY <1>1, <1>2, PTL DEF Spec

(* The flag of the drain says exactly whether a pass of the generation in  *)
(* force is in flight, and there is never a second one, whatever passes of *)
(* earlier generations still await the owner (drain, reset).               *)
THEOREM OnePassAtATime == Spec => []OneLivePass
  <1>1. ASSUME PassInv PROVE OneLivePass
    <2> DEFINE current == {p \in passes : p.gen = generation}
    <2>1. CASE current = {}
      BY <1>1, <2>1, FS_EmptySet DEF OneLivePass, PassInv, Live
    <2>2. ASSUME NEW p \in current PROVE OneLivePass
      <3>1. current = {p}
        BY <1>1, <2>2 DEF PassInv, Live
      <3>2. active
        BY <1>1, <2>2 DEF PassInv, Live
      <3>3. Cardinality(current) = 1
        BY <3>1, FS_Singleton
      <3> QED BY <3>1, <3>2, <3>3 DEF OneLivePass
    <2> QED BY <2>1, <2>2
  <1> QED BY <1>1, PassInvHolds, PTL

(* While an envelope waits, the timer of the drain is set or a pass runs:  *)
(* no step, failure or reset leaves an envelope that nothing wakes         *)
(* (scheduleDrain, the finally block of drain, reset).                     *)
THEOREM EnvelopesAreWoken == Spec => []EnvelopeHasWakeup
  <1>1. PassInv => EnvelopeHasWakeup
    BY DEF PassInv
  <1> QED BY <1>1, PassInvHolds, PTL
-----------------------------------------------------------------------------
(* Envelopes                                                               *)

(* Sequence s without its first i.                                         *)
LEMMA RemoveFirstElements ==
    ASSUME NEW S, NEW s \in Seq(S), NEW i, IsInjective(s)
    PROVE  /\ RemoveFirst(s, i) \in Seq(S) /\ IsInjective(RemoveFirst(s, i))
           /\ ToSet(s) \ {i} \subseteq ToSet(RemoveFirst(s, i))
  <1>0. Len(s) \in Nat /\ DOMAIN s = 1..Len(s)
    OBVIOUS
  <1>1. CASE ~\E k \in 1..Len(s) : s[k] = i
    <2>1. RemoveFirst(s, i) = s
      BY <1>1 DEF RemoveFirst
    <2> QED BY <2>1
  <1>2. CASE \E k \in 1..Len(s) : s[k] = i
    <2> DEFINE K == {k \in 1..Len(s) : s[k] = i}
               k == Min(K)
               a == SubSeq(s, 1, k - 1)
               b == SubSeq(s, k + 1, Len(s))
               t == a \o b
    <2>1. RemoveFirst(s, i) = t
      BY <1>2 DEF RemoveFirst, RemoveAt, SelectInSeq
    <2>2. k \in 1..Len(s) /\ s[k] = i
      <3>1. PICK x \in K : s[x] = i
        BY <1>2
      <3>2. \A c, d \in K : c = d /\ c <= d
        BY <1>0 DEF IsInjective
      <3>3. \E z \in K : \A y \in K : z <= y
        BY <3>1, <3>2
      <3>4. k \in K
        BY <3>3 DEF Min
      <3> QED BY <3>4
    <2> HIDE DEF K, k
    <2>0. Len(s) \in Nat /\ k \in Int /\ 1 <= k /\ k <= Len(s)
      BY <1>0, <2>2
    <2>3. /\ a \in Seq(S) /\ Len(a) = k - 1 /\ \A j \in 1..(k - 1) : a[j] = s[j]
      BY <2>0
    <2>4. /\ b \in Seq(S) /\ Len(b) = Len(s) - k
          /\ \A j \in 1..(Len(s) - k) : b[j] = s[k + j]
      BY <2>0
    <2> HIDE DEF a, b
    <2>5. /\ t \in Seq(S) /\ Len(t) = Len(a) + Len(b)
          /\ \A j \in 1..(Len(a) + Len(b)) :
                t[j] = IF j <= Len(a) THEN a[j] ELSE b[j - Len(a)]
      BY <2>3, <2>4, ConcatProperties
    <2> HIDE DEF t
    <2>6. Len(t) = Len(s) - 1
      BY <1>0, <2>2, <2>3, <2>4, <2>5
    <2>7. ASSUME NEW j \in 1..(Len(s) - 1)
          PROVE  t[j] = IF j < k THEN s[j] ELSE s[j + 1]
      <3>0. j \in 1..(Len(a) + Len(b))
        BY <1>0, <2>2, <2>3, <2>4
      <3>1. CASE j < k
        <4>1. j \in 1..(k - 1) /\ j <= Len(a)
          BY <1>0, <2>2, <2>3, <3>1
        <4> QED BY <2>3, <2>5, <3>0, <3>1, <4>1
      <3>2. CASE j >= k
        <4>1. j - (k - 1) \in 1..(Len(s) - k) /\ k + (j - (k - 1)) = j + 1
          BY <1>0, <2>2, <3>2
        <4> QED BY <1>0, <2>2, <2>3, <2>4, <2>5, <3>0, <3>2, <4>1
      <3> QED BY <1>0, <2>2, <3>1, <3>2
    <2>8. IsInjective(t)
      <3> SUFFICES ASSUME NEW x \in 1..Len(t), NEW y \in 1..Len(t), t[x] = t[y]
                   PROVE  x = y
        BY <2>5 DEF IsInjective
      <3>1. x \in 1..(Len(s) - 1) /\ y \in 1..(Len(s) - 1)
        BY <2>6
      <3>2. PICK x2 \in 1..Len(s) : t[x] = s[x2] /\ (x2 = x \/ x2 = x + 1)
                                    /\ (x2 = x <=> x < k)
        BY <1>0, <2>2, <2>7, <3>1
      <3>3. PICK y2 \in 1..Len(s) : t[y] = s[y2] /\ (y2 = y \/ y2 = y + 1)
                                    /\ (y2 = y <=> y < k)
        BY <1>0, <2>2, <2>7, <3>1
      <3>4. x2 = y2
        BY <1>0, <3>2, <3>3 DEF IsInjective
      <3> QED BY <1>0, <2>2, <3>1, <3>2, <3>3, <3>4
    <2>9. ToSet(s) \ {i} \subseteq ToSet(t)
      <3> SUFFICES ASSUME NEW x \in 1..Len(s), s[x] # i PROVE s[x] \in ToSet(t)
        BY <1>0 DEF ToSet
      <3>1. PICK y \in 1..Len(t) : t[y] = s[x]
        <4>1. CASE x < k
          <5>1. x \in 1..(Len(s) - 1) /\ t[x] = s[x]
            BY <1>0, <2>2, <2>7, <4>1
          <5> QED BY <2>6, <5>1
        <4>2. CASE x > k
          <5>1. x - 1 \in 1..(Len(s) - 1) /\ ~(x - 1 < k) /\ (x - 1) + 1 = x
            BY <1>0, <2>2, <4>2
          <5>2. t[x - 1] = s[x]
            BY <2>7, <5>1
          <5> QED BY <2>6, <5>1, <5>2
        <4> QED BY <1>0, <2>2, <4>1, <4>2
      <3>2. DOMAIN t = 1..Len(t)
        BY <2>5
      <3> QED BY <3>1, <3>2 DEF ToSet
    <2> QED BY <2>1, <2>5, <2>8, <2>9
  <1> QED BY <1>1, <1>2

(* The first envelope that a pass has not visited is one.                  *)
LEMMA UnvisitedIsOne ==
    ASSUME NEW S, NEW s \in Seq(S), NEW seen, Unvisited(s, seen) # 0
    PROVE  s[Unvisited(s, seen)] \in S /\ Unvisited(s, seen) \in 1..Len(s)
  <1> DEFINE K == {k \in 1..Len(s) : s[k] \notin seen}
  <1>1. Unvisited(s, seen) = Min(K) /\ K # {}
    BY DEF Unvisited, SelectInSeq
  <1>2. \E x \in K : \A y \in K : x <= y
    <2> DEFINE R == {ss \in Nat \X Nat : ss[1] < ss[2]}
    <2>1. IsWellFoundedOn(R, Nat)
      BY NatLessThanWellFounded DEF OpToRel
    <2>2. K \subseteq Nat
      OBVIOUS
    <2>3. PICK x \in K : \A y \in K : ~(<<y, x>> \in R)
      <3> HIDE DEF R, K
      <3> QED BY <1>1, <2>1, <2>2, WFMin
    <2>4. \A y \in K : ~(y < x)
      BY <2>2, <2>3
    <2> QED BY <2>2, <2>4
  <1>3. Min(K) \in K
    BY <1>2 DEF Min
  <1> QED BY <1>1, <1>3

(* An envelope with as many attempts as it may have is in the hands of the *)
(* pass of now, which is starting its input.                               *)
LastAttempt ==
    \A i \in Inputs : attempts[i] = MaxAttempts =>
        \E p \in passes : Live(p) /\ p.input = i /\ p.at # "load"

(* An input that the pass of now starts was ready: nobody else starts it,  *)
(* except for a fenced pass.                                               *)
StartsReady ==
    \A p \in passes : Live(p) =>
        /\ p.at = "start" => execution[p.input] \in {"ready", "started"}
        /\ p.at = "answered" => execution[p.input] = "started"

(* Between the slot that discards the envelopes and the transaction that   *)
(* discards the records of the inputs, the drain has nothing to do.        *)
ClearedIdle == reset.at = "cleared" => waiting = <<>> /\ ~active

DrainInv == DrainTypeOK /\ PassInv /\ LastAttempt /\ StartsReady /\ ClearedIdle

(* Passes that go on, field by field.                                      *)
LEMMA PassFields ==
    ASSUME NEW p \in Pass, NEW to
    PROVE  [p EXCEPT !.at = to] = [gen |-> p.gen, seen |-> p.seen, input |-> p.input, at |-> to]
  BY DEF Pass

LEMMA PassNowAt ==
    \A p \in Pass : \A sn, inp, to :
        AtInput(p, sn, inp, to) = [gen |-> p.gen, seen |-> sn, input |-> inp, at |-> to]
  <1> SUFFICES ASSUME NEW p \in Pass, NEW sn, NEW inp, NEW to
               PROVE  AtInput(p, sn, inp, to)
                        = [gen |-> p.gen, seen |-> sn, input |-> inp, at |-> to]
    OBVIOUS
  <1> DEFINE p1 == [p EXCEPT !.seen = sn]
             p2 == [p1 EXCEPT !.input = inp]
  <1>1. p1 = [gen |-> p.gen, seen |-> sn, input |-> p.input, at |-> p.at]
    BY DEF Pass
  <1>2. AtInput(p, sn, inp, to) = [p2 EXCEPT !.at = to]
    BY DEF AtInput
  <1> HIDE DEF p1
  <1>3. p2 = [gen |-> p.gen, seen |-> sn, input |-> inp, at |-> p.at]
    BY <1>1
  <1> HIDE DEF p2
  <1> QED BY <1>2, <1>3

(* The live pass leaves its input, and its envelope there or not.          *)
LeavesInput(p, envelopes) ==
    /\ GoOn(p, envelopes)
    /\ attempts' \in [Inputs -> 0..MaxAttempts]
    /\ attempts'[p.input] < MaxAttempts
    /\ \A i \in Inputs \ {p.input} : attempts'[i] = attempts[i]
    /\ \/ envelopes = waiting
       \/ /\ envelopes = Without(p.input)
          /\ \/ execution[p.input] \notin {"waiting", "ready"}
             \/ attempts[p.input] >= MaxAttempts - 1
    /\ UNCHANGED execution

(* What a step of pass p is.                                               *)
LEMMA PassCases ==
    ASSUME DrainInv, NEW p \in passes, PassStep(p) \/ LoadFails(p)
    PROVE  /\ UNCHANGED generation /\ drops' \in 0..MaxDrops
           /\ \/ /\ ~Live(p) /\ Return(p)
                 /\ UNCHANGED execution
              \/ /\ Live(p)
                 /\ \E envelopes : LeavesInput(p, envelopes)
              \/ /\ Live(p) /\ p.at = "load" /\ execution[p.input] = "ready"
                 /\ attempts' = [attempts EXCEPT ![p.input] = @ + 1]
                 /\ passes' = (passes \ {p}) \cup {[p EXCEPT !.at = "start"]}
                 /\ UNCHANGED <<execution, waiting, active, drainTimer>>
              \/ StartInput(p)
  <1>0. /\ MaxAttempts \in Nat \ {0} /\ MaxDrops \in Nat
        /\ p \in Pass /\ p.input \in Inputs /\ drops \in 0..MaxDrops
        /\ attempts \in [Inputs -> 0..MaxAttempts] /\ execution \in [Inputs -> Executions]
        /\ Fenced(p) <=> ~Live(p)
    BY DrainAssumption DEF DrainInv, DrainTypeOK, Pass, Fenced, Live
  <1>1. UNCHANGED generation /\ drops' \in 0..MaxDrops
    BY <1>0 DEF PassStep, Load, StartInput, StartReturns, LoadFails
  <1>2. p.at = "load" /\ Live(p) => attempts[p.input] < MaxAttempts
    <2> SUFFICES ASSUME p.at = "load", Live(p), attempts[p.input] = MaxAttempts
                 PROVE  FALSE
      BY <1>0
    <2>1. PICK q \in passes : Live(q) /\ q.at # "load"
      BY <1>0 DEF DrainInv, LastAttempt
    <2> QED BY <2>1 DEF DrainInv, PassInv
  <1>3. CASE ~Live(p) /\ (LoadFails(p) \/ Load(p) \/ StartReturns(p))
    <2>1. Return(p) /\ UNCHANGED execution
      BY <1>0, <1>3, Zenon DEF LoadFails, Load, StartReturns
    <2> QED BY <1>1, <1>3, <2>1
  <1>4. CASE Live(p) /\ LoadFails(p)
    <2> DEFINE failures1 == attempts[p.input] + 1
               given == failures1 >= MaxAttempts
               envelopes == IF given THEN Without(p.input) ELSE waiting
    <2>1. /\ attempts' = [attempts EXCEPT ![p.input] = IF given THEN 0 ELSE failures1]
          /\ GoOn(p, envelopes) /\ UNCHANGED execution
      BY <1>0, <1>4, Zenon DEF LoadFails
    <2>2. LeavesInput(p, envelopes)
      <3>1. given => attempts[p.input] >= MaxAttempts - 1
        BY <1>0
      <3>2. (IF given THEN 0 ELSE failures1) \in 0..MaxAttempts
            /\ (IF given THEN 0 ELSE failures1) < MaxAttempts
        BY <1>0
      <3>3. envelopes = waiting \/ (given /\ envelopes = Without(p.input))
        OBVIOUS
      <3> HIDE DEF given, failures1, envelopes
      <3>4. /\ attempts' \in [Inputs -> 0..MaxAttempts] /\ attempts'[p.input] < MaxAttempts
            /\ \A i \in Inputs \ {p.input} : attempts'[i] = attempts[i]
        BY <1>0, <2>1, <3>2
      <3> QED BY <2>1, <3>1, <3>3, <3>4 DEF LeavesInput
    <2> QED BY <1>1, <1>4, <2>2
  <1>5. CASE Live(p) /\ Load(p) /\ execution[p.input] = "waiting"
    <2>1. GoOn(p, waiting) /\ UNCHANGED <<attempts, execution>> /\ p.at = "load"
      BY <1>0, <1>5, Zenon DEF Load
    <2>2. LeavesInput(p, waiting)
      BY <1>0, <1>2, <1>5, <2>1 DEF LeavesInput
    <2> QED BY <1>1, <1>5, <2>2
  <1>6. CASE Live(p) /\ Load(p) /\ execution[p.input] = "ready"
    <2>1. /\ attempts' = [attempts EXCEPT ![p.input] = @ + 1] /\ p.at = "load"
          /\ passes' = (passes \ {p}) \cup {[p EXCEPT !.at = "start"]}
          /\ UNCHANGED <<execution, waiting, active, drainTimer>>
      BY <1>0, <1>6 DEF Load
    <2> QED BY <1>1, <1>6, <2>1
  <1>7. CASE Live(p) /\ Load(p) /\ execution[p.input] \notin {"waiting", "ready"}
    <2>1. /\ GoOn(p, Without(p.input)) /\ UNCHANGED execution
          /\ attempts' = [attempts EXCEPT ![p.input] = 0]
      BY <1>0, <1>7, Zenon DEF Load
    <2>2. /\ attempts' \in [Inputs -> 0..MaxAttempts] /\ attempts'[p.input] < MaxAttempts
          /\ \A i \in Inputs \ {p.input} : attempts'[i] = attempts[i]
      BY <1>0, <2>1
    <2>3. LeavesInput(p, Without(p.input))
      BY <1>7, <2>1, <2>2 DEF LeavesInput
    <2> QED BY <1>1, <1>7, <2>3
  <1>8. CASE Live(p) /\ StartReturns(p)
    <2> DEFINE done == p.at = "answered" \/ attempts[p.input] >= MaxAttempts
               envelopes == IF done THEN Without(p.input) ELSE waiting
    <2>1. /\ attempts' = IF done THEN [attempts EXCEPT ![p.input] = 0] ELSE attempts
          /\ GoOn(p, envelopes) /\ UNCHANGED execution
      BY <1>0, <1>8, Zenon DEF StartReturns
    <2>2. done => \/ execution[p.input] \notin {"waiting", "ready"}
                  \/ attempts[p.input] >= MaxAttempts - 1
      BY <1>0, <1>8 DEF DrainInv, StartsReady
    <2>3. /\ attempts' \in [Inputs -> 0..MaxAttempts] /\ attempts'[p.input] < MaxAttempts
          /\ \A i \in Inputs \ {p.input} : attempts'[i] = attempts[i]
      BY <1>0, <2>1
    <2>4. envelopes = waiting \/ (done /\ envelopes = Without(p.input))
      OBVIOUS
    <2> HIDE DEF done, envelopes
    <2>5. LeavesInput(p, envelopes)
      BY <2>1, <2>2, <2>3, <2>4 DEF LeavesInput
    <2> QED BY <1>1, <1>8, <2>5
  <1>9. CASE StartInput(p)
    BY <1>1, <1>9
  <1> QED BY <1>3, <1>4, <1>5, <1>6, <1>7, <1>8, <1>9 DEF PassStep

(* What a step of the server does to the drain and to what the reset is at.*)
DrainStep ==
    \/ (\E i \in Inputs : EnqueueInput(i)) /\ reset.at = "none" /\ UNCHANGED reset
    \/ DrainNext /\ UNCHANGED reset
    \/ DrainReset /\ UNCHANGED <<execution, passes, drops>>
    \/ /\ reset.at = "cleared" /\ reset'.at # "cleared"
       /\ execution' = execution \/ execution' = [i \in Inputs |-> "none"]
       /\ UNCHANGED <<waiting, attempts, drainTimer, active, generation, passes, drops>>
    \/ DrainRestart /\ UNCHANGED <<execution, drops>>
    \/ UNCHANGED drainVars /\ (reset'.at = "cleared" => reset.at = "cleared")

LEMMA DrainSteps == ResetInv /\ [Next]_vars => DrainStep
  <1> SUFFICES ASSUME ResetInv, [Next]_vars PROVE DrainStep
    OBVIOUS
  <1>0. IsReset(reset)
    BY DEF ResetInv, ShapeInv
  <1>1. ASSUME StorageStep, UNCHANGED drainVars PROVE DrainStep
    <2>1. \/ UNCHANGED reset
          \/ \E kind \in Kinds :
                reset' = [at |-> "preparing", kind |-> kind, timer |-> None]
          \/ \E to \in {"queued", "cleanup"} : reset' = [reset EXCEPT !.at = to]
          \/ reset' = [reset EXCEPT !.at = "recorded", !.timer = timer]
          \/ reset' = Quiet
      BY <1>1 DEF StorageStep, BeginLoad, EndLoad, ReadDatabase, TimerFires, SavesStep, KeysStep,
                  QueueStep, ResetsStart, ResetStep, Admit, Enqueue, StartRun, QueueCommit,
                  SaveChat, WriteKey, Commit, Persist, RecordSaves, StartReset, Prepare,
                  Fail, EndReset
    <2>2. reset'.at = "cleared" => reset.at = "cleared"
      <3>1. \A to, tm : [reset EXCEPT !.at = to].at = to
                        /\ [reset EXCEPT !.at = to, !.timer = tm].at = to
        BY <1>0, ResetMoves
      <3>2. CASE \E to \in {"queued", "cleanup"} : reset' = [reset EXCEPT !.at = to]
        BY <3>1, <3>2
      <3>3. CASE reset' = [reset EXCEPT !.at = "recorded", !.timer = timer]
        BY <3>1, <3>3
      <3>4. CASE \E kind \in Kinds :
                    reset' = [at |-> "preparing", kind |-> kind, timer |-> None]
        BY <3>4
      <3> QED BY <2>1, <3>2, <3>3, <3>4, QuietShape
    <2> QED BY <1>1, <2>2 DEF DrainStep
  <1>2. ASSUME InputStep, UNCHANGED resetVars PROVE DrainStep
    BY <1>2 DEF InputStep, resetVars, DrainStep
  <1>3. CASE ResetClears
    BY <1>3 DEF ResetClears, DrainStep
  <1>4. CASE ResetApplies
    <2>1. reset.at = "cleared" /\ reset' = [reset EXCEPT !.at = "cleanup"]
      BY <1>4 DEF ResetApplies, Apply
    <2>2. reset'.at = "cleanup"
      BY <1>0, <2>1, ResetMoves
    <2> QED BY <1>4, <2>1, <2>2 DEF ResetApplies, DrainStep
  <1>5. CASE Restarts
    BY <1>5 DEF Restarts, DrainStep
  <1>6. CASE UNCHANGED <<resetVars, drainVars>>
    BY <1>6 DEF resetVars, DrainStep
  <1>7. DeliveryStep /\ UNCHANGED <<resetVars, drainVars>> => UNCHANGED <<resetVars, drainVars>>
    OBVIOUS
  <1> QED BY <1>1, <1>2, <1>3, <1>4, <1>5, <1>6, <1>7 DEF Next, vars

(* The pass of now goes on to its next input or ends.                      *)
LEMMA LeavesKeeps ==
    ASSUME DrainInv, PassInv', NEW p \in passes, Live(p), NEW envelopes,
           LeavesInput(p, envelopes), UNCHANGED <<generation, reset>>,
           drops' \in 0..MaxDrops
    PROVE  /\ DrainInv' /\ waiting' = envelopes
           /\ Envelopes \ {p.input} \subseteq ToSet(envelopes)
  <1> DEFINE seen == (p.seen \cup {p.input}) \cap ToSet(envelopes)
             next == Unvisited(envelopes, seen)
             r    == [p EXCEPT !.seen = seen, !.input = envelopes[next], !.at = "load"]
  <1>0. /\ p \in Pass /\ p.gen = generation /\ p.gen \in Nat /\ p.input \in Inputs
        /\ waiting \in Seq(Inputs) /\ IsInjective(waiting) /\ active
        /\ active \in BOOLEAN /\ drainTimer \in BOOLEAN
        /\ \A i \in Inputs : attempts'[i] = MaxAttempts =>
              i # p.input /\ attempts[i] = MaxAttempts
    BY DrainAssumption DEF DrainInv, DrainTypeOK, PassInv, Live, LeavesInput, Pass
  <1>1. envelopes \in Seq(Inputs) /\ IsInjective(envelopes)
        /\ Envelopes \ {p.input} \subseteq ToSet(envelopes)
    BY <1>0, RemoveFirstElements DEF LeavesInput, Without, Envelopes
  <1>2. waiting' = envelopes
    BY DEF LeavesInput, GoOn
  <1>3. /\ passes \ {p} \subseteq passes'
        /\ \A q \in passes' \ passes :
              q \in Pass /\ q.gen = p.gen /\ q.at = "load"
        /\ active' \in BOOLEAN /\ drainTimer' \in BOOLEAN
    <2>1. CASE next = 0
      <3>1. Finish(p, envelopes)
        BY <2>1, Zenon DEF LeavesInput, GoOn
      <3> QED BY <1>0, <3>1 DEF Finish
    <2>2. CASE next # 0
      <3>1. passes' = (passes \ {p}) \cup {r} /\ UNCHANGED <<active, drainTimer>>
        BY <2>2, Zenon DEF LeavesInput, GoOn
      <3>2. envelopes[next] \in Inputs
        BY <1>1, <2>2, UnvisitedIsOne
      <3>3. seen \subseteq Inputs
        BY <1>1 DEF ToSet
      <3> HIDE DEF seen, next
      <3>4. r = AtInput(p, seen, envelopes[next], "load")
        BY Zenon DEF AtInput
      <3> HIDE DEF r
      <3>5. r = [gen |-> p.gen, seen |-> seen, input |-> envelopes[next], at |-> "load"]
        BY <1>0, <3>4, PassNowAt
      <3>6. r \in Pass /\ r.gen = p.gen /\ r.at = "load"
        BY <1>0, <3>2, <3>3, <3>5 DEF Pass
      <3> QED BY <1>0, <3>1, <3>6
    <2> QED BY <2>1, <2>2
  <1>4. DrainTypeOK'
    <2>1. passes' \in SUBSET Pass /\ \A q \in passes' : q.gen <= generation'
      BY <1>0, <1>3 DEF DrainInv, DrainTypeOK
    <2> QED BY <1>1, <1>2, <1>3, <2>1 DEF DrainInv, DrainTypeOK, LeavesInput
  <1>5. LastAttempt'
    <2> SUFFICES ASSUME NEW i \in Inputs, attempts'[i] = MaxAttempts PROVE FALSE
      BY DEF LastAttempt
    <2>1. i # p.input /\ attempts[i] = MaxAttempts
      BY <1>0
    <2>2. PICK q \in passes : Live(q) /\ q.input = i
      BY <2>1 DEF DrainInv, LastAttempt
    <2> QED BY <2>1, <2>2 DEF DrainInv, PassInv
  <1>6. StartsReady'
    BY <1>3 DEF DrainInv, StartsReady, Live, LeavesInput
  <1>7. ClearedIdle'
    BY <1>0 DEF DrainInv, ClearedIdle
  <1> QED BY <1>1, <1>2, <1>4, <1>5, <1>6, <1>7 DEF DrainInv

LEMMA NoneWaiting == <<>> \in Seq(Inputs) /\ IsInjective(<<>>)
  BY DEF IsInjective

LEMMA EnvelopesNext ==
    ASSUME DrainInv, PassInv', DrainStep
    PROVE  DrainInv' /\ EnvelopeGoes
  <1>0. /\ MaxAttempts \in Nat \ {0} /\ MaxDrops \in Nat
        /\ waiting \in Seq(Inputs) /\ IsInjective(waiting) /\ Len(waiting) \in Nat
        /\ attempts \in [Inputs -> 0..MaxAttempts] /\ execution \in [Inputs -> Executions]
        /\ drainTimer \in BOOLEAN /\ active \in BOOLEAN
        /\ generation \in Nat /\ drops \in 0..MaxDrops
        /\ passes \in SUBSET Pass /\ \A p \in passes : p.gen <= generation
    BY DrainAssumption DEF DrainInv, DrainTypeOK
  <1>1. ASSUME UNCHANGED waiting \/ generation' # generation PROVE EnvelopeGoes
    BY <1>1 DEF EnvelopeGoes, Envelopes
  <1>2. ASSUME NEW i \in Inputs, EnqueueInput(i), reset.at = "none", UNCHANGED reset
        PROVE  DrainInv' /\ EnvelopeGoes
    <2> DEFINE more == Append(waiting, i)
    <2>1. /\ more \in Seq(Inputs) /\ Len(more) = Len(waiting) + 1
          /\ \A k \in 1..Len(more) :
                more[k] = IF k <= Len(waiting) THEN waiting[k] ELSE i
      BY <1>0
    <2>2. i \notin Envelopes => IsInjective(more)
      <3> SUFFICES ASSUME i \notin Envelopes, NEW a \in 1..Len(more),
                          NEW b \in 1..Len(more), more[a] = more[b]
                   PROVE  a = b
        <4> HIDE DEF more
        <4> QED BY <2>1 DEF IsInjective
      <3> HIDE DEF more
      <3>1. \A k \in 1..Len(waiting) : waiting[k] # i
        BY <1>0 DEF Envelopes, ToSet
      <3>2. \A k, m \in 1..Len(waiting) : waiting[k] = waiting[m] => k = m
        BY <1>0 DEF IsInjective
      <3>3. \A k \in 1..Len(more) : k <= Len(waiting) => k \in 1..Len(waiting)
        BY <1>0, <2>1
      <3>4. \A k \in 1..Len(more) : ~(k <= Len(waiting)) => k = Len(waiting) + 1
        BY <1>0, <2>1
      <3>5. CASE a <= Len(waiting) /\ b <= Len(waiting)
        BY <2>1, <3>2, <3>3, <3>5
      <3>6. CASE a <= Len(waiting) /\ ~(b <= Len(waiting))
        BY <2>1, <3>1, <3>3, <3>6
      <3>7. CASE ~(a <= Len(waiting)) /\ b <= Len(waiting)
        BY <2>1, <3>1, <3>3, <3>7
      <3>8. CASE ~(a <= Len(waiting)) /\ ~(b <= Len(waiting))
        BY <3>4, <3>8
      <3> QED BY <3>5, <3>6, <3>7, <3>8
    <2>3. Envelopes \subseteq ToSet(more)
      <3> HIDE DEF more
      <3>0. DOMAIN waiting = 1..Len(waiting)
        BY <1>0
      <3> SUFFICES ASSUME NEW k \in 1..Len(waiting) PROVE waiting[k] \in ToSet(more)
        BY <3>0 DEF Envelopes, ToSet
      <3>1. k \in 1..Len(more) /\ more[k] = waiting[k]
        BY <1>0, <2>1
      <3>2. DOMAIN more = 1..Len(more)
        BY <2>1
      <3> QED BY <3>1, <3>2 DEF ToSet
    <2> HIDE DEF more
    <2>4. waiting' = waiting \/ (i \notin Envelopes /\ waiting' = more)
      BY <1>2 DEF EnqueueInput, more
    <2>5. EnvelopeGoes
      BY <2>3, <2>4 DEF EnvelopeGoes, Envelopes
    <2>6. /\ execution' = [execution EXCEPT ![i] = "waiting"]
          /\ attempts' = attempts \/ attempts' = [attempts EXCEPT ![i] = 0]
          /\ drainTimer' = TRUE /\ execution[i] \in {"none", "waiting"}
          /\ UNCHANGED <<active, generation, passes, drops>>
      BY <1>2 DEF EnqueueInput
    <2>7. DrainTypeOK'
      BY <1>0, <2>1, <2>2, <2>4, <2>6 DEF DrainTypeOK, Executions
    <2>8. LastAttempt'
      BY <1>0, <2>6 DEF DrainInv, LastAttempt, Live
    <2>9. StartsReady'
      BY <1>0, <2>6 DEF DrainInv, StartsReady, Live, Executions
    <2> QED BY <1>2, <2>5, <2>7, <2>8, <2>9 DEF DrainInv, ClearedIdle
  <1>3. ASSUME NEW i \in Inputs, AdvanceInput(i), UNCHANGED reset
        PROVE  DrainInv' /\ EnvelopeGoes
    <2>1. PICK status \in {"ready", "blocked"} :
              execution' = [execution EXCEPT ![i] = status] /\ execution[i] = "waiting"
      BY <1>3 DEF AdvanceInput
    <2>2. UNCHANGED <<waiting, attempts, drainTimer, active, generation, passes, drops>>
      BY <1>3 DEF AdvanceInput
    <2>3. DrainTypeOK'
      BY <1>0, <2>1, <2>2 DEF DrainTypeOK, Executions
    <2>4. LastAttempt' /\ ClearedIdle'
      BY <1>3, <2>2 DEF DrainInv, LastAttempt, Live, ClearedIdle
    <2>5. StartsReady'
      BY <1>0, <2>1, <2>2 DEF DrainInv, StartsReady, Live
    <2> QED BY <1>1, <2>2, <2>3, <2>4, <2>5 DEF DrainInv
  <1>4. ASSUME BeginPass, UNCHANGED reset PROVE DrainInv' /\ EnvelopeGoes
    <2>0. UNCHANGED <<execution, waiting, attempts, generation, drops>> /\ drainTimer' = FALSE
      BY <1>4 DEF BeginPass
    <2>1. CASE active \/ waiting = <<>>
      <3>1. UNCHANGED <<passes, active>>
        BY <1>4, <2>1 DEF BeginPass
      <3>2. DrainTypeOK' /\ LastAttempt' /\ StartsReady' /\ ClearedIdle'
        BY <1>0, <1>4, <2>0, <3>1
           DEF DrainInv, DrainTypeOK, LastAttempt, StartsReady, ClearedIdle, Live
      <3> QED BY <1>1, <2>0, <3>2 DEF DrainInv
    <2>2. CASE ~active /\ waiting # <<>>
      <3> DEFINE first == [gen |-> generation, seen |-> {}, input |-> Head(waiting),
                           at |-> "load"]
      <3>1. active' = TRUE /\ passes' = passes \cup {first}
        BY <1>4, <2>2, Zenon DEF BeginPass
      <3>2. Head(waiting) \in Inputs
        BY <1>0, <2>2
      <3>3. first \in Pass /\ first.gen = generation /\ first.at = "load"
        BY <1>0, <3>2 DEF Pass
      <3> HIDE DEF first
      <3>4. DrainTypeOK'
        <4>1. passes' \in SUBSET Pass /\ \A p \in passes' : p.gen <= generation'
          BY <1>0, <2>0, <3>1, <3>3
        <4> QED BY <1>0, <2>0, <3>1, <4>1 DEF DrainTypeOK
      <3>5. LastAttempt'
        BY <2>0, <3>1 DEF DrainInv, LastAttempt, Live
      <3>6. StartsReady'
        BY <2>0, <3>1, <3>3 DEF DrainInv, StartsReady, Live
      <3>7. ClearedIdle'
        BY <1>4, <2>2 DEF DrainInv, ClearedIdle
      <3> QED BY <1>1, <2>0, <3>4, <3>5, <3>6, <3>7 DEF DrainInv
    <2> QED BY <2>1, <2>2
  <1>5. ASSUME NEW p \in passes, PassStep(p) \/ LoadFails(p), UNCHANGED reset
        PROVE  DrainInv' /\ EnvelopeGoes
    <2>0. /\ UNCHANGED generation /\ drops' \in 0..MaxDrops
          /\ \/ ~Live(p) /\ Return(p) /\ UNCHANGED execution
             \/ Live(p) /\ \E envelopes : LeavesInput(p, envelopes)
             \/ /\ Live(p) /\ p.at = "load" /\ execution[p.input] = "ready"
                /\ attempts' = [attempts EXCEPT ![p.input] = @ + 1]
                /\ passes' = (passes \ {p}) \cup {[p EXCEPT !.at = "start"]}
                /\ UNCHANGED <<execution, waiting, active, drainTimer>>
             \/ StartInput(p)
      BY <1>5, PassCases
    <2>1. CASE ~Live(p) /\ Return(p) /\ UNCHANGED execution
      <3>1. passes' = passes \ {p} /\ UNCHANGED <<active, drainTimer, waiting, attempts>>
        BY <2>1 DEF Return, Finish, Live
      <3>2. DrainTypeOK'
        BY <1>0, <2>0, <2>1, <3>1 DEF DrainTypeOK
      <3>3. LastAttempt'
        BY <2>0, <2>1, <3>1 DEF DrainInv, LastAttempt, Live
      <3>4. StartsReady' /\ ClearedIdle'
        BY <1>5, <2>0, <2>1, <3>1 DEF DrainInv, StartsReady, ClearedIdle, Live
      <3> QED BY <1>1, <3>1, <3>2, <3>3, <3>4 DEF DrainInv
    <2>2. CASE Live(p) /\ \E envelopes : LeavesInput(p, envelopes)
      <3>1. PICK envelopes : LeavesInput(p, envelopes)
        BY <2>2
      <3>2. DrainInv' /\ waiting' = envelopes /\ Envelopes \ {p.input} \subseteq ToSet(envelopes)
        BY <1>5, <2>0, <2>2, <3>1, LeavesKeeps
      <3>3. EnvelopeGoes
        <4>1. CASE envelopes = waiting
          BY <1>1, <3>2, <4>1
        <4>2. CASE \/ execution[p.input] \notin {"waiting", "ready"}
                   \/ attempts[p.input] >= MaxAttempts - 1
          BY <3>2, <4>2 DEF EnvelopeGoes
        <4> QED BY <3>1, <4>1, <4>2 DEF LeavesInput
      <3> QED BY <3>2, <3>3
    <2>3. CASE /\ Live(p) /\ p.at = "load" /\ execution[p.input] = "ready"
               /\ attempts' = [attempts EXCEPT ![p.input] = @ + 1]
               /\ passes' = (passes \ {p}) \cup {[p EXCEPT !.at = "start"]}
               /\ UNCHANGED <<execution, waiting, active, drainTimer>>
      <3> DEFINE r == [p EXCEPT !.at = "start"]
      <3>1. p \in Pass /\ p.gen = generation /\ p.input \in Inputs
        BY <1>0, <2>3 DEF Live, Pass
      <3>2. r = [gen |-> p.gen, seen |-> p.seen, input |-> p.input, at |-> "start"]
        BY <3>1, PassFields
      <3>3. r \in Pass /\ r.gen = p.gen /\ r.input = p.input /\ r.at = "start"
        BY <3>1, <3>2 DEF Pass
      <3> HIDE DEF r
      <3>4. attempts[p.input] < MaxAttempts
        <4> SUFFICES ASSUME attempts[p.input] = MaxAttempts PROVE FALSE
          BY <1>0, <3>1
        <4>1. PICK q \in passes : Live(q) /\ q.at # "load"
          BY <3>1 DEF DrainInv, LastAttempt
        <4> QED BY <2>3, <4>1 DEF DrainInv, PassInv
      <3>5. passes' = (passes \ {p}) \cup {r}
        BY <2>3 DEF r
      <3>6. DrainTypeOK'
        <4>1. passes' \in SUBSET Pass /\ \A q \in passes' : q.gen <= generation'
          BY <1>0, <2>0, <3>1, <3>3, <3>5
        <4>2. attempts' \in [Inputs -> 0..MaxAttempts]
          BY <1>0, <2>3, <3>1, <3>4
        <4> QED BY <1>0, <2>0, <2>3, <4>1, <4>2 DEF DrainTypeOK
      <3>7. LastAttempt'
        <4> SUFFICES ASSUME NEW i \in Inputs, attempts'[i] = MaxAttempts
                     PROVE  \E q \in passes' : Live(q)' /\ q.input = i /\ q.at # "load"
          BY DEF LastAttempt
        <4>1. CASE i = p.input
          BY <2>0, <3>1, <3>3, <3>5, <4>1 DEF Live
        <4>2. CASE i # p.input
          <5>1. attempts[i] = MaxAttempts
            BY <1>0, <2>3, <3>1, <4>2
          <5>2. PICK q \in passes : Live(q) /\ q.input = i /\ q.at # "load"
            BY <5>1 DEF DrainInv, LastAttempt
          <5> QED BY <2>0, <2>3, <3>5, <5>2 DEF Live
        <4> QED BY <4>1, <4>2
      <3>8. StartsReady'
        BY <2>0, <2>3, <3>3, <3>5 DEF DrainInv, StartsReady, Live
      <3>9. ClearedIdle'
        BY <1>5, <2>3 DEF DrainInv, ClearedIdle
      <3> QED BY <1>1, <2>3, <3>6, <3>7, <3>8, <3>9 DEF DrainInv
    <2>4. CASE StartInput(p)
      <3>0. p \in Pass /\ p.input \in Inputs /\ p.at = "start"
        BY <1>0, <2>4 DEF StartInput, Pass
      <3>1. PICK at \in {"answered", "failed"} :
                /\ passes' = (passes \ {p}) \cup {[p EXCEPT !.at = at]}
                /\ at = "answered" =>
                      /\ execution[p.input] # "waiting"
                      /\ execution' = [execution EXCEPT ![p.input] =
                                          IF @ = "ready" THEN "started" ELSE @]
                /\ at = "failed" => UNCHANGED execution
        BY <2>4 DEF StartInput
      <3> DEFINE r == [p EXCEPT !.at = at]
      <3>2. r = [gen |-> p.gen, seen |-> p.seen, input |-> p.input, at |-> at]
        BY <3>0, PassFields
      <3>3. r \in Pass /\ r.gen = p.gen /\ r.input = p.input /\ r.at = at
        BY <3>0, <3>2 DEF Pass
      <3>4. passes' = (passes \ {p}) \cup {r}
        BY <3>1
      <3> HIDE DEF r
      <3>5. UNCHANGED <<waiting, attempts, drainTimer, active, generation>>
        BY <2>4 DEF StartInput
      <3>6. /\ execution' \in [Inputs -> Executions]
            /\ \A i \in Inputs : execution'[i] = execution[i]
                                 \/ (execution[i] = "ready" /\ execution'[i] = "started")
            /\ at = "answered" /\ execution[p.input] \in {"ready", "started"}
                 => execution'[p.input] = "started"
        BY <1>0, <3>0, <3>1 DEF Executions
      <3>7. DrainTypeOK'
        <4>1. passes' \in SUBSET Pass /\ \A q \in passes' : q.gen <= generation'
          BY <1>0, <3>3, <3>4, <3>5
        <4> QED BY <1>0, <2>0, <3>5, <3>6, <4>1 DEF DrainTypeOK
      <3>8. LastAttempt'
        <4> SUFFICES ASSUME NEW i \in Inputs, attempts[i] = MaxAttempts
                     PROVE  \E q \in passes' : Live(q)' /\ q.input = i /\ q.at # "load"
          BY <3>5 DEF LastAttempt
        <4>1. PICK q \in passes : Live(q) /\ q.input = i /\ q.at # "load"
          BY DEF DrainInv, LastAttempt
        <4>2. CASE q = p
          BY <3>1, <3>3, <3>4, <3>5, <4>1, <4>2 DEF Live
        <4>3. CASE q # p
          BY <3>4, <3>5, <4>1, <4>3 DEF Live
        <4> QED BY <4>2, <4>3
      <3>9. StartsReady'
        <4> SUFFICES ASSUME NEW q \in passes', q.gen = generation
                     PROVE  /\ q.at = "start" => execution'[q.input] \in {"ready", "started"}
                            /\ q.at = "answered" => execution'[q.input] = "started"
          BY <3>5 DEF StartsReady, Live
        <4>1. CASE q \in passes
          <5>1. q.input \in Inputs
            BY <1>0, <4>1 DEF Pass
          <5> QED BY <3>6, <4>1, <5>1 DEF DrainInv, StartsReady, Live
        <4>2. CASE q = r
          <5>1. execution[p.input] \in {"ready", "started"}
            BY <3>0, <3>3, <4>2 DEF DrainInv, StartsReady, Live
          <5> QED BY <3>1, <3>3, <3>6, <4>2, <5>1
        <4> QED BY <3>4, <4>1, <4>2
      <3>10. ClearedIdle'
        BY <1>5, <3>5 DEF DrainInv, ClearedIdle
      <3> QED BY <1>1, <3>5, <3>7, <3>8, <3>9, <3>10 DEF DrainInv
    <2> QED BY <2>0, <2>1, <2>2, <2>3, <2>4
  <1>6. ASSUME DrainReset, UNCHANGED <<execution, passes, drops>>
        PROVE  DrainInv' /\ EnvelopeGoes
    <2>1. generation' = generation + 1 /\ waiting' = <<>> /\ active' = FALSE
          /\ attempts' = [i \in Inputs |-> 0] /\ drainTimer' = FALSE
      BY <1>6 DEF DrainReset
    <2>2. DrainTypeOK'
      <3>1. \A q \in passes' : q.gen <= generation'
        BY <1>0, <1>6, <2>1 DEF Pass
      <3>2. waiting' \in Seq(Inputs) /\ IsInjective(waiting')
        BY <2>1, NoneWaiting
      <3>3. attempts' \in [Inputs -> 0..MaxAttempts] /\ generation' \in Nat
        BY <1>0, <2>1
      <3>4. UNCHANGED <<execution, passes, drops>> /\ drainTimer' \in BOOLEAN
            /\ active' \in BOOLEAN
        BY <1>6, <2>1
      <3> QED BY <1>0, <3>1, <3>2, <3>3, <3>4 DEF DrainTypeOK
    <2>3. \A q \in passes' : ~Live(q)'
      BY <1>0, <1>6, <2>1 DEF Live, Pass
    <2>4. LastAttempt' /\ StartsReady' /\ ClearedIdle'
      BY <1>0, <2>1, <2>3 DEF LastAttempt, StartsReady, ClearedIdle
    <2> QED BY <1>0, <1>1, <2>1, <2>2, <2>4 DEF DrainInv
  <1>7. ASSUME DrainRestart, UNCHANGED <<execution, drops>>
        PROVE  DrainInv' /\ EnvelopeGoes
    <2>1. generation' = generation + 1 /\ waiting' = <<>> /\ active' = FALSE
          /\ attempts' = [i \in Inputs |-> 0] /\ drainTimer' = FALSE /\ passes' = {}
      BY <1>7 DEF DrainRestart
    <2>2. DrainTypeOK'
      <3>1. waiting' \in Seq(Inputs) /\ IsInjective(waiting')
        BY <2>1, NoneWaiting
      <3>2. attempts' \in [Inputs -> 0..MaxAttempts] /\ generation' \in Nat
        BY <1>0, <2>1
      <3>3. UNCHANGED <<execution, drops>> /\ drainTimer' \in BOOLEAN
            /\ active' \in BOOLEAN /\ passes' = {}
        BY <1>7, <2>1
      <3> QED BY <1>0, <3>1, <3>2, <3>3 DEF DrainTypeOK
    <2>3. LastAttempt' /\ StartsReady' /\ ClearedIdle'
      BY <1>0, <2>1 DEF LastAttempt, StartsReady, ClearedIdle
    <2> QED BY <1>0, <1>1, <2>1, <2>2, <2>3 DEF DrainInv
  <1>8. ASSUME reset.at = "cleared", reset'.at # "cleared",
               execution' = execution \/ execution' = [i \in Inputs |-> "none"],
               UNCHANGED <<waiting, attempts, drainTimer, active, generation, passes, drops>>
        PROVE  DrainInv' /\ EnvelopeGoes
    <2>1. \A p \in passes : ~Live(p)
      BY <1>8 DEF DrainInv, ClearedIdle, PassInv
    <2>2. DrainTypeOK'
      BY <1>0, <1>8 DEF DrainTypeOK, Executions
    <2>3. LastAttempt' /\ StartsReady' /\ ClearedIdle'
      BY <1>8, <2>1 DEF DrainInv, LastAttempt, StartsReady, ClearedIdle, Live
    <2> QED BY <1>1, <1>8, <2>2, <2>3 DEF DrainInv
  <1>9. ASSUME UNCHANGED drainVars, reset'.at = "cleared" => reset.at = "cleared"
        PROVE  DrainInv' /\ EnvelopeGoes
    <2>1. DrainTypeOK' /\ LastAttempt' /\ StartsReady' /\ ClearedIdle'
      BY <1>9 DEF drainVars, DrainInv, DrainTypeOK, LastAttempt, StartsReady, ClearedIdle, Live
    <2> QED BY <1>1, <1>9, <2>1 DEF drainVars, DrainInv
  <1> QED BY <1>2, <1>3, <1>4, <1>5, <1>6, <1>7, <1>8, <1>9 DEF DrainStep, DrainNext

LEMMA DrainInvHolds == Spec => []DrainInv
  <1>1. Init => DrainInv
    <2> SUFFICES ASSUME Init PROVE DrainInv
      OBVIOUS
    <2>1. DrainTypeOK
      <3>1. waiting \in Seq(Inputs) /\ IsInjective(waiting)
        BY NoneWaiting DEF Init, DrainInit
      <3>2. execution \in [Inputs -> Executions] /\ attempts \in [Inputs -> 0..MaxAttempts]
        BY DrainAssumption DEF Init, DrainInit, Executions
      <3>3. drainTimer = FALSE /\ active = FALSE /\ generation = 0 /\ drops = 0 /\ passes = {}
        BY DEF Init, DrainInit
      <3>4. generation \in Nat /\ drops \in 0..MaxDrops
        BY <3>3, DrainAssumption
      <3> QED BY <3>1, <3>2, <3>3, <3>4 DEF DrainTypeOK
    <2>2. PassInv
      BY DEF Init, DrainInit, PassInv, PassesShaped, EnvelopeHasWakeup
    <2>3. LastAttempt /\ StartsReady /\ ClearedIdle
      BY DrainAssumption DEF Init, DrainInit, LastAttempt, StartsReady, ClearedIdle
    <2> QED BY <2>1, <2>2, <2>3 DEF DrainInv
  <1>2. DrainInv /\ PassInv' /\ ResetInv /\ [Next]_vars => DrainInv'
    BY DrainSteps, EnvelopesNext
  <1> QED BY <1>1, <1>2, PassInvHolds, ResetInvHolds, PTL DEF Spec

(* An envelope goes only when its input needs it no more, after its own    *)
(* failures or with a reset, and never because of a pass that a reset has  *)
(* fenced, however late the owner answers it (drain, reset).               *)
THEOREM EnvelopesStay == Spec => EnvelopesKept
  <1>1. DrainInv /\ PassInv' /\ ResetInv /\ [Next]_vars => [EnvelopeGoes]_drainVars
    BY DrainSteps, EnvelopesNext
  <1> QED BY <1>1, DrainInvHolds, PassInvHolds, ResetInvHolds, PTL DEF Spec, EnvelopesKept
-----------------------------------------------------------------------------
(* Types                                                                   *)

Operations ==
    [op : {"request"}, id : Requests] \cup [op : {"commit"}, id : Runs]
        \cup [op : {"persist"}, timer : Timers] \cup [op : {"reset"}]
RequestState == [at : {"new", "admitted", "queued", "done", "refused"}, gen : 0..MaxResets]
RunState == [at : {"none", "generating", "queued", "ended"}, epoch : 0..MaxResets,
             cancelled : BOOLEAN]
LoadState == [gen : 0..MaxResets, db : DataOrNone, repair : BOOLEAN]
ResetState == [at : {"none", "preparing", "queued", "recorded", "cleared", "cleanup"},
               kind : Kinds, timer : Timers \cup {None}]

(* What ResetInv leaves of the types, with the generation of the store,    *)
(* which only a reset that ends advances, and the form of the queue.       *)
FilesTyped ==
    /\ rows \in SUBSET Runs /\ acked \in SUBSET Writes /\ storeGen <= epoch
    /\ loading # None => loading \in LoadState
TimersTyped == timer \in Timers \cup {None} /\ queue \in Seq(Operations)
StagesTyped ==
    /\ reset \in ResetState
    /\ request \in [Requests -> RequestState] /\ run \in [Runs -> RunState]
FlagsTyped ==
    /\ recovery \in BOOLEAN /\ lapsed \in BOOLEAN
    /\ failures \in 0..MaxFailures /\ restarts \in 0..MaxRestarts

MarksTyped == unrepaired \in BOOLEAN /\ overrun \in BOOLEAN

ResetTyped == FilesTyped /\ TimersTyped /\ StagesTyped /\ FlagsTyped /\ MarksTyped

LEMMA TypesSuffice == ResetInv /\ ResetTyped => ResetTypeOK
  <1> SUFFICES ASSUME ResetInv, ResetTyped PROVE ResetTypeOK
    OBVIOUS
  <1>1. {database, journal, cache} \subseteq DataOrNone
    BY DEF ResetInv, DataInv, Current, Ours, DataOrNone
  <1>2. /\ epoch \in 0..MaxResets /\ resetGen \in 0..MaxResets /\ storeGen \in 0..MaxResets
        /\ installed \in 0..epoch /\ barrier \in 0..resetGen
    BY Constants DEF ResetInv, OrderInv, ResetTyped, FilesTyped
  <1>3. files \in SUBSET Files
    BY DEF ResetInv, FilesInv
  <1>4. loading \in [gen : 0..MaxResets, db : DataOrNone, repair : BOOLEAN] \cup {None}
    BY DEF ResetTyped, FilesTyped, LoadState
  <1> QED
    BY <1>1, <1>2, <1>3, <1>4
       DEF ResetTyped, FilesTyped, TimersTyped, StagesTyped, FlagsTyped, MarksTyped,
           ResetTypeOK, ResetState, RequestState, RunState

(* Among timers that are never used up there is one that is not in use.    *)
LEMMA TimerIsNew ==
    ASSUME ~IsFiniteSet(Timers), TimersTyped
    PROVE  NewTimer \in Timers
  <1> DEFINE D == {j \in DOMAIN queue : queue[j].op = "persist"}
             f == [k \in D |-> queue[k].timer]
  <1>1. IsFiniteSet(D)
    <2>1. Len(queue) \in Nat /\ D \subseteq 1..Len(queue)
      BY DEF TimersTyped
    <2>2. IsFiniteSet(1..Len(queue))
      BY <2>1, FS_Interval
    <2> QED BY <2>1, <2>2, FS_Subset
  <1>2. f \in Surjection(D, Callbacks)
    BY DEF Surjection, Callbacks
  <1>3. IsFiniteSet(Callbacks)
    <2> HIDE DEF f, D
    <2> QED BY <1>1, <1>2, FS_Surjection
  <1>4. IsFiniteSet(Callbacks \cup {timer})
    BY <1>3, FS_AddElement
  <1>5. ~(Timers \subseteq Callbacks \cup {timer})
    BY <1>4, FS_Subset
  <1> QED BY <1>5 DEF NewTimer

LEMMA StoreTyped ==
    ASSUME ResetInv
    PROVE  DataOrNone = Data \cup {None} /\ database \in DataOrNone
  BY DEF ResetInv, DataInv, Ours, DataOrNone

(* What each kind of step does to the parts.                               *)
LEMMA StagesNext ==
    ASSUME ResetInv, ResetTyped, StorageMove
    PROVE  StagesTyped'
  <1>0. /\ epoch \in 0..MaxResets /\ resetGen \in 0..MaxResets /\ MaxResets \in Nat
        /\ resetGen < MaxResets => resetGen + 1 \in 0..MaxResets
        /\ reset \in ResetState /\ timer \in Timers \cup {None}
        /\ request \in [Requests -> RequestState] /\ run \in [Runs -> RunState]
    BY Constants DEF ResetInv, OrderInv, ResetTyped, TimersTyped, StagesTyped
  <1>1. ASSUME reset' \in ResetState, UNCHANGED <<request, run>> PROVE StagesTyped'
    BY <1>0, <1>1 DEF StagesTyped
  <1>2. ASSUME request' \in [Requests -> RequestState], UNCHANGED <<reset, run>>
        PROVE  StagesTyped'
    BY <1>0, <1>2 DEF StagesTyped
  <1>3. ASSUME run' \in [Runs -> RunState], UNCHANGED <<reset, request>> PROVE StagesTyped'
    BY <1>0, <1>3 DEF StagesTyped
  <1>4. \A to \in {"none", "preparing", "queued", "recorded", "cleared", "cleanup"} :
            [reset EXCEPT !.at = to] \in ResetState
    BY <1>0 DEF ResetState
  <1>5. [reset EXCEPT !.at = "recorded", !.timer = timer] \in ResetState
    BY <1>0 DEF ResetState
  <1>6. Quiet \in ResetState
    BY DEF Quiet, ResetState, Kinds
  <1>7. \A kind \in Kinds : [at |-> "preparing", kind |-> kind, timer |-> None] \in ResetState
    BY DEF ResetState
  <1>8. \A r \in Requests : \A stage \in {"queued", "done", "refused"} :
            Answer(r, stage) => request' \in [Requests -> RequestState]
    BY <1>0 DEF Answer, RequestState
  <1>9. CASE BeginLoad \/ EndLoad \/ ReadDatabase \/ TimerFires \/ Persist \/ UNCHANGED resetVars
    BY <1>0, <1>1, <1>9 DEF BeginLoad, EndLoad, ReadDatabase, TimerFires, Persist, resetVars
  <1>10. CASE Prepare \/ Fail \/ EndReset \/ RecordSaves \/ Apply
    BY <1>1, <1>4, <1>5, <1>6, <1>10 DEF Prepare, Fail, EndReset, RecordSaves, Apply
  <1>11. ASSUME NEW kind \in Kinds, StartReset(kind) PROVE StagesTyped'
    BY <1>1, <1>7, <1>11 DEF StartReset
  <1>12. ASSUME NEW r \in Requests, Admit(r) PROVE StagesTyped'
    <2>1. request' \in [Requests -> RequestState]
      BY <1>0, <1>12 DEF Admit, RequestState
    <2> QED BY <1>2, <1>12, <2>1 DEF Admit
  <1>13. ASSUME NEW r \in Requests, Enqueue(r) \/ SaveChat(r) \/ WriteKey(r)
         PROVE  StagesTyped'
    <2>1. \E stage \in {"queued", "done", "refused"} : Answer(r, stage)
      BY <1>13 DEF Enqueue, SaveChat, WriteKey
    <2> QED BY <1>2, <1>8, <1>13, <2>1 DEF Enqueue, SaveChat, WriteKey
  <1>14. ASSUME NEW u \in Runs, StartRun(u) \/ QueueCommit(u) \/ Commit(u)
         PROVE  StagesTyped'
    <2>1. run' \in [Runs -> RunState]
      <3>1. \A to \in {"queued", "ended"} :
                [run EXCEPT ![u].at = to] \in [Runs -> RunState]
        BY <1>0 DEF RunState
      <3>2. [run EXCEPT ![u] = [at |-> "generating", epoch |-> epoch, cancelled |-> FALSE]]
                \in [Runs -> RunState]
        BY <1>0 DEF RunState
      <3>3. \/ run' = [run EXCEPT ![u] = [at |-> "generating", epoch |-> epoch,
                                          cancelled |-> FALSE]]
            \/ run' = [run EXCEPT ![u].at = "queued"]
            \/ run' = [run EXCEPT ![u].at = "ended"]
        BY <1>14 DEF StartRun, QueueCommit, Commit
      <3> QED BY <3>1, <3>2, <3>3
    <2> QED BY <1>3, <1>14, <2>1 DEF StartRun, QueueCommit, Commit
  <1>15. CASE ClearSaves
    <2>1. run' \in [Runs -> RunState]
      <3> DEFINE cancelled(u) == run[u].at \in {"generating", "queued"}
      <3>1. run' = [u \in Runs |-> [run[u] EXCEPT !.cancelled = cancelled(u)]]
        BY <1>15 DEF ClearSaves
      <3>2. \A u : cancelled(u) \in BOOLEAN
        OBVIOUS
      <3> HIDE DEF cancelled
      <3> QED BY <1>0, <3>1, <3>2 DEF RunState
    <2>2. reset' \in ResetState /\ UNCHANGED request
      BY <1>4, <1>15 DEF ClearSaves
    <2> QED BY <1>0, <2>1, <2>2 DEF StagesTyped
  <1>16. CASE Restart
    <2>1. request' \in [Requests -> RequestState]
      BY <1>0, <1>16 DEF Restart, RequestState
    <2>2. run' \in [Runs -> RunState]
      BY <1>0, <1>16 DEF Restart, RunState
    <2> QED BY <1>6, <1>16, <2>1, <2>2 DEF Restart, StagesTyped
  <1> QED
    BY <1>9, <1>10, <1>11, <1>12, <1>13, <1>14, <1>15, <1>16
       DEF StorageMove, QueueStep, ResetStep

LEMMA TimersNext ==
    ASSUME ResetTyped, StorageMove, ~IsFiniteSet(Timers)
    PROVE  TimersTyped'
  <1>0. timer \in Timers \cup {None} /\ queue \in Seq(Operations) /\ NewTimer \in Timers
    BY TimerIsNew DEF ResetTyped, TimersTyped
  <1>1. queue # <<>> => Tail(queue) \in Seq(Operations)
    BY <1>0
  <1>2. \A o \in Operations : Append(queue, o) \in Seq(Operations)
    BY <1>0
  <1>3. /\ \A r \in Requests : [op |-> "request", id |-> r] \in Operations
        /\ \A u \in Runs : [op |-> "commit", id |-> u] \in Operations
        /\ \A t \in Timers : [op |-> "persist", timer |-> t] \in Operations
        /\ [op |-> "reset"] \in Operations
    BY DEF Operations
  <1>4. ASSUME \/ UNCHANGED timer
               \/ timer' \in {None, NewTimer},
               \/ UNCHANGED queue
               \/ queue # <<>> /\ queue' = Tail(queue)
               \/ \E o \in Operations : queue' = Append(queue, o)
               \/ queue' = <<>>
        PROVE  TimersTyped'
    <2>1. <<>> \in Seq(Operations)
      OBVIOUS
    <2>2. queue' \in Seq(Operations)
      <3> DEFINE T == Seq(Operations)
      <3>1. queue \in T /\ <<>> \in T /\ (queue # <<>> => Tail(queue) \in T)
            /\ \A o \in Operations : Append(queue, o) \in T
        BY <1>0, <1>1, <1>2, <2>1
      <3> HIDE DEF T
      <3>2. queue' \in T
        BY <1>4, <3>1, Zenon
      <3> QED BY <3>2 DEF T
    <2>3. UNCHANGED Operations
      BY DEF Operations
    <2> QED BY <1>0, <1>4, <2>2, <2>3 DEF TimersTyped
  <1>5. CASE BeginLoad \/ EndLoad \/ ReadDatabase \/ RecordSaves \/ EndReset \/ ClearSaves
             \/ UNCHANGED resetVars
    BY <1>4, <1>5 DEF BeginLoad, EndLoad, ReadDatabase, RecordSaves, EndReset, ClearSaves, resetVars
  <1>6. CASE TimerFires
    BY <1>0, <1>3, <1>4, <1>6 DEF TimerFires
  <1>7. CASE Prepare
    BY <1>3, <1>4, <1>7 DEF Prepare
  <1>8. ASSUME NEW r \in Requests, Admit(r) \/ Enqueue(r) PROVE TimersTyped'
    BY <1>3, <1>4, <1>8 DEF Admit, Enqueue
  <1>9. ASSUME NEW r \in Requests, SaveChat(r) \/ WriteKey(r) PROVE TimersTyped'
    BY <1>4, <1>9 DEF SaveChat, WriteKey, Running, Change
  <1>10. ASSUME NEW u \in Runs, StartRun(u) \/ QueueCommit(u) PROVE TimersTyped'
    BY <1>3, <1>4, <1>10 DEF StartRun, QueueCommit
  <1>11. ASSUME NEW u \in Runs, Commit(u) PROVE TimersTyped'
    BY <1>4, <1>11 DEF Commit, Running, Change
  <1>12. CASE Persist
    BY <1>4, <1>12 DEF Persist
  <1>13. CASE Fail
    BY <1>4, <1>13 DEF Fail, InSlot, Rearmed
  <1>14. CASE Apply
    <2>1. reset.kind \in Kinds
      BY DEF ResetTyped, StagesTyped, ResetState
    <2> QED BY <1>4, <1>14, <2>1 DEF Apply, InSlot, Kinds
  <1>15. CASE Restart
    BY <1>4, <1>15 DEF Restart
  <1>16. ASSUME NEW kind \in Kinds, StartReset(kind) PROVE TimersTyped'
    BY <1>4, <1>16 DEF StartReset
  <1> QED
    BY <1>5, <1>6, <1>7, <1>8, <1>9, <1>10, <1>11, <1>12, <1>13, <1>14, <1>15, <1>16
       DEF StorageMove, QueueStep, ResetStep

LEMMA FilesNext ==
    ASSUME ResetInv, ResetTyped, StorageMove
    PROVE  FilesTyped'
  <1>0. /\ rows \subseteq Runs /\ acked \subseteq Writes /\ storeGen <= epoch
        /\ storeGen \in 0..MaxResets /\ epoch \in Nat /\ storeGen \in Nat
        /\ database \in DataOrNone /\ unrepaired \in BOOLEAN
        /\ loading # None => loading \in LoadState
    BY Constants, StoreTyped DEF ResetInv, OrderInv, ResetTyped, FilesTyped, MarksTyped
  <1>1. ASSUME rows' \subseteq Runs, acked' \subseteq Writes, UNCHANGED <<storeGen, epoch>>,
               UNCHANGED loading \/ loading' = None
                 \/ loading' = [gen |-> storeGen, db |-> database, repair |-> unrepaired]
        PROVE  FilesTyped'
    <2>1. [gen |-> storeGen, db |-> database, repair |-> unrepaired] \in LoadState
      BY <1>0 DEF LoadState
    <2>2. UNCHANGED DataOrNone
      BY DEF DataOrNone, Data
    <2>3. loading' # None => loading' \in LoadState
      BY <1>0, <1>1, <2>1
    <2> QED BY <1>0, <1>1, <2>2, <2>3 DEF FilesTyped
  <1>2. CASE BeginLoad \/ EndLoad \/ ReadDatabase
    BY <1>0, <1>1, <1>2 DEF BeginLoad, EndLoad, ReadDatabase, durable, history
  <1>3. CASE TimerFires \/ Persist \/ ResetStep \/ RecordSaves \/ ClearSaves
             \/ UNCHANGED resetVars
    BY <1>0, <1>1, <1>3 DEF TimerFires, Persist, ResetStep, Prepare, Fail, EndReset,
       RecordSaves, ClearSaves, resetVars, durable, history
  <1>4. ASSUME NEW r \in Requests,
               Admit(r) \/ Enqueue(r) \/ SaveChat(r) \/ WriteKey(r)
        PROVE  FilesTyped'
    <2>1. acked' \subseteq acked \cup {r} /\ UNCHANGED <<rows, storeGen, epoch, loading>>
      BY <1>4 DEF Admit, Enqueue, SaveChat, WriteKey, durable, history
    <2>2. r \in Writes
      BY DEF Writes
    <2> QED BY <1>0, <1>1, <2>1, <2>2
  <1>5. ASSUME NEW u \in Runs, StartRun(u) \/ QueueCommit(u) \/ Commit(u)
        PROVE  FilesTyped'
    <2>1. /\ acked' \subseteq acked \cup {u} /\ rows' \subseteq rows \cup {u}
          /\ UNCHANGED <<storeGen, epoch, loading>>
      BY <1>5 DEF StartRun, QueueCommit, Commit, durable, history
    <2>2. u \in Writes
      BY DEF Writes
    <2> QED BY <1>0, <1>1, <2>1, <2>2
  <1>6. ASSUME NEW kind \in Kinds, StartReset(kind) PROVE FilesTyped'
    BY <1>0, <1>1, <1>6 DEF StartReset, durable, history
  <1>7. CASE Apply
    <2>1. reset.kind \in Kinds /\ UNCHANGED loading /\ epoch' = epoch + 1
      BY <1>7 DEF Apply, ResetTyped, StagesTyped, ResetState
    <2>2. /\ rows' \subseteq Runs /\ acked' \subseteq Writes
          /\ storeGen' = storeGen \/ storeGen' = storeGen + 1
      BY <1>0, <1>7, <2>1 DEF Apply, Kinds
    <2>3. storeGen' <= epoch'
      BY <1>0, <2>1, <2>2
    <2>4. UNCHANGED DataOrNone
      BY DEF DataOrNone, Data
    <2> QED BY <1>0, <2>1, <2>2, <2>3, <2>4 DEF FilesTyped
  <1>8. CASE Restart
    BY <1>0, <1>1, <1>8 DEF Restart, durable
  <1> QED BY <1>2, <1>3, <1>4, <1>5, <1>6, <1>7, <1>8 DEF StorageMove, QueueStep

LEMMA FlagsNext ==
    ASSUME ResetTyped, StorageMove
    PROVE  FlagsTyped'
  <1>0. /\ recovery \in BOOLEAN /\ lapsed \in BOOLEAN
        /\ failures \in 0..MaxFailures /\ restarts \in 0..MaxRestarts
        /\ MaxFailures \in Nat /\ MaxRestarts \in Nat
        /\ failures < MaxFailures => failures + 1 \in 0..MaxFailures
        /\ restarts < MaxRestarts => restarts + 1 \in 0..MaxRestarts
    BY ResetAssumption DEF ResetTyped, FlagsTyped
  <1>1. ASSUME recovery' \in BOOLEAN, lapsed' \in BOOLEAN, UNCHANGED restarts,
               failures' = failures \/ (failures < MaxFailures /\ failures' = failures + 1)
        PROVE  FlagsTyped'
    BY <1>0, <1>1 DEF FlagsTyped
  <1>2. CASE \/ BeginLoad \/ EndLoad \/ ReadDatabase \/ TimerFires \/ RecordSaves
             \/ EndReset \/ ClearSaves \/ UNCHANGED resetVars
    BY <1>0, <1>1, <1>2 DEF BeginLoad, EndLoad, ReadDatabase, TimerFires, RecordSaves,
       EndReset, ClearSaves, resetVars, history, bounds
  <1>3. CASE Prepare
    BY <1>0, <1>1, <1>3 DEF Prepare, history, bounds
  <1>4. CASE Persist
    BY <1>0, <1>1, <1>4 DEF Persist
  <1>5. CASE Fail
    BY <1>0, <1>1, <1>5 DEF Fail, history
  <1>6. CASE Apply
    <2>1. UNCHANGED <<recovery, failures, restarts>> /\ lapsed' \in {lapsed, FALSE}
      BY <1>6 DEF Apply, bounds
    <2> QED BY <1>0, <1>1, <2>1
  <1>7. ASSUME NEW r \in Requests,
               Admit(r) \/ Enqueue(r) \/ SaveChat(r) \/ WriteKey(r)
        PROVE  FlagsTyped'
    <2>1. UNCHANGED <<recovery, failures, restarts>> /\ lapsed' \in {lapsed, FALSE}
      BY <1>7 DEF Admit, Enqueue, SaveChat, WriteKey, Change, history, bounds
    <2> QED BY <1>0, <1>1, <2>1
  <1>8. ASSUME NEW u \in Runs, StartRun(u) \/ QueueCommit(u) \/ Commit(u)
        PROVE  FlagsTyped'
    <2>1. UNCHANGED <<recovery, failures, restarts>> /\ lapsed' \in {lapsed, FALSE}
      BY <1>8 DEF StartRun, QueueCommit, Commit, Change, history, bounds
    <2> QED BY <1>0, <1>1, <2>1
  <1>9. ASSUME NEW kind \in Kinds, StartReset(kind) PROVE FlagsTyped'
    BY <1>0, <1>1, <1>9 DEF StartReset, history, bounds
  <1>10. CASE Restart
    <2>1. /\ restarts < MaxRestarts /\ restarts' = restarts + 1 /\ UNCHANGED failures
          /\ recovery' = FALSE /\ lapsed' = (journal # None)
      BY <1>10 DEF Restart
    <2> QED BY <1>0, <2>1 DEF FlagsTyped
  <1> QED BY <1>2, <1>3, <1>4, <1>5, <1>6, <1>7, <1>8, <1>9, <1>10
             DEF StorageMove, QueueStep, ResetStep

LEMMA MarksNext ==
    ASSUME ResetTyped, StorageMove
    PROVE  MarksTyped'
  <1>0. /\ unrepaired \in BOOLEAN /\ overrun \in BOOLEAN
        /\ reset.kind \in Kinds
    BY DEF ResetTyped, MarksTyped, StagesTyped, ResetState
  <1>1. ASSUME unrepaired' \in {unrepaired, FALSE}, overrun' = overrun
        PROVE  MarksTyped'
    BY <1>0, <1>1 DEF MarksTyped
  <1>2. CASE EndLoad
    <2>1. /\ unrepaired' = (unrepaired /\ ~loading.repair)
          /\ overrun' = (overrun \/ (Late /\ (loading.repair \/ loading.gen = storeGen)))
      BY <1>2 DEF EndLoad, WritesRepair
    <2>2. unrepaired' \in BOOLEAN
      BY <2>1
    <2>3. overrun' \in BOOLEAN
      BY <2>1
    <2> QED BY <2>2, <2>3 DEF MarksTyped
  <1>3. CASE \/ BeginLoad \/ ReadDatabase \/ TimerFires \/ RecordSaves \/ Restart
             \/ ResetStep \/ UNCHANGED resetVars
    BY <1>1, <1>3 DEF BeginLoad, ReadDatabase, TimerFires, RecordSaves, Restart, ResetStep,
       Prepare, Fail, EndReset, resetVars, durable, history
  <1>4. CASE ClearSaves \/ Persist
    BY <1>1, <1>4 DEF ClearSaves, Persist, SaveStore, history
  <1>5. CASE Apply
    BY <1>0, <1>1, <1>5 DEF Apply, Kinds
  <1>6. ASSUME NEW r \in Requests,
               Admit(r) \/ Enqueue(r) \/ SaveChat(r) \/ WriteKey(r)
        PROVE  MarksTyped'
    BY <1>1, <1>6 DEF Admit, Enqueue, SaveChat, WriteKey, Change, durable, history
  <1>7. ASSUME NEW u \in Runs, StartRun(u) \/ QueueCommit(u) \/ Commit(u)
        PROVE  MarksTyped'
    BY <1>1, <1>7 DEF StartRun, QueueCommit, Commit, Change, durable, history
  <1>8. ASSUME NEW kind \in Kinds, StartReset(kind) PROVE MarksTyped'
    BY <1>1, <1>8 DEF StartReset, durable, history
  <1> QED BY <1>2, <1>3, <1>4, <1>5, <1>6, <1>7, <1>8 DEF StorageMove, QueueStep

(* Every variable of the server keeps its type, if the identities of save  *)
(* timers are never used up, as those of setTimeout are not. Of the drain  *)
(* this says that a pass which a reset has fenced counts no attempts.      *)
THEOREM TypesKept ==
    ASSUME ~IsFiniteSet(Timers)
    PROVE  Spec => []ServerTypeOK
  <1>1. Init => ResetTyped
    <2> SUFFICES ASSUME Init PROVE ResetTyped
      OBVIOUS
    <2>1. FilesTyped
      BY DEF Init, ResetInit, FilesTyped
    <2>2. TimersTyped
      BY DEF Init, ResetInit, TimersTyped
    <2>3. StagesTyped
      BY Constants DEF Init, ResetInit, StagesTyped, Quiet, Unsent, NoRun, ResetState,
                       RequestState, RunState, Kinds
    <2>4. FlagsTyped
      <3>1. recovery = FALSE /\ lapsed = FALSE /\ failures = 0 /\ restarts = 0
        BY DEF Init, ResetInit
      <3>2. 0 \in 0..MaxFailures /\ 0 \in 0..MaxRestarts
        BY ResetAssumption
      <3> QED BY <3>1, <3>2 DEF FlagsTyped
    <2>5. MarksTyped
      BY DEF Init, ResetInit, MarksTyped
    <2> QED BY <2>1, <2>2, <2>3, <2>4, <2>5 DEF ResetTyped
  <1>2. ResetInv /\ ResetTyped /\ [Next]_vars => ResetTyped'
    BY StorageMoves, StagesNext, TimersNext, FilesNext, FlagsNext, MarksNext
       DEF ResetTyped
  <1>3. ResetInv /\ ResetTyped /\ DrainInv /\ DeliveryTypeOK => ServerTypeOK
    BY TypesSuffice DEF DrainInv, ServerTypeOK
  <1> QED BY <1>1, <1>2, <1>3, ResetInvHolds, DrainInvHolds, DeliveryTyped, PTL DEF Spec
=============================================================================
