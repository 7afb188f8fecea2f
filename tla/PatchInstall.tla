---------------------------- MODULE PatchInstall ----------------------------
(***************************************************************************)
(* The patch installer on one source root (src/src/manager.cjs, cli.cjs,   *)
(* staging.cjs): processes that take the root lock, roll back the journal  *)
(* of an interrupted transaction, plan a transition from the files they    *)
(* find, and write it file by file under a journal of the old contents.    *)
(* A process may die between any two file operations, a write may fail,    *)
(* and the user edits the host program between two runs.                   *)
(*                                                                         *)
(* A lock file of another host, which is never broken, and file modes,     *)
(* which are saved and restored together with the contents, are left out.  *)
(***************************************************************************)
EXTENDS PatchCompose

CONSTANTS
    Procs,           \* patcher processes that run at the same time
    Files,           \* files of the host program
    Catalogs,        \* the catalogs of the installers that are run
    HostTexts,       \* the texts of the unpatched files
    Mine,            \* the token that an edit of the user adds
    BreakersOverlap, \* two patchers may meet the lock of a dead one at once
    StatusLines,     \* lines of git status that the installer looks at
    MaxCrashes,      \* bound: processes that die
    MaxFailures,     \* bound: writes that fail
    MaxEdits         \* bound: edits of the user and of staging checks

Paths == Files \cup {"state", "intent"}
LiveCommands == {"apply", "revert", "status"}

Free == [kind |-> "free"]
Stale == [kind |-> "stale"]      \* complete, of a process that is dead
Torn == [kind |-> "torn"]        \* created by a process that died writing it
Opened(p) == [kind |-> "opened", by |-> p]
Held(p) == [kind |-> "held", by |-> p]

NoJournal == [x \in {} |-> Absent]

Started(cmd) == [cmd |-> cmd, retried |-> FALSE, cat |-> Absent,
                 tree |-> Absent, before |-> Absent, todo |-> {},
                 then |-> "release"]
Idle == Started("none")
Stages == {"idle", "open", "sign", "inspect", "break", "locked", "ready",
           "planned", "restore", "write", "check", "receipt", "release"}
Critical == {"locked", "ready", "planned", "restore", "write", "check",
             "receipt"}

ASSUME InstallAssumption ==
    /\ Files \cap {"state", "intent"} = {}
    /\ HostTexts = [f \in Files |-> HostTexts[f]]
    /\ \A f \in Files : HostTexts[f] = Absent
                          \/ HostTexts[f] \in Seq(ToSet(HostTexts[f]))
    /\ \A cat \in Catalogs :
          /\ IsCatalog(cat)
          /\ \A u \in CatalogUnits(cat) : IsUnit(u) /\ u.file \in Files
    /\ {StatusLines, MaxCrashes, MaxFailures, MaxEdits} \subseteq Nat
    /\ BreakersOverlap \in BOOLEAN

VARIABLES
    disk,     \* the contents of the managed paths
    journal,  \* transaction.json: the old contents of the paths it names,
              \* of none when the file is not there
    receipt,  \* staging.json of a staged candidate
    lock,     \* lock.json
    pc,       \* where each process is
    job,      \* what it runs: command, catalog, retries, plan, what is left
    git,      \* the source root is a git working tree
    found,    \* history: the texts that the last staging run accepted
    host,     \* history: the texts the host program would have unpatched
    crashes, failures, edits

vars == <<disk, journal, receipt, lock, pc, job, git, found, host,
          crashes, failures, edits>>
logged == <<git, found, host, crashes, failures, edits>>

Init ==
    /\ disk = [x \in Paths |-> IF x \in Files THEN HostTexts[x] ELSE Absent]
    /\ journal = NoJournal
    /\ receipt = "none"
    /\ lock = Free
    /\ pc = [p \in Procs |-> "idle"]
    /\ job = [p \in Procs |-> Idle]
    /\ git \in BOOLEAN
    /\ found = HostTexts
    /\ host = HostTexts
    /\ crashes = 0 /\ failures = 0 /\ edits = 0

---------------------------------------------------------------------------
(* Planning                                                                *)

(* planTransition: the contents that the command leads to from contents d, *)
(* the target gate included.                                               *)
Planned(cmd, cat, d) ==
    LET chosen == Resolution(cat, IF cmd = "revert" THEN {} ELSE Visible(cat))
        units == UnitsOf(cat, chosen.packs)
        texts == [f \in Files |-> d[f]]
        base == IF d["state"] = Absent THEN [texts |-> texts, ok |-> TRUE]
                ELSE Strip(d["state"].units, d["state"].order, texts)
        new == Compose(units, base.texts)
    IN  IF ~(chosen.ok /\ base.ok /\ new.ok
              /\ \A p \in chosen.packs : cat[p].verified)
        THEN [ok |-> FALSE, tree |-> d, reads |-> {}]
        ELSE [ok |-> TRUE,
              reads |-> {"state", "intent"} \cup
                  {u.file : u \in ToSet(units) \cup
                      (IF d["state"] = Absent THEN {}
                       ELSE ToSet(d["state"].units))},
              tree |-> [x \in Paths |->
                  IF x \in Files THEN new.texts[x]
                  ELSE IF x = "intent"
                       THEN IF cmd = "revert" THEN "disabled" ELSE "all"
                  ELSE IF units = <<>> THEN Absent
                  ELSE [units |-> units, order |-> new.order,
                        packs |-> chosen.packs,
                        outputs |-> [f \in {u.file : u \in ToSet(units)} |->
                                        new.texts[f]]]]]

Interrupted == DOMAIN journal # {}

(* gitTrackedChanges: the files that git reports as changed. Without git    *)
(* there is none, and git is not asked for files that upstream lacks.      *)
Tracked == IF git THEN {f \in Files : HostTexts[f] # Absent} ELSE {}
TrackedChanges == {f \in Tracked : disk[f] # HostTexts[f]}
AllShown == Cardinality(TrackedChanges) <= StatusLines

(* assertFreshCandidate: no metadata of the installer and no change that   *)
(* git reports.                                                            *)
Fresh ==
    /\ disk["state"] = Absent /\ disk["intent"] = Absent
    /\ ~Interrupted /\ receipt = "none"
    /\ TrackedChanges = {}

(* Host files are written before the state, and the state before the       *)
(* intent.                                                                 *)
Rank(x) == IF x \in Files THEN 1 ELSE IF x = "state" THEN 2 ELSE 3
Foremost(todo) == {x \in todo : \A y \in todo : Rank(x) <= Rank(y)}

(* The files whose text the state records.                                 *)
Managed == IF disk["state"] = Absent THEN {}
           ELSE {u.file : u \in ToSet(disk["state"].units)}

(* assertPostCheckIntegrity: a managed file no longer has the text that    *)
(* the state records, or the lines of git status are others than before    *)
(* the checks. Of a longer status the first lines are compared, and a      *)
(* change may be in them or not.                                           *)
Drifted ==
    \/ \E f \in Managed : disk[f] # disk["state"].outputs[f]
    \/ AllShown /\ TrackedChanges \ Managed # {}

---------------------------------------------------------------------------
(* The root lock                                                           *)

Goto(p, stage) == pc' = [pc EXCEPT ![p] = stage]

(* A staging run looks for a fresh candidate before it takes the lock. The *)
(* command of any other run, and the catalog, matter once it has the lock. *)
Start(p, cmd) ==
    /\ pc[p] = "idle"
    /\ cmd = "stage" => Fresh
    /\ Goto(p, "open")
    /\ job' = [job EXCEPT ![p] = Started(cmd)]
    /\ UNCHANGED <<disk, journal, receipt, lock, logged>>

(* open(path, 'wx'): creates the lock file, or meets one.                  *)
OpenLock(p) ==
    /\ pc[p] = "open"
    /\ IF lock = Free
       THEN lock' = Opened(p) /\ Goto(p, "sign")
       ELSE lock' = lock /\ Goto(p, "inspect")
    /\ UNCHANGED <<disk, journal, receipt, job, logged>>

(* The owner is written into the file that was opened, wherever it is.     *)
SignLock(p) ==
    /\ pc[p] = "sign"
    /\ lock' = IF lock = Opened(p) THEN Held(p) ELSE lock
    /\ Goto(p, "locked")
    /\ UNCHANGED <<disk, journal, receipt, job, logged>>

(* Another process has found the lock of the same dead process.            *)
Breaking(p) == \E q \in Procs \ {p} : pc[q] = "break"

(* Mutation: a lock is broken whoever holds it.                            *)
InspectLockAny(p) ==
    /\ pc[p] = "inspect"
    /\ Goto(p, "break")
    /\ UNCHANGED <<disk, journal, receipt, lock, job, logged>>

(* Mutation: the lock of a dead process is never broken.                   *)
InspectLockNever(p) ==
    /\ pc[p] = "inspect"
    /\ Goto(p, "idle")
    /\ job' = [job EXCEPT ![p] = Idle]
    /\ UNCHANGED <<disk, journal, receipt, lock, logged>>

(* Only the complete lock of a dead process is broken, and only once.      *)
InspectLock(p) ==
    /\ pc[p] = "inspect"
    /\ IF lock = Stale /\ ~job[p].retried
       THEN (BreakersOverlap \/ ~Breaking(p)) /\ Goto(p, "break")
       ELSE Goto(p, "idle")
    /\ job' = [job EXCEPT ![p] = IF pc'[p] = "idle" THEN Idle ELSE @]
    /\ UNCHANGED <<disk, journal, receipt, lock, logged>>

(* unlink removes the file that has the name by now.                       *)
BreakLock(p) ==
    /\ pc[p] = "break"
    /\ lock' = Free
    /\ Goto(p, "open")
    /\ job' = [job EXCEPT ![p].retried = TRUE]
    /\ UNCHANGED <<disk, journal, receipt, logged>>

(* releaseRootLock removes only the lock that names its own process.       *)
Release(p) ==
    /\ pc[p] = "release"
    /\ lock' = IF lock = Held(p) THEN Free ELSE lock
    /\ Goto(p, "idle")
    /\ job' = [job EXCEPT ![p] = Idle]
    /\ UNCHANGED <<disk, journal, receipt, logged>>

---------------------------------------------------------------------------
(* Rollback, plan and transaction                                          *)

(* Under the lock the live root is rolled back first; a candidate that is  *)
(* not fresh is refused.                                                   *)
Recover(p) ==
    /\ pc[p] = "locked"
    /\ \/ /\ job[p].cmd = "stage"
          /\ Goto(p, IF Fresh THEN "ready" ELSE "release")
          /\ found' = IF Fresh THEN [f \in Files |-> disk[f]] ELSE found
          /\ UNCHANGED job
       \/ /\ job[p].cmd = "live"
          /\ UNCHANGED found
          /\ Goto(p, IF Interrupted THEN "restore" ELSE "ready")
          /\ \E cmd \in LiveCommands :
                job' = [job EXCEPT ![p].cmd = cmd, ![p].then = "ready",
                           ![p].todo = DOMAIN journal]
    /\ UNCHANGED <<disk, journal, receipt, lock, git, host,
                   crashes, failures, edits>>

RestoreFile(p) ==
    /\ pc[p] = "restore"
    /\ \E x \in Foremost(job[p].todo) :
          /\ disk' = [disk EXCEPT ![x] = journal[x]]
          /\ job' = [job EXCEPT ![p].todo = @ \ {x}]
    /\ UNCHANGED <<journal, receipt, lock, pc, logged>>

(* Mutation: the journal is removed before the last file is restored.      *)
RestoreDoneEarly(p) ==
    /\ pc[p] = "restore"
    /\ journal' = NoJournal
    /\ Goto(p, job[p].then)
    /\ UNCHANGED <<disk, receipt, lock, job, logged>>

(* The journal is removed after the last file has been restored.           *)
RestoreDone(p) ==
    /\ pc[p] = "restore" /\ job[p].todo = {}
    /\ journal' = NoJournal
    /\ Goto(p, job[p].then)
    /\ UNCHANGED <<disk, receipt, lock, job, logged>>

Plan(p, cat) ==
    /\ pc[p] = "ready"
    /\ LET plan == Planned(job[p].cmd, cat, disk)
       IN  IF job[p].cmd = "status" \/ ~plan.ok
           THEN Goto(p, "release") /\ UNCHANGED job
           ELSE /\ Goto(p, "planned")
                /\ job' = [job EXCEPT
                      ![p].cat = cat, ![p].tree = plan.tree,
                      ![p].before = [x \in plan.reads |-> disk[x]]]
    /\ UNCHANGED <<disk, journal, receipt, lock, logged>>

(* Mutation: a journal is opened although nothing changes.                 *)
BeginAlways(p) ==
    /\ pc[p] = "planned"
    /\ LET changes == {x \in Paths : disk[x] # job[p].tree[x]}
       IN  /\ journal' = [x \in changes |-> disk[x]]
           /\ job' = [job EXCEPT ![p].todo = changes]
    /\ Goto(p, "write")
    /\ UNCHANGED <<disk, receipt, lock, logged>>

(* The plan is stale if a path changed since; otherwise the old contents   *)
(* of all paths it changes go to the journal before the first write.       *)
Begin(p) ==
    /\ pc[p] = "planned"
    /\ LET changes == {x \in Paths : disk[x] # job[p].tree[x]}
       IN  IF \E x \in DOMAIN job[p].before : job[p].before[x] # disk[x]
           THEN /\ Goto(p, "release")
                /\ UNCHANGED <<journal, job>>
           ELSE IF changes = {}
           THEN /\ Goto(p, IF job[p].cmd = "stage" THEN "check" ELSE "release")
                /\ UNCHANGED <<journal, job>>
           ELSE /\ journal' = [x \in changes |-> disk[x]]
                /\ job' = [job EXCEPT ![p].todo = changes,
                                              ![p].before = Absent]
                /\ Goto(p, "write")
    /\ UNCHANGED <<disk, receipt, lock, logged>>

WriteFile(p) ==
    /\ pc[p] = "write"
    /\ \E x \in Foremost(job[p].todo) :
          /\ disk' = [disk EXCEPT ![x] = job[p].tree[x]]
          /\ job' = [job EXCEPT ![p].todo = @ \ {x}]
    /\ UNCHANGED <<journal, receipt, lock, pc, logged>>

(* Mutation: the journal is removed before the last path is written.       *)
KeepEarly(p) ==
    /\ pc[p] = "write"
    /\ journal' = NoJournal
    /\ Goto(p, "release")
    /\ UNCHANGED <<disk, receipt, lock, job, logged>>

(* Removing the journal is what keeps the transition.                      *)
Keep(p) ==
    /\ pc[p] = "write" /\ job[p].todo = {}
    /\ journal' = NoJournal
    /\ Goto(p, IF job[p].cmd = "stage" THEN "check" ELSE "release")
    /\ UNCHANGED <<disk, receipt, lock, job, logged>>

(* A write that fails starts the rollback of the own journal.              *)
WriteFails(p) ==
    /\ pc[p] = "write"
    /\ failures < MaxFailures
    /\ failures' = failures + 1
    /\ Goto(p, "restore")
    /\ job' = [job EXCEPT ![p].todo = DOMAIN journal, ![p].then = "release"]
    /\ UNCHANGED <<disk, journal, receipt, lock, git, found, host,
                   crashes, edits>>

(* A rollback that fails leaves the journal to the next process.           *)
RestoreFails(p) ==
    /\ pc[p] = "restore"
    /\ failures < MaxFailures
    /\ failures' = failures + 1
    /\ Goto(p, "release")
    /\ UNCHANGED <<disk, journal, receipt, lock, job, git, found, host,
                   crashes, edits>>

---------------------------------------------------------------------------
(* Staging checks                                                          *)

(* Installing, testing and building may change or create a file, and may   *)
(* fail.                                                                   *)
RunChecks(p) ==
    /\ pc[p] = "check"
    /\ \/ UNCHANGED <<disk, host, edits>>
       \/ \E f \in Files :
             LET edited(text) == IF text = Absent THEN <<Mine>>
                                 ELSE <<Mine>> \o text
             IN  /\ edits < MaxEdits
                 /\ edits' = edits + 1
                 /\ disk' = [disk EXCEPT ![f] = edited(@)]
                 /\ host' = [host EXCEPT ![f] =
                        IF @ = Absent /\ disk[f] # Absent THEN @ ELSE edited(@)]
    /\ Goto(p, "receipt")
    /\ UNCHANGED <<journal, receipt, lock, job, git, found, crashes, failures>>

(* Mutation: nobody looks at the sources after the checks.                 *)
WriteReceiptBlind(p) ==
    /\ pc[p] = "receipt"
    /\ receipt' \in {"ready", "failed"}
    /\ Goto(p, "release")
    /\ UNCHANGED <<disk, journal, lock, job, logged>>

(* Sources that changed under the checks fail the candidate like a check.  *)
WriteReceipt(p) ==
    /\ pc[p] = "receipt"
    /\ \/ receipt' = "failed"
       \/ receipt' = "ready" /\ ~Drifted
    /\ Goto(p, "release")
    /\ UNCHANGED <<disk, journal, lock, job, logged>>

---------------------------------------------------------------------------
(* The user and the machine                                                *)

(* The user adds a line to a file or deletes one. An edit of a file that   *)
(* an open journal names will be rolled back with it.                      *)
Edit(f) ==
    /\ \A p \in Procs : pc[p] = "idle"
    /\ edits < MaxEdits /\ disk[f] # Absent
    /\ edits' = edits + 1
    /\ LET kept == f \notin DOMAIN journal
       IN  \/ /\ disk' = [disk EXCEPT ![f] = <<Mine>> \o @]
              /\ host' = IF kept /\ host[f] # Absent
                         THEN [host EXCEPT ![f] = <<Mine>> \o @] ELSE host
           \/ \E i \in DOMAIN disk[f] :
                 /\ disk' = [disk EXCEPT ![f] = RemoveAt(@, i)]
                 /\ host' = IF kept /\ host[f] # Absent
                            THEN [host EXCEPT ![f] = Remove(@, disk[f][i])]
                            ELSE host
    /\ UNCHANGED <<journal, receipt, lock, pc, job, git, found,
                   crashes, failures>>

(* A process dies anywhere; its lock file stays.                           *)
Crash(p) ==
    /\ pc[p] # "idle" /\ crashes < MaxCrashes
    /\ crashes' = crashes + 1
    /\ lock' = CASE lock = Held(p) -> Stale
                 [] lock = Opened(p) -> Torn
                 [] OTHER -> lock
    /\ Goto(p, "idle")
    /\ job' = [job EXCEPT ![p] = Idle]
    /\ UNCHANGED <<disk, journal, receipt, git, found, host,
                   failures, edits>>

---------------------------------------------------------------------------
FileStep(p) ==
    \/ OpenLock(p) \/ SignLock(p) \/ InspectLock(p) \/ BreakLock(p)
    \/ Release(p) \/ Recover(p) \/ RestoreFile(p) \/ RestoreDone(p)
    \/ Begin(p) \/ WriteFile(p) \/ Keep(p)
    \/ RunChecks(p) \/ WriteReceipt(p)

Next ==
    \/ \E p \in Procs, cmd \in {"live", "stage"} : Start(p, cmd)
    \/ \E p \in Procs, cat \in Catalogs : Plan(p, cat)
    \/ \E p \in Procs : FileStep(p) \/ WriteFails(p) \/ RestoreFails(p)
                          \/ Crash(p)
    \/ \E f \in Files : Edit(f)

(* Planning comes to an end, which it always can.                          *)
PlanEnds(p) ==
    pc[p] = "ready" /\ pc' \in {[pc EXCEPT ![p] = s] : s \in {"planned", "release"}}

(* A process that is alive goes on, and the user runs the installer again. *)
Fairness ==
    /\ \A p \in Procs : WF_vars(FileStep(p)) /\ WF_pc(PlanEnds(p))
    /\ WF_vars(\E p \in Procs : Start(p, "live"))

Spec == Init /\ [][Next]_vars
FairSpec == Spec /\ Fairness

---------------------------------------------------------------------------
(* Properties                                                              *)

InstallTypeOK ==
    /\ DOMAIN disk = Paths
    /\ DOMAIN journal \subseteq Paths
    /\ receipt \in {"none", "ready", "failed"}
    /\ git \in BOOLEAN /\ DOMAIN found = Files
    /\ lock \in {Free, Stale, Torn} \cup {Opened(p) : p \in Procs}
                  \cup {Held(p) : p \in Procs}
    /\ pc \in [Procs -> Stages]
    /\ DOMAIN job = Procs
    /\ \A p \in Procs :
          /\ DOMAIN job[p] = DOMAIN Idle
          /\ job[p].then \in {"ready", "release"}
          /\ pc[p] \in {"ready", "planned", "check", "receipt"} => ~Interrupted
          /\ pc[p] \in {"write", "restore"} =>
                Interrupted /\ job[p].todo \subseteq DOMAIN journal

(* One exclusive lock serializes recovery, planning and writing: two       *)
(* processes are never between taking and releasing the lock together.     *)
LockExcludes ==
    \A p, q \in Procs : pc[p] \in Critical /\ pc[q] \in Critical => p = q

(* Outside a transaction an installation that was taken back has left      *)
(* nothing: the host files have exactly the texts they would have had if   *)
(* the installer had never run, with every edit of the user.               *)
RevertRestoresHost ==
    ~Interrupted /\ disk["state"] = Absent =>
        \A f \in Files : disk[f] = host[f]

(* Below the installed units lie the texts of the user: whenever an        *)
(* installation can be taken back, that gives the unpatched texts, also    *)
(* after upgrades to other units, crashes and rollbacks.                   *)
HostUnderUnits ==
    ~Interrupted /\ disk["state"] # Absent =>
        LET base == Strip(disk["state"].units, disk["state"].order,
                          [f \in Files |-> disk[f]])
        IN  base.ok => base.texts = host

(* The selection that is installed is closed: it holds what its packs      *)
(* require and no two packs that conflict, and nothing in it was           *)
(* superseded by another pack of it.                                       *)
SelectionClosed ==
    \A p \in Procs : pc[p] = "write" /\ job[p].tree["state"] # Absent =>
        LET cat == job[p].cat
            packs == job[p].tree["state"].packs
        IN  \A i, j \in DOMAIN cat :
                i \in packs =>
                    /\ j \in cat[i].requires => j \in packs
                    /\ j \in cat[i].conflicts \cup ToSet(cat[i].supersedes)
                         => j \notin packs

(* A candidate is declared ready only with the whole plan of a catalog on  *)
(* the texts that the staging run accepted: its metadata, and every        *)
(* managed file with the text of the plan, whatever the checks did. A file *)
(* without units that git tracks has the upstream text, as far as the      *)
(* lines of git status that are compared show it.                          *)
ReadyIsWhole ==
    receipt # "ready" /\ receipt' = "ready" =>
        /\ ~Interrupted
        /\ \E cat \in Catalogs :
              LET accepted == [x \in Paths |->
                                  IF x \in Files THEN found[x] ELSE Absent]
                  tree == Planned("stage", cat, accepted).tree
              IN  \A x \in (Paths \ Files) \cup Managed : disk[x] = tree[x]
        /\ \A f \in Tracked :
              /\ found[f] = HostTexts[f]
              /\ AllShown => f \in Managed \/ disk[f] = HostTexts[f]
ReadyOnlyWhole == [][ReadyIsWhole]_vars

(* A transaction that a death or a failed rollback interrupted is rolled   *)
(* back or finished as long as the installer is run again, unless a        *)
(* process died between creating its lock file and writing it: that file   *)
(* cannot be told from one still being written and blocks every run.       *)
TransactionEnds == Interrupted ~> (~Interrupted \/ lock = Torn)

(* The tree as the next run will find it: an open journal counts as rolled *)
(* back.                                                                   *)
Tree == [x \in Paths |-> IF x \in DOMAIN journal THEN journal[x] ELSE disk[x]]
Installation(t, u) ==
    \E cmd \in {"apply", "revert"}, cat \in Catalogs :
        Planned(cmd, cat, t).ok /\ u = Planned(cmd, cat, t).tree
Atomic == INSTANCE AtomicInstall WITH tree <- Tree

(* The installer, with its files, crashes and rollbacks, changes the tree  *)
(* only from one complete installation to another.                         *)
InstallsAtomically == Atomic!Spec
=============================================================================
