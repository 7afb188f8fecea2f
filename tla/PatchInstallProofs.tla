------------------------- MODULE PatchInstallProofs -------------------------
(***************************************************************************)
(* Theorems about the patch installer, for every number of processes,      *)
(* files, catalogs, deaths and edits. They assume that no two patchers     *)
(* have found the lock of one dead process: without that the lock does     *)
(* not exclude (the run lock_race).                                        *)
(*                                                                         *)
(* The argument goes from the lock to the journal. LockInv says whose name *)
(* is in the lock file at each stage of a process, so only one process is  *)
(* past the lock. JournalInv says how far that process is: the paths that  *)
(* are still to be written or restored are named by the journal, and the   *)
(* others have their new or old contents. So the tree as the next run will *)
(* find it changes only when the journal is removed.                       *)
(***************************************************************************)
EXTENDS PatchInstall, PatchComposeProofs

Typed ==
    /\ disk = [x \in Paths |-> disk[x]]
    /\ DOMAIN journal \subseteq Paths
    /\ receipt \in {"none", "ready", "failed"}
    /\ git \in BOOLEAN
    /\ found = [f \in Files |-> found[f]]
    /\ git => \A f \in Files : HostTexts[f] # Absent => found[f] = HostTexts[f]
    /\ lock \in {Free, Stale, Torn} \cup {Opened(p) : p \in Procs}
                  \cup {Held(p) : p \in Procs}
    /\ pc \in [Procs -> Stages]
    /\ DOMAIN job = Procs
    /\ \A p \in Procs : /\ DOMAIN job[p] = DOMAIN Idle
                        /\ job[p].then \in {"ready", "release"}

LockInv ==
    \A p \in Procs :
        /\ pc[p] = "sign" => lock = Opened(p)
        /\ pc[p] \in Critical \cup {"release"} => lock = Held(p)
        /\ pc[p] = "break" => lock = Stale /\ ~Breaking(p)

JournalAt(p) ==
    /\ pc[p] \in {"ready", "planned", "check", "receipt"} => ~Interrupted
    /\ pc[p] = "planned" =>
          /\ job[p].cat \in Catalogs
          /\ Planned(job[p].cmd, job[p].cat, disk).ok
          /\ job[p].tree = Planned(job[p].cmd, job[p].cat, disk).tree
    /\ pc[p] \in {"write", "restore"} =>
          Interrupted /\ job[p].todo \subseteq DOMAIN journal
    /\ pc[p] = "write" =>
          /\ job[p].cat \in Catalogs
          /\ Planned(job[p].cmd, job[p].cat, Tree).ok
          /\ job[p].tree = Planned(job[p].cmd, job[p].cat, Tree).tree
          /\ \A x \in Paths \ job[p].todo : disk[x] = job[p].tree[x]
    /\ pc[p] = "restore" =>
          \A x \in DOMAIN journal \ job[p].todo : disk[x] = journal[x]

JournalInv == \A p \in Procs : JournalAt(p)

(* The contents of the lock file are told apart.                           *)
LEMMA LocksDiffer ==
    ASSUME NEW p, NEW q
    PROVE  /\ Opened(p) \notin {Free, Stale, Torn, Held(q)}
           /\ Held(p) \notin {Free, Stale, Torn, Opened(q)}
           /\ Stale \notin {Free, Torn}
           /\ Free # Torn
           /\ Opened(p) = Opened(q) => p = q
           /\ Held(p) = Held(q) => p = q
  <1>1. /\ Opened(p).kind = "opened" /\ Held(q).kind = "held"
        /\ Opened(q).kind = "opened" /\ Held(p).kind = "held"
        /\ Free.kind = "free" /\ Stale.kind = "stale" /\ Torn.kind = "torn"
    BY DEF Opened, Held, Free, Stale, Torn
  <1>2. /\ Opened(p).by = p /\ Opened(q).by = q
        /\ Held(p).by = p /\ Held(q).by = q
    BY DEF Opened, Held
  <1>. QED  BY <1>1, <1>2

(* A plan gives a content to every path.                                   *)
LEMMA PlannedPaths ==
    ASSUME NEW cmd, NEW cat, NEW d, Planned(cmd, cat, d).ok
    PROVE  LET tree == Planned(cmd, cat, d).tree
           IN  tree = [x \in Paths |-> tree[x]]
  BY DEF Planned

(* Only the command revert plans for an empty selection.                   *)
LEMMA PlannedAlike ==
    ASSUME NEW cmd, NEW cat, NEW d, cmd # "revert"
    PROVE  Planned(cmd, cat, d) = Planned("apply", cat, d)
  BY DEF Planned

LEMMA PlannedInstalls ==
    ASSUME NEW cmd, NEW cat \in Catalogs, NEW d, Planned(cmd, cat, d).ok
    PROVE  Installation(d, Planned(cmd, cat, d).tree)
  <1>1. CASE cmd = "revert"
    BY <1>1 DEF Installation
  <1>2. CASE cmd # "revert"
    BY <1>2, PlannedAlike DEF Installation
  <1>. QED  BY <1>1, <1>2

---------------------------------------------------------------------------
LEMMA InitTyped == Init => Typed /\ LockInv /\ JournalInv
<1> SUFFICES ASSUME Init PROVE Typed /\ LockInv /\ JournalInv
    OBVIOUS
<1>1. git \in BOOLEAN
  BY DEF Init
<1>2. found = [f \in Files |-> found[f]] /\ \A f \in Files : found[f] = HostTexts[f]
  BY InstallAssumption DEF Init
<1>. QED
  BY <1>1, <1>2, LocksDiffer DEF Init, Typed, LockInv, JournalInv, JournalAt,
     Idle, Started, Stages, Critical, NoJournal, Paths

(* Every step keeps the types and the domains.                             *)
LEMMA NextTyped == Typed /\ [Next]_vars => Typed'
<1> SUFFICES ASSUME Typed, [Next]_vars PROVE Typed'
    OBVIOUS
<1> USE DEF Typed, logged
<1>1. ASSUME NEW p \in Procs, NEW cmd, Start(p, cmd) PROVE Typed'
    BY <1>1 DEF Start, Goto, Idle, Started, Stages
<1>2. ASSUME NEW p \in Procs, NEW cat, Plan(p, cat) PROVE Typed'
  <2>1. pc' \in [Procs -> Stages]
    BY <1>2 DEF Plan, Goto, Stages
  <2>2. /\ DOMAIN job' = Procs
        /\ \A q \in Procs : /\ DOMAIN job'[q] = DOMAIN Idle
                            /\ job'[q].then \in {"ready", "release"}
    <3> DEFINE t == Planned(job[p].cmd, cat, disk).tree
               r == [x \in Planned(job[p].cmd, cat, disk).reads |-> disk[x]]
    <3>1. \/ job' = job
          \/ job' = [job EXCEPT ![p].cat = cat, ![p].tree = t, ![p].before = r]
      BY <1>2, Zenon DEF Plan
    <3> HIDE DEF t, r
    <3>. QED  BY <3>1 DEF Idle, Started
  <2>. QED  BY <1>2, <2>1, <2>2 DEF Plan
<1>3. ASSUME NEW p \in Procs, OpenLock(p) PROVE Typed'
    BY <1>3 DEF OpenLock, Goto, Stages
<1>4. ASSUME NEW p \in Procs, SignLock(p) PROVE Typed'
    BY <1>4 DEF SignLock, Goto, Stages
<1>5. ASSUME NEW p \in Procs, InspectLock(p) PROVE Typed'
    BY <1>5 DEF InspectLock, Goto, Idle, Started, Stages
<1>6. ASSUME NEW p \in Procs, BreakLock(p) PROVE Typed'
    BY <1>6 DEF BreakLock, Goto, Idle, Started, Stages
<1>7. ASSUME NEW p \in Procs, Release(p) PROVE Typed'
    BY <1>7 DEF Release, Goto, Idle, Started, Stages
<1>8. ASSUME NEW p \in Procs, Recover(p) PROVE Typed'
  <2>1. pc' \in [Procs -> Stages]
    BY <1>8 DEF Recover, Goto, Stages
  <2>2. /\ DOMAIN job' = Procs
        /\ \A q \in Procs : /\ DOMAIN job'[q] = DOMAIN Idle
                            /\ job'[q].then \in {"ready", "release"}
    <3>1. CASE job' = job
      BY <3>1
    <3>2. ASSUME NEW cmd \in LiveCommands,
                 job' = [job EXCEPT ![p].cmd = cmd, ![p].then = "ready",
                            ![p].todo = DOMAIN journal]
          PROVE  <2>2!:
      BY <3>2 DEF Idle, Started
    <3>. QED  BY <1>8, <3>1, <3>2 DEF Recover
  <2>3. /\ found' = [f \in Files |-> found'[f]]
        /\ git => \A f \in Files :
                     HostTexts[f] # Absent => found'[f] = HostTexts[f]
    <3>1. CASE found' = found
      BY <3>1
    <3>2. CASE Fresh /\ found' = [f \in Files |-> disk[f]]
      BY <3>2 DEF Fresh, TrackedChanges, Tracked
    <3>. QED  BY <1>8, <3>1, <3>2 DEF Recover
  <2>. QED  BY <1>8, <2>1, <2>2, <2>3 DEF Recover
<1>9. ASSUME NEW p \in Procs, RestoreFile(p) PROVE Typed'
    BY <1>9 DEF RestoreFile, Idle, Started
<1>10. ASSUME NEW p \in Procs, RestoreDone(p) PROVE Typed'
    BY <1>10 DEF RestoreDone, Goto, Stages, NoJournal
<1>11. ASSUME NEW p \in Procs, Begin(p) PROVE Typed'
  <2>1. pc' \in [Procs -> Stages]
    BY <1>11 DEF Begin, Goto, Stages
  <2>3. DOMAIN journal' \subseteq Paths
    BY <1>11 DEF Begin
  <2>2. /\ DOMAIN job' = Procs
        /\ \A q \in Procs : /\ DOMAIN job'[q] = DOMAIN Idle
                            /\ job'[q].then \in {"ready", "release"}
    <3>1. CASE job' = job
      BY <3>1
    <3>2. ASSUME NEW t,
                 job' = [job EXCEPT ![p].todo = t, ![p].before = Absent]
          PROVE  <2>2!:
      BY <3>2 DEF Idle, Started
    <3>. QED  BY <1>11, <3>1, <3>2 DEF Begin
  <2>. QED  BY <1>11, <2>1, <2>2, <2>3 DEF Begin
<1>12. ASSUME NEW p \in Procs, WriteFile(p) PROVE Typed'
    BY <1>12 DEF WriteFile, Idle, Started
<1>13. ASSUME NEW p \in Procs, Keep(p) PROVE Typed'
    BY <1>13 DEF Keep, Goto, Stages, NoJournal
<1>14. ASSUME NEW p \in Procs, RunChecks(p) PROVE Typed'
    BY <1>14 DEF RunChecks, Goto, Stages
<1>15. ASSUME NEW p \in Procs, WriteReceipt(p) PROVE Typed'
    BY <1>15 DEF WriteReceipt, Goto, Stages
<1>16. ASSUME NEW p \in Procs, WriteFails(p) PROVE Typed'
    BY <1>16 DEF WriteFails, Goto, Idle, Started, Stages
<1>17. ASSUME NEW p \in Procs, RestoreFails(p) PROVE Typed'
    BY <1>17 DEF RestoreFails, Goto, Stages
<1>18. ASSUME NEW p \in Procs, Crash(p) PROVE Typed'
    BY <1>18 DEF Crash, Goto, Idle, Started, Stages
<1>19. ASSUME NEW f \in Files, Edit(f) PROVE Typed'
    BY <1>19 DEF Edit
<1>20. CASE UNCHANGED vars
    BY <1>20 DEF vars
<1>. QED
    BY <1>1, <1>2, <1>3, <1>4, <1>5, <1>6, <1>7, <1>8, <1>9, <1>10, <1>11,
       <1>12, <1>13, <1>14, <1>15, <1>16, <1>17, <1>18, <1>19, <1>20
       DEF Next, FileStep

(* A process that stays behind the lock keeps it.                          *)
LEMMA StaysBehind ==
    ASSUME Typed, LockInv, NEW p \in Procs, lock' = lock,
           pc[p] \in Critical, NEW s \in Critical \cup {"release"},
           pc' = [pc EXCEPT ![p] = s] \/ pc' = pc
    PROVE  LockInv'
  <1>1. lock = Held(p)
    BY DEF LockInv
  <1>2. \A q \in Procs : pc[q] \notin {"sign", "break"}
    BY <1>1, LocksDiffer DEF LockInv
  <1>3. \A q \in Procs : pc'[q] \notin {"sign", "break"}
    BY <1>2 DEF Typed, Critical
  <1>. QED  BY <1>1, <1>3 DEF LockInv, Typed

(* The stages of the processes follow the lock file.                       *)
LEMMA NextLock ==
    ASSUME ~BreakersOverlap, Typed, LockInv, [Next]_vars
    PROVE  LockInv'
<1> USE DEF logged, Critical
<1>1. ASSUME NEW p \in Procs, NEW cmd, Start(p, cmd) PROVE LockInv'
    BY <1>1 DEF Start, Goto, LockInv, Breaking, Typed
<1>2. ASSUME NEW p \in Procs, NEW cat, Plan(p, cat) PROVE LockInv'
  <2>1. \E s \in Critical \cup {"release"} : pc' = [pc EXCEPT ![p] = s]
    BY <1>2 DEF Plan, Goto
  <2>. QED  BY <1>2, <2>1, StaysBehind DEF Plan
<1>3. ASSUME NEW p \in Procs, OpenLock(p) PROVE LockInv'
  <2>1. CASE lock = Free
    <3>1. \A q \in Procs : pc[q] \notin {"sign", "break", "release"} \cup Critical
      BY <2>1, LocksDiffer DEF LockInv
    <3>. QED  BY <1>3, <2>1, <3>1 DEF OpenLock, Goto, LockInv, Typed
  <2>2. CASE lock # Free
    BY <1>3, <2>2 DEF OpenLock, Goto, LockInv, Breaking, Typed
  <2>. QED  BY <2>1, <2>2
<1>4. ASSUME NEW p \in Procs, SignLock(p) PROVE LockInv'
  <2>1. lock = Opened(p) /\ lock' = Held(p)
    BY <1>4 DEF SignLock, LockInv
  <2>2. \A q \in Procs \ {p} :
            pc[q] \notin {"sign", "break", "release"} \cup Critical
    BY <2>1, LocksDiffer DEF LockInv
  <2>. QED  BY <1>4, <2>1, <2>2 DEF SignLock, Goto, LockInv, Typed
<1>5. ASSUME NEW p \in Procs, InspectLock(p) PROVE LockInv'
  <2>1. CASE pc' = [pc EXCEPT ![p] = "break"] /\ lock = Stale /\ ~Breaking(p)
    BY <1>5, <2>1, LocksDiffer DEF InspectLock, LockInv, Breaking, Typed
  <2>2. CASE pc' = [pc EXCEPT ![p] = "idle"]
    BY <1>5, <2>2 DEF InspectLock, LockInv, Breaking, Typed
  <2>. QED  BY <1>5, <2>1, <2>2 DEF InspectLock, Goto
<1>6. ASSUME NEW p \in Procs, BreakLock(p) PROVE LockInv'
  <2>1. lock = Stale
    BY <1>6 DEF BreakLock, LockInv
  <2>2. \A q \in Procs \ {p} :
            pc[q] \notin {"sign", "break", "release"} \cup Critical
    BY <1>6, <2>1, LocksDiffer DEF LockInv, BreakLock, Breaking
  <2>. QED  BY <1>6, <2>2 DEF BreakLock, Goto, LockInv, Typed
<1>7. ASSUME NEW p \in Procs, Release(p) PROVE LockInv'
  <2>1. lock = Held(p)
    BY <1>7 DEF Release, LockInv
  <2>2. \A q \in Procs \ {p} :
            pc[q] \notin {"sign", "break", "release"} \cup Critical
    BY <2>1, LocksDiffer DEF LockInv
  <2>. QED  BY <1>7, <2>2 DEF Release, Goto, LockInv, Typed
<1>8. ASSUME NEW p \in Procs, Recover(p) PROVE LockInv'
  <2>1. \E s \in Critical \cup {"release"} : pc' = [pc EXCEPT ![p] = s]
    BY <1>8 DEF Recover, Goto
  <2>. QED  BY <1>8, <2>1, StaysBehind DEF Recover
<1>9. ASSUME NEW p \in Procs, RestoreFile(p) PROVE LockInv'
    BY <1>9, StaysBehind DEF RestoreFile
<1>10. ASSUME NEW p \in Procs, RestoreDone(p) PROVE LockInv'
  <2>1. \E s \in Critical \cup {"release"} : pc' = [pc EXCEPT ![p] = s]
    BY <1>10 DEF RestoreDone, Goto, Typed
  <2>. QED  BY <1>10, <2>1, StaysBehind DEF RestoreDone
<1>11. ASSUME NEW p \in Procs, Begin(p) PROVE LockInv'
  <2>1. \E s \in Critical \cup {"release"} : pc' = [pc EXCEPT ![p] = s]
    BY <1>11 DEF Begin, Goto
  <2>. QED  BY <1>11, <2>1, StaysBehind DEF Begin
<1>12. ASSUME NEW p \in Procs, WriteFile(p) PROVE LockInv'
    BY <1>12, StaysBehind DEF WriteFile
<1>13. ASSUME NEW p \in Procs, Keep(p) PROVE LockInv'
  <2>1. \E s \in Critical \cup {"release"} : pc' = [pc EXCEPT ![p] = s]
    BY <1>13 DEF Keep, Goto
  <2>. QED  BY <1>13, <2>1, StaysBehind DEF Keep
<1>14. ASSUME NEW p \in Procs, RunChecks(p) PROVE LockInv'
    BY <1>14, StaysBehind DEF RunChecks, Goto
<1>15. ASSUME NEW p \in Procs, WriteReceipt(p) PROVE LockInv'
    BY <1>15, StaysBehind DEF WriteReceipt, Goto
<1>16. ASSUME NEW p \in Procs, WriteFails(p) PROVE LockInv'
    BY <1>16, StaysBehind DEF WriteFails, Goto
<1>17. ASSUME NEW p \in Procs, RestoreFails(p) PROVE LockInv'
    BY <1>17, StaysBehind DEF RestoreFails, Goto
<1>18. ASSUME NEW p \in Procs, Crash(p) PROVE LockInv'
  <2>1. CASE lock \in {Held(p), Opened(p)}
    <3>1. \A q \in Procs \ {p} :
            pc[q] \notin {"sign", "break", "release"} \cup Critical
      BY <2>1, LocksDiffer DEF LockInv
    <3>. QED  BY <1>18, <3>1 DEF Crash, Goto, LockInv, Typed
  <2>2. CASE lock \notin {Held(p), Opened(p)}
    <3>1. lock' = lock /\ pc' = [pc EXCEPT ![p] = "idle"]
      BY <1>18, <2>2 DEF Crash, Goto
    <3>. QED  BY <3>1 DEF LockInv, Breaking, Typed
  <2>. QED  BY <2>1, <2>2
<1>19. ASSUME NEW f \in Files, Edit(f) PROVE LockInv'
    BY <1>19 DEF Edit, LockInv, Breaking
<1>20. CASE UNCHANGED vars
    BY <1>20 DEF vars, LockInv, Breaking
<1>. QED
    BY <1>1, <1>2, <1>3, <1>4, <1>5, <1>6, <1>7, <1>8, <1>9, <1>10, <1>11,
       <1>12, <1>13, <1>14, <1>15, <1>16, <1>17, <1>18, <1>19, <1>20
       DEF Next, FileStep

(* Only one process is behind the lock.                                    *)
LEMMA OneBehind ==
    ASSUME LockInv, NEW p \in Procs, NEW q \in Procs,
           pc[p] \in Critical \cup {"release"}, pc[q] \in Critical \cup {"release"}
    PROVE  p = q
  BY LocksDiffer DEF LockInv

---------------------------------------------------------------------------
(* A step of a process before or after the lock leaves the others' plans.  *)
LEMMA OutsideKeeps ==
    ASSUME Typed, JournalInv, UNCHANGED <<disk, journal>>, NEW p \in Procs,
           NEW s \in {"idle", "open", "sign", "inspect", "break", "locked",
                      "release"},
           pc' = [pc EXCEPT ![p] = s],
           \A q \in Procs \ {p} : job'[q] = job[q]
    PROVE  JournalInv'
  <1>1. pc'[p] = s /\ \A q \in Procs \ {p} : pc'[q] = pc[q]
    BY DEF Typed
  <1>2. Tree' = Tree
    BY DEF Tree
  <1>3. ASSUME NEW q \in Procs PROVE JournalAt(q)'
    <2>1. CASE q = p
      BY <1>1, <2>1 DEF JournalAt
    <2>2. CASE q # p
      BY <1>1, <1>2, <2>2 DEF JournalInv, JournalAt, Interrupted
    <2>. QED  BY <2>1, <2>2
  <1>. QED  BY <1>3 DEF JournalInv

(* Behind the lock a process is alone.                                     *)
LEMMA InsideAlone ==
    ASSUME LockInv, NEW p \in Procs, pc[p] \in Critical,
           \A q \in Procs \ {p} : pc'[q] = pc[q],
           JournalAt(p)'
    PROVE  JournalInv'
  <1>1. \A q \in Procs \ {p} : pc'[q] \notin Critical
    BY OneBehind
  <1>2. \A q \in Procs \ {p} : JournalAt(q)'
    BY <1>1 DEF JournalAt, Critical
  <1>. QED  BY <1>2 DEF JournalInv

LEMMA PlanJournal ==
    ASSUME Typed, LockInv, JournalInv, NEW p \in Procs, NEW cat \in Catalogs,
           Plan(p, cat)
    PROVE  JournalInv'
  <1>1. pc[p] \in Critical
    BY DEF Plan, Critical
  <1>2. \A q \in Procs \ {p} : pc'[q] = pc[q]
    BY DEF Plan, Goto, Typed
  <1>3. JournalAt(p)'
    <2>1. ~Interrupted'
      BY DEF Plan, JournalInv, JournalAt, Interrupted
    <2>2. CASE pc'[p] = "planned"
      <3>1. /\ Planned(job[p].cmd, cat, disk).ok
            /\ job' = [job EXCEPT
                  ![p].cat = cat, ![p].tree = Planned(job[p].cmd, cat, disk).tree,
                  ![p].before = [x \in Planned(job[p].cmd, cat, disk).reads |-> disk[x]]]
            /\ disk' = disk
        BY <2>2 DEF Plan, Goto, Typed
      <3>2. /\ job'[p].cmd = job[p].cmd
            /\ job'[p].cat = cat
            /\ job'[p].tree = Planned(job[p].cmd, cat, disk).tree
        BY <3>1 DEF Typed, Idle, Started
      <3>. QED  BY <2>1, <2>2, <3>1, <3>2 DEF JournalAt
    <2>3. CASE pc'[p] = "release"
      BY <2>3 DEF JournalAt
    <2>. QED  BY <2>2, <2>3 DEF Plan, Goto, Typed
  <1>. QED  BY <1>1, <1>2, <1>3, InsideAlone

LEMMA BeginJournal ==
    ASSUME Typed, LockInv, JournalInv, NEW p \in Procs, Begin(p)
    PROVE  JournalInv'
  <1>1. pc[p] \in Critical /\ pc[p] = "planned"
    BY DEF Begin, Critical
  <1>2. \A q \in Procs \ {p} : pc'[q] = pc[q]
    BY DEF Begin, Goto, Typed
  <1>3. ~Interrupted /\ Tree = disk
    BY <1>1 DEF JournalInv, JournalAt, Interrupted, Tree, Typed
  <1>4. JournalAt(p)'
    <2> DEFINE changes == {x \in Paths : disk[x] # job[p].tree[x]}
    <2>1. CASE pc'[p] = "write"
      <3>1. /\ changes # {}
            /\ journal' = [x \in changes |-> disk[x]]
            /\ job' = [job EXCEPT ![p].todo = changes, ![p].before = Absent]
            /\ disk' = disk
        BY <2>1 DEF Begin, Goto, Typed
      <3>2. /\ job'[p].cmd = job[p].cmd /\ job'[p].cat = job[p].cat
            /\ job'[p].tree = job[p].tree /\ job'[p].todo = changes
        BY <3>1 DEF Typed, Idle, Started
      <3>3. Interrupted' /\ DOMAIN journal' = changes
        BY <3>1 DEF Interrupted
      <3>4. Tree' = disk
        BY <3>1, <3>3 DEF Tree, Typed
      <3>5. /\ job[p].cat \in Catalogs
            /\ Planned(job[p].cmd, job[p].cat, disk).ok
            /\ job[p].tree = Planned(job[p].cmd, job[p].cat, disk).tree
        BY <1>1 DEF JournalInv, JournalAt
      <3>6. \A x \in Paths \ changes : disk'[x] = job'[p].tree[x]
        BY <3>1, <3>2
      <3>. QED  BY <2>1, <3>2, <3>3, <3>4, <3>5, <3>6 DEF JournalAt
    <2>2. CASE pc'[p] \in {"check", "release"}
      <3>1. journal' = journal
        BY <2>2 DEF Begin, Goto, Typed
      <3>. QED  BY <1>3, <2>2, <3>1 DEF JournalAt, Interrupted
    <2>. QED  BY <2>1, <2>2 DEF Begin, Goto, Typed
  <1>. QED  BY <1>1, <1>2, <1>4, InsideAlone

LEMMA RecoverJournal ==
    ASSUME Typed, LockInv, JournalInv, NEW p \in Procs, Recover(p)
    PROVE  JournalInv'
  <1>1. pc[p] \in Critical
    BY DEF Recover, Critical
  <1>2. \A q \in Procs \ {p} : pc'[q] = pc[q]
    BY DEF Recover, Goto, Typed
  <1>3. JournalAt(p)'
    <2>1. CASE job[p].cmd = "stage"
      BY <2>1 DEF Recover, Goto, Typed, Fresh, Interrupted, JournalAt
    <2>2. CASE job[p].cmd = "live"
      <3>1. PICK cmd \in LiveCommands :
                job' = [job EXCEPT ![p].cmd = cmd, ![p].then = "ready",
                           ![p].todo = DOMAIN journal]
        BY <2>2 DEF Recover
      <3>2. job'[p].todo = DOMAIN journal
        BY <3>1 DEF Typed, Idle, Started
      <3>3. /\ journal' = journal
            /\ pc'[p] = IF Interrupted THEN "restore" ELSE "ready"
        BY <2>2 DEF Recover, Goto, Typed
      <3>. QED  BY <3>2, <3>3 DEF JournalAt, Interrupted
    <2>. QED  BY <2>1, <2>2 DEF Recover
  <1>. QED  BY <1>1, <1>2, <1>3, InsideAlone

(* Writing a path that the journal names.                                  *)
LEMMA WriteJournal ==
    ASSUME Typed, LockInv, JournalInv, NEW p \in Procs, WriteFile(p)
    PROVE  JournalInv' /\ Tree' = Tree
  <1>1. pc[p] \in Critical /\ pc[p] = "write" /\ pc' = pc /\ journal' = journal
    BY DEF WriteFile, Critical
  <1>2. PICK x \in job[p].todo :
            /\ disk' = [disk EXCEPT ![x] = job[p].tree[x]]
            /\ job' = [job EXCEPT ![p].todo = job[p].todo \ {x}]
    BY DEF WriteFile, Foremost
  <1>3. x \in DOMAIN journal /\ x \in Paths
    BY <1>1 DEF JournalInv, JournalAt, Typed
  <1>4. Tree' = Tree
    BY <1>1, <1>2, <1>3 DEF Tree, Typed
  <1>5. /\ job'[p].todo = job[p].todo \ {x} /\ job'[p].tree = job[p].tree
        /\ job'[p].cmd = job[p].cmd /\ job'[p].cat = job[p].cat
    BY <1>2 DEF Typed, Idle, Started
  <1>6. \A y \in Paths \ job'[p].todo : disk'[y] = job'[p].tree[y]
    <2> SUFFICES ASSUME NEW y \in Paths \ job'[p].todo
                 PROVE  disk'[y] = job[p].tree[y]
        BY <1>5
    <2>1. CASE y = x
      BY <1>2, <1>3, <2>1 DEF Typed
    <2>2. CASE y # x
      BY <1>1, <1>2, <1>5, <2>2 DEF JournalInv, JournalAt, Typed
    <2>. QED  BY <2>1, <2>2
  <1>7. JournalAt(p)'
    BY <1>1, <1>4, <1>5, <1>6 DEF JournalInv, JournalAt, Interrupted
  <1>. QED  BY <1>1, <1>4, <1>7, InsideAlone

(* Restoring a path that the journal names.                                *)
LEMMA RestoreJournal ==
    ASSUME Typed, LockInv, JournalInv, NEW p \in Procs, RestoreFile(p)
    PROVE  JournalInv' /\ Tree' = Tree
  <1>1. pc[p] \in Critical /\ pc[p] = "restore" /\ pc' = pc /\ journal' = journal
    BY DEF RestoreFile, Critical
  <1>2. PICK x \in job[p].todo :
            /\ disk' = [disk EXCEPT ![x] = journal[x]]
            /\ job' = [job EXCEPT ![p].todo = job[p].todo \ {x}]
    BY DEF RestoreFile, Foremost
  <1>3. x \in DOMAIN journal /\ x \in Paths
    BY <1>1 DEF JournalInv, JournalAt, Typed
  <1>4. Tree' = Tree
    BY <1>1, <1>2, <1>3 DEF Tree, Typed
  <1>5. job'[p].todo = job[p].todo \ {x}
    BY <1>2 DEF Typed, Idle, Started
  <1>6. \A y \in DOMAIN journal' \ job'[p].todo : disk'[y] = journal'[y]
    BY <1>1, <1>2, <1>3, <1>5 DEF JournalInv, JournalAt, Typed
  <1>7. JournalAt(p)'
    BY <1>1, <1>5, <1>6 DEF JournalInv, JournalAt, Interrupted
  <1>. QED  BY <1>1, <1>4, <1>7, InsideAlone

LEMMA ClosedTree == Typed /\ ~Interrupted => Tree = disk
  BY DEF Typed, Interrupted, Tree

(* Keeping a transition and finishing a rollback both remove the journal:  *)
(* the first switches the tree, the second leaves it.                      *)
LEMMA KeepSwitches ==
    ASSUME Typed, Typed', LockInv, JournalInv, NEW p \in Procs, Keep(p)
    PROVE  JournalInv' /\ Installation(Tree, Tree')
  <1>1. /\ pc[p] \in Critical /\ pc[p] = "write" /\ job[p].todo = {}
        /\ disk' = disk /\ journal' = NoJournal
    BY DEF Keep, Critical
  <1>2. ~Interrupted'
    BY <1>1 DEF Interrupted, NoJournal
  <1>3. Tree' = disk
    BY <1>1, <1>2 DEF Interrupted, Tree, Typed
  <1>4. disk = job[p].tree
    <2>1. job[p].tree = [x \in Paths |-> job[p].tree[x]]
      BY <1>1, PlannedPaths DEF JournalInv, JournalAt
    <2>2. \A x \in Paths : disk[x] = job[p].tree[x]
      BY <1>1 DEF JournalInv, JournalAt
    <2>. QED  BY <2>1, <2>2 DEF Typed
  <1>5. \A q \in Procs \ {p} : pc'[q] = pc[q]
    BY DEF Keep, Goto, Typed
  <1>6. JournalAt(p)'
    BY <1>2 DEF JournalAt, Keep, Goto, Typed
  <1>7. Installation(Tree, job[p].tree)
    BY <1>1, PlannedInstalls DEF JournalInv, JournalAt
  <1>. QED  BY <1>1, <1>3, <1>4, <1>5, <1>6, <1>7, InsideAlone

LEMMA RestoreEnds ==
    ASSUME Typed, LockInv, JournalInv, NEW p \in Procs, RestoreDone(p)
    PROVE  JournalInv' /\ Tree' = Tree
  <1>1. /\ pc[p] \in Critical /\ pc[p] = "restore" /\ job[p].todo = {}
        /\ disk' = disk /\ journal' = NoJournal
    BY DEF RestoreDone, Critical
  <1>2. ~Interrupted'
    BY <1>1 DEF Interrupted, NoJournal
  <1>3. Tree' = Tree
    BY <1>1 DEF Tree, NoJournal, JournalInv, JournalAt
  <1>4. \A q \in Procs \ {p} : pc'[q] = pc[q]
    BY DEF RestoreDone, Goto, Typed
  <1>5. JournalAt(p)'
    BY <1>2 DEF JournalAt, RestoreDone, Goto, Typed
  <1>. QED  BY <1>1, <1>3, <1>4, <1>5, InsideAlone

(* What a step may do to the tree that the next run will find.             *)
Moves == \/ Tree' = Tree
         \/ /\ edits' = edits + 1
            /\ \E f \in Files : \A x \in Paths : x # f => Tree'[x] = Tree[x]
         \/ Installation(Tree, Tree')

LEMMA NextJournal ==
    ASSUME Typed, Typed', LockInv, JournalInv, [Next]_vars
    PROVE  JournalInv' /\ Moves
<1> USE DEF logged
<1>1. ASSUME NEW p \in Procs, NEW cmd, Start(p, cmd) PROVE JournalInv' /\ Moves
  <2>1. /\ pc' = [pc EXCEPT ![p] = "open"]
        /\ UNCHANGED <<disk, journal>>
        /\ \A q \in Procs \ {p} : job'[q] = job[q]
    BY <1>1 DEF Start, Goto, Typed
  <2>. QED  BY <2>1, OutsideKeeps DEF Tree, Moves
<1>2. ASSUME NEW p \in Procs, NEW cat \in Catalogs, Plan(p, cat)
      PROVE  JournalInv' /\ Moves
    BY <1>2, PlanJournal DEF Plan, Tree, Moves
<1>3. ASSUME NEW p \in Procs, OpenLock(p) PROVE JournalInv' /\ Moves
  <2>1. \E s \in {"sign", "inspect"} : pc' = [pc EXCEPT ![p] = s]
    BY <1>3 DEF OpenLock, Goto
  <2>. QED  BY <1>3, <2>1, OutsideKeeps DEF OpenLock, Tree, Moves
<1>4. ASSUME NEW p \in Procs, SignLock(p) PROVE JournalInv' /\ Moves
    BY <1>4, OutsideKeeps DEF SignLock, Goto, Tree, Moves
<1>5. ASSUME NEW p \in Procs, InspectLock(p) PROVE JournalInv' /\ Moves
  <2>1. \E s \in {"break", "idle"} : pc' = [pc EXCEPT ![p] = s]
    BY <1>5 DEF InspectLock, Goto
  <2>2. \A q \in Procs \ {p} : job'[q] = job[q]
    BY <1>5 DEF InspectLock, Typed
  <2>. QED  BY <1>5, <2>1, <2>2, OutsideKeeps DEF InspectLock, Tree, Moves
<1>6. ASSUME NEW p \in Procs, BreakLock(p) PROVE JournalInv' /\ Moves
    BY <1>6, OutsideKeeps DEF BreakLock, Goto, Tree, Moves, Typed
<1>7. ASSUME NEW p \in Procs, Release(p) PROVE JournalInv' /\ Moves
    BY <1>7, OutsideKeeps DEF Release, Goto, Tree, Moves, Typed
<1>8. ASSUME NEW p \in Procs, Recover(p) PROVE JournalInv' /\ Moves
    BY <1>8, RecoverJournal DEF Recover, Tree, Moves
<1>9. ASSUME NEW p \in Procs, RestoreFile(p) PROVE JournalInv' /\ Moves
    BY <1>9, RestoreJournal DEF Moves
<1>10. ASSUME NEW p \in Procs, RestoreDone(p) PROVE JournalInv' /\ Moves
    BY <1>10, RestoreEnds DEF Moves
<1>11. ASSUME NEW p \in Procs, Begin(p) PROVE JournalInv' /\ Moves
  <2>1. pc[p] = "planned"
    BY <1>11 DEF Begin
  <2>2. Tree = disk
    BY <2>1, ClosedTree DEF JournalInv, JournalAt
  <2>3. \A x \in DOMAIN journal' : journal'[x] = disk[x]
    BY <1>11, <2>1 DEF Begin, JournalInv, JournalAt, Interrupted
  <2>4. Tree' = disk
    BY <1>11, <2>3 DEF Begin, Tree, Typed
  <2>. QED  BY <1>11, <2>2, <2>4, BeginJournal DEF Moves
<1>12. ASSUME NEW p \in Procs, WriteFile(p) PROVE JournalInv' /\ Moves
    BY <1>12, WriteJournal DEF Moves
<1>13. ASSUME NEW p \in Procs, Keep(p) PROVE JournalInv' /\ Moves
    BY <1>13, KeepSwitches DEF Moves
<1>14. ASSUME NEW p \in Procs, RunChecks(p) PROVE JournalInv' /\ Moves
  <2>1. pc[p] = "check" /\ pc' = [pc EXCEPT ![p] = "receipt"] /\ journal' = journal
    BY <1>14 DEF RunChecks, Goto
  <2>2. ~Interrupted /\ ~Interrupted'
    BY <2>1 DEF JournalInv, JournalAt, Interrupted
  <2>3. JournalAt(p)'
    BY <2>1, <2>2 DEF JournalAt, Typed
  <2>4. JournalInv'
    BY <2>1, <2>3, InsideAlone DEF Critical, Typed
  <2>5. Tree = disk /\ Tree' = disk'
    BY <2>2 DEF Interrupted, Tree, Typed
  <2>6. CASE disk' = disk
    BY <2>4, <2>5, <2>6 DEF Moves
  <2>7. CASE disk' # disk
    <3>1. PICK f \in Files : \E t : disk' = [disk EXCEPT ![f] = t]
      BY <1>14, <2>7 DEF RunChecks
    <3>2. \A x \in Paths : x # f => disk'[x] = disk[x]
      BY <3>1 DEF Typed
    <3>3. edits' = edits + 1
      BY <1>14, <2>7 DEF RunChecks
    <3>. QED  BY <2>4, <2>5, <3>2, <3>3 DEF Moves
  <2>. QED  BY <2>6, <2>7
<1>15. ASSUME NEW p \in Procs, WriteReceipt(p) PROVE JournalInv' /\ Moves
  <2>1. /\ pc' = [pc EXCEPT ![p] = "release"]
        /\ UNCHANGED <<disk, journal, job>>
    BY <1>15 DEF WriteReceipt, Goto
  <2>. QED  BY <2>1, OutsideKeeps DEF Tree, Moves
<1>16. ASSUME NEW p \in Procs, WriteFails(p) PROVE JournalInv' /\ Moves
  <2>1. /\ pc[p] = "write" /\ pc' = [pc EXCEPT ![p] = "restore"]
        /\ journal' = journal /\ disk' = disk
        /\ job' = [job EXCEPT ![p].todo = DOMAIN journal, ![p].then = "release"]
    BY <1>16 DEF WriteFails, Goto
  <2>2. job'[p].todo = DOMAIN journal
    BY <2>1 DEF Typed, Idle, Started
  <2>3. JournalAt(p)'
    BY <2>1, <2>2 DEF JournalInv, JournalAt, Interrupted, Typed
  <2>. QED  BY <2>1, <2>3, InsideAlone DEF Critical, Typed, Tree, Moves
<1>17. ASSUME NEW p \in Procs, RestoreFails(p) PROVE JournalInv' /\ Moves
    BY <1>17, OutsideKeeps DEF RestoreFails, Goto, Tree, Moves
<1>18. ASSUME NEW p \in Procs, Crash(p) PROVE JournalInv' /\ Moves
    BY <1>18, OutsideKeeps DEF Crash, Goto, Tree, Moves, Typed
<1>19. ASSUME NEW f \in Files, Edit(f) PROVE JournalInv' /\ Moves
  <2>1. JournalInv'
    BY <1>19 DEF Edit, JournalInv, JournalAt
  <2>2. \A x \in Paths : x # f => disk'[x] = disk[x]
    BY <1>19 DEF Edit, Typed
  <2>3. \A x \in Paths : x # f => Tree'[x] = Tree[x]
    BY <1>19, <2>2 DEF Edit, Tree
  <2>4. edits' = edits + 1
    BY <1>19 DEF Edit
  <2>. QED  BY <2>1, <2>3, <2>4 DEF Moves
<1>20. CASE UNCHANGED vars
    BY <1>20 DEF vars, JournalInv, JournalAt, Interrupted, Tree, Moves
<1>. QED
    BY <1>1, <1>2, <1>3, <1>4, <1>5, <1>6, <1>7, <1>8, <1>9, <1>10, <1>11,
       <1>12, <1>13, <1>14, <1>15, <1>16, <1>17, <1>18, <1>19, <1>20
       DEF Next, FileStep

---------------------------------------------------------------------------
Inv == Typed /\ LockInv /\ JournalInv

LEMMA Inductive == ~BreakersOverlap => (Spec => []Inv)
<1> SUFFICES ASSUME ~BreakersOverlap PROVE Spec => []Inv
    OBVIOUS
<1>1. Init => Inv
    BY InitTyped DEF Inv
<1>2. Inv /\ [Next]_vars => Inv'
    BY NextTyped, NextLock, NextJournal DEF Inv
<1>. QED  BY <1>1, <1>2, PTL DEF Spec

(* The installer keeps its types; the journal is open exactly while a      *)
(* transaction or a rollback is at work (manager.cjs).                     *)
THEOREM InstallTyped == ~BreakersOverlap => (Spec => []InstallTypeOK)
<1>1. Inv => InstallTypeOK
    BY DEF Inv, Typed, JournalInv, JournalAt, InstallTypeOK
<1>. QED  BY <1>1, Inductive, PTL

(* One exclusive lock serializes recovery, planning and writes             *)
(* (acquireRootLock in manager.cjs), unless two patchers have found the    *)
(* lock of one dead process.                                               *)
THEOREM LockSerializes == ~BreakersOverlap => (Spec => []LockExcludes)
<1>1. Inv => LockExcludes
    BY OneBehind DEF Inv, LockExcludes
<1>. QED  BY <1>1, Inductive, PTL

(* The journaled transaction implements a single step: whatever files are  *)
(* written, whichever writes fail and whenever a process dies, the tree    *)
(* that the next run finds goes from one complete installation to another  *)
(* (applyTransitionUnlocked, restoreJournal in manager.cjs).               *)
THEOREM InstallAtomic == ~BreakersOverlap => (Spec => InstallsAtomically)
<1> SUFFICES ASSUME ~BreakersOverlap PROVE Spec => InstallsAtomically
    OBVIOUS
<1>1. Inv /\ Inv' /\ [Next]_vars =>
          [DOMAIN Tree' = DOMAIN Tree /\ Atomic!Next]_Tree
  <2> SUFFICES ASSUME Inv, Inv', [Next]_vars, Tree' # Tree
               PROVE  DOMAIN Tree' = DOMAIN Tree /\ Atomic!Next
      OBVIOUS
  <2>1. Moves
    BY NextJournal DEF Inv
  <2>2. DOMAIN Tree' = Paths /\ DOMAIN Tree = Paths
    BY DEF Tree
  <2>. QED  BY <2>1, <2>2 DEF Moves, Atomic!Next, Atomic!Edit, Atomic!Switch
<1>. QED  BY <1>1, Inductive, PTL DEF Spec, InstallsAtomically, Atomic!Spec

---------------------------------------------------------------------------
(* Staging                                                                 *)

(* The candidate as the staging run accepted it.                           *)
Accepted == [x \in Paths |-> IF x \in Files THEN found[x] ELSE Absent]

(* How far the staging run of p has brought the candidate that it accepted *)
(* to the tree that its catalog gives on those texts.                      *)
StageAt(p) ==
    LET plan == Planned("stage", job[p].cat, Accepted)
    IN  /\ pc[p] \in {"check", "receipt"} => job[p].cmd = "stage"
        /\ job[p].cmd = "stage" =>
              /\ job[p].then = "release"
              /\ pc[p] \in {"ready", "planned"} => disk = Accepted
              /\ pc[p] \in {"write", "check", "receipt"} =>
                    job[p].cat \in Catalogs /\ plan.ok
              /\ pc[p] = "write" => job[p].tree = plan.tree
              /\ pc[p] = "check" => disk = plan.tree
              /\ pc[p] = "receipt" =>
                    \A x \in Paths \ Files : disk[x] = plan.tree[x]

StageInv == \A p \in Procs : StageAt(p)

(* A process that is not past the lock is bound by the fate of its failed  *)
(* transaction only.                                                       *)
LEMMA StageOutside ==
    ASSUME NEW p \in Procs, pc[p] \notin Critical, StageAt(p),
           pc'[p] = pc[p], job'[p] = job[p]
    PROVE  StageAt(p)'
  BY DEF StageAt, Critical

LEMMA StageOthers ==
    ASSUME LockInv, StageInv, NEW p \in Procs, pc[p] \in Critical,
           \A q \in Procs \ {p} : pc'[q] = pc[q] /\ job'[q] = job[q],
           StageAt(p)'
    PROVE  StageInv'
  <1>1. ASSUME NEW q \in Procs \ {p} PROVE StageAt(q)'
    BY OneBehind, StageOutside DEF StageInv
  <1>. QED  BY <1>1 DEF StageInv

LEMMA AcceptedKept == found' = found => Accepted' = Accepted
  BY DEF Accepted

(* A step outside the lock leaves the disk to the others.                  *)
LEMMA StageKeeps ==
    ASSUME Typed, StageInv, disk' = disk, found' = found, NEW p \in Procs,
           \A q \in Procs \ {p} : pc'[q] = pc[q] /\ job'[q] = job[q],
           StageAt(p)'
    PROVE  StageInv'
  BY AcceptedKept DEF StageInv, StageAt

LEMMA NextStage ==
    ASSUME Typed, LockInv, JournalInv, StageInv, [Next]_vars
    PROVE  StageInv'
<1> USE DEF logged
<1>1. ASSUME NEW p \in Procs, NEW cmd, Start(p, cmd) PROVE StageInv'
  <2>1. /\ pc'[p] = "open" /\ job'[p] = Started(cmd) /\ disk' = disk /\ found' = found
        /\ \A q \in Procs \ {p} : pc'[q] = pc[q] /\ job'[q] = job[q]
    BY <1>1 DEF Start, Goto, Typed
  <2>2. StageAt(p)'
    BY <2>1, AcceptedKept DEF StageAt, Started
  <2>. QED  BY <2>1, <2>2, StageKeeps
<1>2. ASSUME NEW p \in Procs, NEW cat \in Catalogs, Plan(p, cat) PROVE StageInv'
  <2>1. /\ pc[p] = "ready" /\ disk' = disk /\ found' = found
        /\ \A q \in Procs \ {p} : pc'[q] = pc[q] /\ job'[q] = job[q]
    BY <1>2 DEF Plan, Goto, Typed
  <2>2. pc'[p] \in {"planned", "release"}
    BY <1>2 DEF Plan, Goto, Typed
  <2>3. job'[p].cmd = job[p].cmd /\ job'[p].then = job[p].then
    <3> DEFINE t == Planned(job[p].cmd, cat, disk).tree
               r == [x \in Planned(job[p].cmd, cat, disk).reads |-> disk[x]]
    <3>1. \/ job' = job
          \/ job' = [job EXCEPT ![p].cat = cat, ![p].tree = t, ![p].before = r]
      BY <1>2, Zenon DEF Plan
    <3> HIDE DEF t, r
    <3>. QED  BY <3>1 DEF Typed, Idle, Started
  <2>4. StageAt(p)'
    BY <2>1, <2>2, <2>3, AcceptedKept DEF StageInv, StageAt
  <2>. QED  BY <2>1, <2>4, StageKeeps
<1>3. ASSUME NEW p \in Procs, OpenLock(p) PROVE StageInv'
  <2>1. /\ pc'[p] \in {"sign", "inspect"} /\ job' = job /\ disk' = disk /\ found' = found
        /\ \A q \in Procs \ {p} : pc'[q] = pc[q]
    BY <1>3 DEF OpenLock, Goto, Typed
  <2>2. StageAt(p)'
    BY <2>1, AcceptedKept DEF StageInv, StageAt
  <2>. QED  BY <2>1, <2>2, StageKeeps
<1>4. ASSUME NEW p \in Procs, SignLock(p) PROVE StageInv'
  <2>1. /\ pc'[p] = "locked" /\ job' = job /\ disk' = disk /\ found' = found
        /\ \A q \in Procs \ {p} : pc'[q] = pc[q]
    BY <1>4 DEF SignLock, Goto, Typed
  <2>2. StageAt(p)'
    BY <2>1, AcceptedKept DEF StageInv, StageAt
  <2>. QED  BY <2>1, <2>2, StageKeeps
<1>5. ASSUME NEW p \in Procs, InspectLock(p) PROVE StageInv'
  <2>1. /\ pc'[p] \in {"break", "idle"} /\ job'[p] \in {job[p], Idle} /\ disk' = disk /\ found' = found
        /\ \A q \in Procs \ {p} : pc'[q] = pc[q] /\ job'[q] = job[q]
    BY <1>5 DEF InspectLock, Goto, Typed
  <2>2. StageAt(p)'
    BY <2>1, AcceptedKept DEF StageInv, StageAt, Idle, Started
  <2>. QED  BY <2>1, <2>2, StageKeeps
<1>6. ASSUME NEW p \in Procs, BreakLock(p) PROVE StageInv'
  <2>1. /\ pc'[p] = "open" /\ disk' = disk /\ found' = found
        /\ job' = [job EXCEPT ![p].retried = TRUE]
        /\ \A q \in Procs \ {p} : pc'[q] = pc[q] /\ job'[q] = job[q]
    BY <1>6 DEF BreakLock, Goto, Typed
  <2>2. job'[p].cmd = job[p].cmd /\ job'[p].then = job[p].then
    BY <2>1 DEF Typed, Idle, Started
  <2>3. StageAt(p)'
    BY <2>1, <2>2, AcceptedKept DEF StageInv, StageAt
  <2>. QED  BY <2>1, <2>3, StageKeeps
<1>7. ASSUME NEW p \in Procs, Release(p) \/ Crash(p) PROVE StageInv'
  <2>1. /\ pc'[p] = "idle" /\ job'[p] = Idle /\ disk' = disk /\ found' = found
        /\ \A q \in Procs \ {p} : pc'[q] = pc[q] /\ job'[q] = job[q]
    BY <1>7 DEF Release, Crash, Goto, Typed
  <2>2. StageAt(p)'
    BY <2>1, AcceptedKept DEF StageAt, Idle, Started
  <2>. QED  BY <2>1, <2>2, StageKeeps
<1>8. ASSUME NEW p \in Procs, Recover(p) PROVE StageInv'
  <2>1. /\ pc[p] = "locked" /\ disk' = disk
        /\ \A q \in Procs \ {p} : pc'[q] = pc[q] /\ job'[q] = job[q]
    BY <1>8 DEF Recover, Goto, Typed
  <2>2. CASE job[p].cmd = "stage"
    <3>1. /\ job' = job /\ pc'[p] = IF Fresh THEN "ready" ELSE "release"
          /\ Fresh => found' = [f \in Files |-> disk[f]]
      BY <1>8, <2>2 DEF Recover, Goto, Typed
    <3>2. Fresh => disk = Accepted'
      BY <3>1 DEF Fresh, Accepted, Paths, Typed
    <3>3. StageAt(p)'
      BY <2>1, <2>2, <3>1, <3>2 DEF StageInv, StageAt
    <3>. QED  BY <2>1, <3>3, StageOthers DEF Critical
  <2>3. CASE job[p].cmd = "live"
    <3>0. found' = found
      BY <1>8, <2>3 DEF Recover
    <3>1. PICK cmd \in LiveCommands :
                job' = [job EXCEPT ![p].cmd = cmd, ![p].then = "ready",
                           ![p].todo = DOMAIN journal]
      BY <1>8, <2>3 DEF Recover
    <3>2. job'[p].cmd # "stage"
      BY <3>1 DEF Typed, Idle, Started, LiveCommands
    <3>3. pc'[p] \in {"restore", "ready"}
      BY <1>8, <2>3 DEF Recover, Goto, Typed
    <3>4. StageAt(p)'
      BY <3>2, <3>3, AcceptedKept DEF StageAt
    <3>. QED  BY <2>1, <3>0, <3>4, StageKeeps
  <2>. QED  BY <1>8, <2>2, <2>3 DEF Recover
<1>9. ASSUME NEW p \in Procs, RestoreFile(p) PROVE StageInv'
  <2>1. /\ pc[p] = "restore" /\ pc' = pc /\ found' = found
        /\ \A q \in Procs \ {p} : pc'[q] = pc[q] /\ job'[q] = job[q]
    BY <1>9 DEF RestoreFile, Typed
  <2>2. job'[p].cmd = job[p].cmd /\ job'[p].then = job[p].then
    BY <1>9 DEF RestoreFile, Typed, Idle, Started
  <2>3. StageAt(p)'
    BY <2>1, <2>2, AcceptedKept DEF StageInv, StageAt
  <2>. QED  BY <2>1, <2>3, StageOthers DEF Critical
<1>10. ASSUME NEW p \in Procs, RestoreDone(p) PROVE StageInv'
  <2>1. /\ pc[p] = "restore" /\ pc'[p] = job[p].then /\ job' = job
        /\ found' = found
        /\ \A q \in Procs \ {p} : pc'[q] = pc[q] /\ job'[q] = job[q]
    BY <1>10 DEF RestoreDone, Goto, Typed
  <2>2. job[p].then \in {"ready", "release"}
    BY DEF Typed
  <2>3. StageAt(p)'
    BY <2>1, <2>2, AcceptedKept DEF StageInv, StageAt
  <2>. QED  BY <2>1, <2>3, StageOthers DEF Critical
<1>11. ASSUME NEW p \in Procs, Begin(p) PROVE StageInv'
  <2> DEFINE changes == {x \in Paths : disk[x] # job[p].tree[x]}
  <2>1. /\ pc[p] = "planned" /\ disk' = disk /\ found' = found
        /\ \A q \in Procs \ {p} : pc'[q] = pc[q] /\ job'[q] = job[q]
    BY <1>11 DEF Begin, Goto, Typed
  <2>2. /\ job[p].cat \in Catalogs
        /\ Planned(job[p].cmd, job[p].cat, disk).ok
        /\ job[p].tree = Planned(job[p].cmd, job[p].cat, disk).tree
        /\ job[p].tree = [x \in Paths |-> job[p].tree[x]]
    BY <2>1, PlannedPaths DEF JournalInv, JournalAt
  <2>3. job[p].cmd = "stage" => disk = Accepted /\ job[p].then = "release"
    BY <2>1 DEF StageInv, StageAt
  <2>4. CASE pc'[p] = "write"
    <3>1. job' = [job EXCEPT ![p].todo = changes, ![p].before = Absent]
      BY <1>11, <2>4 DEF Begin, Goto, Typed
    <3> HIDE DEF changes
    <3>2. /\ job'[p].cmd = job[p].cmd /\ job'[p].cat = job[p].cat
          /\ job'[p].tree = job[p].tree /\ job'[p].then = job[p].then
      BY <3>1 DEF Typed, Idle, Started
    <3>3. StageAt(p)'
      BY <2>1, <2>2, <2>3, <2>4, <3>2, AcceptedKept DEF StageAt
    <3>. QED  BY <2>1, <3>3, StageKeeps
  <2>5. CASE pc'[p] = "release"
    <3>1. job' = job
      BY <1>11, <2>5 DEF Begin, Goto, Typed
    <3>2. StageAt(p)'
      BY <2>3, <2>5, <3>1, AcceptedKept DEF StageAt
    <3>. QED  BY <2>1, <3>2, StageKeeps
  <2>6. CASE pc'[p] = "check"
    <3>1. job' = job /\ job[p].cmd = "stage" /\ changes = {}
      BY <1>11, <2>6 DEF Begin, Goto, Typed
    <3>2. disk = job[p].tree
      BY <2>2, <3>1 DEF Typed
    <3>3. StageAt(p)'
      BY <2>1, <2>2, <2>3, <2>6, <3>1, <3>2, AcceptedKept DEF StageAt
    <3>. QED  BY <2>1, <3>3, StageKeeps
  <2>. QED  BY <1>11, <2>4, <2>5, <2>6 DEF Begin, Goto, Typed
<1>12. ASSUME NEW p \in Procs, WriteFile(p) PROVE StageInv'
  <2>1. /\ pc[p] = "write" /\ pc' = pc /\ found' = found
        /\ \A q \in Procs \ {p} : pc'[q] = pc[q] /\ job'[q] = job[q]
    BY <1>12 DEF WriteFile, Typed
  <2>2. /\ job'[p].cmd = job[p].cmd /\ job'[p].cat = job[p].cat
        /\ job'[p].tree = job[p].tree /\ job'[p].then = job[p].then
    BY <1>12 DEF WriteFile, Typed, Idle, Started
  <2>3. StageAt(p)'
    BY <2>1, <2>2, AcceptedKept DEF StageInv, StageAt
  <2>. QED  BY <2>1, <2>3, StageOthers DEF Critical
<1>13. ASSUME NEW p \in Procs, Keep(p) PROVE StageInv'
  <2>1. /\ pc[p] = "write" /\ disk' = disk /\ found' = found /\ job' = job
        /\ pc'[p] = IF job[p].cmd = "stage" THEN "check" ELSE "release"
        /\ \A q \in Procs \ {p} : pc'[q] = pc[q] /\ job'[q] = job[q]
    BY <1>13 DEF Keep, Goto, Typed
  <2>2. disk = job[p].tree
    <3>1. job[p].todo = {}
      BY <1>13 DEF Keep
    <3>2. /\ job[p].tree = [x \in Paths |-> job[p].tree[x]]
          /\ \A x \in Paths : disk[x] = job[p].tree[x]
      BY <2>1, <3>1, PlannedPaths DEF JournalInv, JournalAt
    <3>. QED  BY <3>2 DEF Typed
  <2>3. StageAt(p)'
    BY <2>1, <2>2, AcceptedKept DEF StageInv, StageAt
  <2>. QED  BY <2>1, <2>3, StageKeeps
<1>14. ASSUME NEW p \in Procs, RunChecks(p) PROVE StageInv'
  <2>1. /\ pc[p] = "check" /\ pc'[p] = "receipt" /\ job' = job
        /\ found' = found
        /\ \A q \in Procs \ {p} : pc'[q] = pc[q] /\ job'[q] = job[q]
    BY <1>14 DEF RunChecks, Goto, Typed
  <2>2. \A x \in Paths \ Files : disk'[x] = disk[x]
    BY <1>14 DEF RunChecks, Typed
  <2>3. StageAt(p)'
    BY <2>1, <2>2, AcceptedKept DEF StageInv, StageAt
  <2>. QED  BY <2>1, <2>3, StageOthers DEF Critical
<1>15. ASSUME NEW p \in Procs, WriteReceipt(p) \/ RestoreFails(p) PROVE StageInv'
  <2>1. /\ pc'[p] = "release" /\ job' = job /\ disk' = disk /\ found' = found
        /\ \A q \in Procs \ {p} : pc'[q] = pc[q] /\ job'[q] = job[q]
    BY <1>15 DEF WriteReceipt, RestoreFails, Goto, Typed
  <2>2. StageAt(p)'
    BY <2>1, AcceptedKept DEF StageInv, StageAt
  <2>. QED  BY <2>1, <2>2, StageKeeps
<1>16. ASSUME NEW p \in Procs, WriteFails(p) PROVE StageInv'
  <2>1. /\ pc'[p] = "restore" /\ disk' = disk /\ found' = found
        /\ \A q \in Procs \ {p} : pc'[q] = pc[q] /\ job'[q] = job[q]
    BY <1>16 DEF WriteFails, Goto, Typed
  <2>2. job'[p].cmd = job[p].cmd /\ job'[p].then = "release"
    BY <1>16 DEF WriteFails, Typed, Idle, Started
  <2>3. StageAt(p)'
    BY <2>1, <2>2, AcceptedKept DEF StageAt
  <2>. QED  BY <2>1, <2>3, StageKeeps
<1>17. ASSUME NEW f \in Files, Edit(f) PROVE StageInv'
  <2>1. \A p \in Procs : pc[p] \notin Critical /\ pc'[p] = pc[p] /\ job'[p] = job[p]
    BY <1>17 DEF Edit, Critical
  <2>. QED  BY <2>1, StageOutside DEF StageInv
<1>18. CASE UNCHANGED vars
    BY <1>18, AcceptedKept DEF vars, StageInv, StageAt
<1>. QED
    BY <1>1, <1>2, <1>3, <1>4, <1>5, <1>6, <1>7, <1>8, <1>9, <1>10, <1>11,
       <1>12, <1>13, <1>14, <1>15, <1>16, <1>17, <1>18
       DEF Next, FileStep

(* Without units nothing is applied.                                       *)
LEMMA ComposeNothing ==
    ASSUME NEW texts, Compose(<<>>, texts).ok
    PROVE  Compose(<<>>, texts).texts = texts
  <1> DEFINE order == Compose(<<>>, texts).order
  <1>1. Len(order) = 0
    <2>1. {u.id : u \in ToSet(<<>>)} = {}
      BY DEF ToSet
    <2>2. Len(order) = Cardinality({u.id : u \in ToSet(<<>>)})
      BY DEF Compose
    <2>. QED  BY <2>1, <2>2, FS_EmptySet
  <1>2. Compose(<<>>, texts).texts = ApplyInOrder(<<>>, order, texts).texts
    BY DEF Compose
  <1> HIDE DEF order
  <1>3. ApplyInOrder(<<>>, order, texts) = [texts |-> texts, ok |-> TRUE]
    <2> DEFINE base == [texts |-> texts, ok |-> TRUE]
               Above(g) == g = [n \in 0..Len(order) |->
                   IF n = 0 THEN base
                   ELSE ApplyOne(g[n - 1], UnitNamed(<<>>, order[n]))]
    <2>1. ApplyInOrder(<<>>, order, texts) = (CHOOSE g : Above(g))[Len(order)]
      BY DEF ApplyInOrder
    <2> HIDE DEF base
    <2>2. Above([n \in 0..0 |-> base])
      BY <1>1
    <2>3. Above(CHOOSE g : Above(g))
      BY <2>2, Zenon
    <2>4. (CHOOSE g : Above(g))[0] = base
      BY <1>1, <2>3
    <2>. QED  BY <1>1, <2>1, <2>4 DEF base
  <1>. QED  BY <1>2, <1>3

(* A missing file is told apart from a written state.                      *)
AbsentIsNoState ==
    \A units, order, packs, outputs :
        Absent # [units |-> units, order |-> order,
                  packs |-> packs, outputs |-> outputs]

(* The texts that a plan starts from.                                      *)
Base(d) ==
    LET texts == [f \in Files |-> d[f]]
    IN  IF d["state"] = Absent THEN [texts |-> texts, ok |-> TRUE]
        ELSE Strip(d["state"].units, d["state"].order, texts)

(* A plan with units writes a state that records every managed text.       *)
LEMMA PlannedOutputs ==
    ASSUME AbsentIsNoState, NEW cat \in Catalogs, NEW d,
           Planned("stage", cat, d).ok, NEW f,
           Planned("stage", cat, d).tree["state"] # Absent,
           f \in {u.file : u \in
                     ToSet(Planned("stage", cat, d).tree["state"].units)}
    PROVE  LET tree == Planned("stage", cat, d).tree
           IN  tree[f] = tree["state"].outputs[f]
  <1> DEFINE chosen == Resolution(cat, Visible(cat))
             units == UnitsOf(cat, chosen.packs)
             managed == {u.file : u \in ToSet(units)}
             new == Compose(units, Base(d).texts)
             state == [units |-> units, order |-> new.order,
                       packs |-> chosen.packs,
                       outputs |-> [g \in managed |-> new.texts[g]]]
             tree == [x \in Paths |->
                  IF x \in Files THEN new.texts[x]
                  ELSE IF x = "intent" THEN "all"
                  ELSE IF units = <<>> THEN Absent ELSE state]
  <1>1. Planned("stage", cat, d).tree = tree
    BY DEF Planned, Base
  <1>2. "state" \in Paths /\ "state" \notin Files /\ Files \subseteq Paths
    BY InstallAssumption DEF Paths
  <1>3. /\ tree["state"] = IF units = <<>> THEN Absent ELSE state
        /\ f \in Files => tree[f] = new.texts[f]
    BY <1>2
  <1>4. /\ state # Absent /\ state.units = units
        /\ state.outputs = [g \in managed |-> new.texts[g]]
    BY DEF AbsentIsNoState
  <1>5. IsCatalog(cat)
    BY InstallAssumption
  <1>6. units \in Seq(CatalogUnits(cat))
    BY <1>5, UnitsOfCatalog
  <1> HIDE DEF state, tree, new, units
  <1>7. f \in managed
    BY <1>1, <1>3, <1>4
  <1>8. PICK u \in ToSet(units) : u.file = f
    BY <1>7
  <1>9. u \in CatalogUnits(cat)
    BY <1>6, <1>8 DEF ToSet
  <1>10. f \in Files
    BY <1>8, <1>9, InstallAssumption
  <1>. QED  BY <1>1, <1>3, <1>4, <1>7, <1>10

(* A candidate is declared ready only with the whole plan of a catalog on  *)
(* the texts that its staging run accepted, which with git are those of    *)
(* upstream (stage in cli.cjs, assertFreshCandidate and                    *)
(* assertPostCheckIntegrity in staging.cjs): the lock keeps every other    *)
(* process from the candidate, and what the checks change in a managed     *)
(* file shows against the state, in another tracked file in git status.    *)
THEOREM StagedIsWhole ==
    ~BreakersOverlap /\ AbsentIsNoState => (Spec => ReadyOnlyWhole)
<1> SUFFICES ASSUME ~BreakersOverlap, AbsentIsNoState
             PROVE  Spec => ReadyOnlyWhole
    OBVIOUS
<1>1. Init => StageInv
    BY DEF Init, StageInv, StageAt, Idle, Started
<1>2. Inv /\ StageInv /\ [Next]_vars => StageInv'
    BY NextStage DEF Inv
<1>3. Inv /\ StageInv /\ [Next]_vars => [ReadyIsWhole]_vars
  <2> SUFFICES ASSUME Inv, StageInv, [Next]_vars,
                      receipt # "ready", receipt' = "ready"
               PROVE  ReadyIsWhole
      BY DEF ReadyIsWhole
  <2>1. PICK p \in Procs : WriteReceipt(p)
    BY DEF Next, FileStep, vars, Start, Plan, OpenLock, SignLock, InspectLock,
           BreakLock, Release, Recover, RestoreFile, RestoreDone, Begin,
           WriteFile, Keep, RunChecks, WriteFails, RestoreFails, Crash, Edit
  <2> DEFINE tree == Planned("stage", job[p].cat, Accepted).tree
  <2>2. pc[p] = "receipt" /\ ~Drifted
    BY <2>1 DEF WriteReceipt
  <2>3. /\ ~Interrupted
        /\ job[p].cat \in Catalogs
        /\ Planned("stage", job[p].cat, Accepted).ok
        /\ \A x \in Paths \ Files : disk[x] = tree[x]
    BY <2>2 DEF Inv, JournalInv, JournalAt, StageInv, StageAt
  <2>4. disk["state"] = tree["state"]
    BY <2>3, InstallAssumption DEF Paths
  <2>5. ASSUME NEW f \in Managed PROVE disk[f] = tree[f]
    <3>1. /\ disk["state"] # Absent
          /\ f \in {u.file : u \in ToSet(disk["state"].units)}
      BY DEF Managed
    <3>2. disk[f] = disk["state"].outputs[f]
      BY <2>2 DEF Drifted
    <3>. QED  BY <2>3, <2>4, <3>1, <3>2, PlannedOutputs
  <2>6. ASSUME NEW f \in Tracked
        PROVE  /\ found[f] = HostTexts[f]
               /\ AllShown => f \in Managed \/ disk[f] = HostTexts[f]
    <3>1. found[f] = HostTexts[f]
      BY DEF Tracked, Inv, Typed
    <3>2. disk[f] # HostTexts[f] => f \in TrackedChanges
      BY DEF TrackedChanges
    <3>3. AllShown => TrackedChanges \ Managed = {}
      BY <2>2 DEF Drifted
    <3>. QED  BY <3>1, <3>2, <3>3
  <2>. QED  BY <2>3, <2>5, <2>6 DEF ReadyIsWhole, Accepted
<1>. QED  BY <1>1, <1>2, <1>3, Inductive, PTL DEF Spec, ReadyOnlyWhole

---------------------------------------------------------------------------
(* Selections                                                              *)

(* The state that a plan writes names the packs it has selected.           *)
LEMMA PlannedState ==
    ASSUME NEW cmd, NEW cat, NEW d, Planned(cmd, cat, d).ok,
           Planned(cmd, cat, d).tree["state"] # Absent
    PROVE  LET chosen == Resolution(cat, IF cmd = "revert" THEN {}
                                         ELSE Visible(cat))
           IN  /\ chosen.ok
               /\ Planned(cmd, cat, d).tree["state"].packs = chosen.packs
  <1> DEFINE chosen == Resolution(cat, IF cmd = "revert" THEN {}
                                       ELSE Visible(cat))
             units == UnitsOf(cat, chosen.packs)
             texts == [f \in Files |-> d[f]]
             base == IF d["state"] = Absent THEN [texts |-> texts, ok |-> TRUE]
                     ELSE Strip(d["state"].units, d["state"].order, texts)
             new == Compose(units, base.texts)
             state == [units |-> units, order |-> new.order,
                       packs |-> chosen.packs,
                       outputs |-> [f \in {u.file : u \in ToSet(units)} |->
                                       new.texts[f]]]
             tree == [x \in Paths |->
                  IF x \in Files THEN new.texts[x]
                  ELSE IF x = "intent"
                       THEN IF cmd = "revert" THEN "disabled" ELSE "all"
                  ELSE IF units = <<>> THEN Absent ELSE state]
  <1>1. chosen.ok /\ Planned(cmd, cat, d).tree = tree
    BY DEF Planned
  <1>2. "state" \in Paths /\ "state" \notin Files
    BY InstallAssumption DEF Paths
  <1>3. tree["state"] = IF units = <<>> THEN Absent ELSE state
    BY <1>2
  <1>4. state.packs = chosen.packs
    OBVIOUS
  <1> HIDE DEF tree, state, units
  <1>. QED  BY <1>1, <1>3, <1>4

(* The selection that a transaction installs is closed (resolveSelection   *)
(* in resolver.cjs, applyTransitionUnlocked in manager.cjs): with a pack   *)
(* come the packs it requires, and without the packs that it conflicts     *)
(* with or supersedes, however requirements, conditions and supersessions  *)
(* are chained.                                                            *)
THEOREM SelectionIsClosed == ~BreakersOverlap => (Spec => []SelectionClosed)
<1>1. Inv => SelectionClosed
  <2> SUFFICES ASSUME Inv, NEW p \in Procs, pc[p] = "write",
                      job[p].tree["state"] # Absent
               PROVE  LET cat == job[p].cat
                          packs == job[p].tree["state"].packs
                      IN  \A i, j \in DOMAIN cat :
                              i \in packs =>
                                  /\ j \in cat[i].requires => j \in packs
                                  /\ j \in cat[i].conflicts
                                          \cup ToSet(cat[i].supersedes)
                                       => j \notin packs
      BY DEF SelectionClosed
  <2> DEFINE cat == job[p].cat
             chosen == Resolution(cat, IF job[p].cmd = "revert" THEN {}
                                       ELSE Visible(cat))
  <2>1. /\ cat \in Catalogs
        /\ Planned(job[p].cmd, cat, Tree).ok
        /\ job[p].tree = Planned(job[p].cmd, cat, Tree).tree
    BY DEF Inv, JournalInv, JournalAt
  <2>2. "state" \in Paths /\ "state" \notin Files
    BY InstallAssumption DEF Paths
  <2> HIDE DEF cat
  <2>3. chosen.ok /\ job[p].tree["state"].packs = chosen.packs
    BY <2>1, PlannedState
  <2>4. IsCatalog(cat)
    BY <2>1, InstallAssumption
  <2> HIDE DEF chosen
  <2>5. /\ Closed(cat, chosen.packs)
        /\ \A q \in chosen.packs :
              (cat[q].conflicts \cup ToSet(cat[q].supersedes))
                  \cap chosen.packs = {}
    BY <2>3, <2>4, ResolutionCloses DEF chosen
  <2>. QED  BY <2>3, <2>5 DEF Closed, cat
<1>. QED  BY <1>1, Inductive, PTL

---------------------------------------------------------------------------
(* The host program under the units                                        *)

(* A missing file is told apart from a text.                               *)
AbsentIsNoText == \A T : Absent \notin Seq(T)

(* No two units of a catalog, and no unit and the host program, have all   *)
(* tokens of a block in common: the markers of a unit name it.             *)
SignedCatalogs == \A cat \in Catalogs : Signed(CatalogUnits(cat), HostTexts)

(* The tokens of the host program and of the units of a catalog.           *)
Alphabet(cat) ==
    UNION ({ToSet(HostTexts[f]) : f \in {e \in Files : HostTexts[e] # Absent}}
      \cup {ToSet(u.block) : u \in CatalogUnits(cat)}
      \cup {ToSet(u.anchor) : u \in {v \in CatalogUnits(cat) : v.type # "owned"}})

LEMMA HostOver ==
    ASSUME NEW cat \in Catalogs
    PROVE  /\ TextsOver(Alphabet(cat), Files, HostTexts)
           /\ UnitsOver(Alphabet(cat), Files, CatalogUnits(cat))
  <1> DEFINE T == Alphabet(cat)
  <1>1. ASSUME NEW f \in Files, HostTexts[f] # Absent PROVE HostTexts[f] \in Seq(T)
    <2>1. HostTexts[f] \in Seq(ToSet(HostTexts[f]))
      BY <1>1, InstallAssumption
    <2>2. ToSet(HostTexts[f]) \subseteq T
      BY <1>1 DEF Alphabet
    <2>. QED  BY <2>1, <2>2, WidenSeq
  <1>2. ASSUME NEW u \in CatalogUnits(cat) PROVE UnitOver(T, u) /\ u.file \in Files
    <2>1. IsUnit(u) /\ u.file \in Files
      BY InstallAssumption
    <2>2. u.block \in Seq(T)
      <3>1. ToSet(u.block) \subseteq T
        BY DEF Alphabet
      <3>. QED  BY <2>1, <3>1, WidenSeq DEF IsUnit
    <2>3. u.type # "owned" => u.anchor \in Seq(T)
      <3> SUFFICES ASSUME u.type # "owned" PROVE u.anchor \in Seq(T)
          OBVIOUS
      <3>1. ToSet(u.anchor) \subseteq T
        BY DEF Alphabet
      <3>. QED  BY <2>1, <3>1, WidenSeq DEF IsUnit
    <2>. QED  BY <2>1, <2>2, <2>3 DEF UnitOver, IsUnit
  <1>3. HostTexts = [f \in Files |-> HostTexts[f]]
    BY InstallAssumption
  <1>. QED  BY <1>1, <1>2, <1>3 DEF TextsOver, UnitsOver, IsText

(* The tree t is the host program, or the host program under the units     *)
(* that the state in t names.                                              *)
UnitsOfState(t) == ToSet(t["state"].units)
OnHost(t) ==
    IF t["state"] = Absent THEN \A f \in Files : t[f] = HostTexts[f]
    ELSE LET above == ApplyInOrder(t["state"].units, t["state"].order, HostTexts)
         IN  /\ \E cat \in Catalogs : UnitsOfState(t) \subseteq CatalogUnits(cat)
             /\ Lists({u.id : u \in UnitsOfState(t)}, t["state"].order)
             /\ above.ok
             /\ above.texts = [f \in Files |-> t[f]]

LEMMA BaseIsHost ==
    ASSUME AbsentIsNoText, SignedCatalogs, NEW d, OnHost(d), Base(d).ok
    PROVE  Base(d).texts = HostTexts
  <1>1. HostTexts = [f \in Files |-> HostTexts[f]]
    BY InstallAssumption
  <1>2. CASE d["state"] = Absent
    <2>1. [f \in Files |-> d[f]] = HostTexts
      BY <1>1, <1>2 DEF OnHost
    <2>. QED  BY <1>2, <2>1 DEF Base
  <1>3. CASE d["state"] # Absent
    <2> DEFINE units == d["state"].units
               order == d["state"].order
               above == ApplyInOrder(units, order, HostTexts)
    <2>1. PICK cat \in Catalogs : ToSet(units) \subseteq CatalogUnits(cat)
      BY <1>3 DEF OnHost, UnitsOfState
    <2>2. /\ Lists({u.id : u \in ToSet(units)}, order)
          /\ above.ok
          /\ above.texts = [f \in Files |-> d[f]]
      BY <1>3 DEF OnHost, UnitsOfState
    <2>3. Base(d) = Strip(units, order, above.texts)
      BY <1>3, <2>2 DEF Base
    <2>4. Strip(units, order, above.texts).ok
      BY <2>3
    <2> DEFINE T == Alphabet(cat)
    <2>5. /\ TextsOver(T, Files, HostTexts)
          /\ UnitsOver(T, Files, ToSet(units))
      BY <2>1, HostOver DEF UnitsOver
    <2>6. Signed(ToSet(units), HostTexts)
      BY <2>1 DEF Signed, SignedCatalogs
    <2>7. Absent \notin Seq(T)
      BY DEF AbsentIsNoText
    <2>8. \E a : a = above
      OBVIOUS
    <2> HIDE DEF units, order, T
    <2>9. Strip(units, order, above.texts).texts = HostTexts
      BY <2>2, <2>4, <2>5, <2>6, <2>7, StripUndoes
    <2>. QED  BY <2>3, <2>9
  <1>. QED  BY <1>2, <1>3

(* A plan on a tree over the host program leads to another one.            *)
LEMMA PlanOnHost ==
    ASSUME AbsentIsNoText, AbsentIsNoState, SignedCatalogs,
           NEW cmd, NEW cat \in Catalogs, NEW d, OnHost(d),
           Planned(cmd, cat, d).ok
    PROVE  OnHost(Planned(cmd, cat, d).tree)
  <1> DEFINE chosen == Resolution(cat, IF cmd = "revert" THEN {}
                                       ELSE Visible(cat))
             units == UnitsOf(cat, chosen.packs)
             new == Compose(units, Base(d).texts)
             state == [units |-> units, order |-> new.order,
                       packs |-> chosen.packs,
                       outputs |-> [f \in {u.file : u \in ToSet(units)} |->
                                       new.texts[f]]]
             tree == [x \in Paths |->
                  IF x \in Files THEN new.texts[x]
                  ELSE IF x = "intent"
                       THEN IF cmd = "revert" THEN "disabled" ELSE "all"
                  ELSE IF units = <<>> THEN Absent ELSE state]
  <1>1. Base(d).ok /\ new.ok /\ Planned(cmd, cat, d).tree = tree
    BY DEF Planned, Base
  <1>2. "state" \in Paths /\ "state" \notin Files /\ Files \subseteq Paths
    BY InstallAssumption DEF Paths
  <1>3. /\ tree["state"] = IF units = <<>> THEN Absent ELSE state
        /\ \A f \in Files : tree[f] = new.texts[f]
    BY <1>2
  <1>4. /\ state # Absent /\ state.units = units /\ state.order = new.order
    BY DEF AbsentIsNoState
  <1>5. Base(d).texts = HostTexts
    BY <1>1, BaseIsHost
  <1>6. IsCatalog(cat)
    BY InstallAssumption
  <1>7. units \in Seq(CatalogUnits(cat))
    BY <1>6, UnitsOfCatalog
  <1> HIDE DEF tree, state, units
  <1>8. ToSet(units) \subseteq CatalogUnits(cat) /\ units \in Seq(ToSet(units))
    <2>1. DOMAIN units = 1..Len(units) /\ Len(units) \in Nat
      BY <1>7
    <2>2. \A k \in 1..Len(units) : units[k] \in CatalogUnits(cat)
      BY <1>7
    <2>3. units = [k \in 1..Len(units) |-> units[k]]
      BY <1>7
    <2>4. \A k \in 1..Len(units) : units[k] \in ToSet(units)
      BY <2>1 DEF ToSet
    <2>5. units \in Seq(ToSet(units))
      BY <2>1, <2>3, <2>4
    <2>. QED  BY <2>1, <2>2, <2>5 DEF ToSet
  <1>9. \A u \in ToSet(units) : u.id \in Nat
    BY <1>8, InstallAssumption DEF IsUnit
  <1> DEFINE done == Compose(units, HostTexts)
             above == ApplyInOrder(units, done.order, HostTexts)
  <1>10. /\ done.ok
         /\ new = done
    BY <1>1, <1>5
  <1>11. /\ Lists({u.id : u \in ToSet(units)}, done.order)
         /\ above.ok
         /\ done.texts = above.texts
    BY <1>8, <1>9, <1>10, ComposeApplies
  <1>12. TextsOver(Alphabet(cat), Files, above.texts)
    <2> DEFINE T == Alphabet(cat)
    <2>1. TextsOver(T, Files, HostTexts) /\ UnitsOver(T, Files, ToSet(units))
      BY <1>8, HostOver DEF UnitsOver
    <2>2. Absent \notin Seq(T)
      BY DEF AbsentIsNoText
    <2> HIDE DEF T
    <2>3. TextsOver(T, Files, above.texts)
      BY <1>11, <2>1, <2>2, ApplyOver
    <2>. QED  BY <2>3 DEF T
  <1>13. above.texts = [f \in Files |-> tree[f]]
    BY <1>3, <1>10, <1>11, <1>12 DEF TextsOver
  <1>14. CASE units = <<>>
    <2>1. done.texts = HostTexts
      BY <1>10, <1>14, ComposeNothing
    <2>2. \A f \in Files : tree[f] = HostTexts[f]
      BY <1>3, <1>10, <2>1
    <2>. QED  BY <1>1, <1>3, <1>14, <2>2 DEF OnHost
  <1>15. CASE units # <<>>
    <2>1. tree["state"] # Absent /\ tree["state"].units = units /\ tree["state"].order = done.order
      BY <1>3, <1>4, <1>10, <1>15
    <2>. QED  BY <1>1, <1>8, <1>11, <1>13, <2>1 DEF OnHost, UnitsOfState
  <1>. QED  BY <1>14, <1>15

(* As long as nobody has edited the host program, the tree is on it.       *)
HostInv ==
    /\ edits \in Nat
    /\ edits = 0 => host = HostTexts /\ OnHost(Tree)

LEMMA NextEdits ==
    ASSUME edits \in Nat, [Next]_vars
    PROVE  edits' \in Nat /\ (edits' = 0 => edits = 0 /\ host' = host)
  <1>1. edits' = edits + 1 \/ (edits' = edits /\ host' = host)
    <2>1. CASE \E p \in Procs, cmd \in {"live", "stage"} : Start(p, cmd)
      BY <2>1 DEF Start, logged
    <2>2. CASE \E p \in Procs, cat \in Catalogs : Plan(p, cat)
      BY <2>2 DEF Plan, logged
    <2>3. ASSUME NEW p \in Procs, FileStep(p)
          PROVE  edits' = edits + 1 \/ (edits' = edits /\ host' = host)
      <3>1. CASE OpenLock(p) \/ SignLock(p) \/ InspectLock(p) \/ BreakLock(p)
        BY <3>1 DEF OpenLock, SignLock, InspectLock, BreakLock, logged
      <3>2. CASE Release(p) \/ Recover(p) \/ RestoreFile(p) \/ RestoreDone(p)
        BY <3>2 DEF Release, Recover, RestoreFile, RestoreDone, logged
      <3>3. CASE Begin(p) \/ WriteFile(p) \/ Keep(p) \/ WriteReceipt(p)
        BY <3>3 DEF Begin, WriteFile, Keep, WriteReceipt, logged
      <3>4. CASE RunChecks(p)
        BY <3>4 DEF RunChecks
      <3>. QED  BY <2>3, <3>1, <3>2, <3>3, <3>4 DEF FileStep
    <2>4. CASE \E p \in Procs : WriteFails(p) \/ RestoreFails(p) \/ Crash(p)
      BY <2>4 DEF WriteFails, RestoreFails, Crash
    <2>5. CASE \E f \in Files : Edit(f)
      BY <2>5 DEF Edit
    <2>6. CASE UNCHANGED vars
      BY <2>6 DEF vars
    <2>. QED  BY <2>1, <2>2, <2>3, <2>4, <2>5, <2>6 DEF Next
  <1>. QED  BY <1>1

LEMMA NextHost ==
    ASSUME AbsentIsNoText, AbsentIsNoState, SignedCatalogs,
           edits \in Nat, HostInv, Moves, [Next]_vars
    PROVE  HostInv'
  <1>1. edits' \in Nat /\ (edits' = 0 => edits = 0 /\ host' = host)
    BY NextEdits
  <1>2. ASSUME edits' = 0 PROVE OnHost(Tree')
    <2>1. OnHost(Tree)
      BY <1>1, <1>2 DEF HostInv
    <2>2. CASE Tree' = Tree
      BY <2>1, <2>2
    <2>3. CASE Installation(Tree, Tree')
      BY <2>1, <2>3, PlanOnHost DEF Installation
    <2>4. edits' # edits + 1
      BY <1>2, <1>1
    <2>. QED  BY <2>2, <2>3, <2>4 DEF Moves
  <1>. QED  BY <1>1, <1>2 DEF HostInv

LEMMA HostInductive ==
    ~BreakersOverlap /\ AbsentIsNoText /\ AbsentIsNoState /\ SignedCatalogs
        => (Spec => []HostInv)
<1> SUFFICES ASSUME ~BreakersOverlap, AbsentIsNoText, AbsentIsNoState,
                    SignedCatalogs
             PROVE  Spec => []HostInv
    OBVIOUS
<1>1. Init => HostInv
  <2> SUFFICES ASSUME Init PROVE HostInv
      OBVIOUS
  <2>1. Tree["state"] = Absent /\ \A f \in Files : Tree[f] = HostTexts[f]
    BY InstallAssumption DEF Init, Tree, NoJournal, Paths
  <2>. QED  BY <2>1 DEF Init, HostInv, OnHost
<1>2. Inv /\ Inv' /\ HostInv /\ [Next]_vars => HostInv'
  BY NextJournal, NextHost DEF Inv, HostInv
<1>. QED  BY <1>1, <1>2, Inductive, PTL DEF Spec

(* An installation that was taken back has left nothing on the host        *)
(* program as long as nobody has edited it (planTransition and             *)
(* applyTransitionUnlocked in manager.cjs), whatever was installed,        *)
(* upgraded, interrupted and rolled back before.                           *)
THEOREM RevertRestores ==
    ~BreakersOverlap /\ AbsentIsNoText /\ AbsentIsNoState /\ SignedCatalogs
        => (Spec => [](edits = 0 => RevertRestoresHost))
<1> SUFFICES ASSUME ~BreakersOverlap, AbsentIsNoText, AbsentIsNoState,
                    SignedCatalogs
             PROVE  Spec => [](edits = 0 => RevertRestoresHost)
    OBVIOUS
<1>1. Inv /\ HostInv => (edits = 0 => RevertRestoresHost)
  BY ClosedTree DEF Inv, HostInv, OnHost, RevertRestoresHost
<1>. QED  BY <1>1, Inductive, HostInductive, PTL

(* Units that can be taken off lie on exactly the texts of the host        *)
(* program as long as nobody has edited it (stripCurrentUnits in           *)
(* manager.cjs, revertUnit in compose.cjs): every unit gives back what it  *)
(* replaced when the units above it are gone.                              *)
THEOREM HostIsUnderUnits ==
    ~BreakersOverlap /\ AbsentIsNoText /\ AbsentIsNoState /\ SignedCatalogs
        => (Spec => [](edits = 0 => HostUnderUnits))
<1> SUFFICES ASSUME ~BreakersOverlap, AbsentIsNoText, AbsentIsNoState,
                    SignedCatalogs
             PROVE  Spec => [](edits = 0 => HostUnderUnits)
    OBVIOUS
<1>1. Inv /\ HostInv => (edits = 0 => HostUnderUnits)
  <2> SUFFICES ASSUME Inv, HostInv, edits = 0, ~Interrupted,
                      disk["state"] # Absent, Base(disk).ok
               PROVE  Base(disk).texts = host
      BY DEF HostUnderUnits, Base
  <2>1. OnHost(disk) /\ host = HostTexts
    BY ClosedTree DEF Inv, HostInv
  <2>. QED  BY <2>1, BaseIsHost
<1>. QED  BY <1>1, Inductive, HostInductive, PTL
=============================================================================
