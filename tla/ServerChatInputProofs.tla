------------------------ MODULE ServerChatInputProofs ------------------------
(***************************************************************************)
(* Theorems about ServerChatInput, for any number of operations, commands, *)
(* notes, saves and restarts, and any limits.                              *)
(***************************************************************************)
EXTENDS ServerChatInput, ChatStoreProofs, FiniteSetTheorems

(* The last admission of a set of inputs is one of them, and the last.     *)
LEMMA LatestIn ==
    ASSUME NEW S \in SUBSET Ops, S # {}, \A p \in S : rec[p].seq \in Nat
    PROVE  Latest(S) \in S /\ \A p \in S : rec[p].seq <= rec[Latest(S)].seq
<1> DEFINE Above(p) == {q \in S : rec[q].seq > rec[p].seq}
           family == {Above(p) : p \in S}
<1>1. IsFiniteSet(S)
  BY FS_Subset, InputAssumption
<1>2. family \subseteq SUBSET S /\ family # {}
  OBVIOUS
<1> HIDE DEF family
<1>3. PICK X \in family : \A Y \in family : <<Y, X>> \notin StrictSubsetOrdering(S)
  <2>1. IsWellFoundedOn(StrictSubsetOrdering(S), FiniteSubsetsOf(S))
    BY FS_StrictSubsetOrderingWellFounded
  <2>2. FiniteSubsetsOf(S) = SUBSET S
    BY <1>1, FS_FiniteSubsetsOfFinite
  <2> QED
    BY <1>2, <2>1, <2>2, WFMin
<1>4. PICK p \in S : X = Above(p)
  BY DEF family
<1>5. ASSUME NEW q \in S PROVE rec[q].seq <= rec[p].seq
  <2>1. SUFFICES ASSUME rec[q].seq > rec[p].seq PROVE FALSE
    OBVIOUS
  <2>2. Above(q) \in family
    BY DEF family
  <2>3. Above(q) \subseteq Above(p) /\ q \in Above(p) /\ q \notin Above(q)
    BY <2>1
  <2>4. <<Above(q), Above(p)>> \in StrictSubsetOrdering(S)
    BY <2>3 DEF StrictSubsetOrdering
  <2> QED
    BY <1>3, <1>4, <2>2, <2>4
<1> QED
  BY <1>5 DEF Latest
-----------------------------------------------------------------------------
(* The inductive invariant. Types alone are not inductive: that a          *)
(* publication puts a chat in memory needs the commit record to be there,  *)
(* and that an answer finds its input needs the storage queue to be held   *)
(* from the moment its place was resolved.                                 *)
QueueHeld ==
    \A o \in Ops : slot = o =>
       /\ run[o] \in {"transforming", "committing"}
       /\ run[o] = "committing" => Input(o) \in Shown(live)

(* The durable rows of an operation agree with its record.                 *)
RowsAgree ==
    \A o \in Ops :
       /\ run[o] # "none" => o \in Admitted
       /\ Committed(o) <=> Is(o, "completed")
       /\ Is(o, "attached") => HasReceipt(o)
       /\ Is(o, "queued") => ~ HasReceipt(o)
       /\ run[o] \in {"prepared", "assembled"} => HasReceipt(o)

(* Only an input that nothing has come of is ever replaced by a retry.     *)
RetriedUnused ==
    \A p \in Admitted :
       UserResolved(p) => Is(p, "blocked_edit") /\ ~ HasReceipt(p)

(* An operation that the provider was started for is past every point from *)
(* which a start can be reached.                                           *)
PaidPast ==
    \A o \in Ops : starts[o] # 0 =>
       /\ starts[o] = 1
       /\ HasReceipt(o)
       /\ opState[o] # "queued"
       /\ run[o] \notin {"launched", "checked", "transforming", "prepared", "assembled"}

CancelSettled == \A o \in cancelled : o \in Admitted /\ ~ Live(o) /\ ~ Committed(o)

InputInv ==
    /\ InputTypeOK
    /\ QueueHeld
    /\ RowsAgree
    /\ OneTryPerCommand
    /\ RetriedUnused
    /\ PaidPast
    /\ CancelSettled
-----------------------------------------------------------------------------
(* What a step of operation o other than its admission and its attachment  *)
(* may do to the records: change the state of o while it is live, to one   *)
(* of the given states, and details that the invariant does not look at.   *)
Keeps(o, states) ==
    /\ rec' \in [Ops -> Record \cup {NoRec}]
    /\ \A p \in Ops : p # o => rec'[p] = rec[p]
    /\ rec'[o] # NoRec <=> rec[o] # NoRec
    /\ rec[o] # NoRec =>
          /\ rec'[o].cmd = rec[o].cmd
          /\ rec'[o].replacedBy = rec[o].replacedBy
          /\ rec'[o].ebase = rec[o].ebase
          /\ \/ rec'[o].st = rec[o].st
             \/ rec[o].st \notin Terminal /\ rec'[o].st \in states

LEMMA KeepsUpdate ==
    ASSUME rec \in [Ops -> Record \cup {NoRec}], NEW o \in Admitted,
           NEW r \in Record, rec' = [rec EXCEPT ![o] = r],
           r.cmd = rec[o].cmd, r.replacedBy = rec[o].replacedBy,
           r.ebase = rec[o].ebase, NEW states,
           r.st = rec[o].st \/ (rec[o].st \notin Terminal /\ r.st \in states)
    PROVE  Keeps(o, states)
  BY InputAssumption DEF Keeps, Admitted

LEMMA KeepsSame ==
    ASSUME rec \in [Ops -> Record \cup {NoRec}], NEW o \in Ops,
           UNCHANGED rec, NEW states
    PROVE  Keeps(o, states)
  BY DEF Keeps

LEMMA KeepsSettle ==
    ASSUME rec \in [Ops -> Record \cup {NoRec}], NEW o \in Ops,
           NEW state \in InputStates, Settle(o, state)
    PROVE  Keeps(o, {state}) /\ (Live(o) => rec'[o].st = state)
<1>1. CASE Live(o)
  <2> DEFINE r == [rec[o] EXCEPT !.st = state]
  <2>1. o \in Admitted /\ rec[o] \in Record
    BY <1>1 DEF Live, Admitted
  <2>2. /\ r \in Record /\ r.cmd = rec[o].cmd /\ r.replacedBy = rec[o].replacedBy
        /\ r.ebase = rec[o].ebase /\ r.st = state
    BY <2>1 DEF Record
  <2>3. rec' = [rec EXCEPT ![o] = r]
    BY <1>1 DEF Settle
  <2> HIDE DEF r
  <2>4. rec[o].st \notin Terminal
    BY <1>1 DEF Live
  <2>5. Keeps(o, {state})
    BY <2>1, <2>2, <2>3, <2>4, KeepsUpdate
  <2> QED
    BY <2>1, <2>2, <2>3, <2>5 DEF Admitted
<1>2. CASE ~ Live(o)
  BY <1>2, KeepsSame DEF Settle
<1> QED
  BY <1>1, <1>2

LEMMA KeepsBlock ==
    ASSUME rec \in [Ops -> Record \cup {NoRec}], NEW o \in Ops, Is(o, "queued"),
           NEW tf \in {"not_run", "running", "completed", "unknown"},
           NEW cascade \in BOOLEAN, BlockEdit(o, tf, cascade)
    PROVE  Keeps(o, {"blocked_edit"}) /\ Is(o, "blocked_edit")'
<1> DEFINE r == [rec[o] EXCEPT !.st = "blocked_edit", !.tf = tf, !.cascade = cascade]
<1>1. o \in Admitted /\ rec[o] \in Record /\ rec[o].st \notin Terminal
  BY DEF Is, Admitted, Terminal
<1>2. /\ r \in Record /\ r.cmd = rec[o].cmd /\ r.replacedBy = rec[o].replacedBy
      /\ r.ebase = rec[o].ebase /\ r.st = "blocked_edit"
  <2> DEFINE q == [rec[o] EXCEPT !.st = "blocked_edit", !.tf = tf]
  <2>1. /\ q \in Record /\ q.cmd = rec[o].cmd /\ q.replacedBy = rec[o].replacedBy
        /\ q.ebase = rec[o].ebase /\ q.st = "blocked_edit"
    BY ZenonT(40), <1>1 DEF Record, InputStates
  <2>2. r = [q EXCEPT !.cascade = cascade]
    BY <1>1 DEF Record
  <2> HIDE DEF q, r
  <2> QED
    BY <2>1, <2>2 DEF Record
<1>3. rec' = [rec EXCEPT ![o] = r]
  BY DEF BlockEdit
<1> HIDE DEF r
<1>4. Keeps(o, {"blocked_edit"})
  BY <1>1, <1>2, <1>3, KeepsUpdate
<1> QED
  BY <1>1, <1>2, <1>3, <1>4 DEF Is, Admitted, Keeps

LEMMA KeepsTransform ==
    ASSUME rec \in [Ops -> Record \cup {NoRec}], NEW o \in Admitted,
           NEW tf \in {"not_run", "running", "completed", "unknown"},
           rec' = [rec EXCEPT ![o].tf = tf]
    PROVE  Keeps(o, {})
<1> DEFINE r == [rec[o] EXCEPT !.tf = tf]
<1>1. rec[o] \in Record
  BY DEF Admitted
<1>2. /\ r \in Record /\ r.cmd = rec[o].cmd /\ r.replacedBy = rec[o].replacedBy
      /\ r.ebase = rec[o].ebase /\ r.st = rec[o].st
  BY <1>1 DEF Record
<1> HIDE DEF r
<1> QED
  BY <1>2, KeepsUpdate DEF r

LEMMA KeepsResolved ==
    ASSUME rec \in [Ops -> Record \cup {NoRec}], NEW o \in Admitted,
           rec' = [rec EXCEPT ![o].resolved = TRUE]
    PROVE  Keeps(o, {})
<1> DEFINE r == [rec[o] EXCEPT !.resolved = TRUE]
<1>1. rec[o] \in Record
  BY DEF Admitted
<1>2. /\ r \in Record /\ r.cmd = rec[o].cmd /\ r.replacedBy = rec[o].replacedBy
      /\ r.ebase = rec[o].ebase /\ r.st = rec[o].st
  BY <1>1 DEF Record
<1> HIDE DEF r
<1> QED
  BY <1>2, KeepsUpdate DEF r

LEMMA KeepsPublication ==
    ASSUME rec \in [Ops -> Record \cup {NoRec}], NEW o \in Admitted,
           NEW pub \in BOOLEAN, rec' = [rec EXCEPT ![o].pub = pub]
    PROVE  Keeps(o, {})
<1> DEFINE r == [rec[o] EXCEPT !.pub = pub]
<1>1. rec[o] \in Record
  BY DEF Admitted
<1>2. /\ r \in Record /\ r.cmd = rec[o].cmd /\ r.replacedBy = rec[o].replacedBy
      /\ r.ebase = rec[o].ebase /\ r.st = rec[o].st
  BY <1>1 DEF Record
<1> HIDE DEF r
<1> QED
  BY <1>2, KeepsUpdate DEF r
-----------------------------------------------------------------------------
(* Most steps of o neither admit, attach nor commit it: what is left to    *)
(* show for one of them.                                                   *)
LEMMA StepOf ==
    ASSUME InputInv, NEW o \in Ops, InputTypeOK', QueueHeld',
           NEW states \in SUBSET {"failed", "cancelled", "blocked_edit"},
           Keeps(o, states), UNCHANGED <<commit, starts>>,
           \/ cancelled' = cancelled
           \/ /\ cancelled' = cancelled \cup {o}
              /\ o \in Admitted /\ ~ Live(o)' /\ ~ Committed(o),
           \A p \in Ops : p # o => run'[p] = run[p] /\ opState'[p] = opState[p],
           run'[o] # "none" => o \in Admitted,
           run'[o] \in {"prepared", "assembled"} => HasReceipt(o),
           starts[o] # 0 =>
              /\ opState'[o] # "queued"
              /\ run'[o] \notin {"launched", "checked", "transforming", "prepared", "assembled"}
    PROVE  InputInv'
<1>0. /\ rec \in [Ops -> Record \cup {NoRec}]
      /\ rec' \in [Ops -> Record \cup {NoRec}]
      /\ \A p \in Admitted : p \in Ops /\ rec[p] \in Record
  BY DEF InputInv, InputTypeOK, Admitted
<1>1. /\ Admitted' = Admitted
      /\ \A p \in Admitted :
            /\ rec'[p].cmd = rec[p].cmd
            /\ rec'[p].replacedBy = rec[p].replacedBy
            /\ rec'[p].ebase = rec[p].ebase
            /\ \/ rec'[p].st = rec[p].st
               \/ /\ rec[p].st \notin Terminal
                  /\ rec'[p].st \in {"failed", "cancelled", "blocked_edit"}
  BY ZenonT(40), <1>0 DEF Keeps, Admitted
<1>2. OneTryPerCommand'
  BY <1>1 DEF InputInv, OneTryPerCommand, Unresolved, UserResolved
<1>3. RetriedUnused'
  BY <1>1 DEF InputInv, RetriedUnused, UserResolved, Is, HasReceipt, Terminal
<1>4. CancelSettled'
  BY <1>1 DEF InputInv, CancelSettled, Live, Committed
<1>5. RowsAgree'
  <2> SUFFICES ASSUME NEW p \in Ops
               PROVE  /\ run'[p] # "none" => p \in Admitted'
                      /\ Committed(p)' <=> Is(p, "completed")'
                      /\ Is(p, "attached")' => HasReceipt(p)'
                      /\ Is(p, "queued")' => ~ HasReceipt(p)'
                      /\ run'[p] \in {"prepared", "assembled"} => HasReceipt(p)'
    BY DEF RowsAgree
  <2>1. HasReceipt(p)' <=> HasReceipt(p)
    BY <1>1 DEF HasReceipt
  <2>2. Is(p, "completed")' <=> Is(p, "completed")
    BY <1>1 DEF Is, Terminal
  <2>3. (Is(p, "attached")' => Is(p, "attached")) /\ (Is(p, "queued")' => Is(p, "queued"))
    BY <1>1 DEF Is
  <2> QED
    BY <1>1, <2>1, <2>2, <2>3 DEF InputInv, RowsAgree, Committed
<1>6. PaidPast'
  BY <1>1 DEF InputInv, PaidPast, HasReceipt
<1> QED
  BY <1>2, <1>3, <1>4, <1>5, <1>6 DEF InputInv
-----------------------------------------------------------------------------
(* The steps that block an input until the user retries it.                *)
LEMMA BlockKeepsTypes ==
    ASSUME InputInv, NEW o \in Ops, Is(o, "queued"),
           NEW tf \in {"not_run", "running", "completed", "unknown"},
           NEW cascade \in BOOLEAN, BlockEdit(o, tf, cascade),
           UNCHANGED <<storeVars, opState, commit, starts>>, KeepHistory,
           \/ UNCHANGED <<run, anchor>>
           \/ RunEnds(o) /\ slot # o
    PROVE  InputInv'
<1>1. Keeps(o, {"blocked_edit"})
  BY KeepsBlock DEF InputInv, InputTypeOK
<1>2. /\ rec' \in [Ops -> Record \cup {NoRec}]
      /\ snap' \in SUBSET Ops /\ tbase' \in [Ops -> Chat \cup {NoChat}]
  BY <1>1 DEF InputInv, InputTypeOK, BlockEdit, Keeps
<1>3. StoreTypeOK' /\ CommitTypeOK'
  BY DEF InputInv, InputTypeOK, StoreTypeOK, CommitTypeOK, storeVars, RunEnds, Phases
<1>4. InputTypeOK'
  BY <1>2, <1>3 DEF InputInv, InputTypeOK, KeepHistory
<1>5. /\ \A p \in Ops : p # o => run'[p] = run[p]
      /\ run'[o] = run[o] \/ run'[o] = "none"
  BY DEF RunEnds, InputInv, InputTypeOK, CommitTypeOK
<1>6. QueueHeld'
  BY <1>5, StoreAssumption DEF InputInv, QueueHeld, storeVars, RunEnds
<1>7. o \in Admitted /\ cancelled' = cancelled
  BY DEF Is, KeepHistory
<1>8. /\ run[o] \in {"prepared", "assembled"} => HasReceipt(o)
      /\ starts[o] # 0 => opState[o] # "queued"
           /\ run[o] \notin {"launched", "checked", "transforming", "prepared", "assembled"}
  BY DEF InputInv, RowsAgree, PaidPast
<1> QED
  BY <1>1, <1>4, <1>5, <1>6, <1>7, <1>8, StepOf

LEMMA InvBlocked ==
    ASSUME InputInv, NEW o \in Ops,
           \/ CascadeBlock(o) \/ RevisionBlock(o) \/ BeginRejected(o)
           \/ TransformUnsupported(o) \/ AttachConflict(o)
    PROVE  InputInv'
<1>1. ASSUME Is(o, "queued")
      PROVE  rec[o].tf \in {"not_run", "running", "completed", "unknown"}
  BY <1>1 DEF InputInv, InputTypeOK, Is, Admitted, Record
<1>2. CASE CascadeBlock(o)
  BY <1>1, <1>2, BlockKeepsTypes DEF CascadeBlock, PredecessorEnded, commitVars
<1>3. CASE RevisionBlock(o)
  BY <1>1, <1>3, BlockKeepsTypes DEF RevisionBlock, PredecessorEnded, commitVars
<1>4. CASE BeginRejected(o)
  BY <1>4, StoreAssumption, BlockKeepsTypes DEF BeginRejected, CanBegin, EndSilently
<1>5. CASE TransformUnsupported(o)
  BY <1>5, BlockKeepsTypes DEF TransformUnsupported, EndSilently
<1>6. CASE AttachConflict(o)
  BY <1>6, StoreAssumption, BlockKeepsTypes DEF AttachConflict, EndSilently
<1> QED
  BY <1>2, <1>3, <1>4, <1>5, <1>6
-----------------------------------------------------------------------------
(* The steps that settle an input that is not answered.                    *)
LEMMA SettleTypes ==
    ASSUME InputInv, NEW o \in Ops, NEW state \in {"failed", "cancelled"},
           SettleAndRelease(o, state)
    PROVE  /\ Keeps(o, {state})
           /\ rec' \in [Ops -> Record \cup {NoRec}]
           /\ snap' \in SUBSET Ops /\ tbase' \in [Ops -> Chat \cup {NoChat}]
<1>1. Keeps(o, {state})
  BY KeepsSettle DEF InputInv, InputTypeOK, SettleAndRelease, InputStates
<1>2. snap' \in SUBSET Ops
  BY DEF InputInv, InputTypeOK, SettleAndRelease
<1>3. tbase' \in [Ops -> Chat \cup {NoChat}]
  <2> DEFINE new == IF o \in snap' THEN tbase[o] ELSE NoChat
  <2>1. tbase' = [tbase EXCEPT ![o] = new]
    BY DEF SettleAndRelease
  <2>2. new \in Chat \cup {NoChat}
    BY DEF InputInv, InputTypeOK
  <2> HIDE DEF new
  <2> QED
    BY <2>1, <2>2 DEF InputInv, InputTypeOK
<1> QED
  BY <1>1, <1>2, <1>3 DEF Keeps

LEMMA InvSettled ==
    ASSUME InputInv, NEW o \in Ops,
           \/ LaunchRefused(o) \/ AssemblyConflict(o)
           \/ GenerationFails(o) \/ AnswerCancelled(o)
    PROVE  InputInv'
<1> PICK state \in {"failed", "cancelled"} : SettleAndRelease(o, state)
  BY DEF LaunchRefused, AssemblyConflict, GenerationFails, AnswerCancelled
<1>1. /\ Keeps(o, {state}) /\ rec' \in [Ops -> Record \cup {NoRec}]
      /\ snap' \in SUBSET Ops /\ tbase' \in [Ops -> Chat \cup {NoChat}]
  BY SettleTypes
<1>2. /\ UNCHANGED <<live, applied, image, staged, acked, commit, starts>>
      /\ KeepHistory
  BY DEF LaunchRefused, AssemblyConflict, GenerationFails, AnswerCancelled,
         EndWithResult, CommitCancelled, storeVars
<1>3. /\ slot' = slot \/ slot' = Free
      /\ slot # o \/ slot' = Free \/ UNCHANGED run
  BY StoreAssumption
     DEF LaunchRefused, AssemblyConflict, GenerationFails, AnswerCancelled,
         EndWithResult, CommitCancelled, storeVars, InputInv, QueueHeld
<1>4. \/ UNCHANGED <<run, anchor>> /\ opState' = [opState EXCEPT ![o] = "none"]
      \/ RunEnds(o) /\ opState' = [opState EXCEPT ![o] = "result-ready"]
      \/ RunEnds(o) /\ UNCHANGED opState
  BY DEF LaunchRefused, AssemblyConflict, GenerationFails, AnswerCancelled,
         EndWithResult, CommitCancelled, CanRun
<1>5. /\ \A p \in Ops : p # o => run'[p] = run[p] /\ opState'[p] = opState[p]
      /\ run'[o] = run[o] \/ run'[o] = "none"
      /\ opState'[o] = opState[o] \/ opState'[o] # "queued"
  BY <1>4 DEF RunEnds, InputInv, InputTypeOK, CommitTypeOK
<1>6. StoreTypeOK'
  BY <1>2, <1>3 DEF InputInv, InputTypeOK, StoreTypeOK
<1>7. CommitTypeOK'
  BY <1>2, <1>4 DEF InputInv, InputTypeOK, CommitTypeOK, RunEnds, Phases, OpStates
<1>8. InputTypeOK'
  BY <1>1, <1>2, <1>6, <1>7 DEF InputInv, InputTypeOK, KeepHistory
<1>9. QueueHeld'
  BY <1>2, <1>3, <1>5, StoreAssumption DEF InputInv, QueueHeld
<1>10. /\ run[o] # "none" => o \in Admitted
       /\ run[o] \in {"prepared", "assembled"} => HasReceipt(o)
       /\ starts[o] # 0 => opState[o] # "queued"
            /\ run[o] \notin {"launched", "checked", "transforming", "prepared", "assembled"}
  BY DEF InputInv, RowsAgree, PaidPast
<1> QED
  BY <1>1, <1>2, <1>5, <1>8, <1>9, <1>10, StepOf DEF KeepHistory

-----------------------------------------------------------------------------
(* The steps that only move a run along, or write the chat.                *)
LEMMA InvRun ==
    ASSUME InputInv, NEW o \in Ops,
           \/ Launch(o) \/ CheckPredecessor(o) \/ BeginAttached(o) \/ BeginRefused(o)
           \/ AttachPrepare(o) \/ TransformCancelled(o)
           \/ AssemblePrompt(o) \/ RunStops(o)
           \/ GenerationReady(o) \/ GenerationCancelled(o)
    PROVE  InputInv'
<1> USE DEF Launch, CheckPredecessor, BeginAttached, BeginRefused, AttachPrepare,
            TransformCancelled,
            AssemblePrompt, Assemble, RunStops, GenerationReady, GenerationSucceeds,
            GenerationCancelled, EndSilently
<1>1. /\ UNCHANGED <<live, applied, image, staged, acked>>
      /\ UNCHANGED <<opState, commit, starts, inputVars>>
  BY DEF storeVars, commitVars
<1>2. rec' = rec /\ cancelled' = cancelled
  BY <1>1 DEF inputVars
<1>3. Keeps(o, {})
  BY <1>2, KeepsSame DEF InputInv, InputTypeOK
<1>4. PICK phase \in Phases, prompt \in Chat \cup {NoChat} :
         run' = [run EXCEPT ![o] = phase] /\ anchor' = [anchor EXCEPT ![o] = prompt]
  BY DEF Phases, RunEnds, commitVars, InputInv, InputTypeOK, CommitTypeOK, StoreTypeOK
<1>5. run'[o] = phase /\ \A p \in Ops : p # o => run'[p] = run[p]
  BY <1>4 DEF InputInv, InputTypeOK, CommitTypeOK
<1>6. slot' \in Ops \cup {Free, Persisting}
  BY DEF storeVars, InputInv, InputTypeOK, StoreTypeOK
<1>7. StoreTypeOK'
  BY <1>1, <1>6 DEF InputInv, InputTypeOK, StoreTypeOK
<1>8. CommitTypeOK'
  BY <1>1, <1>4 DEF InputInv, InputTypeOK, CommitTypeOK
<1>9. InputTypeOK'
  BY <1>1, <1>7, <1>8 DEF InputInv, InputTypeOK, inputVars
<1>10. QueueHeld'
  <2>1. \/ slot' = slot /\ slot # o
        \/ slot' = Free
        \/ slot' = o /\ run[o] = "transforming" /\ UNCHANGED run
    BY StoreAssumption DEF storeVars, commitVars, CanRun, InputInv, QueueHeld
  <2> QED
    BY <1>1, <1>5, <2>1, StoreAssumption DEF InputInv, QueueHeld
<1>11. phase # "none" => o \in Admitted
  BY <1>5 DEF InputInv, RowsAgree, CanRun, Is, commitVars
<1>12. phase \in {"prepared", "assembled"} => HasReceipt(o)
  BY <1>5 DEF InputInv, RowsAgree, commitVars, RunEnds, InputTypeOK, CommitTypeOK
<1>13. starts[o] # 0 =>
          opState[o] # "queued"
          /\ phase \notin {"launched", "checked", "transforming", "prepared", "assembled"}
  BY <1>5 DEF InputInv, PaidPast, commitVars, CanRun, RunEnds, InputTypeOK, CommitTypeOK
<1> QED
  BY <1>1, <1>2, <1>3, <1>5, <1>9, <1>10, <1>11, <1>12, <1>13, StepOf
-----------------------------------------------------------------------------
(* The steps that note how far the transform or the predecessor has come.  *)
LEMMA InvNoted ==
    ASSUME InputInv, NEW o \in Ops,
           Begin(o) \/ TransformFails(o) \/ RecoverTransform(o) \/ Resolve(o)
    PROVE  InputInv'
<1> USE DEF Begin, CanBegin, TransformFails, RecoverTransform, Resolve,
            PredecessorEnded, NextToRecover
<1>1. Is(o, "queued") /\ o \in Admitted /\ rec[o] \in Record
  BY DEF Is, InputInv, InputTypeOK, Admitted
<1>2. Keeps(o, {})
  <2>1. CASE Begin(o)
    BY <2>1, <1>1, KeepsTransform DEF InputInv, InputTypeOK
  <2>2. CASE TransformFails(o)
    BY <2>2, <1>1, KeepsTransform DEF InputInv, InputTypeOK
  <2>3. CASE RecoverTransform(o)
    <3> DEFINE tf == IF rec[o].tf = "running" THEN "unknown" ELSE rec[o].tf
    <3>1. tf \in {"not_run", "running", "completed", "unknown"}
      BY <1>1 DEF Record
    <3>2. rec' = [rec EXCEPT ![o].tf = tf]
      BY <2>3
    <3> HIDE DEF tf
    <3> QED
      BY <1>1, <3>1, <3>2, KeepsTransform DEF InputInv, InputTypeOK
  <2>4. CASE Resolve(o)
    BY <2>4, <1>1, KeepsResolved DEF InputInv, InputTypeOK
  <2> QED
    BY <2>1, <2>2, <2>3, <2>4
<1>3. UNCHANGED <<storeVars, commit, starts, restarts, cancelled, early>>
  BY DEF KeepHistory, EndSilently, commitVars, storeVars
<1>4. /\ opState' = opState \/ opState' = [opState EXCEPT ![o] = "queued"]
      /\ \/ UNCHANGED <<run, anchor>>
         \/ run' = [run EXCEPT ![o] = "transforming"] /\ UNCHANGED anchor /\ slot = Free
         \/ RunEnds(o) /\ slot # o
  BY DEF EndSilently, commitVars
<1>5. StoreTypeOK'
  BY <1>3 DEF InputInv, InputTypeOK, StoreTypeOK, storeVars
<1>6. CommitTypeOK'
  BY <1>3, <1>4 DEF InputInv, InputTypeOK, CommitTypeOK, RunEnds, Phases, OpStates
<1>7. tbase' \in [Ops -> Chat \cup {NoChat}] /\ snap' \in SUBSET Ops /\ todo' \in SUBSET Ops
  BY DEF InputInv, InputTypeOK, StoreTypeOK, KeepHistory
<1>8. InputTypeOK'
  BY <1>2, <1>3, <1>5, <1>6, <1>7 DEF InputInv, InputTypeOK, Keeps
<1>9. /\ \A p \in Ops : p # o => run'[p] = run[p] /\ opState'[p] = opState[p]
      /\ run'[o] = run[o] \/ run'[o] = "none" \/ run'[o] = "transforming"
  BY <1>4 DEF RunEnds, InputInv, InputTypeOK, CommitTypeOK
<1>10. QueueHeld'
  BY <1>3, <1>4, <1>9, StoreAssumption DEF InputInv, QueueHeld, storeVars
<1>11. starts[o] = 0 /\ (run[o] \in {"prepared", "assembled"} => HasReceipt(o))
  BY <1>1 DEF InputInv, PaidPast, RowsAgree
<1> QED
  BY <1>1, <1>2, <1>3, <1>8, <1>9, <1>10, <1>11, StepOf

-----------------------------------------------------------------------------
(* The steps that write the chat that is served, or note that they did.    *)
LEMMA ReceiptIsChat ==
    ASSUME InputInv, NEW o \in Ops, HasReceipt(o)
    PROVE  rec[o] \in Record /\ rec[o].ebase \in Chat
  BY DEF InputInv, InputTypeOK, HasReceipt, Admitted, Record

LEMMA QueueFree ==
    ASSUME InputInv, slot = Free, slot' = Free
    PROVE  QueueHeld'
  BY StoreAssumption DEF QueueHeld

LEMMA InvServed ==
    ASSUME InputInv, NEW o \in Ops,
           \/ Republish(o) \/ RecoverAttached(o)
           \/ RecoverCommit(o) \/ RecoverCompleted(o) \/ Finalize(o)
    PROVE  InputInv'
<1> USE DEF Republish, RecoverAttached, RecoverCommit, RecoverCompleted, Finalize,
            NextToRecover, PublishCommit, RecordPublished
<1>1. slot = Free /\ slot' = Free
  BY DEF EndSilently, storeVars
<1>2. /\ UNCHANGED <<image, staged, acked>>
      /\ UNCHANGED <<opState, commit, starts, tbase, restarts, cancelled, early>>
  BY DEF EndSilently, storeVars, commitVars, inputVars, KeepHistory
<1>3. live' \in Chat /\ applied' \in SUBSET Ops
  <2>1. CASE Republish(o)
    BY <2>1, ReceiptIsChat DEF InputInv, RowsAgree, InputTypeOK, StoreTypeOK
  <2>2. CASE RecoverAttached(o)
    BY <2>2, ReceiptIsChat DEF InputInv, InputTypeOK, StoreTypeOK
  <2>3. CASE RecoverCommit(o) \/ RecoverCompleted(o)
    <3>1. commit[o] \in Commits
      BY <2>3 DEF Pending, InputInv, RowsAgree, Committed, InputTypeOK, CommitTypeOK
    <3> QED
      BY <2>3, <3>1 DEF Commits, InputInv, InputTypeOK, StoreTypeOK
  <2>4. CASE Finalize(o)
    BY <2>4 DEF EndSilently, storeVars, InputInv, InputTypeOK, StoreTypeOK
  <2> QED
    BY <2>1, <2>2, <2>3, <2>4
<1>4. Keeps(o, {})
  <2>1. CASE Republish(o) \/ RecoverAttached(o)
    BY <2>1, KeepsSame DEF inputVars, InputInv, InputTypeOK
  <2>2. CASE RecoverCommit(o) \/ RecoverCompleted(o)
    <3>1. o \in Admitted
      BY <2>2 DEF Pending, InputInv, RowsAgree, Is
    <3> QED
      BY <2>2, <3>1, KeepsPublication DEF InputInv, InputTypeOK
  <2>3. CASE Finalize(o)
    <3> DEFINE pub == rec[o].pub \/ run[o] = "published"
    <3>1. o \in Admitted
      BY <2>3 DEF InputInv, RowsAgree
    <3>2. rec' = [rec EXCEPT ![o].pub = pub] /\ pub \in BOOLEAN
      BY <2>3
    <3> HIDE DEF pub
    <3> QED
      BY <3>1, <3>2, KeepsPublication DEF InputInv, InputTypeOK
  <2> QED
    BY <2>1, <2>2, <2>3
<1>5. UNCHANGED <<run, anchor>> \/ RunEnds(o)
  BY DEF EndSilently, commitVars
<1>6. snap' \in SUBSET Ops /\ todo' \in SUBSET Ops
  BY DEF inputVars, KeepHistory, InputInv, InputTypeOK
<1>7. StoreTypeOK'
  BY <1>1, <1>2, <1>3 DEF InputInv, InputTypeOK, StoreTypeOK
<1>8. CommitTypeOK'
  BY <1>2, <1>5 DEF InputInv, InputTypeOK, CommitTypeOK, RunEnds, Phases
<1>9. InputTypeOK'
  BY <1>2, <1>4, <1>6, <1>7, <1>8 DEF InputInv, InputTypeOK, Keeps
<1>10. /\ \A p \in Ops : p # o => run'[p] = run[p] /\ opState'[p] = opState[p]
       /\ run'[o] = run[o] \/ run'[o] = "none"
       /\ opState'[o] = opState[o]
  BY <1>2, <1>5 DEF RunEnds, InputInv, InputTypeOK, CommitTypeOK
<1>11. /\ run[o] # "none" => o \in Admitted
       /\ run[o] \in {"prepared", "assembled"} => HasReceipt(o)
       /\ starts[o] # 0 => opState[o] # "queued"
            /\ run[o] \notin {"launched", "checked", "transforming", "prepared", "assembled"}
  BY DEF InputInv, RowsAgree, PaidPast
<1>12. QueueHeld'
  BY <1>1, QueueFree
<1> QED
  BY <1>2, <1>4, <1>9, <1>10, <1>11, <1>12, StepOf

LEMMA InvCancel ==
    ASSUME InputInv, NEW o \in Ops, Cancel(o)
    PROVE  InputInv'
<1> USE DEF Cancel, CanCancel, WriteCancelled
<1>1. /\ Keeps(o, {"cancelled"}) /\ rec' \in [Ops -> Record \cup {NoRec}]
      /\ snap' \in SUBSET Ops /\ tbase' \in [Ops -> Chat \cup {NoChat}]
  BY SettleTypes
<1>2. UNCHANGED <<storeVars, commit, run, anchor, starts, todo, restarts>>
  OBVIOUS
<1>3. ~ Live(o)' /\ (o \in Admitted' <=> o \in Admitted)
  <2>1. Live(o) => rec'[o].st = "cancelled"
    BY KeepsSettle DEF SettleAndRelease, InputInv, InputTypeOK, InputStates
  <2>2. o \in Admitted' <=> o \in Admitted
    BY <1>1 DEF Keeps, Admitted
  <2>3. ~ Live(o) => rec' = rec
    BY DEF SettleAndRelease, Settle
  <2> QED
    BY <2>1, <2>2, <2>3 DEF Live, Terminal
<1>4. \/ cancelled' = cancelled
      \/ /\ cancelled' = cancelled \cup {o}
         /\ o \in Admitted /\ ~ Live(o)' /\ ~ Committed(o)
  BY <1>3 DEF CancelAllowed
<1>5. StoreTypeOK' /\ CommitTypeOK'
  BY <1>2 DEF InputInv, InputTypeOK, StoreTypeOK, storeVars, CommitTypeOK, OpStates
<1>6. InputTypeOK'
  BY <1>1, <1>2, <1>5 DEF InputInv, InputTypeOK
<1>7. QueueHeld'
  BY <1>2 DEF InputInv, QueueHeld, storeVars
<1>8. /\ run[o] # "none" => o \in Admitted
      /\ run[o] \in {"prepared", "assembled"} => HasReceipt(o)
      /\ starts[o] # 0 => run[o] \notin {"launched", "checked", "transforming", "prepared", "assembled"}
      /\ opState'[o] = "cancelled"
      /\ \A p \in Ops : p # o => opState'[p] = opState[p]
  BY DEF InputInv, RowsAgree, PaidPast, InputTypeOK, CommitTypeOK
<1> QED
  BY <1>1, <1>2, <1>4, <1>6, <1>7, <1>8, StepOf

LEMMA InvPrepareCommit ==
    ASSUME InputInv, NEW o \in Ops, PrepareCommit(o)
    PROVE  InputInv'
<1> USE DEF PrepareCommit, CommitPrepare
<1>1. /\ UNCHANGED <<live, applied, image, staged, acked>>
      /\ UNCHANGED commitVars /\ UNCHANGED inputVars /\ slot' = o
  OBVIOUS
<1>2. InputTypeOK'
  BY <1>1 DEF InputInv, InputTypeOK, StoreTypeOK, CommitTypeOK, commitVars, inputVars
<1>3. QueueHeld'
  BY <1>1 DEF InputInv, QueueHeld, commitVars, AnswerHasPlace, AnchorHolds
<1>4. Keeps(o, {})
  BY <1>1, KeepsSame DEF InputInv, InputTypeOK, inputVars
<1> QED
  BY <1>1, <1>2, <1>3, <1>4, StepOf
     DEF InputInv, RowsAgree, PaidPast, commitVars, inputVars

-----------------------------------------------------------------------------
(* The steps of the user, of the debounced persist, and of the process.    *)
LEMMA InvStore ==
    ASSUME InputInv, SaveChat \/ WriteImage \/ DropJournal
    PROVE  InputInv'
<1> USE DEF SaveChat, WriteImage, DropJournal
<1>1. UNCHANGED <<commitVars, inputVars>>
  OBVIOUS
<1>2. StoreTypeOK'
  <2>1. CASE ClientSave
    <3> PICK edit \in Edits(live) :
               /\ staged' = edit[1] /\ live' = edit[1]
               /\ acked' = [edit[2] EXCEPT !.saves = @ + 1]
      BY <2>1 DEF ClientSave, SaveFrom
    <3>1. edit[1] \in Chat /\ acked' \in Acked
      BY <2>1, EditsTyped DEF ClientSave, SaveFrom, InputInv, InputTypeOK
    <3> QED
      BY <2>1, <3>1 DEF ClientSave, InputInv, InputTypeOK, StoreTypeOK
  <2>2. CASE PersistImage
    BY <2>2 DEF PersistImage, InputInv, InputTypeOK, StoreTypeOK
  <2>3. CASE ClearJournal
    BY <2>3 DEF ClearJournal, InputInv, InputTypeOK, StoreTypeOK
  <2> QED
    BY <2>1, <2>2, <2>3
<1>3. slot' \in {Free, Persisting}
  BY DEF ClientSave, SaveFrom, PersistImage, ClearJournal
<1>4. QueueHeld'
  BY <1>3, StoreAssumption DEF QueueHeld
<1>5. InputTypeOK'
  BY <1>1, <1>2 DEF InputInv, InputTypeOK, CommitTypeOK, commitVars, inputVars
<1>6. OneTryPerCommand' /\ RetriedUnused' /\ CancelSettled'
  BY <1>1 DEF InputInv, OneTryPerCommand, Unresolved, RetriedUnused, CancelSettled,
              UserResolved, Is, HasReceipt, Live, Admitted, Committed, commitVars, inputVars
<1>7. RowsAgree' /\ PaidPast'
  BY <1>1 DEF InputInv, RowsAgree, PaidPast, Is, HasReceipt, Admitted, Committed,
              commitVars, inputVars
<1> QED
  BY <1>4, <1>5, <1>6, <1>7 DEF InputInv

LEMMA InvCrash ==
    ASSUME InputInv, Crash
    PROVE  InputInv'
<1> USE DEF Crash, Restart, ForgetRuns
<1>1. UNCHANGED <<rec, commit, starts, cancelled>> /\ slot' = Free
  OBVIOUS
<1>2. Admitted \subseteq Ops
  BY DEF Admitted
<1>3. StoreTypeOK'
  BY DEF InputInv, InputTypeOK, StoreTypeOK, Reloaded
<1>4. /\ opState' \in [Ops -> OpStates]
      /\ \A p \in Ops : opState'[p] \in {opState[p], "cancelled"}
  BY DEF InputInv, InputTypeOK, CommitTypeOK, OpStates
<1>5. CommitTypeOK'
  BY <1>4 DEF InputInv, InputTypeOK, CommitTypeOK, Phases
<1>6. restarts' \in 0..MaxRestarts
  BY InputAssumption DEF InputInv, InputTypeOK
<1>7. InputTypeOK'
  BY <1>2, <1>3, <1>5, <1>6 DEF InputInv, InputTypeOK
<1>8. QueueHeld'
  BY <1>1, StoreAssumption DEF QueueHeld
<1>9. OneTryPerCommand' /\ RetriedUnused' /\ CancelSettled'
  BY <1>1 DEF InputInv, OneTryPerCommand, Unresolved, RetriedUnused, CancelSettled,
              UserResolved, Is, HasReceipt, Live, Admitted, Committed
<1>10. RowsAgree' /\ PaidPast'
  BY <1>1, <1>4 DEF InputInv, RowsAgree, PaidPast, Is, HasReceipt, Admitted, Committed
<1> QED
  BY <1>7, <1>8, <1>9, <1>10 DEF InputInv
-----------------------------------------------------------------------------
(* The steps on the way from a command to its answer.                      *)
LEMMA InvStartProvider ==
    ASSUME InputInv, NEW o \in Ops, StartProvider(o)
    PROVE  InputInv'
<1> USE DEF StartProvider, ProviderStart
<1>1. UNCHANGED <<storeVars, inputVars, commit, anchor>>
  OBVIOUS
<1>2. starts[o] = 0 /\ HasReceipt(o) /\ starts \in [Ops -> Nat]
      /\ run \in [Ops -> Phases] /\ opState \in [Ops -> OpStates]
  BY DEF InputInv, PaidPast, RowsAgree, InputTypeOK, CommitTypeOK
<1>3. /\ starts'[o] = 1 /\ run'[o] = "generating" /\ opState'[o] = "running"
      /\ \A p \in Ops : p # o => starts'[p] = starts[p] /\ run'[p] = run[p]
                                 /\ opState'[p] = opState[p]
      /\ run' \in [Ops -> Phases] /\ opState' \in [Ops -> OpStates]
      /\ starts' \in [Ops -> Nat]
  BY <1>2 DEF Phases, OpStates
<1>4. InputTypeOK'
  BY <1>1, <1>3 DEF InputInv, InputTypeOK, StoreTypeOK, CommitTypeOK, storeVars, inputVars
<1>5. QueueHeld'
  BY <1>1, <1>3 DEF InputInv, QueueHeld, storeVars
<1>6. OneTryPerCommand' /\ RetriedUnused' /\ CancelSettled'
  BY <1>1 DEF InputInv, OneTryPerCommand, Unresolved, RetriedUnused, CancelSettled,
              UserResolved, Is, HasReceipt, Live, Admitted, Committed, inputVars
<1>7. RowsAgree'
  BY <1>1, <1>2, <1>3 DEF InputInv, RowsAgree, Is, HasReceipt, Admitted, Committed, inputVars
<1>8. PaidPast'
  BY <1>1, <1>2, <1>3 DEF InputInv, PaidPast, HasReceipt, Admitted, inputVars
<1> QED
  BY <1>4, <1>5, <1>6, <1>7, <1>8 DEF InputInv

LEMMA InvAdmit ==
    ASSUME InputInv, NEW o \in Ops, NEW c \in Commands, NEW replaced \in Ops \cup {NoOp},
           Admit(o, c, replaced)
    PROVE  InputInv' /\ Is(o, "queued")'
<1> DEFINE waitFor == MustWaitFor(Admitted, replaced)
           pred == IF waitFor = {} THEN NoOp ELSE Latest(waitFor)
           new == [st |-> "queued", tf |-> "not_run", cascade |-> FALSE,
                   cmd |-> c, replaces |-> replaced, replacedBy |-> NoOp,
                   seq |-> Cardinality(Admitted) + 1, pred |-> pred,
                   resolved |-> FALSE, sub |-> live, abase |-> NoChat,
                   ebase |-> NoChat, pub |-> FALSE]
<1>1. /\ o \notin Admitted
      /\ rec' = [p \in Ops |->
                    IF p = o THEN new
                    ELSE IF p = replaced THEN [rec[p] EXCEPT !.replacedBy = o]
                    ELSE rec[p]]
      /\ UNCHANGED <<storeVars, commit, run, anchor, starts, tbase>>
      /\ KeepHistory
      /\ opState' = [opState EXCEPT ![o] = "queued"] /\ snap' = snap \cup {o}
  BY DEF Admit
<1>2. /\ replaced = NoOp => \A p \in Admitted : rec[p].cmd = c => UserResolved(p)
      /\ replaced # NoOp =>
            /\ replaced \in Admitted /\ Is(replaced, "blocked_edit")
            /\ ~ HasReceipt(replaced) /\ rec[replaced].cmd = c
            /\ \A p \in Admitted : rec[p].cmd = c /\ ~ UserResolved(p) => p = replaced
  BY DEF Admit, MayTry, Retryable, Unresolved, Is
<1>3. Admitted \subseteq Ops /\ \A p \in Admitted : rec[p] \in Record
  BY DEF Admitted, InputInv, InputTypeOK
<1>4. pred \in Ops \cup {NoOp}
  <2>1. CASE waitFor = {}
    BY <2>1
  <2>2. CASE waitFor # {}
    <3>1. waitFor \subseteq Admitted
      BY DEF MustWaitFor
    <3>2. waitFor \in SUBSET Ops /\ \A p \in waitFor : rec[p].seq \in Nat
      BY <1>3, <3>1 DEF Record
    <3> HIDE DEF waitFor
    <3>3. Latest(waitFor) \in waitFor
      BY <2>2, <3>2, LatestIn
    <3> QED
      BY <2>2, <3>2, <3>3
  <2> QED
    BY <2>1, <2>2
<1>5. Cardinality(Admitted) + 1 \in Nat
  BY <1>3, InputAssumption, FS_Subset, FS_CardinalityType
<1> HIDE DEF waitFor, pred
<1>6. new \in Record
  BY <1>4, <1>5 DEF Record, InputStates, InputInv, InputTypeOK, StoreTypeOK
<1>7. /\ new.st = "queued" /\ new.cmd = c /\ new.replacedBy = NoOp /\ new.ebase = NoChat
  OBVIOUS
<1> HIDE DEF new
<1>8. ASSUME replaced # NoOp
      PROVE  /\ [rec[replaced] EXCEPT !.replacedBy = o] \in Record
             /\ [rec[replaced] EXCEPT !.replacedBy = o].st = rec[replaced].st
             /\ [rec[replaced] EXCEPT !.replacedBy = o].cmd = rec[replaced].cmd
             /\ [rec[replaced] EXCEPT !.replacedBy = o].ebase = rec[replaced].ebase
             /\ [rec[replaced] EXCEPT !.replacedBy = o].replacedBy = o
  BY <1>2, <1>3, <1>8 DEF Record
<1>9. /\ rec' \in [Ops -> Record \cup {NoRec}]
      /\ rec'[o] = new
      /\ \A p \in Ops : p # o /\ p # replaced => rec'[p] = rec[p]
      /\ replaced # NoOp => rec'[replaced] = [rec[replaced] EXCEPT !.replacedBy = o]
  BY <1>1, <1>2, <1>3, <1>6, <1>8, InputAssumption DEF InputInv, InputTypeOK
<1>10. /\ Admitted' = Admitted \cup {o}
       /\ \A p \in Admitted :
             /\ p # o /\ rec'[p].st = rec[p].st /\ rec'[p].cmd = rec[p].cmd
             /\ rec'[p].ebase = rec[p].ebase
             /\ p # replaced => rec'[p].replacedBy = rec[p].replacedBy
             /\ p = replaced => rec'[p].replacedBy = o
  BY <1>1, <1>2, <1>3, <1>6, <1>8, <1>9, InputAssumption DEF Admitted
<1>11. InputTypeOK'
  BY <1>1, <1>9 DEF InputInv, InputTypeOK, StoreTypeOK, CommitTypeOK, OpStates,
                    storeVars, KeepHistory
<1>12. QueueHeld'
  BY <1>1 DEF InputInv, QueueHeld, storeVars
<1>13. OneTryPerCommand'
  BY <1>2, <1>3, <1>7, <1>9, <1>10, InputAssumption
     DEF InputInv, OneTryPerCommand, Unresolved, UserResolved
<1>14. RetriedUnused'
  BY <1>2, <1>3, <1>7, <1>9, <1>10, InputAssumption
     DEF InputInv, RetriedUnused, UserResolved, Is, HasReceipt
<1>15. CancelSettled'
  BY <1>1, <1>10 DEF InputInv, CancelSettled, Live, Committed, KeepHistory
<1>16. RowsAgree'
  BY <1>1, <1>3, <1>7, <1>9, <1>10 DEF InputInv, RowsAgree, Is, HasReceipt, Committed
<1>17. PaidPast'
  BY <1>1, <1>3, <1>10
     DEF InputInv, PaidPast, HasReceipt, InputTypeOK, CommitTypeOK
<1> QED
  BY <1>7, <1>9, <1>10, <1>11, <1>12, <1>13, <1>14, <1>15, <1>16, <1>17
     DEF InputInv, Is

LEMMA InvAttach ==
    ASSUME InputInv, NEW o \in Ops, NEW publishes \in BOOLEAN, AttachTx(o, publishes)
    PROVE  InputInv' /\ Is(o, "attached")'
<1> DEFINE chat == Insert(live, Len(live.msgs), Input(o))
           new == [rec[o] EXCEPT !.st = "attached", !.tf = "completed",
                                 !.abase = live, !.ebase = chat]
<1>1. /\ Is(o, "queued") /\ slot' = Free
      /\ UNCHANGED <<commit, anchor, starts, applied, image, staged, acked, snap>>
      /\ KeepHistory
      /\ rec' = [rec EXCEPT ![o] = new]
      /\ live' = IF publishes THEN chat ELSE live
      /\ opState' = [opState EXCEPT ![o] = "queued"]
      /\ run' = [run EXCEPT ![o] = IF publishes THEN "prepared" ELSE "none"]
      /\ tbase' = [tbase EXCEPT ![o] = NoChat]
  BY DEF AttachTx
<1>2. live \in Chat /\ o \in Admitted /\ rec[o] \in Record /\ rec[o].st = "queued"
  BY <1>1 DEF InputInv, InputTypeOK, StoreTypeOK, Is, Admitted
<1>3. chat \in Chat
  <2>1. Len(live.msgs) \in 0..Len(live.msgs) /\ Input(o) \in Message
    BY <1>2 DEF Chat, Input, Message
  <2> QED
    BY <1>2, <2>1, InsertChat
<1> HIDE DEF chat
<1>4. /\ new \in Record /\ new.st = "attached" /\ new.ebase = chat
      /\ new.cmd = rec[o].cmd /\ new.replacedBy = rec[o].replacedBy
  BY <1>2, <1>3 DEF Record, InputStates
<1> HIDE DEF new
<1>5. /\ rec' \in [Ops -> Record \cup {NoRec}] /\ rec'[o] = new /\ new # NoRec
      /\ \A p \in Ops : p # o => rec'[p] = rec[p]
      /\ chat # NoChat
  BY <1>1, <1>3, <1>4, InputAssumption, StoreAssumption DEF InputInv, InputTypeOK
<1>6. Admitted' = Admitted
  BY <1>2, <1>5 DEF Admitted
<1>7. ~ UserResolved(o) /\ starts[o] = 0 /\ ~ Committed(o)
  BY <1>1, <1>2 DEF InputInv, RetriedUnused, PaidPast, RowsAgree, Is
<1>8. /\ \A p \in Ops : p # o => run'[p] = run[p] /\ opState'[p] = opState[p]
      /\ run' \in [Ops -> Phases] /\ opState' \in [Ops -> OpStates]
  BY <1>1 DEF InputInv, InputTypeOK, CommitTypeOK, Phases, OpStates
<1>9. InputTypeOK'
  BY <1>1, <1>3, <1>5, <1>8
     DEF InputInv, InputTypeOK, StoreTypeOK, CommitTypeOK, KeepHistory
<1>10. QueueHeld'
  BY <1>1, StoreAssumption DEF QueueHeld
<1>11. OneTryPerCommand'
  BY <1>4, <1>5, <1>6 DEF InputInv, OneTryPerCommand, Unresolved, UserResolved, Admitted
<1>12. RetriedUnused'
  BY <1>4, <1>5, <1>6, <1>7 DEF InputInv, RetriedUnused, UserResolved, Is, HasReceipt, Admitted
<1>13. CancelSettled'
  BY <1>1, <1>2, <1>5, <1>6 DEF InputInv, CancelSettled, Live, Committed, KeepHistory, Terminal
<1>14. RowsAgree'
  BY <1>1, <1>2, <1>4, <1>5, <1>6, <1>7, <1>8
     DEF InputInv, RowsAgree, Is, HasReceipt, Committed
<1>15. PaidPast'
  BY <1>1, <1>5, <1>6, <1>7, <1>8 DEF InputInv, PaidPast, HasReceipt
<1> QED
  BY <1>2, <1>4, <1>5, <1>6, <1>9, <1>10, <1>11, <1>12, <1>13, <1>14, <1>15
     DEF InputInv, Is

LEMMA WithAnswerChat ==
    ASSUME NEW chat \in Chat, NEW o \in Ops, Input(o) \in Shown(chat)
    PROVE  /\ WithAnswer(o, chat) \in Chat
           /\ Shown(WithAnswer(o, chat)) = Shown(chat) \cup {Answer(o)}
<1>1. chat.msgs \in Seq(Message) /\ Answer(o) \in Message
  BY DEF Chat, Answer, Message
<1>2. PositionOf(Input(o), chat) \in DOMAIN chat.msgs
  BY DEF PositionOf, Shown, ToSet
<1>3. PositionOf(Input(o), chat) \in 0..Len(chat.msgs)
  BY <1>1, <1>2
<1> QED
  BY <1>1, <1>3, InsertChat DEF WithAnswer

LEMMA InvCommitAnswer ==
    ASSUME InputInv, NEW o \in Ops, NEW publishes \in BOOLEAN, CommitAnswer(o, publishes)
    PROVE  InputInv'
<1> DEFINE chat == WithAnswer(o, live)
           row == [base |-> live, chat |-> chat]
<1>1. /\ Is(o, "attached") /\ Settle(o, "completed")
      /\ run[o] = "committing" /\ slot = o /\ slot' = Free
      /\ commit' = [commit EXCEPT ![o] = row]
      /\ live' = IF publishes THEN chat ELSE live
      /\ applied' = IF publishes THEN applied \cup {o} ELSE applied
      /\ run' = [run EXCEPT ![o] = IF publishes THEN "published" ELSE "unpublished"]
      /\ opState' = [opState EXCEPT ![o] = "chat-committed"]
      /\ UNCHANGED <<anchor, starts, image, staged, acked, snap, tbase>>
      /\ KeepHistory
  BY DEF CommitAnswer, CommitTx
<1>2. live \in Chat /\ o \in Admitted /\ Live(o) /\ HasReceipt(o)
  BY <1>1 DEF InputInv, InputTypeOK, StoreTypeOK, Is, Live, Terminal, RowsAgree
<1>3. chat \in Chat
  BY <1>1, <1>2, WithAnswerChat DEF InputInv, QueueHeld
<1> HIDE DEF chat
<1>4. row \in Commits /\ row # NoCommit
  BY <1>2, <1>3, CommitAssumption DEF Commits
<1> HIDE DEF row
<1>5. Keeps(o, {"completed"}) /\ rec'[o].st = "completed"
  BY <1>1, <1>2, KeepsSettle DEF InputInv, InputTypeOK, InputStates
<1>6. /\ Admitted' = Admitted
      /\ \A p \in Admitted :
            /\ rec'[p].cmd = rec[p].cmd
            /\ rec'[p].replacedBy = rec[p].replacedBy
            /\ rec'[p].ebase = rec[p].ebase
            /\ p # o => rec'[p].st = rec[p].st
  BY <1>5 DEF Keeps, Admitted
<1>7. /\ \A p \in Ops : p # o => run'[p] = run[p] /\ opState'[p] = opState[p]
                                 /\ commit'[p] = commit[p]
      /\ commit'[o] = row /\ opState'[o] = "chat-committed"
      /\ run'[o] \in {"published", "unpublished"}
      /\ run' \in [Ops -> Phases] /\ opState' \in [Ops -> OpStates]
      /\ commit' \in [Ops -> Commits \cup {NoCommit}]
  BY <1>1, <1>4 DEF InputInv, InputTypeOK, CommitTypeOK, Phases, OpStates
<1>8. InputTypeOK'
  BY <1>1, <1>3, <1>5, <1>7
     DEF InputInv, InputTypeOK, StoreTypeOK, CommitTypeOK, KeepHistory, Keeps
<1>9. QueueHeld'
  BY <1>1, StoreAssumption DEF QueueHeld
<1>10. OneTryPerCommand'
  BY <1>6 DEF InputInv, OneTryPerCommand, Unresolved, UserResolved
<1>11. RetriedUnused'
  <2>1. ~ UserResolved(o)
    BY <1>1, <1>2 DEF InputInv, RetriedUnused, Is
  <2> QED
    BY <2>1, <1>6 DEF InputInv, RetriedUnused, UserResolved, Is, HasReceipt
<1>12. CancelSettled'
  <2>1. o \notin cancelled
    BY <1>2 DEF InputInv, CancelSettled
  <2> QED
    BY <2>1, <1>1, <1>6, <1>7
       DEF InputInv, CancelSettled, Live, Committed, KeepHistory, InputTypeOK
<1>13. RowsAgree'
  <2> SUFFICES ASSUME NEW p \in Ops
               PROVE  /\ run'[p] # "none" => p \in Admitted'
                      /\ Committed(p)' <=> Is(p, "completed")'
                      /\ Is(p, "attached")' => HasReceipt(p)'
                      /\ Is(p, "queued")' => ~ HasReceipt(p)'
                      /\ run'[p] \in {"prepared", "assembled"} => HasReceipt(p)'
    BY DEF RowsAgree
  <2>1. CASE p = o
    BY <2>1, <1>2, <1>4, <1>5, <1>6, <1>7 DEF Committed, Is
  <2>2. CASE p # o
    BY <2>2, <1>6, <1>7 DEF InputInv, RowsAgree, Committed, Is, HasReceipt
  <2> QED
    BY <2>1, <2>2
<1>14. PaidPast'
  BY <1>1, <1>6, <1>7 DEF InputInv, PaidPast, HasReceipt
<1> QED
  BY <1>8, <1>9, <1>10, <1>11, <1>12, <1>13, <1>14 DEF InputInv

-----------------------------------------------------------------------------
LEMMA InputInvInit == InputInit => InputInv
<1> SUFFICES ASSUME InputInit PROVE InputInv
  OBVIOUS
<1> USE DEF InputInit, StoreInit, CommitInit
<1>1. StoreTypeOK
  BY StoreInvInit DEF StoreInv
<1>2. CommitTypeOK
  BY DEF CommitTypeOK, Phases, OpStates
<1>3. InputTypeOK
  BY <1>1, <1>2, InputAssumption DEF InputTypeOK
<1>4. Admitted = {} /\ \A o \in Ops : ~ Committed(o)
  BY DEF Admitted, Committed
<1>5. QueueHeld
  BY StoreAssumption DEF QueueHeld
<1>6. RowsAgree /\ RetriedUnused /\ PaidPast /\ CancelSettled
  BY <1>4 DEF RowsAgree, RetriedUnused, PaidPast, CancelSettled, Is, HasReceipt
<1>7. OneTryPerCommand
  BY <1>4 DEF OneTryPerCommand, Unresolved
<1> QED
  BY <1>3, <1>5, <1>6, <1>7 DEF InputInv

LEMMA InputInvNext == InputInv /\ [InputNext]_vars => InputInv'
<1> SUFFICES ASSUME InputInv, [InputNext]_vars PROVE InputInv'
  OBVIOUS
<1>1. CASE \E o \in Ops, c \in Commands, replaced \in Ops \cup {NoOp} :
              Admit(o, c, replaced)
  BY <1>1, InvAdmit
<1>2. ASSUME NEW o \in Ops, CascadeBlock(o) \/ RevisionBlock(o)
      PROVE  InputInv'
  BY <1>2, InvBlocked
<1>3. ASSUME NEW o \in Ops, Resolve(o) \/ RecoverTransform(o)
      PROVE  InputInv'
  BY <1>3, InvNoted
<1>4. ASSUME NEW o \in Ops, RecoverCommit(o) \/ RecoverCompleted(o) \/ RecoverAttached(o)
      PROVE  InputInv'
  BY <1>4, InvServed
<1>5. ASSUME NEW o \in Ops, Run(o)
      PROVE  InputInv'
  BY <1>5, InvBlocked, InvSettled, InvRun, InvNoted, InvServed, InvPrepareCommit,
     InvStartProvider, InvAttach, InvCommitAnswer
     DEF Run
<1>6. ASSUME NEW o \in Ops, Cancel(o)
      PROVE  InputInv'
  BY <1>6, InvCancel
<1>7. CASE SaveChat \/ WriteImage \/ DropJournal
  BY <1>7, InvStore
<1>8. CASE Crash
  BY <1>8, InvCrash
<1>9. CASE UNCHANGED vars
  <2>1. InputTypeOK'
    BY <1>9 DEF vars, storeVars, commitVars, inputVars, InputInv, InputTypeOK,
                StoreTypeOK, CommitTypeOK
  <2>2. QueueHeld' /\ OneTryPerCommand' /\ RetriedUnused'
    BY <1>9 DEF vars, storeVars, commitVars, inputVars, InputInv, QueueHeld,
                OneTryPerCommand, Unresolved, RetriedUnused, UserResolved, Is,
                HasReceipt, Admitted
  <2>3. RowsAgree' /\ PaidPast' /\ CancelSettled'
    BY <1>9 DEF vars, storeVars, commitVars, inputVars, InputInv, RowsAgree,
                PaidPast, CancelSettled, Is, HasReceipt, Live, Committed, Admitted
  <2> QED
    BY <2>1, <2>2, <2>3 DEF InputInv
<1> QED
  BY <1>1, <1>2, <1>3, <1>4, <1>5, <1>6, <1>7, <1>8, <1>9 DEF InputNext

LEMMA InputInvariant == InputSpec => []InputInv
  BY InputInvInit, InputInvNext, PTL DEF InputSpec

(* Every variable of the protocol keeps its type: in particular no step    *)
(* publishes a commit or a receipt that is not there.                      *)
THEOREM InputTyped == InputSpec => []InputTypeOK
<1>1. InputInv => InputTypeOK
  BY DEF InputInv
<1> QED
  BY <1>1, InputInvariant, PTL

(* admit: however inputs are blocked and retried, a command has one        *)
(* operation at most that is not superseded.                               *)
THEOREM TriesSerial == InputSpec => []OneTryPerCommand
<1>1. InputInv => OneTryPerCommand
  BY DEF InputInv
<1> QED
  BY <1>1, InputInvariant, PTL

(* Over all retries and restarts, a command puts one input at most in the  *)
(* chat: a receipt is never held by a superseded operation, and there is   *)
(* one operation that is not superseded.                                   *)
THEOREM AttachedOnce == InputSpec => []CommandOnce
<1>1. InputInv => CommandOnce
  <2> SUFFICES ASSUME InputInv, NEW p \in Ops, NEW q \in Ops, HasReceipt(p), HasReceipt(q),
                      rec[p].cmd = rec[q].cmd
               PROVE  p = q
    BY DEF CommandOnce
  <2>1. p \in Admitted /\ q \in Admitted /\ ~ UserResolved(p) /\ ~ UserResolved(q)
    BY DEF InputInv, RetriedUnused, HasReceipt
  <2>2. rec[p].cmd \in Commands
    BY <2>1 DEF InputInv, InputTypeOK, Admitted, Record
  <2> QED
    BY <2>1, <2>2 DEF InputInv, OneTryPerCommand, Unresolved
<1> QED
  BY <1>1, InputInvariant, PTL

(* The provider is paid once at most for a command, over all its           *)
(* operations, restarts, republications and requests to start it.          *)
THEOREM ProviderOnce == InputSpec => []PaidOnce
<1>1. InputInv => PaidOnce
  <2> SUFFICES ASSUME InputInv, NEW p \in Admitted, NEW q \in Admitted
               PROVE  /\ starts[p] <= 1
                      /\ starts[p] = 1 /\ starts[q] = 1 /\ rec[p].cmd = rec[q].cmd => p = q
    BY DEF PaidOnce
  <2>1. p \in Ops /\ q \in Ops /\ starts[p] \in Nat /\ rec[p].cmd \in Commands
    BY DEF Admitted, InputInv, InputTypeOK, CommitTypeOK, Record
  <2>2. starts[p] <= 1
    BY <2>1 DEF InputInv, PaidPast
  <2>3. ASSUME starts[p] = 1, starts[q] = 1, rec[p].cmd = rec[q].cmd
        PROVE  p = q
    <3>1. ~ UserResolved(p) /\ ~ UserResolved(q)
      BY <2>1, <2>3 DEF InputInv, PaidPast, RetriedUnused
    <3> QED
      BY <2>1, <2>3, <3>1 DEF InputInv, OneTryPerCommand, Unresolved
  <2> QED
    BY <2>2, <2>3
<1> QED
  BY <1>1, InputInvariant, PTL

(* A cancel that was acknowledged is never followed by a committed answer, *)
(* at whatever point of the run, of the commit's wait or of a restart it   *)
(* came.                                                                   *)
THEOREM CancelFinal == InputSpec => []CancelWins
<1>1. InputInv => CancelWins
  BY DEF InputInv, CancelSettled, CancelWins
<1> QED
  BY <1>1, InputInvariant, PTL
-----------------------------------------------------------------------------
(* The steps by the way in which they change the records.                  *)
LeavesRecords(o) ==
    \/ Republish(o) \/ Launch(o) \/ CheckPredecessor(o) \/ BeginAttached(o)
    \/ BeginRefused(o) \/ AttachPrepare(o) \/ TransformCancelled(o)
    \/ AssemblePrompt(o) \/ RunStops(o) \/ StartProvider(o) \/ GenerationReady(o)
    \/ GenerationCancelled(o) \/ PrepareCommit(o) \/ RecoverAttached(o)
Settles(o) ==
    \/ LaunchRefused(o) \/ AssemblyConflict(o) \/ GenerationFails(o)
    \/ AnswerCancelled(o) \/ Cancel(o)
Blocks(o) ==
    \/ CascadeBlock(o) \/ RevisionBlock(o) \/ BeginRejected(o)
    \/ TransformUnsupported(o) \/ AttachConflict(o)
Details(o) ==
    \/ Begin(o) \/ TransformFails(o) \/ RecoverTransform(o) \/ Resolve(o)
    \/ RecoverCommit(o) \/ RecoverCompleted(o) \/ Finalize(o)

LEMMA Steps ==
    ASSUME [InputNext]_vars
    PROVE  \/ \E o \in Ops : LeavesRecords(o) \/ Settles(o) \/ Blocks(o) \/ Details(o)
           \/ \E o \in Ops, publishes \in BOOLEAN :
                 AttachTx(o, publishes) \/ CommitAnswer(o, publishes)
           \/ \E o \in Ops, c \in Commands, replaced \in Ops \cup {NoOp} :
                 Admit(o, c, replaced)
           \/ SaveChat \/ WriteImage \/ DropJournal \/ Crash
           \/ UNCHANGED vars
  BY DEF InputNext, Run, LeavesRecords, Settles, Blocks, Details
-----------------------------------------------------------------------------
LEMMA LeavesRecordsSame ==
    ASSUME NEW o \in Ops, LeavesRecords(o)
    PROVE  UNCHANGED <<rec, snap, commit>>
  BY DEF LeavesRecords, Republish, Launch, CheckPredecessor, BeginAttached, BeginRefused,
         AttachPrepare, TransformCancelled, AssemblePrompt, Assemble, RunStops,
         StartProvider, ProviderStart, GenerationReady, GenerationSucceeds,
         GenerationCancelled, PrepareCommit, CommitPrepare, RecoverAttached,
         EndSilently, commitVars, inputVars

LEMMA SettlesRecord ==
    ASSUME NEW o \in Ops, Settles(o)
    PROVE  /\ \E state \in {"failed", "cancelled"} : SettleAndRelease(o, state)
           /\ UNCHANGED <<live, image, staged, commit>>
  BY DEF Settles, LaunchRefused, AssemblyConflict, GenerationFails, AnswerCancelled,
         Cancel, WriteCancelled, EndWithResult, CommitCancelled, storeVars

LEMMA BlocksRecord ==
    ASSUME InputInv, NEW o \in Ops, Blocks(o)
    PROVE  /\ Is(o, "queued")
           /\ \E tf \in {"not_run", "running", "completed", "unknown"}, cascade \in BOOLEAN :
                 BlockEdit(o, tf, cascade)
           /\ UNCHANGED <<live, image, staged, commit>>
<1>1. Is(o, "queued") => rec[o].tf \in {"not_run", "running", "completed", "unknown"}
  BY DEF InputInv, InputTypeOK, Is, Admitted, Record
<1>2. CASE CascadeBlock(o) \/ RevisionBlock(o)
  BY <1>1, <1>2 DEF CascadeBlock, RevisionBlock, PredecessorEnded, storeVars, commitVars
<1>3. CASE BeginRejected(o) \/ TransformUnsupported(o) \/ AttachConflict(o)
  BY <1>3 DEF BeginRejected, CanBegin, TransformUnsupported, AttachConflict, EndSilently,
              storeVars
<1> QED
  BY <1>2, <1>3 DEF Blocks

(* A change of details of o leaves every state, receipt and command.       *)
LEMMA DetailsKept ==
    ASSUME InputInv, NEW o \in Ops, Details(o)
    PROVE  /\ \A p \in Admitted :
                 rec'[p].st = rec[p].st /\ rec'[p].ebase = rec[p].ebase
           /\ Admitted' = Admitted
           /\ snap' \subseteq snap
           /\ UNCHANGED <<image, staged, commit>>
<1> USE DEF Begin, TransformFails, RecoverTransform, Resolve, RecoverCommit,
            RecoverCompleted, Finalize, RecordPublished, NextToRecover,
            PublishCommit, PredecessorEnded, EndSilently, KeepHistory, CanBegin
<1>1. o \in Admitted /\ rec[o] \in Record
  BY DEF Details, InputInv, RowsAgree, InputTypeOK, Pending, Is, Admitted
<1>2. \/ \E tf \in {"not_run", "running", "completed", "unknown"} :
            rec' = [rec EXCEPT ![o].tf = tf]
      \/ rec' = [rec EXCEPT ![o].resolved = TRUE]
      \/ \E pub \in BOOLEAN : rec' = [rec EXCEPT ![o].pub = pub]
  <2>1. CASE Begin(o) \/ TransformFails(o)
    BY <2>1
  <2>2. CASE RecoverTransform(o)
    <3> DEFINE tf == IF rec[o].tf = "running" THEN "unknown" ELSE rec[o].tf
    <3>1. tf \in {"not_run", "running", "completed", "unknown"}
      BY <1>1 DEF Record
    <3>2. rec' = [rec EXCEPT ![o].tf = tf]
      BY <2>2
    <3> HIDE DEF tf
    <3> QED
      BY <3>1, <3>2
  <2>3. CASE Resolve(o)
    BY <2>3
  <2>4. CASE RecoverCommit(o) \/ RecoverCompleted(o)
    BY <2>4
  <2>5. CASE Finalize(o)
    <3> DEFINE pub == rec[o].pub \/ run[o] = "published"
    <3>1. rec' = [rec EXCEPT ![o].pub = pub] /\ pub \in BOOLEAN
      BY <2>5, <1>1 DEF Record
    <3> HIDE DEF pub
    <3> QED
      BY <3>1
  <2> QED
    BY <2>1, <2>2, <2>3, <2>4, <2>5 DEF Details
<1>3. Keeps(o, {})
  BY <1>1, <1>2, KeepsTransform, KeepsResolved, KeepsPublication DEF InputInv, InputTypeOK
<1>4. snap' \subseteq snap /\ UNCHANGED <<image, staged, commit>>
  BY DEF Details, storeVars, commitVars
<1> QED
  BY <1>3, <1>4 DEF Keeps, Admitted
-----------------------------------------------------------------------------
(* The outcome of an input is decided once. Every callback that settles an *)
(* input looks first whether it still may.                                 *)
LEMMA OutcomeKept ==
    ASSUME InputInv, [InputNext]_vars, NEW p \in Admitted, ~ Live(p)
    PROVE  rec'[p].st = rec[p].st
<1>0. p \in Ops /\ rec \in [Ops -> Record \cup {NoRec}] /\ ~ Is(p, "queued")
  BY DEF Admitted, InputInv, InputTypeOK, Is, Live, Terminal
<1>1. ASSUME NEW o \in Ops, LeavesRecords(o)
      PROVE  rec'[p].st = rec[p].st
  BY <1>1, LeavesRecordsSame
<1>2. ASSUME NEW o \in Ops, NEW state, Settle(o, state)
      PROVE  rec'[p].st = rec[p].st
  BY <1>0, <1>2 DEF Settle
<1>3. ASSUME NEW o \in Ops, Settles(o)
      PROVE  rec'[p].st = rec[p].st
  BY <1>2, <1>3, SettlesRecord DEF SettleAndRelease
<1>4. ASSUME NEW o \in Ops, Blocks(o)
      PROVE  rec'[p].st = rec[p].st
  BY <1>0, <1>4, BlocksRecord DEF BlockEdit
<1>5. ASSUME NEW o \in Ops, Details(o)
      PROVE  rec'[p].st = rec[p].st
  BY <1>5, DetailsKept
<1>6. ASSUME NEW o \in Ops, NEW publishes \in BOOLEAN,
             AttachTx(o, publishes) \/ CommitAnswer(o, publishes)
      PROVE  rec'[p].st = rec[p].st
  <2>1. CASE AttachTx(o, publishes)
    BY <1>0, <2>1 DEF AttachTx
  <2>2. CASE CommitAnswer(o, publishes)
    BY <1>2, <2>2 DEF CommitAnswer
  <2> QED
    BY <1>6, <2>1, <2>2
<1>7. ASSUME NEW o \in Ops, NEW c \in Commands, NEW replaced \in Ops \cup {NoOp},
             Admit(o, c, replaced)
      PROVE  rec'[p].st = rec[p].st
  <2>1. p # o /\ rec[p] \in Record
    BY <1>0, <1>7 DEF Admit, Admitted
  <2>2. rec'[p] = IF p = replaced THEN [rec[p] EXCEPT !.replacedBy = o] ELSE rec[p]
    BY <1>0, <1>7, <2>1 DEF Admit
  <2> QED
    BY <2>1, <2>2 DEF Record
<1>8. CASE SaveChat \/ WriteImage \/ DropJournal \/ Crash \/ UNCHANGED vars
  BY <1>8 DEF SaveChat, WriteImage, DropJournal, Crash, vars, inputVars
<1> QED
  BY <1>1, <1>3, <1>4, <1>5, <1>6, <1>7, <1>8, Steps

(* settleDurablySynchronously and the checks in front of every block: late *)
(* failures, cancels and recoveries leave a decided input as it is.        *)
THEOREM OutcomeOnce == InputSpec => OutcomeFinal
<1>1. InputInv /\ [InputNext]_vars =>
         [\A o \in Admitted : ~ Live(o) => rec'[o].st = rec[o].st]_vars
  BY OutcomeKept
<1> QED
  BY <1>1, InputInvariant, PTL DEF InputSpec, OutcomeFinal
-----------------------------------------------------------------------------
(* A transform is begun by Begin alone, on a queued input whose transform  *)
(* has not run; every other change of it is a step of a queued input away  *)
(* from "running", and a retry takes a record only with a known transform. *)
Known == {"not_run", "completed"}

LEMMA TransformMoves ==
    ASSUME InputInv, [InputNext]_vars, NEW p \in Admitted
    PROVE  /\ \/ rec'[p].tf = rec[p].tf
              \/ Is(p, "queued") /\ rec'[p].tf # "running"
              \/ Is(p, "queued") /\ rec[p].tf = "not_run"
           /\ \/ rec'[p].replacedBy = rec[p].replacedBy
              \/ rec[p].tf \in Known /\ rec'[p].tf = rec[p].tf
<1> DEFINE Moves ==
        /\ \/ rec'[p].tf = rec[p].tf
           \/ Is(p, "queued") /\ rec'[p].tf # "running"
           \/ Is(p, "queued") /\ rec[p].tf = "not_run"
        /\ \/ rec'[p].replacedBy = rec[p].replacedBy
           \/ rec[p].tf \in Known /\ rec'[p].tf = rec[p].tf
<1>0. p \in Ops /\ rec \in [Ops -> Record \cup {NoRec}] /\ rec[p] \in Record
  BY DEF Admitted, InputInv, InputTypeOK
<1>1. ASSUME NEW o \in Ops, LeavesRecords(o)
      PROVE  Moves
  BY <1>1, LeavesRecordsSame
<1>2. ASSUME NEW o \in Ops, NEW state, Settle(o, state)
      PROVE  Moves
  BY <1>0, <1>2 DEF Settle, Record
<1>3. ASSUME NEW o \in Ops, Settles(o)
      PROVE  Moves
  BY <1>2, <1>3, SettlesRecord DEF SettleAndRelease
<1>4. ASSUME NEW o \in Ops, Blocks(o)
      PROVE  Moves
  <2>1. Is(o, "queued")
    BY <1>4, BlocksRecord
  <2>2. \E tf \in {rec[o].tf, "not_run", "completed"}, cascade \in BOOLEAN :
           BlockEdit(o, tf, cascade)
    BY <1>4 DEF Blocks, CascadeBlock, RevisionBlock, BeginRejected,
                TransformUnsupported, AttachConflict
  <2> QED
    BY <1>0, <2>1, <2>2 DEF BlockEdit, Record
<1>5. ASSUME NEW o \in Ops, Details(o)
      PROVE  Moves
  <2>1. CASE Begin(o)
    BY <1>0, <2>1 DEF Begin, CanBegin, Record
  <2>2. CASE TransformFails(o)
    BY <1>0, <2>2 DEF TransformFails, Record
  <2>3. CASE RecoverTransform(o)
    BY <1>0, <2>3 DEF RecoverTransform, Record
  <2>4. CASE Resolve(o)
    BY <1>0, <2>4 DEF Resolve, Record
  <2>5. CASE RecoverCommit(o) \/ RecoverCompleted(o)
    BY <1>0, <2>5 DEF RecoverCommit, RecoverCompleted, RecordPublished, Record
  <2>6. CASE Finalize(o)
    BY <1>0, <2>6 DEF Finalize, Record
  <2> QED
    BY <1>5, <2>1, <2>2, <2>3, <2>4, <2>5, <2>6 DEF Details
<1>6. ASSUME NEW o \in Ops, NEW publishes \in BOOLEAN,
             AttachTx(o, publishes) \/ CommitAnswer(o, publishes)
      PROVE  Moves
  <2>1. CASE AttachTx(o, publishes)
    BY <1>0, <2>1 DEF AttachTx, Record
  <2>2. CASE CommitAnswer(o, publishes)
    BY <1>2, <2>2 DEF CommitAnswer
  <2> QED
    BY <1>6, <2>1, <2>2
<1>7. ASSUME NEW o \in Ops, NEW c \in Commands, NEW replaced \in Ops \cup {NoOp},
             Admit(o, c, replaced)
      PROVE  Moves
  <2>1. p # o
    BY <1>7 DEF Admit
  <2>2. rec'[p] = IF p = replaced THEN [rec[p] EXCEPT !.replacedBy = o] ELSE rec[p]
    BY <1>0, <1>7, <2>1 DEF Admit
  <2>3. p = replaced => rec[p].tf \in Known
    BY <1>0, <1>7, InputAssumption DEF Admit, MayTry, Retryable, Known
  <2> QED
    BY <1>0, <2>2, <2>3 DEF Record
<1>8. CASE SaveChat \/ WriteImage \/ DropJournal \/ Crash \/ UNCHANGED vars
  BY <1>8 DEF SaveChat, WriteImage, DropJournal, Crash, vars, inputVars
<1> QED
  BY <1>1, <1>3, <1>4, <1>5, <1>6, <1>7, <1>8, Steps

(* What a retry has superseded is an input whose transform has not run, or *)
(* ended with no more than a refused attachment.                           *)
RetriedKnown == \A p \in Admitted : UserResolved(p) => rec[p].tf \in Known

LEMMA NewIsUnresolved ==
    ASSUME InputInv, [InputNext]_vars, NEW p \in Admitted', p \notin Admitted
    PROVE  rec'[p].replacedBy = NoOp
<1>0. rec \in [Ops -> Record \cup {NoRec}] /\ p \in Ops /\ rec[p] = NoRec
      /\ rec'[p] # NoRec
  BY DEF InputInv, InputTypeOK, Admitted
<1>1. ASSUME NEW o \in Ops, LeavesRecords(o) \/ Settles(o) \/ Blocks(o) \/ Details(o)
      PROVE  FALSE
  <2>1. CASE LeavesRecords(o)
    BY <1>0, <2>1, LeavesRecordsSame
  <2>2. CASE Settles(o)
    BY <1>0, <2>2, SettlesRecord DEF SettleAndRelease, Settle, Live, Admitted
  <2>3. CASE Blocks(o)
    BY <1>0, <2>3, BlocksRecord DEF BlockEdit, Is, Admitted
  <2>4. CASE Details(o)
    BY <1>0, <2>4, DetailsKept
  <2> QED
    BY <1>1, <2>1, <2>2, <2>3, <2>4
<1>2. ASSUME NEW o \in Ops, NEW publishes \in BOOLEAN,
             AttachTx(o, publishes) \/ CommitAnswer(o, publishes)
      PROVE  FALSE
  <2>1. CASE AttachTx(o, publishes)
    BY <1>0, <2>1, InvAttach DEF AttachTx, Is, Admitted
  <2>2. CASE CommitAnswer(o, publishes)
    BY <1>0, <2>2 DEF CommitAnswer, Settle, Live, Admitted
  <2> QED
    BY <1>2, <2>1, <2>2
<1>3. ASSUME NEW o \in Ops, NEW c \in Commands, NEW replaced \in Ops \cup {NoOp},
             Admit(o, c, replaced)
      PROVE  rec'[p].replacedBy = NoOp
  <2>1. CASE p = o
    BY <1>0, <1>3, <2>1 DEF Admit
  <2>2. CASE p # o
    <3>1. rec'[p] = IF p = replaced THEN [rec[p] EXCEPT !.replacedBy = o] ELSE rec[p]
      BY <1>0, <1>3, <2>2 DEF Admit
    <3>2. p # replaced
      BY <1>0, <1>3, InputAssumption DEF Admit, MayTry, Retryable, Is, Admitted
    <3> QED
      BY <1>0, <3>1, <3>2
  <2> QED
    BY <2>1, <2>2
<1>4. CASE SaveChat \/ WriteImage \/ DropJournal \/ Crash \/ UNCHANGED vars
  BY <1>0, <1>4 DEF SaveChat, WriteImage, DropJournal, Crash, vars, inputVars
<1> QED
  BY <1>1, <1>2, <1>3, <1>4, Steps

LEMMA RetriedKnownNext ==
    InputInv /\ RetriedKnown /\ [InputNext]_vars => RetriedKnown'
<1> SUFFICES ASSUME InputInv, RetriedKnown, [InputNext]_vars,
                    NEW p \in Admitted', UserResolved(p)'
             PROVE  rec'[p].tf \in Known
  BY DEF RetriedKnown
<1>1. p \in Admitted
  BY NewIsUnresolved DEF UserResolved
<1>2. UserResolved(p) => ~ Is(p, "queued") /\ rec[p].tf \in Known
  BY <1>1 DEF InputInv, RetriedUnused, RetriedKnown, Is
<1> QED
  BY <1>1, <1>2, TransformMoves DEF UserResolved

(* beginTransform and blocked_input_retry_unavailable: the effects of a    *)
(* transform that runs, or was interrupted, are not repeated by its own    *)
(* operation or by another try of the command, across restarts.            *)
THEOREM TransformsOnce == InputSpec => TransformNotRepeated
<1>1. InputInit => RetriedKnown
  BY DEF InputInit, RetriedKnown, Admitted
<1>2. InputInv /\ RetriedKnown /\ [InputNext]_vars =>
         [\A o, p \in Admitted :
             /\ rec[o].tf # "running" /\ rec'[o].tf = "running"
             /\ rec[p].cmd = rec[o].cmd
             => rec[p].tf \notin {"running", "unknown"}]_vars
  <2> SUFFICES ASSUME InputInv, RetriedKnown, [InputNext]_vars,
                      NEW o \in Admitted, NEW p \in Admitted,
                      rec[o].tf # "running", rec'[o].tf = "running",
                      rec[p].cmd = rec[o].cmd
               PROVE  rec[p].tf \notin {"running", "unknown"}
    OBVIOUS
  <2>1. Is(o, "queued") /\ rec[o].tf = "not_run"
    BY TransformMoves
  <2>2. ~ UserResolved(o)
    BY <2>1 DEF InputInv, RetriedUnused, Is
  <2>3. rec[o].cmd \in Commands
    BY DEF InputInv, InputTypeOK, Admitted, Record
  <2>4. CASE UserResolved(p)
    BY <2>4 DEF RetriedKnown, Known
  <2>5. CASE ~ UserResolved(p)
    <3>1. p = o
      BY <2>2, <2>3, <2>5 DEF InputInv, OneTryPerCommand, Unresolved
    <3> QED
      BY <2>1, <3>1
  <2> QED
    BY <2>4, <2>5
<1> QED
  BY <1>1, <1>2, RetriedKnownNext, InputInvariant, PTL DEF InputSpec, TransformNotRepeated
-----------------------------------------------------------------------------
(* The run of an input that holds a snapshot leaves "published" and        *)
(* "unpublished" only together with the snapshot.                          *)
LEMMA PublishedStays ==
    ASSUME InputInv, NEW o \in Ops,
           LeavesRecords(o) \/ Settles(o) \/ Blocks(o) \/ Details(o),
           NEW p \in snap', run[p] \in {"published", "unpublished"}
    PROVE  run'[p] = run[p]
<1>0. p \in Ops => (\A x \in Phases : p # o => [run EXCEPT ![o] = x][p] = run[p])
  BY DEF InputInv, InputTypeOK, CommitTypeOK
<1>1. run \in [Ops -> Phases]
  BY DEF InputInv, InputTypeOK, CommitTypeOK
<1>2. CASE LeavesRecords(o)
  <2>1. p \in Ops
    BY <1>2, LeavesRecordsSame DEF InputInv, InputTypeOK
  <2> QED
    BY <1>1, <1>2, <2>1
       DEF LeavesRecords, Republish, Launch, CanRun, CheckPredecessor, BeginAttached,
           BeginRefused, AttachPrepare, TransformCancelled, AssemblePrompt, Assemble,
           RunStops, StartProvider, ProviderStart, GenerationReady, GenerationSucceeds,
           GenerationCancelled, PrepareCommit, CommitPrepare, RecoverAttached,
           EndSilently, RunEnds, commitVars
<1>3. CASE Settles(o)
  <2>1. p \in Ops
    BY <1>3, SettlesRecord DEF SettleAndRelease, InputInv, InputTypeOK
  <2> QED
    BY <1>1, <1>3, <2>1
       DEF Settles, LaunchRefused, AssemblyConflict, GenerationFails, AnswerCancelled,
           Cancel, WriteCancelled, EndWithResult, CommitCancelled, RunEnds
<1>4. CASE Blocks(o)
  <2>1. p \in Ops /\ p # o
    <3>1. snap' = snap \ {o}
      BY <1>4, BlocksRecord DEF BlockEdit
    <3>2. snap \in SUBSET Ops
      BY DEF InputInv, InputTypeOK
    <3> QED
      BY <3>1, <3>2
  <2> QED
    BY <1>1, <1>4, <2>1
       DEF Blocks, CascadeBlock, RevisionBlock, BeginRejected, TransformUnsupported,
           AttachConflict, EndSilently, RunEnds, commitVars
<1>5. CASE Details(o)
  <2>1. p \in Ops
    BY <1>5, DetailsKept DEF InputInv, InputTypeOK
  <2> QED
    BY <1>1, <1>5, <2>1
       DEF Details, Begin, TransformFails, RecoverTransform, Resolve, RecoverCommit,
           RecoverCompleted, Finalize, RecordPublished, NextToRecover, EndSilently,
           RunEnds, commitVars
<1> QED
  BY <1>2, <1>3, <1>4, <1>5

LEMMA SnapshotsNext ==
    InputInv /\ SnapshotReleased /\ [InputNext]_vars => SnapshotReleased'
<1> SUFFICES ASSUME InputInv, SnapshotReleased, [InputNext]_vars, NEW p \in snap'
             PROVE  Live(p)' \/ run'[p] \in {"published", "unpublished"}
  BY DEF SnapshotReleased
<1>0. /\ rec \in [Ops -> Record \cup {NoRec}] /\ run \in [Ops -> Phases]
      /\ snap \subseteq Ops
  BY DEF InputInv, InputTypeOK, CommitTypeOK
<1>1. ASSUME NEW o \in Ops, LeavesRecords(o) \/ Settles(o) \/ Blocks(o) \/ Details(o)
      PROVE  Live(p)' \/ run'[p] \in {"published", "unpublished"}
  <2>1. p \in snap
    BY <1>1, LeavesRecordsSame, SettlesRecord, BlocksRecord, DetailsKept
       DEF SettleAndRelease, BlockEdit
  <2>2. CASE run[p] \in {"published", "unpublished"}
    BY <1>1, <2>2, PublishedStays
  <2>3. CASE Live(p)
    <3>1. p \in Ops /\ p \in Admitted /\ rec[p].st \notin Terminal /\ rec[p] # NoRec
      BY <2>3 DEF Live, Admitted
    <3>2. CASE LeavesRecords(o)
      BY <2>3, <3>2, LeavesRecordsSame DEF Live, Admitted
    <3>3. CASE Settles(o)
      <4> PICK state \in {"failed", "cancelled"} : SettleAndRelease(o, state)
        BY <3>3, SettlesRecord
      <4>1. p # o
        BY <2>3 DEF SettleAndRelease
      <4>2. rec'[p] = rec[p]
        BY <1>0, <3>1, <4>1 DEF SettleAndRelease, Settle
      <4> QED
        BY <3>1, <4>2 DEF Live, Admitted
    <3>4. CASE Blocks(o)
      BY <1>0, <3>1, <3>4, BlocksRecord DEF BlockEdit, Live, Admitted
    <3>5. CASE Details(o)
      BY <3>1, <3>5, DetailsKept DEF Live
    <3> QED
      BY <1>1, <3>2, <3>3, <3>4, <3>5
  <2> QED
    BY <2>1, <2>2, <2>3 DEF SnapshotReleased
<1>2. ASSUME NEW o \in Ops, NEW publishes \in BOOLEAN,
             AttachTx(o, publishes) \/ CommitAnswer(o, publishes)
      PROVE  Live(p)' \/ run'[p] \in {"published", "unpublished"}
  <2>1. p \in snap /\ (p # o => rec'[p] = rec[p] /\ run'[p] = run[p])
    BY <1>0, <1>2 DEF AttachTx, CommitAnswer, CommitTx, Settle
  <2>2. CASE p # o
    BY <2>1, <2>2 DEF SnapshotReleased, Live, Admitted
  <2>3. CASE p = o /\ CommitAnswer(o, publishes)
    BY <1>0, <2>3 DEF CommitAnswer, CommitTx
  <2>4. CASE p = o /\ AttachTx(o, publishes)
    BY <2>4, InvAttach DEF Is, Live, Terminal
  <2> QED
    BY <1>2, <2>2, <2>3, <2>4
<1>3. ASSUME NEW o \in Ops, NEW c \in Commands, NEW replaced \in Ops \cup {NoOp},
             Admit(o, c, replaced)
      PROVE  Live(p)' \/ run'[p] \in {"published", "unpublished"}
  <2>1. Is(o, "queued")'
    BY <1>3, InvAdmit
  <2>2. run' = run /\ snap' = snap \cup {o}
    BY <1>3 DEF Admit
  <2>3. Live(o)'
    BY <2>1 DEF Is, Live, Terminal
  <2>4. ASSUME Live(p), p # o
        PROVE  Live(p)'
    <3>1. rec[p] \in Record
      BY <1>0, <2>4 DEF Live, Admitted
    <3>2. rec'[p] = IF p = replaced THEN [rec[p] EXCEPT !.replacedBy = o] ELSE rec[p]
      BY <1>0, <1>3, <2>4, <2>2 DEF Admit
    <3>3. rec'[p] \in Record /\ rec'[p].st = rec[p].st
      BY <3>1, <3>2 DEF Record
    <3> QED
      BY <2>4, <3>3, InputAssumption DEF Live, Admitted
  <2> QED
    BY <2>2, <2>3, <2>4 DEF SnapshotReleased, Live, Terminal
<1>4. CASE Crash
  BY <1>4 DEF Crash
<1>5. CASE SaveChat \/ WriteImage \/ DropJournal \/ UNCHANGED vars
  BY <1>5 DEF SaveChat, WriteImage, DropJournal, vars, commitVars, inputVars,
              SnapshotReleased, Live, Admitted
<1> QED
  BY <1>1, <1>2, <1>3, <1>4, <1>5, Steps

(* releaseSettingsContext: whatever ends an input, in whatever order the   *)
(* callbacks of its run, a cancel and a recovery come, its snapshot goes   *)
(* too, so admission is never refused for inputs that are over.            *)
THEOREM SnapshotsFreed == InputSpec => []SnapshotReleased
<1>1. InputInit => SnapshotReleased
  BY DEF InputInit, SnapshotReleased
<1> QED
  BY <1>1, SnapshotsNext, InputInvariant, PTL DEF InputSpec
-----------------------------------------------------------------------------
(* A set of messages that are all durable now, and that are all durable    *)
(* after the step.                                                         *)
Durable(S) ==
    \A o \in Ops :
       /\ Input(o) \in S => HasReceipt(o)
       /\ Answer(o) \in S => Committed(o)
DurableNext(S) ==
    \A o \in Ops :
       /\ Input(o) \in S => HasReceipt(o)'
       /\ Answer(o) \in S => Committed(o)'

(* Every chat that the program keeps and that may once be served. That the *)
(* copies are durable is not inductive alone: publication and recovery     *)
(* copy chats out of receipts and commit records.                          *)
DurableEverywhere ==
    /\ Durable(Shown(live)) /\ Durable(Shown(image.chat))
    /\ staged # NoChat => Durable(Shown(staged))
    /\ \A p \in Ops :
          /\ HasReceipt(p) => Durable(Shown(rec[p].ebase))
          /\ Committed(p) => Durable(Shown(commit[p].chat))

(* Receipts and commit records are written once and stay.                  *)
LEMMA ReceiptsStay ==
    ASSUME InputInv, [InputNext]_vars, NEW p \in Ops
    PROVE  /\ HasReceipt(p) => HasReceipt(p)' /\ rec'[p].ebase = rec[p].ebase
           /\ Committed(p) => commit'[p] = commit[p]
           /\ HasReceipt(p)' =>
                 HasReceipt(p) \/ \E publishes \in BOOLEAN : AttachTx(p, publishes)
           /\ Committed(p)' =>
                 Committed(p) \/ \E publishes \in BOOLEAN : CommitAnswer(p, publishes)
<1> DEFINE Stay == /\ HasReceipt(p)' <=> HasReceipt(p)
                   /\ HasReceipt(p) => rec'[p].ebase = rec[p].ebase
                   /\ commit'[p] = commit[p]
<1>0. /\ rec \in [Ops -> Record \cup {NoRec}]
      /\ commit \in [Ops -> Commits \cup {NoCommit}]
  BY DEF InputInv, InputTypeOK, CommitTypeOK
<1>1. ASSUME NEW o \in Ops, LeavesRecords(o) PROVE Stay
  BY <1>1, LeavesRecordsSame DEF HasReceipt, Admitted
<1>2. ASSUME NEW o \in Ops, NEW state \in InputStates, Settle(o, state)
      PROVE  (HasReceipt(p)' <=> HasReceipt(p)) /\ (HasReceipt(p) => rec'[p].ebase = rec[p].ebase)
  BY <1>0, <1>2, KeepsSettle DEF Keeps, HasReceipt, Admitted
<1>3. ASSUME NEW o \in Ops, Settles(o) PROVE Stay
  BY <1>2, <1>3, SettlesRecord DEF SettleAndRelease, InputStates
<1>4. ASSUME NEW o \in Ops, Blocks(o) PROVE Stay
  <2> PICK tf \in {"not_run", "running", "completed", "unknown"}, cascade \in BOOLEAN :
             BlockEdit(o, tf, cascade)
    BY <1>4, BlocksRecord
  <2>1. Keeps(o, {"blocked_edit"})
    BY <1>0, <1>4, BlocksRecord, KeepsBlock
  <2> QED
    BY <1>4, <2>1, BlocksRecord DEF Keeps, HasReceipt, Admitted
<1>5. ASSUME NEW o \in Ops, Details(o) PROVE Stay
  BY <1>5, DetailsKept DEF HasReceipt
<1>6. ASSUME NEW o \in Ops, NEW c \in Commands, NEW replaced \in Ops \cup {NoOp},
             Admit(o, c, replaced)
      PROVE  Stay
  <2>1. commit' = commit /\ o \notin Admitted
    BY <1>6 DEF Admit
  <2>2. CASE p = o
    <3>1. Is(o, "queued")' /\ InputInv'
      BY <1>6, InvAdmit
    <3> QED
      BY <2>1, <2>2, <3>1 DEF InputInv, RowsAgree, HasReceipt
  <2>3. CASE p # o
    <3>1. rec'[p] = IF p = replaced THEN [rec[p] EXCEPT !.replacedBy = o] ELSE rec[p]
      BY <1>6, <2>3 DEF Admit
    <3>2. replaced # NoOp => replaced \in Admitted
      BY <1>6 DEF Admit, MayTry, Retryable, Is
    <3>3. CASE p = replaced
      <4>1. p \in Admitted /\ rec[p] \in Record
        BY <1>0, <3>2, <3>3, InputAssumption DEF Admitted
      <4>2. rec'[p] \in Record /\ rec'[p].ebase = rec[p].ebase
        BY <3>1, <3>3, <4>1, <1>6 DEF Record
      <4> QED
        BY <2>1, <4>1, <4>2, InputAssumption DEF HasReceipt, Admitted
    <3>4. CASE p # replaced
      BY <2>1, <3>1, <3>4 DEF HasReceipt, Admitted
    <3> QED
      BY <3>3, <3>4
  <2> QED
    BY <2>2, <2>3
<1>7. ASSUME NEW o \in Ops, NEW publishes \in BOOLEAN, AttachTx(o, publishes)
      PROVE  commit' = commit /\ ~ HasReceipt(o) /\ (p # o => Stay)
  BY <1>0, <1>7 DEF AttachTx, HasReceipt, Admitted, InputInv, RowsAgree
<1>8. ASSUME NEW o \in Ops, NEW publishes \in BOOLEAN, CommitAnswer(o, publishes)
      PROVE  /\ ~ Committed(o) /\ (p # o => commit'[p] = commit[p])
             /\ HasReceipt(p)' <=> HasReceipt(p)
             /\ HasReceipt(p) => rec'[p].ebase = rec[p].ebase
  <2>1. Settle(o, "completed") /\ Is(o, "attached")
    BY <1>8 DEF CommitAnswer
  <2>2. ~ Committed(o)
    BY <2>1 DEF InputInv, RowsAgree, Is
  <2>3. p # o => commit'[p] = commit[p]
    BY <1>0, <1>8 DEF CommitAnswer, CommitTx
  <2> QED
    BY <1>2, <2>1, <2>2, <2>3 DEF InputStates
<1>9. ASSUME SaveChat \/ WriteImage \/ DropJournal \/ Crash \/ UNCHANGED vars
      PROVE  Stay
  BY <1>9 DEF SaveChat, WriteImage, DropJournal, Crash, ForgetRuns, vars, commitVars,
              inputVars, HasReceipt, Admitted
<1> HIDE DEF Stay
<1>10. CASE Stay
  BY <1>10 DEF Stay, Committed
<1>11. ASSUME NEW o \in Ops, NEW publishes \in BOOLEAN, AttachTx(o, publishes)
       PROVE  /\ HasReceipt(p) => HasReceipt(p)' /\ rec'[p].ebase = rec[p].ebase
              /\ Committed(p) => commit'[p] = commit[p]
              /\ HasReceipt(p)' =>
                    HasReceipt(p) \/ \E pub \in BOOLEAN : AttachTx(p, pub)
              /\ Committed(p)' => Committed(p)
  BY <1>7, <1>11 DEF Stay, Committed
<1>12. ASSUME NEW o \in Ops, NEW publishes \in BOOLEAN, CommitAnswer(o, publishes)
       PROVE  /\ HasReceipt(p) => HasReceipt(p)' /\ rec'[p].ebase = rec[p].ebase
              /\ Committed(p) => commit'[p] = commit[p]
              /\ HasReceipt(p)' => HasReceipt(p)
              /\ Committed(p)' =>
                    Committed(p) \/ \E pub \in BOOLEAN : CommitAnswer(p, pub)
  BY <1>8, <1>12 DEF Committed
<1>13. \/ Stay
       \/ \E o \in Ops, publishes \in BOOLEAN :
             AttachTx(o, publishes) \/ CommitAnswer(o, publishes)
  BY <1>1, <1>3, <1>4, <1>5, <1>6, <1>9, Steps
<1> QED
  BY <1>10, <1>11, <1>12, <1>13

LEMMA DurableStays ==
    ASSUME InputInv, [InputNext]_vars, NEW S, Durable(S)
    PROVE  DurableNext(S)
  BY ReceiptsStay DEF Durable, DurableNext, Committed

(* Which chat is served after a step that shows neither a new input nor a  *)
(* new answer.                                                             *)
LEMMA ServedFrom ==
    ASSUME InputInv, NEW o \in Ops,
           LeavesRecords(o) \/ Settles(o) \/ Blocks(o) \/ Details(o)
    PROVE  /\ UNCHANGED <<image, staged>>
           /\ \/ live' = live
              \/ HasReceipt(o) /\ live' = rec[o].ebase
              \/ Committed(o) /\ live' = commit[o].chat
<1>1. CASE LeavesRecords(o)
  <2>1. Is(o, "attached") => HasReceipt(o)
    BY DEF InputInv, RowsAgree
  <2> QED
    BY <1>1, <2>1
       DEF LeavesRecords, Republish, Launch, CheckPredecessor, BeginAttached,
           BeginRefused, AttachPrepare, TransformCancelled, AssemblePrompt, Assemble,
           RunStops, StartProvider, ProviderStart, GenerationReady, GenerationSucceeds,
           GenerationCancelled, PrepareCommit, CommitPrepare, RecoverAttached,
           EndSilently, storeVars
<1>2. CASE Settles(o) \/ Blocks(o)
  BY <1>2, SettlesRecord, BlocksRecord
<1>3. CASE Details(o)
  <2>1. Is(o, "completed") => Committed(o)
    BY DEF InputInv, RowsAgree
  <2>2. \/ live' = live
        \/ Committed(o) /\ live' = commit[o].chat
    BY <1>3, <2>1
       DEF Details, Begin, TransformFails, RecoverTransform, Resolve, RecoverCommit,
           RecoverCompleted, Finalize, Pending, PublishCommit, EndSilently, storeVars
  <2> QED
    BY <1>3, <2>2, DetailsKept
<1> QED
  BY <1>1, <1>2, <1>3

(* A save shows no input and no answer that was not shown.                 *)
LEMMA SavedFrom ==
    ASSUME InputInv, ClientSave, Durable(Shown(live))
    PROVE  Durable(Shown(live')) /\ staged' = live' /\ image' = image
<1> PICK edit \in Edits(live) : staged' = edit[1] /\ live' = edit[1]
  BY DEF ClientSave, SaveFrom
<1>0. live \in Chat /\ image' = image
  BY DEF InputInv, InputTypeOK, StoreTypeOK, ClientSave
<1>1. \A o \in Ops, n \in Notes : Note(n) # Input(o) /\ Note(n) # Answer(o)
  BY DEF Note, Input, Answer
<1>2. CASE edit[1] = [live EXCEPT !.ver = acked.saves + 1]
  <2>1. Shown(edit[1]) = Shown(live)
    BY <1>0, <1>2 DEF Shown, Chat
  <2> QED
    BY <1>0, <2>1
<1>3. ASSUME NEW k \in 0..Len(live.msgs), NEW n \in Notes, edit[1] = Insert(live, k, Note(n))
      PROVE  Durable(Shown(edit[1]))
  <2>1. Shown(edit[1]) = Shown(live) \cup {Note(n)}
    BY <1>0, <1>3, InsertChat DEF Note, Message
  <2> QED
    BY <1>1, <2>1 DEF Durable
<1>4. ASSUME NEW k \in DOMAIN live.msgs, edit[1] = Drop(live, k)
      PROVE  Durable(Shown(edit[1]))
  BY <1>0, <1>4, DropChat DEF Durable
<1> QED
  BY <1>0, <1>2, <1>3, <1>4 DEF Edits

LEMMA DurableEverywhereNext ==
    InputInv /\ DurableEverywhere /\ [InputNext]_vars => DurableEverywhere'
<1> SUFFICES ASSUME InputInv, DurableEverywhere, [InputNext]_vars
             PROVE  DurableEverywhere'
  OBVIOUS
<1>0. ASSUME NEW S, DurableNext(S) PROVE Durable(S)'
  BY <1>0 DEF DurableNext, Durable
<1>1. ASSUME NEW chat, Durable(Shown(chat))
      PROVE  DurableNext(Shown(chat))
  BY <1>1, DurableStays
(* What a step has to show: the served chat, the copies it writes, and the *)
(* chats of a new receipt or commit record.                                *)
<1>2. ASSUME DurableNext(Shown(live')),
             image' = image \/ image'.chat = live,
             staged' \in {staged, live', NoChat},
             \A p \in Ops, publishes \in BOOLEAN :
                /\ AttachTx(p, publishes) => DurableNext(Shown(rec'[p].ebase))
                /\ CommitAnswer(p, publishes) => DurableNext(Shown(commit'[p].chat))
      PROVE  DurableEverywhere'
  <2>1. DurableNext(Shown(image'.chat))
    BY <1>1, <1>2 DEF DurableEverywhere
  <2>2. staged' # NoChat => DurableNext(Shown(staged'))
    BY <1>1, <1>2 DEF DurableEverywhere
  <2>3. ASSUME NEW p \in Ops, HasReceipt(p)'
        PROVE  DurableNext(Shown(rec'[p].ebase))
    <3>1. CASE HasReceipt(p)
      BY <1>1, <3>1, ReceiptsStay DEF DurableEverywhere
    <3> QED
      BY <1>2, <2>3, <3>1, ReceiptsStay
  <2>4. ASSUME NEW p \in Ops, Committed(p)'
        PROVE  DurableNext(Shown(commit'[p].chat))
    <3>1. CASE Committed(p)
      BY <1>1, <3>1, ReceiptsStay DEF DurableEverywhere
    <3> QED
      BY <1>2, <2>4, <3>1, ReceiptsStay
  <2> QED
    BY <1>2, <2>1, <2>2, <2>3, <2>4 DEF DurableEverywhere, DurableNext, Durable, Shown
<1>3. ASSUME NEW p \in Ops, NEW publishes \in BOOLEAN, AttachTx(p, publishes)
      PROVE  /\ DurableNext(Shown(rec'[p].ebase)) /\ DurableNext(Shown(live'))
             /\ UNCHANGED <<image, staged>>
  <2> DEFINE chat == Insert(live, Len(live.msgs), Input(p))
  <2>1. HasReceipt(p)'
    BY <1>3, InvAttach DEF InputInv, RowsAgree
  <2>2. live \in Chat /\ Input(p) \in Message
    BY DEF InputInv, InputTypeOK, StoreTypeOK, Input, Message
  <2>3. Len(live.msgs) \in 0..Len(live.msgs)
    BY <2>2 DEF Chat
  <2>4. Shown(chat) = Shown(live) \cup {Input(p)}
    BY <2>2, <2>3, InsertChat
  <2>5. /\ rec'[p].ebase = chat /\ live' \in {chat, live}
        /\ UNCHANGED <<image, staged>>
    BY <1>3 DEF AttachTx, Is, Admitted, InputInv, InputTypeOK, Record
  <2>6. \A q \in Ops : Input(q) = Input(p) => q = p
    BY DEF Input
  <2>7. \A q \in Ops : Answer(q) # Input(p)
    BY DEF Input, Answer
  <2> HIDE DEF chat
  <2>8. DurableNext(Shown(live))
    BY <1>1 DEF DurableEverywhere
  <2>9. DurableNext(Shown(chat))
    BY <2>1, <2>4, <2>6, <2>7, <2>8 DEF DurableNext
  <2> QED
    BY <2>5, <2>8, <2>9
<1>4. ASSUME NEW p \in Ops, NEW publishes \in BOOLEAN, CommitAnswer(p, publishes)
      PROVE  /\ DurableNext(Shown(commit'[p].chat)) /\ DurableNext(Shown(live'))
             /\ UNCHANGED <<image, staged>>
  <2> DEFINE chat == WithAnswer(p, live)
  <2>1. /\ commit'[p] = [base |-> live, chat |-> chat] /\ live' \in {chat, live}
        /\ UNCHANGED <<image, staged>>
        /\ run[p] = "committing" /\ slot = p
    BY <1>4 DEF CommitAnswer, CommitTx, InputInv, InputTypeOK, CommitTypeOK
  <2>2. live \in Chat /\ Input(p) \in Shown(live)
    BY <2>1 DEF InputInv, InputTypeOK, StoreTypeOK, QueueHeld
  <2>3. chat \in Chat /\ Shown(chat) = Shown(live) \cup {Answer(p)}
    BY <2>2, WithAnswerChat
  <2> HIDE DEF chat
  <2>4. Committed(p)'
    BY <2>1, <2>2, <2>3, CommitAssumption DEF Committed, Commits
  <2>5. \A q \in Ops : Answer(q) = Answer(p) => q = p
    BY DEF Answer
  <2>6. \A q \in Ops : Input(q) # Answer(p)
    BY DEF Input, Answer
  <2>7. DurableNext(Shown(live))
    BY <1>1 DEF DurableEverywhere
  <2>8. DurableNext(Shown(chat))
    BY <2>3, <2>4, <2>5, <2>6, <2>7 DEF DurableNext
  <2>9. commit'[p].chat = chat
    BY <2>1
  <2> QED
    BY <2>1, <2>7, <2>8, <2>9
<1>5. ASSUME NEW o \in Ops, LeavesRecords(o) \/ Settles(o) \/ Blocks(o) \/ Details(o)
      PROVE  DurableNext(Shown(live')) /\ UNCHANGED <<image, staged>>
  BY <1>1, <1>5, ServedFrom DEF DurableEverywhere
<1>6. ASSUME NEW o \in Ops, NEW c \in Commands, NEW replaced \in Ops \cup {NoOp},
             Admit(o, c, replaced)
      PROVE  DurableNext(Shown(live')) /\ UNCHANGED <<image, staged>>
  BY <1>1, <1>6 DEF Admit, storeVars, DurableEverywhere
<1>7. CASE SaveChat
  BY <1>1, <1>2, <1>3, <1>4, <1>7, SavedFrom DEF SaveChat, DurableEverywhere
<1>8. CASE WriteImage
  BY <1>1, <1>2, <1>3, <1>4, <1>8 DEF WriteImage, PersistImage, DurableEverywhere
<1>9. CASE DropJournal
  BY <1>1, <1>2, <1>3, <1>4, <1>9 DEF DropJournal, ClearJournal, DurableEverywhere
<1>10. CASE Crash
  BY <1>1, <1>2, <1>3, <1>4, <1>10 DEF Crash, Restart, Reloaded, DurableEverywhere
<1>11. CASE UNCHANGED vars
  BY <1>1, <1>2, <1>3, <1>4, <1>11 DEF vars, storeVars, DurableEverywhere
<1> QED
  BY <1>2, <1>3, <1>4, <1>5, <1>6, <1>7, <1>8, <1>9, <1>10, <1>11, Steps

(* attachTransformed and commitQueued: no copy of the chat, in memory, in  *)
(* the image or in the journal, shows an input before its receipt or an    *)
(* answer before its commit record, whatever is published, recovered or    *)
(* reloaded in between.                                                    *)
THEOREM ShownIsDurable == InputSpec => []DurableBeforeShown
<1>1. InputInit => DurableEverywhere
  BY DEF InputInit, StoreInit, CommitInit, DurableEverywhere, Durable, Shown, ToSet,
         HasReceipt, Admitted, Committed
<1>2. DurableEverywhere => DurableBeforeShown
  BY DEF DurableEverywhere, Durable, DurableBeforeShown, ChatCopies
<1> QED
  BY <1>1, <1>2, DurableEverywhereNext, InputInvariant, PTL DEF InputSpec
=============================================================================
