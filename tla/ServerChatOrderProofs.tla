------------------------ MODULE ServerChatOrderProofs ------------------------
(***************************************************************************)
(* More theorems about ServerChatInput: inputs join the chat in the order  *)
(* of their admission, a commit that waits for its publication finds the   *)
(* chat as it was, the chat reads as a conversation, and until a restart   *)
(* what the user saves and what the server answers stays served.           *)
(***************************************************************************)
EXTENDS ServerChatInputProofs

(* A commit that the served chat does not show as applied.                 *)
Unapplied(o) == Committed(o) /\ o \notin applied

(* The admissions are numbered, and what a record says of its past.        *)
Numbered ==
    /\ \A p \in Admitted : rec[p].seq <= Cardinality(Admitted)
    /\ \A p, q \in Admitted : rec[p].seq = rec[q].seq => p = q
PastNoted ==
    \A o \in Admitted :
       /\ rec[o].replaces # NoOp =>
             rec[o].replaces \in Admitted /\ UserResolved(rec[o].replaces)
       /\ Committed(o) => HasReceipt(o)
       /\ rec[o].pub => Committed(o) /\ (o \in applied \/ o \in todo)
       /\ run[o] \in {"published", "unpublished"} => Committed(o)
       /\ run[o] = "published" => o \in applied
       /\ HasReceipt(o) =>
             /\ rec[o].abase \in Chat
             /\ rec[o].ebase = Insert(rec[o].abase, Len(rec[o].abase.msgs), Input(o))
CommitsNoted ==
    \A o \in Ops :
       /\ Committed(o) =>
             /\ Input(o) \in Shown(commit[o].base)
             /\ commit[o].chat = WithAnswer(o, commit[o].base)
       /\ o \in applied \cup image.applied => Committed(o)

(* No run survives into startup recovery, which has every commit still     *)
(* before it that the loaded chat lacks. Afterwards the chat is what such  *)
(* a commit was made from.                                                 *)
RecoveryFirst ==
    /\ todo # {} => \A o \in Ops : run[o] = "none"
    /\ \A o \in Ops : Unapplied(o) =>
          IF Listening THEN live = commit[o].base ELSE o \in todo

(* Once it is settled that o is next, every input before it is over, and   *)
(* its answer is in the chat.                                              *)
Due(o) ==
    \/ rec[o].resolved \/ HasReceipt(o)
    \/ run[o] \in {"checked", "transforming"} /\ Is(o, "queued")
Ended(p) == ~ Live(p) /\ (Listening => ~ Unapplied(p))
InTurn == \A o \in Admitted : Due(o) => \A p \in Before(o) : Ended(p)

OrderInv == Numbered /\ PastNoted /\ CommitsNoted /\ RecoveryFirst /\ InTurn

(* Every chat that the program keeps and that may once be served, and that *)
(* all of them read as a conversation. The order is by the admissions,     *)
(* which are the ones of records r.                                        *)
Kept ==
    {live, image.chat} \cup ({staged} \ {NoChat})
    \cup {rec[o].ebase : o \in {p \in Ops : HasReceipt(p)}}
    \cup {commit[o].chat : o \in {p \in Ops : Committed(p)}}
TurnIn(r, m) == 2 * r[m[2]].seq + (IF m[1] = "char" THEN 1 ELSE 0)
OrderedIn(r, chat) ==
    \A i, j \in DOMAIN chat.msgs :
       i < j /\ chat.msgs[i][1] # "note" /\ chat.msgs[j][1] # "note"
       => TurnIn(r, chat.msgs[i]) < TurnIn(r, chat.msgs[j])
OrderedEverywhere == \A chat \in Kept : OrderedIn(rec, chat)

(* Until a restart: what the user's saves and the ledger say of the chat   *)
(* that is served. That a deletion really takes a message away needs that  *)
(* a message is in the chat once, and that a note is not added again.      *)
EditsInv ==
    restarts = 0 =>
       /\ todo = {}
       /\ IsInjective(live.msgs)
       /\ \A n \in Notes :
             Note(n) \in Shown(live) \cup acked.removed => Note(n) \in acked.added
       /\ live.ver = acked.ver
       /\ acked.added \ acked.removed \subseteq Shown(live)
       /\ \A m \in acked.removed : m[1] = "user" \/ m \notin Shown(live)
       /\ \A o \in Ops : o \in applied <=> Answer(o) \in Shown(live) \cup acked.removed
-----------------------------------------------------------------------------
(* What no step changes of a record once it is admitted, and which step    *)
(* changes the rest.                                                       *)
LEMMA FieldsStay ==
    ASSUME InputInv, NEW o \in Ops,
           LeavesRecords(o) \/ Settles(o) \/ Blocks(o) \/ Details(o)
    PROVE  /\ Admitted' = Admitted
           /\ \A p \in Admitted :
                 /\ rec'[p].seq = rec[p].seq /\ rec'[p].replaces = rec[p].replaces
                 /\ rec'[p].replacedBy = rec[p].replacedBy
                 /\ rec'[p].abase = rec[p].abase /\ rec'[p].ebase = rec[p].ebase
                 /\ rec'[p].resolved => rec[p].resolved \/ Resolve(p)
                 /\ rec'[p].pub =>
                       \/ rec[p].pub \/ RecoverCommit(p) \/ RecoverCompleted(p)
                       \/ Finalize(p) /\ run[p] = "published"
<1>0. rec \in [Ops -> Record \cup {NoRec}] /\ \A p \in Admitted : rec[p] \in Record
  BY DEF InputInv, InputTypeOK, Admitted
<1>1. CASE LeavesRecords(o)
  BY <1>1, LeavesRecordsSame DEF Admitted
<1>2. CASE Settles(o)
  <2> PICK state \in {"failed", "cancelled"} : SettleAndRelease(o, state)
    BY <1>2, SettlesRecord
  <2>1. CASE ~ Live(o)
    BY <2>1 DEF SettleAndRelease, Settle, Admitted
  <2>2. CASE Live(o)
    <3>1. o \in Admitted /\ rec' = [rec EXCEPT ![o].st = state]
      BY <2>2 DEF SettleAndRelease, Settle, Live
    <3>2. Admitted' = Admitted
      BY SettleTypes DEF Keeps, Admitted
    <3> QED
      BY <1>0, <3>1, <3>2 DEF Record, Admitted
  <2> QED
    BY <2>1, <2>2
<1>3. CASE Blocks(o)
  <2> PICK tf \in {"not_run", "running", "completed", "unknown"}, cascade \in BOOLEAN :
             BlockEdit(o, tf, cascade)
    BY <1>3, BlocksRecord
  <2>1. o \in Admitted /\ Admitted' = Admitted
    BY <1>0, <1>3, BlocksRecord, KeepsBlock DEF Keeps, Is, Admitted
  <2> QED
    BY <1>0, <2>1 DEF BlockEdit, Record, Admitted
<1>4. CASE Details(o)
  <2>1. Admitted' = Admitted
    BY <1>4, DetailsKept
  <2>2. o \in Admitted
    BY <1>4 DEF Details, Begin, CanBegin, TransformFails, RecoverTransform, Resolve,
                PredecessorEnded, RecoverCommit, RecoverCompleted, Finalize, Pending,
                Is, InputInv, RowsAgree
  <2>3. CASE Begin(o) \/ TransformFails(o) \/ RecoverTransform(o)
    BY <1>0, <2>1, <2>2, <2>3 DEF Begin, TransformFails, RecoverTransform, Record, Admitted
  <2>4. CASE Resolve(o)
    BY <1>0, <2>1, <2>2, <2>4 DEF Resolve, Record, Admitted
  <2>5. CASE RecoverCommit(o) \/ RecoverCompleted(o)
    BY <1>0, <2>1, <2>2, <2>5 DEF RecoverCommit, RecoverCompleted, RecordPublished, Record, Admitted
  <2>6. CASE Finalize(o)
    BY <1>0, <2>1, <2>2, <2>6 DEF Finalize, Record, Admitted
  <2> QED
    BY <1>4, <2>3, <2>4, <2>5, <2>6 DEF Details
<1> QED
  BY <1>1, <1>2, <1>3, <1>4

LEMMA PastStays ==
    ASSUME InputInv, [InputNext]_vars, NEW p \in Admitted
    PROVE  /\ p \in Admitted'
           /\ rec'[p].seq = rec[p].seq /\ rec'[p].replaces = rec[p].replaces
           /\ UserResolved(p) => UserResolved(p)'
           /\ HasReceipt(p) => rec'[p].abase = rec[p].abase
           /\ rec'[p].resolved => rec[p].resolved \/ Resolve(p)
           /\ rec'[p].pub =>
                 \/ rec[p].pub \/ RecoverCommit(p) \/ RecoverCompleted(p)
                 \/ Finalize(p) /\ run[p] = "published"
<1>0. /\ rec \in [Ops -> Record \cup {NoRec}] /\ p \in Ops /\ rec[p] \in Record
  BY DEF InputInv, InputTypeOK, Admitted
<1>1. ASSUME NEW o \in Ops, LeavesRecords(o) \/ Settles(o) \/ Blocks(o) \/ Details(o)
      PROVE  /\ p \in Admitted'
             /\ rec'[p].seq = rec[p].seq /\ rec'[p].replaces = rec[p].replaces
             /\ rec'[p].replacedBy = rec[p].replacedBy
             /\ rec'[p].abase = rec[p].abase
             /\ rec'[p].resolved => rec[p].resolved \/ Resolve(p)
             /\ rec'[p].pub =>
                   \/ rec[p].pub \/ RecoverCommit(p) \/ RecoverCompleted(p)
                   \/ Finalize(p) /\ run[p] = "published"
  BY <1>1, FieldsStay
<1>2. ASSUME NEW o \in Ops, NEW publishes \in BOOLEAN, AttachTx(o, publishes)
      PROVE  /\ p \in Admitted'
             /\ rec'[p].seq = rec[p].seq /\ rec'[p].replaces = rec[p].replaces
             /\ rec'[p].replacedBy = rec[p].replacedBy
             /\ HasReceipt(p) => rec'[p].abase = rec[p].abase
             /\ rec'[p].resolved = rec[p].resolved /\ rec'[p].pub = rec[p].pub
  <2>1. Is(o, "queued") /\ ~ HasReceipt(o) /\ Is(o, "attached")'
    BY <1>2, InvAttach DEF AttachTx, InputInv, RowsAgree
  <2>2. CASE p = o
    BY <1>0, <1>2, <2>1, <2>2 DEF AttachTx, Record, Is
  <2>3. CASE p # o
    BY <1>0, <1>2, <2>3 DEF AttachTx, Admitted
  <2> QED
    BY <2>2, <2>3
<1>3. ASSUME NEW o \in Ops, NEW publishes \in BOOLEAN, CommitAnswer(o, publishes)
      PROVE  /\ p \in Admitted'
             /\ rec'[p].seq = rec[p].seq /\ rec'[p].replaces = rec[p].replaces
             /\ rec'[p].replacedBy = rec[p].replacedBy
             /\ rec'[p].abase = rec[p].abase
             /\ rec'[p].resolved = rec[p].resolved /\ rec'[p].pub = rec[p].pub
  <2>1. Settle(o, "completed")
    BY <1>3 DEF CommitAnswer
  <2>2. p \in Admitted'
    BY <1>0, <2>1, KeepsSettle DEF Keeps, Admitted, InputStates
  <2> QED
    BY <1>0, <2>1, <2>2 DEF Settle, Record
<1>4. ASSUME NEW o \in Ops, NEW c \in Commands, NEW replaced \in Ops \cup {NoOp},
             Admit(o, c, replaced)
      PROVE  /\ p \in Admitted'
             /\ rec'[p].seq = rec[p].seq /\ rec'[p].replaces = rec[p].replaces
             /\ UserResolved(p) => UserResolved(p)'
             /\ rec'[p].abase = rec[p].abase
             /\ rec'[p].resolved = rec[p].resolved /\ rec'[p].pub = rec[p].pub
  <2>1. p # o /\ o # NoOp
    BY <1>4, InputAssumption DEF Admit
  <2>2. rec'[p] = IF p = replaced THEN [rec[p] EXCEPT !.replacedBy = o] ELSE rec[p]
    BY <1>0, <1>4, <2>1 DEF Admit
  <2>3. rec'[p] \in Record
    BY <1>0, <1>4, <2>2 DEF Record
  <2> QED
    BY <1>0, <2>1, <2>2, <2>3, InputAssumption DEF Record, Admitted, UserResolved
<1>5. CASE SaveChat \/ WriteImage \/ DropJournal \/ Crash \/ UNCHANGED vars
  BY <1>5 DEF SaveChat, WriteImage, DropJournal, Crash, vars, inputVars, Admitted, UserResolved
<1> QED
  BY <1>1, <1>2, <1>3, <1>4, <1>5, Steps DEF UserResolved

(* Only an admission makes a record.                                       *)
LEMMA AdmittedFrom ==
    ASSUME InputInv, [InputNext]_vars
    PROVE  \/ Admitted' = Admitted
           \/ \E o \in Ops, c \in Commands, replaced \in Ops \cup {NoOp} :
                 Admit(o, c, replaced)
<1>0. rec \in [Ops -> Record \cup {NoRec}]
  BY DEF InputInv, InputTypeOK
<1>1. ASSUME NEW o \in Ops, NEW publishes \in BOOLEAN, AttachTx(o, publishes)
      PROVE  Admitted' = Admitted
  <2>1. Is(o, "queued") /\ Is(o, "attached")' /\ \A p \in Ops : p # o => rec'[p] = rec[p]
    BY <1>0, <1>1, InvAttach DEF AttachTx
  <2> QED
    BY <2>1 DEF Is, Admitted
<1>2. ASSUME NEW o \in Ops, NEW publishes \in BOOLEAN, CommitAnswer(o, publishes)
      PROVE  Admitted' = Admitted
  BY <1>0, <1>2, KeepsSettle DEF CommitAnswer, Keeps, Admitted, InputStates
<1>3. CASE SaveChat \/ WriteImage \/ DropJournal \/ Crash \/ UNCHANGED vars
  BY <1>3 DEF SaveChat, WriteImage, DropJournal, Crash, vars, inputVars, Admitted
<1> QED
  BY <1>1, <1>2, <1>3, FieldsStay, Steps
-----------------------------------------------------------------------------
(* How a run moves, by which step.                                         *)
RunMove(p) ==
    \/ run'[p] \in {run[p], "none"}
    \/ Launch(p) /\ run'[p] = "launched"
    \/ CheckPredecessor(p) /\ run'[p] = "checked"
    \/ Begin(p) /\ run'[p] = "transforming"
    \/ run[p] # "none" /\ run'[p] \in {"prepared", "assembled", "generating", "committing"}
    \/ CommitAnswer(p, TRUE) /\ run'[p] = "published"
    \/ CommitAnswer(p, FALSE) /\ run'[p] = "unpublished"

LEMMA RunMoves ==
    ASSUME InputInv, [InputNext]_vars, NEW p \in Ops
    PROVE  RunMove(p)
<1>0. run \in [Ops -> Phases]
  BY DEF InputInv, InputTypeOK, CommitTypeOK
<1>1. ASSUME NEW o \in Ops, LeavesRecords(o)
      PROVE  RunMove(p)
  <2>1. CASE Launch(o) \/ CheckPredecessor(o)
    BY <1>0, <2>1 DEF Launch, CheckPredecessor, RunMove
  <2>2. CASE \/ Republish(o) \/ AttachPrepare(o) \/ PrepareCommit(o) \/ RecoverAttached(o)
             \/ BeginRefused(o) \/ TransformCancelled(o) \/ RunStops(o) \/ GenerationCancelled(o)
    BY <1>0, <2>2 DEF Republish, AttachPrepare, PrepareCommit, CommitPrepare, RecoverAttached,
            BeginRefused, TransformCancelled, RunStops, GenerationCancelled, EndSilently,
            RunEnds, commitVars, RunMove
  <2>3. CASE BeginAttached(o) \/ AssemblePrompt(o) \/ StartProvider(o) \/ GenerationReady(o)
    BY <1>0, <2>3 DEF BeginAttached, AssemblePrompt, Assemble, StartProvider, ProviderStart,
            GenerationReady, GenerationSucceeds, RunMove
  <2> QED
    BY <1>1, <2>1, <2>2, <2>3 DEF LeavesRecords
<1>2. ASSUME NEW o \in Ops, Settles(o) \/ Blocks(o)
      PROVE  RunMove(p)
  BY <1>0, <1>2 DEF Settles, LaunchRefused, AssemblyConflict, GenerationFails, AnswerCancelled,
          Cancel, WriteCancelled, EndWithResult, CommitCancelled, Blocks, CascadeBlock,
          RevisionBlock, BeginRejected, TransformUnsupported, AttachConflict, EndSilently,
          RunEnds, commitVars, RunMove
<1>3. ASSUME NEW o \in Ops, Details(o)
      PROVE  RunMove(p)
  <2>1. CASE Begin(o)
    BY <1>0, <2>1 DEF Begin, RunMove
  <2>2. CASE ~ Begin(o)
    BY <1>0, <1>3, <2>2 DEF Details, TransformFails, RecoverTransform, Resolve, RecoverCommit,
            RecoverCompleted, Finalize, RecordPublished, EndSilently, RunEnds, commitVars,
            RunMove
  <2> QED
    BY <2>1, <2>2
<1>4. ASSUME NEW o \in Ops, NEW publishes \in BOOLEAN, AttachTx(o, publishes)
      PROVE  RunMove(p)
  BY <1>0, <1>4 DEF AttachTx, RunMove
<1>5. ASSUME NEW o \in Ops, NEW publishes \in BOOLEAN, CommitAnswer(o, publishes)
      PROVE  RunMove(p)
  <2>1. run' = [run EXCEPT ![o] = IF publishes THEN "published" ELSE "unpublished"]
    BY <1>5 DEF CommitAnswer, CommitTx
  <2>2. publishes = TRUE \/ publishes = FALSE
    OBVIOUS
  <2> QED
    BY <1>0, <1>5, <2>1, <2>2 DEF RunMove
<1>6. ASSUME NEW o \in Ops, NEW c \in Commands, NEW replaced \in Ops \cup {NoOp},
             Admit(o, c, replaced)
      PROVE  RunMove(p)
  BY <1>6 DEF Admit, RunMove
<1>7. CASE SaveChat \/ WriteImage \/ DropJournal \/ Crash \/ UNCHANGED vars
  BY <1>7 DEF SaveChat, WriteImage, DropJournal, Crash, ForgetRuns, vars, commitVars, RunMove
<1> QED
  BY <1>1, <1>2, <1>3, <1>4, <1>5, <1>6, <1>7, Steps

(* Which steps write the chat that is served, and which go on with startup *)
(* recovery.                                                               *)
Recovers(o) == RecoverCompleted(o) \/ RecoverTransform(o) \/ RecoverAttached(o)
Shows(o) ==
    \/ Republish(o) \/ RecoverCommit(o) \/ RecoverCompleted(o) \/ RecoverAttached(o)
    \/ \E publishes \in BOOLEAN : AttachTx(o, publishes) \/ CommitAnswer(o, publishes)

LEMMA LiveMoves ==
    ASSUME [InputNext]_vars
    PROVE  \/ SaveChat \/ Crash
           \/ UNCHANGED <<live, applied, acked, restarts>>
           \/ (\E o \in Ops : Shows(o)) /\ UNCHANGED <<acked, restarts>>
<1>1. ASSUME NEW o \in Ops, LeavesRecords(o)
      PROVE  UNCHANGED <<acked, restarts>> /\ (UNCHANGED <<live, applied>> \/ Shows(o))
  BY <1>1 DEF LeavesRecords, Republish, Launch, CheckPredecessor, BeginAttached, BeginRefused,
         AttachPrepare, TransformCancelled, AssemblePrompt, Assemble, RunStops,
         StartProvider, ProviderStart, GenerationReady, GenerationSucceeds,
         GenerationCancelled, PrepareCommit, CommitPrepare, RecoverAttached, NextToRecover,
         EndSilently, storeVars, inputVars, Shows
<1>2. ASSUME NEW o \in Ops, Settles(o) \/ Blocks(o)
      PROVE  UNCHANGED <<live, applied, acked, restarts>>
  BY <1>2 DEF Settles, LaunchRefused, AssemblyConflict, GenerationFails, AnswerCancelled,
          Cancel, EndWithResult, CommitCancelled, Blocks, CascadeBlock, KeepHistory,
          RevisionBlock, BeginRejected, TransformUnsupported, AttachConflict, EndSilently,
          storeVars
<1>3. ASSUME NEW o \in Ops, Details(o)
      PROVE  UNCHANGED <<acked, restarts>> /\ (UNCHANGED <<live, applied>> \/ Shows(o))
  BY <1>3 DEF Details, Begin, TransformFails, RecoverTransform, Resolve, RecoverCommit,
          RecoverCompleted, Finalize, PublishCommit, NextToRecover, KeepHistory, EndSilently,
          storeVars, Shows
<1>4. ASSUME NEW o \in Ops, NEW publishes \in BOOLEAN,
             AttachTx(o, publishes) \/ CommitAnswer(o, publishes)
      PROVE  UNCHANGED <<acked, restarts>> /\ Shows(o)
  BY <1>4 DEF AttachTx, CommitAnswer, CommitTx, KeepHistory, Shows
<1>5. CASE WriteImage \/ DropJournal \/ UNCHANGED vars
           \/ \E o \in Ops, c \in Commands, replaced \in Ops \cup {NoOp} : Admit(o, c, replaced)
  <2>1. UNCHANGED <<live, applied, acked, restarts>>
    BY <1>5 DEF WriteImage, PersistImage, DropJournal, ClearJournal, Admit, KeepHistory, vars,
            storeVars, inputVars
  <2> QED
    BY <2>1
<1> QED
  BY <1>1, <1>2, <1>3, <1>4, <1>5, Steps

LEMMA TodoMoves ==
    ASSUME [InputNext]_vars
    PROVE  \/ Crash \/ todo' = todo
           \/ \E o \in Ops : Recovers(o) /\ o \in todo /\ todo' = todo \ {o}
<1>1. ASSUME NEW o \in Ops, LeavesRecords(o) \/ Settles(o) \/ Blocks(o) \/ Details(o)
      PROVE  todo' = todo \/ (Recovers(o) /\ o \in todo /\ todo' = todo \ {o})
  <2>1. CASE Recovers(o)
    BY <2>1 DEF Recovers, RecoverCompleted, RecoverTransform, RecoverAttached, NextToRecover
  <2>2. ASSUME LeavesRecords(o), ~ Recovers(o)
        PROVE  todo' = todo
    BY <2>2 DEF LeavesRecords, Republish, Launch, CheckPredecessor, BeginAttached,
         BeginRefused, AttachPrepare, TransformCancelled, AssemblePrompt, RunStops,
         StartProvider, GenerationReady, GenerationCancelled, PrepareCommit, inputVars,
         Recovers
  <2>3. ASSUME Settles(o) \/ Blocks(o)
        PROVE  todo' = todo
    BY <2>3 DEF KeepHistory, Settles, LaunchRefused, AssemblyConflict, GenerationFails,
         AnswerCancelled, Cancel, Blocks, CascadeBlock, RevisionBlock, BeginRejected,
         TransformUnsupported, AttachConflict
  <2>4. ASSUME Details(o), ~ Recovers(o)
        PROVE  todo' = todo
    <3>1. Begin(o) \/ TransformFails(o) \/ Resolve(o) \/ RecoverCommit(o) \/ Finalize(o)
      BY <2>4 DEF Details, Recovers
    <3> QED
      BY <3>1 DEF KeepHistory, Begin, TransformFails, Resolve, RecoverCommit, Finalize
  <2> QED
    BY <1>1, <2>1, <2>2, <2>3, <2>4
<1>2. CASE \/ SaveChat \/ WriteImage \/ DropJournal \/ UNCHANGED vars
           \/ \E o \in Ops, publishes \in BOOLEAN :
                 AttachTx(o, publishes) \/ CommitAnswer(o, publishes)
           \/ \E o \in Ops, c \in Commands, replaced \in Ops \cup {NoOp} : Admit(o, c, replaced)
  BY <1>2 DEF SaveChat, WriteImage, DropJournal, vars, inputVars, AttachTx, CommitAnswer,
          Admit, KeepHistory
<1> QED
  BY <1>1, <1>2, Steps
-----------------------------------------------------------------------------
(* What an admission adds, and what it leaves alone.                       *)
LEMMA AdmitAdds ==
    ASSUME InputInv, NEW o \in Ops, NEW c \in Commands, NEW replaced \in Ops \cup {NoOp},
           Admit(o, c, replaced)
    PROVE  /\ o \notin Admitted /\ Admitted' = Admitted \cup {o}
           /\ rec'[o].seq = Cardinality(Admitted) + 1
           /\ rec'[o].replaces = replaced
           /\ replaced # NoOp => replaced \in Admitted /\ UserResolved(replaced)'
           /\ ~ rec'[o].resolved /\ ~ rec'[o].pub /\ ~ HasReceipt(o)'
           /\ run[o] = "none" /\ ~ Committed(o)
           /\ UNCHANGED <<run, commit, todo, storeVars>> /\ Listening
<1>0. rec \in [Ops -> Record \cup {NoRec}] /\ o \notin Admitted
  BY DEF InputInv, InputTypeOK, Admit
<1>1. InputInv' /\ Is(o, "queued")'
  BY InvAdmit
<1>2. rec'[o].seq = Cardinality(Admitted) + 1 /\ rec'[o].replaces = replaced
      /\ rec'[o].resolved = FALSE /\ rec'[o].pub = FALSE
  BY DEF Admit
<1>3. ~ HasReceipt(o)'
  BY <1>1 DEF InputInv, RowsAgree
<1>4. ASSUME replaced # NoOp
      PROVE  /\ replaced \in Admitted /\ UserResolved(replaced)'
             /\ rec'[replaced] = [rec[replaced] EXCEPT !.replacedBy = o]
  <2>1. replaced \in Admitted
    BY <1>4 DEF Admit, MayTry, Retryable, Is
  <2>2. rec'[replaced] = [rec[replaced] EXCEPT !.replacedBy = o]
    BY <1>0, <1>4, <2>1 DEF Admit
  <2> QED
    BY <1>0, <2>1, <2>2, InputAssumption DEF Record, Admitted, UserResolved
<1>5. Admitted' = Admitted \cup {o}
  <2>1. \A p \in Ops : p # o /\ p # replaced => rec'[p] = rec[p]
    BY DEF Admit
  <2>2. replaced # NoOp => replaced \in Admitted'
    BY <1>4, PastStays DEF InputNext
  <2> QED
    BY <1>0, <1>1, <1>4, <2>1, <2>2, InputAssumption DEF Admitted, Is
<1>6. run[o] = "none" /\ ~ Committed(o)
  BY <1>0 DEF InputInv, RowsAgree, Is
<1> QED
  BY <1>0, <1>2, <1>3, <1>4, <1>5, <1>6 DEF Admit, KeepHistory

LEMMA NumberedNext == InputInv /\ Numbered /\ [InputNext]_vars => Numbered'
<1> SUFFICES ASSUME InputInv, Numbered, [InputNext]_vars PROVE Numbered'
  OBVIOUS
<1>0. Admitted \in SUBSET Ops /\ \A p \in Admitted : rec[p].seq \in Nat
  BY DEF InputInv, InputTypeOK, Admitted, Record
<1>1. IsFiniteSet(Admitted) /\ Cardinality(Admitted) \in Nat
  BY <1>0, InputAssumption, FS_Subset, FS_CardinalityType
<1>2. CASE Admitted' = Admitted
  BY <1>2, PastStays DEF Numbered
<1>3. ASSUME NEW o \in Ops, NEW c \in Commands, NEW replaced \in Ops \cup {NoOp},
             Admit(o, c, replaced)
      PROVE  Numbered'
  <2>1. /\ o \notin Admitted /\ Admitted' = Admitted \cup {o}
        /\ rec'[o].seq = Cardinality(Admitted) + 1
    BY <1>3, AdmitAdds
  <2>2. Cardinality(Admitted') = Cardinality(Admitted) + 1
    BY <1>1, <2>1, FS_AddElement
  <2>3. \A p \in Admitted : rec'[p].seq = rec[p].seq
    BY PastStays
  <2> QED
    BY <1>0, <1>1, <2>1, <2>2, <2>3 DEF Numbered
<1> QED
  BY <1>2, <1>3, AdmittedFrom
-----------------------------------------------------------------------------
(* The ledger of applied operations loses entries in a restart only, and   *)
(* gets them from commits.                                                 *)
LEMMA AppliedMoves ==
    ASSUME [InputNext]_vars
    PROVE  \/ Crash
           \/ /\ applied \subseteq applied'
              /\ \A p \in applied' \ applied :
                    RecoverCommit(p) \/ RecoverCompleted(p) \/ CommitAnswer(p, TRUE)
<1>1. CASE SaveChat \/ UNCHANGED <<live, applied, acked, restarts>>
  BY <1>1 DEF SaveChat, ClientSave
<1>2. ASSUME NEW o \in Ops, Shows(o)
      PROVE  \/ applied' = applied
             \/ /\ applied' = applied \cup {o}
                /\ RecoverCommit(o) \/ RecoverCompleted(o) \/ CommitAnswer(o, TRUE)
  <2>1. CASE RecoverCommit(o) \/ RecoverCompleted(o)
    BY <2>1 DEF RecoverCommit, RecoverCompleted, PublishCommit
  <2>2. CASE Republish(o) \/ RecoverAttached(o)
    BY <2>2 DEF Republish, RecoverAttached
  <2>3. ASSUME NEW publishes \in BOOLEAN, AttachTx(o, publishes) \/ CommitAnswer(o, publishes)
        PROVE  applied' = applied \/ (applied' = applied \cup {o} /\ CommitAnswer(o, TRUE))
    BY <2>3 DEF AttachTx, CommitAnswer, CommitTx
  <2> QED
    BY <1>2, <2>1, <2>2, <2>3 DEF Shows
<1> QED
  BY <1>1, <1>2, LiveMoves

LEMMA ImageMoves ==
    ASSUME InputInv, [InputNext]_vars
    PROVE  image' = image \/ image'.applied = applied
<1>1. CASE \E o \in Ops : LeavesRecords(o) \/ Settles(o) \/ Blocks(o) \/ Details(o)
  BY <1>1, ServedFrom
<1>2. CASE \E o \in Ops, publishes \in BOOLEAN :
              AttachTx(o, publishes) \/ CommitAnswer(o, publishes)
  BY <1>2 DEF AttachTx, CommitAnswer, CommitTx
<1>3. CASE \E o \in Ops, c \in Commands, replaced \in Ops \cup {NoOp} : Admit(o, c, replaced)
  BY <1>3 DEF Admit, storeVars
<1>4. CASE SaveChat \/ DropJournal \/ Crash \/ UNCHANGED vars
  BY <1>4 DEF SaveChat, ClientSave, DropJournal, ClearJournal, Crash, Restart, vars, storeVars
<1>5. CASE WriteImage
  BY <1>5 DEF WriteImage, PersistImage
<1> QED
  BY <1>1, <1>2, <1>3, <1>4, <1>5, Steps

LEMMA PastNotedNext ==
    InputInv /\ PastNoted /\ [InputNext]_vars => PastNoted'
<1> SUFFICES ASSUME InputInv, PastNoted, [InputNext]_vars, NEW o \in Admitted'
             PROVE  /\ rec'[o].replaces # NoOp =>
                          rec'[o].replaces \in Admitted' /\ UserResolved(rec[o].replaces)'
                    /\ Committed(o)' => HasReceipt(o)'
                    /\ rec'[o].pub => Committed(o)' /\ (o \in applied' \/ o \in todo')
                    /\ run'[o] \in {"published", "unpublished"} => Committed(o)'
                    /\ run'[o] = "published" => o \in applied'
                    /\ HasReceipt(o)' =>
                          /\ rec'[o].abase \in Chat
                          /\ rec'[o].ebase =
                                Insert(rec'[o].abase, Len(rec'[o].abase.msgs), Input(o))
  BY DEF PastNoted
<1>0. o \in Ops /\ rec \in [Ops -> Record \cup {NoRec}]
  BY DEF InputInv, InputTypeOK, Admitted
<1>1. CASE o \notin Admitted
  <2> PICK n \in Ops, c \in Commands, replaced \in Ops \cup {NoOp} : Admit(n, c, replaced)
    BY <1>1, AdmittedFrom
  <2>1. n = o
    BY <1>1, AdmitAdds
  <2>2. replaced # NoOp => replaced \in Admitted' /\ UserResolved(replaced)'
    BY AdmitAdds
  <2> QED
    BY <2>1, <2>2, AdmitAdds DEF Committed, UserResolved
<1>2. CASE o \in Admitted
  <2>1. rec'[o].replaces # NoOp =>
            rec'[o].replaces \in Admitted' /\ UserResolved(rec[o].replaces)'
    BY <1>2, PastStays DEF PastNoted
  <2>2. Committed(o)' => HasReceipt(o)'
    BY <1>0, <1>2, ReceiptsStay DEF PastNoted, CommitAnswer, InputInv, RowsAgree
  <2>3. Committed(o) => Committed(o)'
    BY <1>0, ReceiptsStay DEF Committed
  <2>4. ASSUME NEW publishes \in BOOLEAN, CommitAnswer(o, publishes)
        PROVE  Committed(o)' /\ (publishes => o \in applied')
    <3>1. InputInv'
      BY <1>0, <2>4, InvCommitAnswer
    <3>2. Settle(o, "completed") /\ Is(o, "attached")
      BY <2>4 DEF CommitAnswer
    <3>3. Is(o, "completed")'
      BY <1>0, <1>2, <3>2, KeepsSettle, PastStays
         DEF Live, Is, Terminal, InputInv, InputTypeOK, InputStates
    <3>4. publishes => applied' = applied \cup {o}
      BY <2>4 DEF CommitAnswer, CommitTx
    <3> QED
      BY <1>0, <3>1, <3>3, <3>4 DEF InputInv, RowsAgree
  <2>5. ASSUME run'[o] \in {"published", "unpublished"}
        PROVE  Committed(o)' /\ (run'[o] = "published" => o \in applied')
    <3>1. RunMove(o)
      BY <1>0, RunMoves
    <3>2. CASE run'[o] = run[o]
      <4>1. ~ Crash
        BY <1>0, <2>5 DEF Crash, ForgetRuns
      <4> QED
        BY <1>2, <2>3, <2>5, <3>2, <4>1, AppliedMoves DEF PastNoted
    <3>3. CASE run'[o] # run[o]
      BY <2>4, <2>5, <3>1, <3>3 DEF RunMove
    <3> QED
      BY <3>2, <3>3
  <2>6. ASSUME rec'[o].pub
        PROVE  Committed(o)' /\ (o \in applied' \/ o \in todo')
    <3>1. CASE RecoverCommit(o) \/ RecoverCompleted(o)
      <4>1. Committed(o)
        BY <1>0, <3>1 DEF RecoverCommit, Pending, RecoverCompleted, InputInv, RowsAgree
      <4> QED
        BY <2>3, <3>1, <4>1 DEF RecoverCommit, RecoverCompleted, PublishCommit
    <3>2. CASE Finalize(o) /\ run[o] = "published"
      <4>1. Committed(o) /\ o \in applied
        BY <1>2, <3>2 DEF PastNoted
      <4> QED
        BY <2>3, <3>2, <4>1 DEF Finalize, EndSilently, storeVars
    <3>3. CASE rec[o].pub /\ ~ RecoverCompleted(o)
      <4>1. Committed(o) /\ (o \in applied \/ o \in todo)
        BY <1>2, <3>3 DEF PastNoted
      <4>2. CASE Crash
        BY <1>2, <2>3, <4>1, <4>2 DEF Crash
      <4>3. CASE ~ Crash
        <5>1. Is(o, "completed")
          BY <1>0, <4>1 DEF InputInv, RowsAgree
        <5>2. ~ Recovers(o)
          BY <3>3, <5>1 DEF Recovers, RecoverTransform, RecoverAttached, Is
        <5>3. o \in todo => o \in todo'
          BY <4>3, <5>2, TodoMoves
        <5> QED
          BY <2>3, <4>1, <4>3, <5>3, AppliedMoves
      <4> QED
        BY <4>2, <4>3
    <3> QED
      BY <1>2, <2>6, <3>1, <3>2, <3>3, PastStays
  <2>7. ASSUME HasReceipt(o)'
        PROVE  /\ rec'[o].abase \in Chat
               /\ rec'[o].ebase = Insert(rec'[o].abase, Len(rec'[o].abase.msgs), Input(o))
    <3>1. CASE HasReceipt(o)
      BY <1>0, <1>2, <3>1, ReceiptsStay, PastStays DEF PastNoted
    <3>2. ASSUME NEW publishes \in BOOLEAN, AttachTx(o, publishes)
          PROVE  /\ rec'[o].abase = live
                 /\ rec'[o].ebase = Insert(live, Len(live.msgs), Input(o))
      <4>1. rec[o] \in Record
        BY <1>0, <1>2 DEF Admitted
      <4> QED
        BY <1>0, <3>2, <4>1 DEF AttachTx, Record
    <3>3. live \in Chat
      BY DEF InputInv, InputTypeOK, StoreTypeOK
    <3> QED
      BY <1>0, <2>7, <3>1, <3>2, <3>3, ReceiptsStay
  <2> QED
    BY <2>1, <2>2, <2>5, <2>6, <2>7
<1> QED
  BY <1>1, <1>2
-----------------------------------------------------------------------------
LEMMA CommitWrites ==
    ASSUME InputInv, NEW o \in Ops, NEW publishes \in BOOLEAN, CommitAnswer(o, publishes)
    PROVE  /\ Committed(o)' /\ commit'[o] = [base |-> live, chat |-> WithAnswer(o, live)]
           /\ commit'[o].base = live /\ commit'[o].chat = WithAnswer(o, live)
           /\ Input(o) \in Shown(live)
           /\ live' = IF publishes THEN WithAnswer(o, live) ELSE live
           /\ applied' = IF publishes THEN applied \cup {o} ELSE applied
           /\ Is(o, "attached") /\ run[o] = "committing" /\ ~ Committed(o)
<1>1. /\ Is(o, "attached") /\ run[o] = "committing" /\ slot = o
      /\ commit' = [commit EXCEPT ![o] = [base |-> live, chat |-> WithAnswer(o, live)]]
      /\ live' = IF publishes THEN WithAnswer(o, live) ELSE live
      /\ applied' = IF publishes THEN applied \cup {o} ELSE applied
  BY DEF CommitAnswer, CommitTx
<1>2. Input(o) \in Shown(live) /\ live \in Chat /\ commit \in [Ops -> Commits \cup {NoCommit}]
  BY <1>1 DEF InputInv, QueueHeld, InputTypeOK, StoreTypeOK, CommitTypeOK
<1>3. WithAnswer(o, live) \in Chat
  BY <1>2, WithAnswerChat
<1>4. commit'[o] = [base |-> live, chat |-> WithAnswer(o, live)]
  BY <1>1, <1>2
<1>5. commit'[o] # NoCommit
  BY <1>2, <1>3, <1>4, CommitAssumption DEF Commits
<1>6. ~ Committed(o)
  BY <1>1 DEF InputInv, RowsAgree, Is
<1> QED
  BY <1>1, <1>2, <1>4, <1>5, <1>6 DEF Committed

LEMMA CommitsNotedNext ==
    InputInv /\ CommitsNoted /\ [InputNext]_vars => CommitsNoted'
<1> SUFFICES ASSUME InputInv, CommitsNoted, [InputNext]_vars, NEW o \in Ops
             PROVE  /\ Committed(o)' =>
                          /\ Input(o) \in Shown(commit'[o].base)
                          /\ commit'[o].chat = WithAnswer(o, commit'[o].base)
                    /\ o \in applied' \cup image'.applied => Committed(o)'
  BY DEF CommitsNoted, Shown, WithAnswer
<1>1. ASSUME Committed(o)'
      PROVE  /\ Input(o) \in Shown(commit'[o].base)
             /\ commit'[o].chat = WithAnswer(o, commit'[o].base)
  <2>1. CASE Committed(o)
    BY <2>1, ReceiptsStay DEF CommitsNoted
  <2>2. ASSUME NEW publishes \in BOOLEAN, CommitAnswer(o, publishes)
        PROVE  /\ Input(o) \in Shown(commit'[o].base)
               /\ commit'[o].chat = WithAnswer(o, commit'[o].base)
    <3>1. commit'[o].base = live /\ commit'[o].chat = WithAnswer(o, live)
          /\ Input(o) \in Shown(live)
      BY <2>2, CommitWrites
    <3> QED
      BY <3>1
  <2> QED
    BY <1>1, <2>1, <2>2, ReceiptsStay
<1>2. Committed(o) => Committed(o)'
  BY ReceiptsStay DEF Committed
<1>3. ASSUME o \in applied'
      PROVE  Committed(o)'
  <2>1. CASE Crash
    BY <1>2, <1>3, <2>1 DEF Crash, Restart, CommitsNoted
  <2>2. CASE o \in applied
    BY <1>2, <2>2 DEF CommitsNoted
  <2>3. CASE RecoverCommit(o) \/ RecoverCompleted(o)
    BY <1>2, <2>3 DEF RecoverCommit, RecoverCompleted, Pending, InputInv, RowsAgree
  <2>4. CASE CommitAnswer(o, TRUE)
    BY <2>4, CommitWrites
  <2> QED
    BY <1>3, <2>1, <2>2, <2>3, <2>4, AppliedMoves
<1>4. o \in image'.applied => Committed(o)'
  BY <1>2, ImageMoves DEF CommitsNoted
<1> QED
  BY <1>1, <1>3, <1>4
-----------------------------------------------------------------------------
(* Of two inputs that are both in the chat, or about to join it, the       *)
(* earlier one is over and its answer applied. So no other input is alive  *)
(* or unapplied together with an unapplied one.                            *)
LEMMA Alone ==
    ASSUME InputInv, Numbered, PastNoted, InTurn, Listening,
           NEW p \in Ops, Unapplied(p), NEW o \in Ops, o # p,
           o \in Admitted, Due(o), Live(o) \/ Unapplied(o)
    PROVE  FALSE
<1>1. p \in Admitted /\ HasReceipt(p)
  BY DEF Unapplied, InputInv, RowsAgree, Is, PastNoted
<1>2. Due(p)
  BY <1>1 DEF Due
<1>3. rec[o].seq \in Nat /\ rec[p].seq \in Nat
  BY <1>1 DEF InputInv, InputTypeOK, Admitted, Record
<1>4. o \in Before(p) \/ p \in Before(o)
  BY <1>1, <1>3 DEF Numbered, Before
<1>5. CASE o \in Before(p)
  BY <1>1, <1>2, <1>5 DEF InTurn, Ended
<1>6. CASE p \in Before(o)
  BY <1>6 DEF InTurn, Ended
<1> QED
  BY <1>4, <1>5, <1>6

LEMMA RecoveryFirstNext ==
    InputInv /\ OrderInv /\ [InputNext]_vars => RecoveryFirst'
<1> SUFFICES ASSUME InputInv, OrderInv, [InputNext]_vars PROVE RecoveryFirst'
  OBVIOUS
<1>0. Numbered /\ PastNoted /\ CommitsNoted /\ RecoveryFirst /\ InTurn
  BY DEF OrderInv
<1>1. ASSUME NEW o \in Ops, todo' # {}
      PROVE  run'[o] = "none"
  <2>1. CASE Crash
    BY <2>1 DEF Crash, ForgetRuns
  <2>2. CASE ~ Crash
    <3>1. todo # {}
      BY <1>1, <2>2, TodoMoves
    <3>2. run[o] = "none" /\ ~ Listening
      BY <1>0, <3>1 DEF RecoveryFirst, Listening
    <3> QED
      BY <3>2, RunMoves DEF RunMove, Launch, CanRun, CheckPredecessor, Begin, CommitAnswer,
                            CommitTx
  <2> QED
    BY <2>1, <2>2
<1>2. ASSUME NEW p \in Ops, Unapplied(p)'
      PROVE  IF Listening' THEN live' = commit'[p].base ELSE p \in todo'
  <2>1. CASE Crash
    <3>1. Committed(p) /\ todo' = Admitted
      BY <1>2, <2>1 DEF Crash, ForgetRuns, Unapplied, Committed
    <3>2. p \in todo'
      BY <3>1 DEF InputInv, RowsAgree, Is
    <3> QED
      BY <3>2 DEF Listening
  <2>2. ASSUME NEW publishes \in BOOLEAN, CommitAnswer(p, publishes)
        PROVE  Listening' /\ live' = commit'[p].base
    <3>1. run[p] = "committing" /\ publishes = FALSE
      BY <1>2, <2>2, CommitWrites DEF Unapplied
    <3>2. todo = {}
      BY <1>0, <3>1 DEF RecoveryFirst
    <3>3. todo' = {}
      BY <2>2, <3>2 DEF CommitAnswer, KeepHistory
    <3> QED
      BY <2>2, <3>1, <3>3, CommitWrites DEF Listening
  <2>3. CASE ~ Crash /\ ~ \E publishes \in BOOLEAN : CommitAnswer(p, publishes)
    <3>1. Unapplied(p) /\ commit'[p] = commit[p]
      BY <1>2, <2>3, ReceiptsStay, AppliedMoves DEF Unapplied
    <3>2. Is(p, "completed")
      BY <3>1 DEF Unapplied, InputInv, RowsAgree
    <3>3. CASE ~ Listening
      <4>1. p \in todo
        BY <1>0, <3>1, <3>3 DEF RecoveryFirst
      <4>2. ~ Recovers(p)
        BY <1>2, <3>1, <3>2 DEF Recovers, RecoverCompleted, RecoverTransform, RecoverAttached,
                               PublishCommit, Is, Unapplied
      <4>3. p \in todo'
        BY <2>3, <4>1, <4>2, TodoMoves
      <4> QED
        BY <4>3 DEF Listening
    <3>4. CASE Listening
      <4>1. live = commit[p].base
        BY <1>0, <3>1, <3>4 DEF RecoveryFirst
      <4>2. Listening'
        BY <2>3, <3>4, TodoMoves DEF Listening
      <4>3. ~ SaveChat
        BY <3>1 DEF SaveChat, Pending, Unapplied
      <4>4. ASSUME NEW o \in Ops, Shows(o)
            PROVE  live' = live
        <5>1. CASE RecoverCompleted(o) \/ RecoverAttached(o)
          BY <3>4, <5>1 DEF RecoverCompleted, RecoverAttached, NextToRecover, Listening
        <5>2. CASE Republish(o)
          <6>1. Is(o, "attached") /\ Live(o) /\ HasReceipt(o) /\ o \in Admitted /\ o # p
            BY <3>2, <5>2 DEF Republish, Is, Live, Terminal, InputInv, RowsAgree
          <6> QED
            BY <1>0, <3>1, <3>4, <6>1, Alone DEF Due
        <5>3. ASSUME NEW publishes \in BOOLEAN, AttachTx(o, publishes)
              PROVE  FALSE
          <6>1. /\ Is(o, "queued") /\ Live(o) /\ o \in Admitted /\ o # p
                /\ run[o] = "transforming"
            BY <3>2, <5>3 DEF AttachTx, Is, Live, Terminal
          <6> QED
            BY <1>0, <3>1, <3>4, <6>1, Alone DEF Due
        <5>4. ASSUME NEW publishes \in BOOLEAN, CommitAnswer(o, publishes)
              PROVE  FALSE
          <6>1. Is(o, "attached") /\ Live(o) /\ HasReceipt(o) /\ o \in Admitted /\ o # p
            BY <3>2, <5>4 DEF CommitAnswer, Is, Live, Terminal, InputInv, RowsAgree
          <6> QED
            BY <1>0, <3>1, <3>4, <6>1, Alone DEF Due
        <5>5. CASE RecoverCommit(o)
          <6>1. CASE o \in applied
            BY <5>5, <6>1 DEF RecoverCommit, PublishCommit
          <6>2. CASE o \notin applied
            <7>1. Unapplied(o) /\ o \in Admitted
              BY <5>5, <6>2 DEF RecoverCommit, Pending, Unapplied, InputInv, RowsAgree, Is
            <7>2. HasReceipt(o)
              BY <1>0, <7>1 DEF PastNoted, Unapplied
            <7>3. o # p
              BY <1>2, <5>5 DEF RecoverCommit, PublishCommit, Unapplied
            <7> QED
              BY <1>0, <3>1, <3>4, <7>1, <7>2, <7>3, Alone DEF Due
          <6> QED
            BY <6>1, <6>2
        <5> QED
          BY <4>4, <5>1, <5>2, <5>3, <5>4, <5>5 DEF Shows
      <4>5. live' = live
        BY <2>3, <4>3, <4>4, LiveMoves
      <4> QED
        BY <3>1, <4>1, <4>2, <4>5
    <3> QED
      BY <3>3, <3>4
  <2> QED
    BY <2>1, <2>2, <2>3
<1> QED
  BY <1>1, <1>2 DEF RecoveryFirst
-----------------------------------------------------------------------------
(* Where the messages of a chat are after one was put in.                  *)
LEMMA InsertPlaces ==
    ASSUME NEW chat \in Chat, NEW k \in 0..Len(chat.msgs), NEW m \in Message
    PROVE  /\ Len(chat.msgs) \in Nat /\ DOMAIN chat.msgs = 1..Len(chat.msgs)
           /\ DOMAIN Insert(chat, k, m).msgs = 1..(Len(chat.msgs) + 1)
           /\ Len(Insert(chat, k, m).msgs) = Len(chat.msgs) + 1
           /\ \A i \in 1..(Len(chat.msgs) + 1) :
                 Insert(chat, k, m).msgs[i] =
                    IF i < k + 1 THEN chat.msgs[i]
                    ELSE IF i = k + 1 THEN m ELSE chat.msgs[i - 1]
<1> DEFINE s == chat.msgs
           here == k + 1
           t == InsertAt(s, here, m)
<1>1. s \in Seq(Message) /\ Len(s) \in Nat /\ here \in Nat
      /\ 1 <= here /\ here <= Len(s) + 1
  BY DEF Chat
<1>2. DOMAIN s = 1..Len(s)
  BY <1>1
<1>3. Insert(chat, k, m).msgs = t
  BY DEF Insert, Chat
<1> HIDE DEF s
<1> HIDE DEF here
<1>4. /\ t \in Seq(Message) /\ Len(t) = Len(s) + 1
      /\ \A i \in 1..(Len(s) + 1) :
            t[i] = IF i < here THEN s[i] ELSE IF i = here THEN m ELSE s[i - 1]
  BY <1>1, InsertAtElements
<1> HIDE DEF t
<1>5. DOMAIN t = 1..(Len(s) + 1)
  BY <1>1, <1>4
<1> QED
  BY <1>1, <1>2, <1>3, <1>4, <1>5 DEF here, s

LEMMA AnswerPlaces ==
    ASSUME NEW chat \in Chat, NEW o \in Ops, Input(o) \in Shown(chat)
    PROVE  /\ PositionOf(Input(o), chat) \in 1..Len(chat.msgs)
           /\ chat.msgs[PositionOf(Input(o), chat)] = Input(o)
           /\ Len(WithAnswer(o, chat).msgs) = Len(chat.msgs) + 1
<1>1. chat.msgs \in Seq(Message) /\ Len(chat.msgs) \in Nat /\ DOMAIN chat.msgs = 1..Len(chat.msgs)
  BY DEF Chat
<1>2. \E k \in DOMAIN chat.msgs : chat.msgs[k] = Input(o)
  BY <1>1, ToSetSeq DEF Shown
<1>3. PositionOf(Input(o), chat) \in DOMAIN chat.msgs
      /\ chat.msgs[PositionOf(Input(o), chat)] = Input(o)
  BY <1>2 DEF PositionOf
<1>4. PositionOf(Input(o), chat) \in 0..Len(chat.msgs) /\ Answer(o) \in Message
  BY <1>1, <1>3 DEF Answer, Message
<1>5. Len(WithAnswer(o, chat).msgs) = Len(chat.msgs) + 1
  BY <1>4, InsertPlaces DEF WithAnswer
<1> QED
  BY <1>1, <1>3, <1>5

(* advancePredecessor: an input that a later one need not wait for, once   *)
(* the server listens, is over, and its answer is in the chat.             *)
LEMMA OutcomeShown ==
    ASSUME InputInv, PastNoted, CommitsNoted, RecoveryFirst, Listening,
           NEW p \in Ops, Unapplied(p)
    PROVE  live # commit[p].chat /\ ~ rec[p].pub /\ Is(p, "completed") /\ HasReceipt(p)
<1>1. Is(p, "completed") /\ p \in Admitted
  BY DEF InputInv, RowsAgree, Unapplied, Is
<1>2. /\ live = commit[p].base /\ Input(p) \in Shown(live)
      /\ commit[p].chat = WithAnswer(p, live)
  BY DEF RecoveryFirst, CommitsNoted, Unapplied
<1>3. live \in Chat /\ Len(live.msgs) \in Nat
  BY DEF InputInv, InputTypeOK, StoreTypeOK, Chat
<1>4. Len(commit[p].chat.msgs) = Len(live.msgs) + 1
  BY <1>2, <1>3, AnswerPlaces
<1>5. ~ rec[p].pub /\ HasReceipt(p)
  BY <1>1 DEF PastNoted, Unapplied, Listening
<1> QED
  BY <1>1, <1>3, <1>4, <1>5

LEMMA NotWaitedFor ==
    ASSUME InputInv, OrderInv, Listening, NEW o \in Admitted,
           NEW p \in Before(o), p \notin StillBefore(o)
    PROVE  Ended(p)
<1>0. p \in Admitted /\ p \in Ops /\ o \in Ops
  BY DEF Before, Admitted
<1>1. Is(p, "blocked_edit") => Ended(p)
  BY <1>0 DEF Ended, Unapplied, InputInv, RowsAgree, Is, Live, Terminal
<1>2. CASE p = rec[o].replaces
  <2>1. UserResolved(p)
    BY <1>0, <1>2, InputAssumption DEF OrderInv, PastNoted
  <2> QED
    BY <1>0, <1>1, <2>1 DEF InputInv, RetriedUnused
<1>3. CASE CascadeOf(p, rec[o].replaces)
  <2>1. CascadeRoot(p) # NoOp
    BY <1>3 DEF CascadeOf
  <2>2. Cascaded(p)
    BY <2>1 DEF CascadeRoot
  <2> QED
    BY <1>1, <2>2 DEF Cascaded
<1>4. CASE ~ Requires(p)
  <2>1. CASE Is(p, "completed")
    <3>1. live = commit[p].chat \/ rec[p].pub
      BY <1>4, <2>1 DEF Requires, Is
    <3>2. ~ Unapplied(p)
      BY <1>0, <3>1, OutcomeShown DEF OrderInv
    <3> QED
      BY <2>1, <3>2 DEF Ended, Is, Live, Terminal
  <2>2. CASE Is(p, "failed") \/ Is(p, "cancelled")
    BY <1>0, <2>2 DEF Ended, Unapplied, InputInv, RowsAgree, Is, Live, Terminal
  <2> QED
    BY <1>1, <1>4, <2>1, <2>2 DEF Requires
<1> QED
  BY <1>0, <1>2, <1>3, <1>4 DEF StillBefore, MustWaitFor

LEMMA ReadyInTurn ==
    ASSUME InputInv, OrderInv, Listening, NEW o \in Admitted, Is(o, "queued"), Ready(o),
           NEW p \in Before(o)
    PROVE  Ended(p)
<1>1. CASE rec[o].resolved
  BY <1>1 DEF OrderInv, InTurn, Due
<1>2. CASE StillBefore(o) = {}
  BY <1>2, NotWaitedFor
<1> QED
  BY <1>1, <1>2 DEF Ready

LEMMA ResolvedInTurn ==
    ASSUME InputInv, OrderInv, NEW o \in Admitted, Resolve(o), NEW p \in Before(o)
    PROVE  Ended(p)
<1> DEFINE q == rec[o].pred
<1>0. /\ Listening /\ PredecessorKnown(o) /\ ~ Live(q)
      /\ ~ Is(q, "blocked_edit") /\ OutcomeVisible(q)
  BY DEF Resolve, PredecessorEnded
<1>1. CASE p \notin StillBefore(o)
  BY <1>0, <1>1, NotWaitedFor
<1>2. CASE p \in StillBefore(o)
  <2>1. StillBefore(o) \in SUBSET Ops /\ \A r \in StillBefore(o) : rec[r].seq \in Nat
    BY DEF StillBefore, MustWaitFor, Before, Admitted, InputInv, InputTypeOK, Record
  <2>2. q = Latest(StillBefore(o))
    BY <1>0, <1>2 DEF PredecessorKnown
  <2>3. q \in StillBefore(o) /\ rec[p].seq <= rec[q].seq
    BY <1>2, <2>1, <2>2, LatestIn
  <2>4. q \in Before(o) /\ Requires(q) /\ q \in Admitted /\ q \in Ops /\ p \in Admitted
    BY <2>3 DEF StillBefore, MustWaitFor, Before, Admitted
  <2>5. Is(q, "completed") \/ Is(q, "failed") \/ Is(q, "cancelled")
    BY <1>0, <2>4 DEF Live, Is, Terminal
  <2>6. ~ Unapplied(q)
    <3>1. CASE Unapplied(q)
      <4>1. Is(q, "completed") /\ live # commit[q].chat /\ ~ rec[q].pub
        BY <1>0, <2>4, <3>1, OutcomeShown DEF OrderInv
      <4>2. OutcomeOf(q) = commit[q].chat
        BY <4>1 DEF OutcomeOf
      <4> QED
        BY <1>0, <4>1, <4>2 DEF OutcomeVisible
    <3> QED
      BY <3>1
  <2>7. CASE p = q
    BY <1>0, <2>6, <2>7 DEF Ended
  <2>8. CASE p # q
    <3>1. p \in Before(q)
      BY <2>1, <2>3, <2>4, <2>8, <1>2 DEF OrderInv, Numbered, Before
    <3>2. HasReceipt(q)
      <4>1. CASE Is(q, "completed")
        BY <2>4, <4>1 DEF OrderInv, PastNoted, InputInv, RowsAgree
      <4>2. CASE Is(q, "failed") \/ Is(q, "cancelled")
        BY <2>4, <4>2 DEF Requires, Is
      <4> QED
        BY <2>5, <4>1, <4>2
    <3> QED
      BY <2>4, <3>1, <3>2 DEF OrderInv, InTurn, Due
  <2> QED
    BY <2>7, <2>8
<1> QED
  BY <1>1, <1>2

LEMMA EndedStays ==
    ASSUME InputInv, OrderInv, [InputNext]_vars, NEW p \in Admitted, Ended(p)
    PROVE  Ended(p)'
<1>0. p \in Ops /\ p \in Admitted'
  BY PastStays DEF Admitted
<1>1. ~ Live(p)'
  BY <1>0, OutcomeKept DEF Ended, Live
<1>2. ASSUME Listening', Unapplied(p)'
      PROVE  FALSE
  <2>1. ~ Crash
    BY <1>2 DEF Crash, Listening
  <2>2. ~ \E publishes \in BOOLEAN : CommitAnswer(p, publishes)
    BY DEF Ended, Live, CommitAnswer, Is, Terminal
  <2>3. Unapplied(p)
    BY <1>0, <1>2, <2>1, <2>2, ReceiptsStay, AppliedMoves DEF Unapplied
  <2>4. ~ Listening /\ p \in todo
    BY <1>0, <2>3 DEF Ended, OrderInv, RecoveryFirst
  <2>5. Recovers(p)
    BY <1>2, <2>1, <2>4, TodoMoves DEF Listening
  <2>6. Is(p, "completed")
    BY <1>0, <2>3 DEF InputInv, RowsAgree, Unapplied
  <2>7. RecoverCompleted(p)
    BY <2>5, <2>6 DEF Recovers, RecoverTransform, RecoverAttached, Is
  <2> QED
    BY <1>2, <2>7 DEF RecoverCompleted, PublishCommit, Unapplied
<1> QED
  BY <1>1, <1>2 DEF Ended

LEMMA QueuedBefore ==
    ASSUME InputInv, [InputNext]_vars, NEW o \in Admitted, Is(o, "queued")'
    PROVE  Is(o, "queued")
<1>0. o \in Ops /\ rec[o] \in Record
  BY DEF Admitted, InputInv, InputTypeOK
<1>1. ~ HasReceipt(o)'
  BY <1>0, InputInvNext DEF InputInv, RowsAgree
<1>2. ~ Is(o, "attached")
  BY <1>0, <1>1, ReceiptsStay DEF InputInv, RowsAgree
<1>3. Live(o)
  BY <1>0, OutcomeKept DEF Is, Live, Terminal
<1> QED
  BY <1>0, <1>2, <1>3 DEF Is, Live, Record, InputStates, Terminal

LEMMA InTurnNext ==
    InputInv /\ OrderInv /\ [InputNext]_vars => InTurn'
<1> SUFFICES ASSUME InputInv, OrderInv, [InputNext]_vars, NEW o \in Admitted',
                    Due(o)', NEW p \in Before(o)'
             PROVE  Ended(p)'
  BY DEF InTurn
<1>0. o \in Ops /\ p \in Admitted' /\ rec'[p].seq < rec'[o].seq
  BY DEF Admitted, Before
<1>1. o \in Admitted
  <2> SUFFICES ASSUME o \notin Admitted PROVE FALSE
    OBVIOUS
  <2> PICK n \in Ops, c \in Commands, replaced \in Ops \cup {NoOp} : Admit(n, c, replaced)
    BY AdmittedFrom
  <2>1. n = o
    BY AdmitAdds
  <2> QED
    BY <2>1, AdmitAdds DEF Due
<1>2. p \in Admitted
  <2> SUFFICES ASSUME p \notin Admitted PROVE FALSE
    OBVIOUS
  <2> PICK n \in Ops, c \in Commands, replaced \in Ops \cup {NoOp} : Admit(n, c, replaced)
    BY <1>0, AdmittedFrom
  <2>1. rec'[p].seq = Cardinality(Admitted) + 1
    BY <1>0, AdmitAdds
  <2>2. rec'[o].seq <= Cardinality(Admitted)
    BY <1>1, PastStays DEF OrderInv, Numbered
  <2>3. Cardinality(Admitted) \in Nat /\ rec'[o].seq \in Nat
    <3>1. Admitted \in SUBSET Ops
      BY DEF Admitted
    <3>2. rec[o].seq \in Nat
      BY <1>1 DEF InputInv, InputTypeOK, Admitted, Record
    <3> QED
      BY <1>1, <3>1, <3>2, PastStays, InputAssumption, FS_Subset, FS_CardinalityType
  <2> QED
    BY <1>0, <2>1, <2>2, <2>3
<1>3. p \in Before(o)
  BY <1>0, <1>1, <1>2, PastStays DEF Before
<1>4. Ended(p)
  <2>1. CASE Due(o)
    BY <1>1, <1>3, <2>1 DEF OrderInv, InTurn
  <2>2. CASE Resolve(o)
    BY <1>1, <1>3, <2>2, ResolvedInTurn
  <2>3. ASSUME NEW publishes \in BOOLEAN, AttachTx(o, publishes)
        PROVE  Due(o)
    BY <2>3 DEF AttachTx, Due
  <2>4. ASSUME run'[o] \in {"checked", "transforming"}, Is(o, "queued")'
        PROVE  Ended(p)
    <3>1. Is(o, "queued")
      BY <1>1, <2>4, QueuedBefore
    <3>2. CASE run[o] \in {"checked", "transforming"}
      BY <2>1, <3>1, <3>2 DEF Due
    <3>3. CASE CheckPredecessor(o)
      <4>1. Listening
        BY <1>0, <3>3 DEF CheckPredecessor, OrderInv, RecoveryFirst, Listening
      <4> QED
        BY <1>1, <1>3, <3>1, <3>3, <4>1, ReadyInTurn DEF CheckPredecessor
    <3>4. CASE Begin(o)
      BY <3>2, <3>4 DEF Begin
    <3>5. RunMove(o)
      BY <1>0, RunMoves
    <3> QED
      BY <2>4, <3>2, <3>3, <3>4, <3>5 DEF RunMove
  <2> QED
    BY <1>0, <1>1, <2>1, <2>2, <2>3, <2>4, PastStays, ReceiptsStay DEF Due
<1> QED
  BY <1>2, <1>4, EndedStays

LEMMA OrderInvInit == InputInit => OrderInv
<1> SUFFICES ASSUME InputInit PROVE OrderInv
  OBVIOUS
<1>1. /\ Admitted = {} /\ todo = {} /\ applied = {} /\ image.applied = {}
      /\ \A o \in Ops : ~ Committed(o)
  BY DEF InputInit, Admitted, StoreInit, CommitInit, Committed
<1>2. Numbered /\ PastNoted /\ CommitsNoted /\ RecoveryFirst /\ InTurn
  BY <1>1 DEF Numbered, PastNoted, CommitsNoted, RecoveryFirst, InTurn, Unapplied
<1> QED
  BY <1>2 DEF OrderInv

LEMMA OrderInvariant == InputSpec => [](InputInv /\ OrderInv)
<1>1. InputInv /\ OrderInv /\ [InputNext]_vars => OrderInv'
  BY NumberedNext, PastNotedNext, CommitsNotedNext, RecoveryFirstNext, InTurnNext
     DEF OrderInv
<1> QED
  BY <1>1, OrderInvInit, InputInvInit, InputInvNext, PTL DEF InputSpec

(* recoverPendingInputCommits: while a commit waits for its publication    *)
(* nobody else writes the chat, neither a save nor another input, so the   *)
(* recovery that puts the stored chat in its place overwrites nothing.     *)
THEOREM CommitWaitsAlone == InputSpec => []UnpublishedFrozen
<1>1. OrderInv => UnpublishedFrozen
  BY DEF OrderInv, RecoveryFirst, UnpublishedFrozen, Unapplied
<1> QED
  BY <1>1, OrderInvariant, PTL

(* advancePredecessor: whatever retries, cancels and restarts come in      *)
(* between, an input joins the chat only when every input admitted before  *)
(* it is over and the chat has the answers to them.                        *)
THEOREM InputsInTurn == InputSpec => TurnsInOrder
<1>1. InputInv /\ OrderInv /\ [InputNext]_vars =>
         [\A o \in Admitted : HasReceipt(o)' /\ ~ HasReceipt(o) =>
             \A p \in Before(o) :
                ~ Live(p) /\ (Committed(p) => p \in applied)]_vars
  <2> SUFFICES ASSUME InputInv, OrderInv, [InputNext]_vars, NEW o \in Admitted,
                      HasReceipt(o)', ~ HasReceipt(o), NEW p \in Before(o)
               PROVE  ~ Live(p) /\ (Committed(p) => p \in applied)
    OBVIOUS
  <2>0. o \in Ops
    BY DEF Admitted
  <2>1. PICK publishes \in BOOLEAN : AttachTx(o, publishes)
    BY <2>0, ReceiptsStay
  <2>2. Due(o) /\ run[o] # "none"
    BY <2>1 DEF AttachTx, Due
  <2>3. Listening
    BY <2>0, <2>2 DEF OrderInv, RecoveryFirst, Listening
  <2> QED
    BY <2>2, <2>3 DEF OrderInv, InTurn, Ended, Unapplied
<1> QED
  BY <1>1, OrderInvariant, PTL DEF TurnsInOrder, InputSpec
-----------------------------------------------------------------------------
(* A message that is put in a conversation at its turn leaves it one.      *)
LEMMA InsertOrdered ==
    ASSUME NEW r, NEW chat \in Chat, OrderedIn(r, chat),
           NEW k \in 0..Len(chat.msgs), NEW m \in Message,
           m[1] # "note" =>
              \A i \in 1..Len(chat.msgs) : chat.msgs[i][1] # "note" =>
                 IF i <= k THEN TurnIn(r, chat.msgs[i]) < TurnIn(r, m)
                 ELSE TurnIn(r, m) < TurnIn(r, chat.msgs[i])
    PROVE  OrderedIn(r, Insert(chat, k, m))
<1> DEFINE s == chat.msgs
           t == Insert(chat, k, m).msgs
           n == Len(s)
<1>1. /\ n \in Nat /\ DOMAIN s = 1..n /\ DOMAIN t = 1..(n + 1)
      /\ \A i \in 1..(n + 1) :
            t[i] = IF i < k + 1 THEN s[i] ELSE IF i = k + 1 THEN m ELSE s[i - 1]
  BY InsertPlaces
<1>2. ASSUME NEW i \in 1..n, NEW j \in 1..n, i < j, s[i][1] # "note", s[j][1] # "note"
      PROVE  TurnIn(r, s[i]) < TurnIn(r, s[j])
  BY <1>1, <1>2 DEF OrderedIn
<1>3. m[1] # "note" =>
         \A i \in 1..n : s[i][1] # "note" =>
            IF i <= k THEN TurnIn(r, s[i]) < TurnIn(r, m) ELSE TurnIn(r, m) < TurnIn(r, s[i])
  OBVIOUS
<1> SUFFICES ASSUME NEW i \in 1..(n + 1), NEW j \in 1..(n + 1), i < j,
                    t[i][1] # "note", t[j][1] # "note"
             PROVE  TurnIn(r, t[i]) < TurnIn(r, t[j])
  BY <1>1 DEF OrderedIn
<1> HIDE DEF s, t, n
<1>4. k \in Nat /\ i \in Nat /\ j \in Nat
  BY <1>1
<1>5. CASE j < k + 1
  <2>1. t[i] = s[i] /\ t[j] = s[j] /\ i \in 1..n /\ j \in 1..n
    BY <1>1, <1>4, <1>5 DEF n, s
  <2> QED
    BY <1>2, <2>1
<1>6. CASE j = k + 1
  <2>1. t[i] = s[i] /\ t[j] = m /\ i \in 1..n /\ i <= k
    BY <1>1, <1>4, <1>6 DEF n, s
  <2> QED
    BY <1>3, <2>1
<1>7. CASE j > k + 1
  <2>1. t[j] = s[j - 1] /\ j - 1 \in 1..n /\ ~ (j - 1 <= k)
    BY <1>1, <1>4, <1>7 DEF n, s
  <2>2. CASE i < k + 1
    <3>1. t[i] = s[i] /\ i \in 1..n /\ i < j - 1
      BY <1>1, <1>4, <1>7, <2>2 DEF n, s
    <3> QED
      BY <1>2, <2>1, <3>1
  <2>3. CASE i = k + 1
    <3>1. t[i] = m
      BY <1>1, <2>3
    <3> QED
      BY <1>3, <2>1, <3>1
  <2>4. CASE i > k + 1
    <3>1. t[i] = s[i - 1] /\ i - 1 \in 1..n /\ i - 1 < j - 1
      BY <1>1, <1>4, <2>4 DEF n, s
    <3> QED
      BY <1>2, <2>1, <3>1
  <2> QED
    BY <1>4, <2>2, <2>3, <2>4
<1> QED
  BY <1>4, <1>5, <1>6, <1>7

LEMMA DropOrdered ==
    ASSUME NEW r, NEW chat \in Chat, OrderedIn(r, chat), NEW k \in DOMAIN chat.msgs
    PROVE  OrderedIn(r, Drop(chat, k))
<1> DEFINE s == chat.msgs
           t == RemoveAt(s, k)
           n == Len(s)
<1>1. s \in Seq(Message) /\ n \in Nat /\ DOMAIN s = 1..n /\ k \in 1..n
  BY DEF Chat
<1>2. Drop(chat, k).msgs = t
  BY DEF Drop, Chat
<1>3. ASSUME NEW i \in 1..n, NEW j \in 1..n, i < j, s[i][1] # "note", s[j][1] # "note"
      PROVE  TurnIn(r, s[i]) < TurnIn(r, s[j])
  BY <1>1, <1>3 DEF OrderedIn
<1> HIDE DEF s
<1>4. /\ t \in Seq(Message) /\ Len(t) = n - 1
      /\ \A i \in 1..(n - 1) : t[i] = IF i < k THEN s[i] ELSE s[i + 1]
  BY <1>1, RemoveAtElements
<1> HIDE DEF t, n
<1>5. DOMAIN t = 1..(n - 1)
  BY <1>1, <1>4
<1> SUFFICES ASSUME NEW i \in 1..(n - 1), NEW j \in 1..(n - 1), i < j,
                    t[i][1] # "note", t[j][1] # "note"
             PROVE  TurnIn(r, t[i]) < TurnIn(r, t[j])
  BY <1>2, <1>5 DEF OrderedIn
<1> DEFINE src(x) == IF x < k THEN x ELSE x + 1
<1>6. \A x \in 1..(n - 1) : src(x) \in 1..n /\ t[x] = s[src(x)]
  BY <1>1, <1>4
<1>7. src(i) < src(j)
  BY <1>1
<1> HIDE DEF src
<1> QED
  BY <1>3, <1>6, <1>7

(* The order of a chat depends only on the records of the operations that  *)
(* it shows.                                                               *)
LEMMA OrderFromShown ==
    ASSUME NEW r, NEW q, NEW chat \in Chat, OrderedIn(r, chat),
           \A o \in Ops : Input(o) \in Shown(chat) \/ Answer(o) \in Shown(chat) =>
                             q[o].seq = r[o].seq
    PROVE  OrderedIn(q, chat)
<1> SUFFICES ASSUME NEW i \in DOMAIN chat.msgs, chat.msgs[i][1] # "note"
             PROVE  TurnIn(q, chat.msgs[i]) = TurnIn(r, chat.msgs[i])
  BY DEF OrderedIn
<1>1. chat.msgs \in Seq(Message) /\ chat.msgs[i] \in Message /\ chat.msgs[i] \in Shown(chat)
  BY ToSetSeq DEF Chat, Shown
<1>2. PICK o \in Ops : chat.msgs[i] = Input(o) \/ chat.msgs[i] = Answer(o)
  BY <1>1 DEF Message, Input, Answer
<1>3. chat.msgs[i][2] = o
  BY <1>2 DEF Input, Answer
<1> QED
  BY <1>1, <1>2, <1>3 DEF TurnIn

LEMMA KeptDurable ==
    ASSUME InputInv, DurableEverywhere, NEW chat \in Kept
    PROVE  chat \in Chat /\ Durable(Shown(chat))
<1>1. live \in Chat /\ image.chat \in Chat /\ (staged # NoChat => staged \in Chat)
  BY DEF InputInv, InputTypeOK, StoreTypeOK
<1>2. \A o \in Ops : HasReceipt(o) => rec[o].ebase \in Chat
  BY ReceiptIsChat
<1>3. \A o \in Ops : Committed(o) => commit[o].chat \in Chat
  BY DEF InputInv, InputTypeOK, CommitTypeOK, Committed, Commits
<1> QED
  BY <1>1, <1>2, <1>3 DEF Kept, DurableEverywhere

(* Where a chat that is kept after a step comes from.                      *)
LEMMA KeptFrom ==
    ASSUME InputInv, [InputNext]_vars, NEW chat \in Kept'
    PROVE  \/ chat \in Kept
           \/ \E o \in Ops, publishes \in BOOLEAN :
                 AttachTx(o, publishes) /\ chat = Insert(live, Len(live.msgs), Input(o))
           \/ \E o \in Ops, publishes \in BOOLEAN :
                 CommitAnswer(o, publishes) /\ chat = WithAnswer(o, live)
           \/ SaveChat /\ \E edit \in Edits(live) : chat = edit[1]
<1> DEFINE New(c) ==
       \/ \E o \in Ops, publishes \in BOOLEAN :
             AttachTx(o, publishes) /\ c = Insert(live, Len(live.msgs), Input(o))
       \/ \E o \in Ops, publishes \in BOOLEAN :
             CommitAnswer(o, publishes) /\ c = WithAnswer(o, live)
       \/ SaveChat /\ \E edit \in Edits(live) : c = edit[1]
<1>1. ASSUME NEW o \in Ops, NEW publishes \in BOOLEAN, AttachTx(o, publishes)
      PROVE  /\ rec'[o].ebase = Insert(live, Len(live.msgs), Input(o))
             /\ live' \in {live, Insert(live, Len(live.msgs), Input(o))}
             /\ UNCHANGED <<image, staged>>
  BY <1>1 DEF AttachTx, Is, Admitted, InputInv, InputTypeOK, Record
<1>2. ASSUME NEW o \in Ops, NEW publishes \in BOOLEAN, CommitAnswer(o, publishes)
      PROVE  /\ commit'[o].chat = WithAnswer(o, live)
             /\ live' \in {live, WithAnswer(o, live)}
             /\ UNCHANGED <<image, staged>>
  <2>1. commit'[o].chat = WithAnswer(o, live)
        /\ live' = IF publishes THEN WithAnswer(o, live) ELSE live
    BY <1>2, CommitWrites
  <2> QED
    BY <1>2, <2>1 DEF CommitAnswer, CommitTx
<1>3. live \in Kept /\ image.chat \in Kept /\ (staged # NoChat => staged \in Kept)
      /\ (\A o \in Ops : HasReceipt(o) => rec[o].ebase \in Kept)
      /\ (\A o \in Ops : Committed(o) => commit[o].chat \in Kept)
  BY DEF Kept
<1>4. /\ live' \in Kept \/ New(live')
      /\ image'.chat \in Kept
      /\ staged' # NoChat => staged' \in Kept \/ New(staged')
  <2>1. CASE \E o \in Ops : LeavesRecords(o) \/ Settles(o) \/ Blocks(o) \/ Details(o)
    BY <1>3, <2>1, ServedFrom
  <2>2. CASE \E o \in Ops, publishes \in BOOLEAN :
                AttachTx(o, publishes) \/ CommitAnswer(o, publishes)
    BY <1>1, <1>2, <1>3, <2>2
  <2>3. CASE \E o \in Ops, c \in Commands, replaced \in Ops \cup {NoOp} : Admit(o, c, replaced)
    BY <1>3, <2>3 DEF Admit, storeVars
  <2>4. CASE SaveChat
    <3>1. PICK edit \in Edits(live) : staged' = edit[1] /\ live' = edit[1] /\ image' = image
      BY <2>4 DEF SaveChat, ClientSave, SaveFrom
    <3> QED
      BY <1>3, <2>4, <3>1
  <2>5. CASE WriteImage \/ DropJournal \/ UNCHANGED vars
    BY <1>3, <2>5 DEF WriteImage, PersistImage, DropJournal, ClearJournal, vars, storeVars
  <2>6. CASE Crash
    BY <1>3, <2>6 DEF Crash, Restart, Reloaded
  <2> QED
    BY <2>1, <2>2, <2>3, <2>4, <2>5, <2>6, Steps
<1>5. ASSUME NEW o \in Ops, HasReceipt(o)'
      PROVE  rec'[o].ebase \in Kept \/ New(rec'[o].ebase)
  <2>1. CASE HasReceipt(o)
    <3>1. rec'[o].ebase = rec[o].ebase
      BY <2>1, ReceiptsStay
    <3> QED
      BY <1>3, <2>1, <3>1
  <2>2. CASE ~ HasReceipt(o)
    <3>1. PICK publishes \in BOOLEAN : AttachTx(o, publishes)
      BY <1>5, <2>2, ReceiptsStay
    <3>2. rec'[o].ebase = Insert(live, Len(live.msgs), Input(o))
      BY <1>1, <3>1
    <3> QED
      BY <3>1, <3>2
  <2> QED
    BY <2>1, <2>2
<1>6. ASSUME NEW o \in Ops, Committed(o)'
      PROVE  commit'[o].chat \in Kept \/ New(commit'[o].chat)
  <2>1. CASE Committed(o)
    <3>1. commit'[o] = commit[o]
      BY <2>1, ReceiptsStay
    <3> QED
      BY <1>3, <2>1, <3>1
  <2>2. CASE ~ Committed(o)
    <3>1. PICK publishes \in BOOLEAN : CommitAnswer(o, publishes)
      BY <1>6, <2>2, ReceiptsStay
    <3>2. commit'[o].chat = WithAnswer(o, live)
      BY <1>2, <3>1
    <3> QED
      BY <3>1, <3>2
  <2> QED
    BY <2>1, <2>2
<1> HIDE DEF New
<1>7. chat \in Kept \/ New(chat)
  <2>1. \/ chat = live' \/ chat = image'.chat \/ (chat = staged' /\ staged' # NoChat)
        \/ (\E o \in Ops : HasReceipt(o)' /\ chat = rec'[o].ebase)
        \/ (\E o \in Ops : Committed(o)' /\ chat = commit'[o].chat)
    BY DEF Kept
  <2> QED
    BY <1>4, <1>5, <1>6, <2>1
<1> QED
  BY <1>7 DEF New

LEMMA OrderedEverywhereNext ==
    InputInv /\ OrderInv /\ DurableEverywhere /\ OrderedEverywhere /\ [InputNext]_vars
       => OrderedEverywhere'
<1> SUFFICES ASSUME InputInv, OrderInv, DurableEverywhere, OrderedEverywhere,
                    [InputNext]_vars, NEW chat \in Kept'
             PROVE  OrderedIn(rec', chat)
  BY DEF OrderedEverywhere
<1>0. live \in Chat /\ live.msgs \in Seq(Message) /\ Len(live.msgs) \in Nat
      /\ live \in Kept /\ Durable(Shown(live)) /\ OrderedIn(rec, live)
  BY DEF InputInv, InputTypeOK, StoreTypeOK, Chat, Kept, DurableEverywhere, OrderedEverywhere
<1>1. ASSUME NEW c \in Chat, OrderedIn(rec, c), Durable(Shown(c))
      PROVE  OrderedIn(rec', c)
  <2>1. \A o \in Ops : Input(o) \in Shown(c) \/ Answer(o) \in Shown(c) => o \in Admitted
    BY <1>1 DEF Durable, HasReceipt, InputInv, RowsAgree, Is
  <2>2. \A o \in Admitted : rec'[o].seq = rec[o].seq
    BY PastStays
  <2> QED
    BY <1>1, <2>1, <2>2, OrderFromShown
<1>2. CASE chat \in Kept
  BY <1>1, <1>2, KeptDurable DEF OrderedEverywhere
(* How the turn of a message that is shown compares with that of another.  *)
<1>3. ASSUME NEW i \in 1..Len(live.msgs), live.msgs[i][1] # "note"
      PROVE  \E p \in Admitted :
                /\ rec[p].seq \in Nat /\ live.msgs[i] \in Shown(live)
                /\ \/ live.msgs[i] = Input(p) /\ HasReceipt(p)
                      /\ TurnIn(rec, live.msgs[i]) = 2 * rec[p].seq
                   \/ live.msgs[i] = Answer(p) /\ Committed(p)
                      /\ TurnIn(rec, live.msgs[i]) = 2 * rec[p].seq + 1
  <2>1. live.msgs[i] \in Message /\ live.msgs[i] \in Shown(live)
    BY <1>0, ToSetSeq DEF Shown
  <2>2. PICK p \in Ops : live.msgs[i] = Input(p) \/ live.msgs[i] = Answer(p)
    BY <1>3, <2>1 DEF Message, Input, Answer
  <2>3. (live.msgs[i] = Input(p) => HasReceipt(p)) /\ (live.msgs[i] = Answer(p) => Committed(p))
    BY <1>0, <2>1 DEF Durable
  <2>4. p \in Admitted
    BY <2>2, <2>3 DEF HasReceipt, InputInv, RowsAgree, Is
  <2>5. rec[p].seq \in Nat
    BY <2>4 DEF InputInv, InputTypeOK, Admitted, Record
  <2>6. TurnIn(rec, Input(p)) = 2 * rec[p].seq /\ TurnIn(rec, Answer(p)) = 2 * rec[p].seq + 1
    BY <2>5 DEF TurnIn, Input, Answer
  <2> QED
    BY <2>1, <2>2, <2>3, <2>4, <2>5, <2>6
<1>4. ASSUME NEW o \in Ops, NEW publishes \in BOOLEAN, AttachTx(o, publishes),
             chat = Insert(live, Len(live.msgs), Input(o))
      PROVE  OrderedIn(rec', chat)
  <2>1. /\ o \in Admitted /\ Is(o, "queued") /\ run[o] = "transforming" /\ Due(o)
        /\ rec[o].seq \in Nat /\ Input(o) \in Message
    BY <1>4 DEF AttachTx, Due, Is, InputInv, InputTypeOK, Admitted, Record, Input, Message
  <2>2. ~ HasReceipt(o) /\ ~ Committed(o)
    BY <2>1 DEF InputInv, RowsAgree, Is
  <2>3. TurnIn(rec, Input(o)) = 2 * rec[o].seq
    BY <2>1 DEF TurnIn, Input
  <2>4. ASSUME NEW i \in 1..Len(live.msgs), live.msgs[i][1] # "note"
        PROVE  TurnIn(rec, live.msgs[i]) < TurnIn(rec, Input(o))
    <3>1. PICK p \in Admitted :
                /\ rec[p].seq \in Nat /\ (HasReceipt(p) \/ Committed(p))
                /\ TurnIn(rec, live.msgs[i]) \in {2 * rec[p].seq, 2 * rec[p].seq + 1}
      BY <1>3, <2>4
    <3>2. p # o /\ HasReceipt(p) /\ p \in Ops
      BY <2>2, <3>1 DEF OrderInv, PastNoted, Admitted
    <3>3. o \notin Before(p)
      <4> SUFFICES ASSUME o \in Before(p) PROVE FALSE
        OBVIOUS
      <4>1. ~ Live(o)
        BY <3>1, <3>2 DEF OrderInv, InTurn, Due, Ended
      <4> QED
        BY <2>1, <4>1 DEF Live, Is, Terminal
    <3>4. rec[p].seq < rec[o].seq
      BY <2>1, <3>1, <3>2, <3>3 DEF OrderInv, Numbered, Before
    <3> QED
      BY <2>1, <2>3, <3>1, <3>4
  <2>5. OrderedIn(rec, chat)
    <3>1. Len(live.msgs) \in 0..Len(live.msgs)
      BY <1>0
    <3>2. \A i \in 1..Len(live.msgs) : live.msgs[i][1] # "note" =>
             IF i <= Len(live.msgs) THEN TurnIn(rec, live.msgs[i]) < TurnIn(rec, Input(o))
             ELSE TurnIn(rec, Input(o)) < TurnIn(rec, live.msgs[i])
      BY <1>0, <2>4
    <3> QED
      BY <1>0, <1>4, <2>1, <3>1, <3>2, InsertOrdered
  <2>6. chat \in Chat /\ Shown(chat) = Shown(live) \cup {Input(o)}
    BY <1>0, <1>4, <2>1, InsertChat
  <2>7. \A p \in Ops : Input(p) \in Shown(chat) \/ Answer(p) \in Shown(chat) => p \in Admitted
    <3>1. \A p \in Ops : Input(p) \in Shown(live) \/ Answer(p) \in Shown(live) => p \in Admitted
      BY <1>0 DEF Durable, HasReceipt, InputInv, RowsAgree, Is
    <3>2. \A p \in Ops : Answer(p) # Input(o) /\ (Input(p) = Input(o) => p = o)
      BY DEF Input, Answer
    <3> QED
      BY <2>1, <2>6, <3>1, <3>2
  <2>8. \A p \in Admitted : rec'[p].seq = rec[p].seq
    BY PastStays
  <2> QED
    BY <2>5, <2>6, <2>7, <2>8, OrderFromShown
<1>5. ASSUME NEW o \in Ops, NEW publishes \in BOOLEAN, CommitAnswer(o, publishes),
             chat = WithAnswer(o, live)
      PROVE  OrderedIn(rec', chat)
  <2> DEFINE k == PositionOf(Input(o), live)
  <2>1. /\ Is(o, "attached") /\ o \in Admitted /\ ~ Committed(o) /\ Input(o) \in Shown(live)
        /\ rec[o].seq \in Nat /\ Answer(o) \in Message
    BY <1>5, CommitWrites DEF Is, InputInv, InputTypeOK, Admitted, Record, Answer, Message
  <2>2. k \in 1..Len(live.msgs) /\ live.msgs[k] = Input(o)
    BY <1>0, <2>1, AnswerPlaces
  <2>3. chat = Insert(live, k, Answer(o))
    BY <1>5 DEF WithAnswer
  <2> HIDE DEF k
  <2>4. /\ TurnIn(rec, Input(o)) = 2 * rec[o].seq /\ Input(o)[1] # "note"
        /\ TurnIn(rec, Answer(o)) = 2 * rec[o].seq + 1
    BY <2>1 DEF TurnIn, Input, Answer
  <2>5. ASSUME NEW i \in 1..Len(live.msgs), live.msgs[i][1] # "note"
        PROVE  IF i <= k THEN TurnIn(rec, live.msgs[i]) < TurnIn(rec, Answer(o))
               ELSE TurnIn(rec, Answer(o)) < TurnIn(rec, live.msgs[i])
    <3>1. PICK p \in Admitted :
             /\ rec[p].seq \in Nat
             /\ \/ TurnIn(rec, live.msgs[i]) = 2 * rec[p].seq
                \/ live.msgs[i] = Answer(p) /\ Committed(p)
                   /\ TurnIn(rec, live.msgs[i]) = 2 * rec[p].seq + 1
      BY <1>3, <2>5
    <3>2. DOMAIN live.msgs = 1..Len(live.msgs)
      BY <1>0
    <3>3. CASE i = k
      BY <2>1, <2>2, <2>4, <3>3
    <3>4. CASE i < k
      <4>1. TurnIn(rec, live.msgs[i]) < TurnIn(rec, Input(o))
        BY <1>0, <2>2, <2>4, <2>5, <3>2, <3>4 DEF OrderedIn
      <4> QED
        BY <2>1, <2>2, <2>4, <3>1, <3>4, <4>1
    <3>5. CASE i > k
      <4>1. TurnIn(rec, Input(o)) < TurnIn(rec, live.msgs[i])
        BY <1>0, <2>2, <2>4, <2>5, <3>2, <3>5 DEF OrderedIn
      <4>2. p # o => rec[p].seq # rec[o].seq
        BY <2>1 DEF OrderInv, Numbered
      <4>3. TurnIn(rec, live.msgs[i]) # 2 * rec[o].seq + 1
        BY <2>1, <3>1, <4>2
      <4> QED
        BY <2>1, <2>2, <2>4, <3>1, <3>5, <4>1, <4>3
    <3> QED
      BY <2>2, <3>3, <3>4, <3>5
  <2>6. OrderedIn(rec, chat)
    <3>1. k \in 0..Len(live.msgs)
      BY <1>0, <2>2
    <3> QED
      BY <1>0, <2>1, <2>3, <2>5, <3>1, InsertOrdered
  <2>7. chat \in Chat /\ Shown(chat) = Shown(live) \cup {Answer(o)}
    BY <1>0, <1>5, <2>1, WithAnswerChat
  <2>8. \A p \in Ops : Input(p) \in Shown(chat) \/ Answer(p) \in Shown(chat) => p \in Admitted
    <3>1. \A p \in Ops : Input(p) \in Shown(live) \/ Answer(p) \in Shown(live) => p \in Admitted
      BY <1>0 DEF Durable, HasReceipt, InputInv, RowsAgree, Is
    <3>2. \A p \in Ops : Input(p) # Answer(o) /\ (Answer(p) = Answer(o) => p = o)
      BY DEF Input, Answer
    <3> QED
      BY <2>1, <2>7, <3>1, <3>2
  <2>9. \A p \in Admitted : rec'[p].seq = rec[p].seq
    BY PastStays
  <2> QED
    BY <2>6, <2>7, <2>8, <2>9, OrderFromShown
<1>6. ASSUME SaveChat, NEW edit \in Edits(live), chat = edit[1]
      PROVE  OrderedIn(rec', chat)
  <2>0. rec' = rec
    BY <1>6 DEF SaveChat, inputVars
  <2>1. CASE edit[1] = [live EXCEPT !.ver = acked.saves + 1]
    <3>1. chat.msgs = live.msgs
      BY <1>0, <1>6, <2>1 DEF Chat
    <3> QED
      BY <1>0, <2>0, <3>1 DEF OrderedIn
  <2>2. ASSUME NEW k \in 0..Len(live.msgs), NEW n \in Notes, edit[1] = Insert(live, k, Note(n))
        PROVE  OrderedIn(rec', chat)
    <3>1. Note(n) \in Message /\ Note(n)[1] = "note"
      BY DEF Note, Message
    <3> QED
      BY <1>0, <1>6, <2>0, <2>2, <3>1, InsertOrdered
  <2>3. ASSUME NEW k \in DOMAIN live.msgs, edit[1] = Drop(live, k)
        PROVE  OrderedIn(rec', chat)
    BY <1>0, <1>6, <2>0, <2>3, DropOrdered
  <2> QED
    BY <2>1, <2>2, <2>3 DEF Edits
<1> QED
  BY <1>2, <1>4, <1>5, <1>6, KeptFrom

LEMMA DurableEverywhereInvariant == InputSpec => []DurableEverywhere
<1>1. InputInit => DurableEverywhere
  BY DEF InputInit, StoreInit, CommitInit, DurableEverywhere, Durable, Shown, ToSet,
         HasReceipt, Admitted, Committed
<1> QED
  BY <1>1, DurableEverywhereNext, InputInvariant, PTL DEF InputSpec

(* resolveInputAttachment and resolveChatAnchor: whatever the user inserts *)
(* or deletes meanwhile, and after a restart at any point, the chat that   *)
(* is served has the inputs in the order of admission and each answer      *)
(* behind its own input and before the next.                               *)
THEOREM ReadsInOrder == InputSpec => []ConversationOrder
<1>1. InputInit => OrderedEverywhere
  BY DEF InputInit, StoreInit, CommitInit, OrderedEverywhere, OrderedIn, Kept,
         HasReceipt, Admitted, Committed
<1>2. OrderedEverywhere => ConversationOrder
  BY DEF OrderedEverywhere, OrderedIn, Kept, ConversationOrder, Turn, TurnIn
<1> QED
  BY <1>1, <1>2, OrderedEverywhereNext, OrderInvariant, DurableEverywhereInvariant, PTL
     DEF InputSpec
-----------------------------------------------------------------------------
(* How the served chat moves until a restart: an input joins at its end,   *)
(* an answer joins behind its input, or the user saves. Publications and   *)
(* recoveries write what the chat has anyway, or just that.                *)
Joins(o) ==
    /\ Input(o) \notin Shown(live)
    /\ live' = Insert(live, Len(live.msgs), Input(o))
    /\ UNCHANGED <<applied, acked>>
Answers(o) ==
    /\ Input(o) \in Shown(live) /\ o \notin applied
    /\ live' = WithAnswer(o, live)
    /\ applied' = applied \cup {o}
    /\ acked' = acked

LEMMA ServedMoves ==
    ASSUME InputInv, OrderInv, DurableEverywhere, todo = {}, [InputNext]_vars, ~ Crash
    PROVE  \/ UNCHANGED <<live, applied, acked>>
           \/ SaveChat
           \/ \E o \in Ops : Joins(o) \/ Answers(o)
<1>1. ASSUME NEW o \in Ops, Shows(o), acked' = acked
      PROVE  UNCHANGED <<live, applied>> \/ Joins(o) \/ Answers(o)
  <2>1. CASE Republish(o)
    <3>1. /\ live = rec[o].abase /\ live' = rec[o].ebase /\ applied' = applied
          /\ HasReceipt(o) /\ Input(o) \notin Shown(live) /\ o \in Admitted
      BY <2>1 DEF Republish, InputShown, Is, InputInv, RowsAgree
    <3>2. live' = Insert(live, Len(live.msgs), Input(o))
      BY <3>1 DEF OrderInv, PastNoted
    <3> QED
      BY <1>1, <3>1, <3>2 DEF Joins
  <2>2. ASSUME NEW publishes \in BOOLEAN, AttachTx(o, publishes)
        PROVE  UNCHANGED <<live, applied>> \/ Joins(o)
    <3>1. ~ HasReceipt(o)
      BY <2>2 DEF AttachTx, InputInv, RowsAgree
    <3>2. Input(o) \notin Shown(live)
      BY <3>1 DEF DurableEverywhere, Durable
    <3> QED
      BY <1>1, <2>2, <3>2 DEF AttachTx, Joins
  <2>3. ASSUME NEW publishes \in BOOLEAN, CommitAnswer(o, publishes)
        PROVE  UNCHANGED <<live, applied>> \/ Answers(o)
    <3>1. o \notin applied
      BY <2>3, CommitWrites DEF OrderInv, CommitsNoted
    <3> QED
      BY <1>1, <2>3, <3>1, CommitWrites DEF Answers
  <2>4. CASE RecoverCommit(o)
    <3>1. CASE o \in applied
      BY <2>4, <3>1 DEF RecoverCommit, PublishCommit
    <3>2. CASE o \notin applied
      <4>1. Unapplied(o)
        BY <2>4, <3>2 DEF RecoverCommit, Pending, Unapplied
      <4>2. live = commit[o].base /\ Input(o) \in Shown(live)
            /\ commit[o].chat = WithAnswer(o, live)
        BY <4>1 DEF OrderInv, RecoveryFirst, CommitsNoted, Unapplied, Listening
      <4> QED
        BY <1>1, <2>4, <3>2, <4>2 DEF RecoverCommit, PublishCommit, Answers
    <3> QED
      BY <3>1, <3>2
  <2>5. CASE RecoverCompleted(o) \/ RecoverAttached(o)
    BY <2>5 DEF RecoverCompleted, RecoverAttached, NextToRecover
  <2> QED
    BY <1>1, <2>1, <2>2, <2>3, <2>4, <2>5 DEF Shows
<1> QED
  BY <1>1, LiveMoves

LEMMA EditsNext ==
    InputInv /\ OrderInv /\ DurableEverywhere /\ EditsInv /\ [InputNext]_vars => EditsInv'
<1> SUFFICES ASSUME InputInv, OrderInv, DurableEverywhere, EditsInv, [InputNext]_vars,
                    restarts' = 0
             PROVE  /\ todo' = {}
                    /\ IsInjective(live'.msgs)
                    /\ \A n \in Notes : Note(n) \in Shown(live') \cup acked'.removed
                                           => Note(n) \in acked'.added
                    /\ live'.ver = acked'.ver
                    /\ acked'.added \ acked'.removed \subseteq Shown(live')
                    /\ \A m \in acked'.removed : m[1] = "user" \/ m \notin Shown(live')
                    /\ \A o \in Ops :
                          o \in applied' <=> Answer(o) \in Shown(live') \cup acked'.removed
  BY DEF EditsInv, Shown
<1>0. restarts = 0 /\ ~ Crash
  <2>1. restarts \in Nat
    BY InputAssumption DEF InputInv, InputTypeOK
  <2>2. ~ Crash
    BY <2>1 DEF Crash
  <2>3. ~ SaveChat => restarts' = restarts
    BY <2>2, LiveMoves
  <2> QED
    BY <2>2, <2>3 DEF SaveChat, inputVars
<1>1. /\ todo = {} /\ IsInjective(live.msgs)
      /\ \A n \in Notes : Note(n) \in Shown(live) \cup acked.removed => Note(n) \in acked.added
      /\ live.ver = acked.ver
      /\ acked.added \ acked.removed \subseteq Shown(live)
      /\ \A m \in acked.removed : m[1] = "user" \/ m \notin Shown(live)
      /\ \A o \in Ops : o \in applied <=> Answer(o) \in Shown(live) \cup acked.removed
  BY <1>0 DEF EditsInv
<1>2. todo' = {}
  BY <1>0, <1>1, TodoMoves
<1>3. live \in Chat /\ Len(live.msgs) \in Nat /\ acked \in Acked
  BY DEF InputInv, InputTypeOK, StoreTypeOK, Chat
<1>4. /\ \A o \in Ops : Input(o) \in Message /\ Answer(o) \in Message /\ Input(o)[1] = "user"
      /\ \A n \in Notes : Note(n) \in Message
      /\ \A o, p \in Ops : Input(o) # Answer(p) /\ (Answer(o) = Answer(p) => o = p)
      /\ \A o \in Ops, n \in Notes : Input(o) # Note(n) /\ Answer(o) # Note(n)
  BY DEF Input, Answer, Note, Message
<1>5. CASE UNCHANGED <<live, applied, acked>>
  BY <1>1, <1>2, <1>5
<1>6. ASSUME NEW o \in Ops, Joins(o)
      PROVE  /\ IsInjective(live'.msgs) /\ live'.ver = live.ver
             /\ Shown(live') = Shown(live) \cup {Input(o)} /\ UNCHANGED <<applied, acked>>
  <2>1. Len(live.msgs) \in 0..Len(live.msgs)
    BY <1>3
  <2> QED
    BY <1>1, <1>3, <1>4, <1>6, <2>1, InsertChat, InsertOnce DEF Joins
<1>7. ASSUME NEW o \in Ops, Answers(o)
      PROVE  /\ IsInjective(live'.msgs) /\ live'.ver = live.ver
             /\ Shown(live') = Shown(live) \cup {Answer(o)} /\ acked' = acked
             /\ Answer(o) \notin acked.removed /\ applied' = applied \cup {o}
  <2>1. PositionOf(Input(o), live) \in 0..Len(live.msgs)
    BY <1>3, <1>7, AnswerPlaces DEF Answers
  <2>2. Answer(o) \notin Shown(live) \cup acked.removed
    BY <1>1, <1>7 DEF Answers
  <2> QED
    BY <1>1, <1>3, <1>4, <1>7, <2>1, <2>2, InsertChat, InsertOnce DEF Answers, WithAnswer
<1>8. ASSUME SaveChat
      PROVE  /\ IsInjective(live'.msgs)
             /\ \A n \in Notes : Note(n) \in Shown(live') \cup acked'.removed
                                    => Note(n) \in acked'.added
             /\ live'.ver = acked'.ver
             /\ acked'.added \ acked'.removed \subseteq Shown(live')
             /\ \A m \in acked'.removed : m[1] = "user" \/ m \notin Shown(live')
             /\ \A o \in Ops :
                   o \in applied' <=> Answer(o) \in Shown(live') \cup acked'.removed
  <2> PICK edit \in Edits(live) :
         live' = edit[1] /\ acked' = [edit[2] EXCEPT !.saves = @ + 1] /\ applied' = applied
    BY <1>8 DEF SaveChat, ClientSave, SaveFrom
  <2>1. CASE edit = <<[live EXCEPT !.ver = acked.saves + 1],
                      [acked EXCEPT !.ver = acked.saves + 1]>>
    <3>1. live'.msgs = live.msgs /\ live'.ver = acked'.ver
          /\ acked'.added = acked.added /\ acked'.removed = acked.removed
      BY <1>3, <2>1 DEF Chat, Acked
    <3>2. Shown(live') = Shown(live)
      BY <3>1 DEF Shown
    <3> QED
      BY <1>1, <3>1, <3>2
  <2>2. ASSUME NEW k \in 0..Len(live.msgs), NEW n \in Notes, Note(n) \notin acked.added,
               edit = <<Insert(live, k, Note(n)), [acked EXCEPT !.added = @ \cup {Note(n)}]>>
        PROVE  /\ IsInjective(live'.msgs) /\ live'.ver = live.ver /\ acked'.ver = acked.ver
               /\ Shown(live') = Shown(live) \cup {Note(n)}
               /\ acked'.added = acked.added \cup {Note(n)} /\ acked'.removed = acked.removed
               /\ Note(n) \notin acked.removed
    <3>1. acked'.ver = acked.ver /\ acked'.added = acked.added \cup {Note(n)}
          /\ acked'.removed = acked.removed /\ live' = Insert(live, k, Note(n))
      BY <1>3, <2>2 DEF Acked
    <3>2. Note(n) \notin Shown(live) \cup acked.removed
      BY <1>1, <2>2
    <3> QED
      BY <1>1, <1>3, <1>4, <3>1, <3>2, InsertChat, InsertOnce
  <2>3. ASSUME NEW k \in DOMAIN live.msgs,
               edit = <<Drop(live, k), [acked EXCEPT !.removed = @ \cup {live.msgs[k]}]>>
        PROVE  /\ IsInjective(live'.msgs) /\ live'.ver = live.ver /\ acked'.ver = acked.ver
               /\ Shown(live') = Shown(live) \ {live.msgs[k]} /\ live.msgs[k] \in Shown(live)
               /\ acked'.added = acked.added /\ acked'.removed = acked.removed \cup {live.msgs[k]}
    <3>1. acked'.ver = acked.ver /\ acked'.added = acked.added
          /\ acked'.removed = acked.removed \cup {live.msgs[k]} /\ live' = Drop(live, k)
      BY <1>3, <2>3 DEF Acked
    <3>2. live.msgs[k] \in Shown(live)
      <4>1. live.msgs \in Seq(Message) /\ k \in 1..Len(live.msgs)
        BY <1>3 DEF Chat
      <4> QED
        BY <4>1, ToSetSeq DEF Shown
    <3> QED
      BY <1>1, <1>3, <3>1, <3>2, DropChat, DropOnce
  <2>4. CASE \E k \in 0..Len(live.msgs), n \in Notes :
                Note(n) \notin acked.added
                /\ edit = <<Insert(live, k, Note(n)), [acked EXCEPT !.added = @ \cup {Note(n)}]>>
    <3>1. PICK n \in Notes :
               /\ IsInjective(live'.msgs) /\ live'.ver = live.ver /\ acked'.ver = acked.ver
               /\ Shown(live') = Shown(live) \cup {Note(n)}
               /\ acked'.added = acked.added \cup {Note(n)} /\ acked'.removed = acked.removed
               /\ Note(n) \notin acked.removed
      BY <2>2, <2>4
    <3>2. \A m \in acked'.removed : m[1] = "user" \/ m \notin Shown(live')
      BY <1>1, <3>1
    <3>3. \A x \in Notes : Note(x) \in Shown(live') \cup acked'.removed
                              => Note(x) \in acked'.added
      BY <1>1, <3>1
    <3> QED
      BY <1>1, <1>4, <3>1, <3>2, <3>3
  <2>5. CASE \E k \in DOMAIN live.msgs :
                edit = <<Drop(live, k), [acked EXCEPT !.removed = @ \cup {live.msgs[k]}]>>
    <3>1. PICK k \in DOMAIN live.msgs :
               /\ IsInjective(live'.msgs) /\ live'.ver = live.ver /\ acked'.ver = acked.ver
               /\ Shown(live') = Shown(live) \ {live.msgs[k]} /\ live.msgs[k] \in Shown(live)
               /\ acked'.added = acked.added /\ acked'.removed = acked.removed \cup {live.msgs[k]}
      BY <2>3, <2>5
    <3> QED
      BY <1>1, <3>1
  <2> QED
    BY <2>1, <2>4, <2>5 DEF Edits
<1>9. CASE \E o \in Ops : Joins(o)
  <2>1. PICK o \in Ops :
           /\ IsInjective(live'.msgs) /\ live'.ver = live.ver
           /\ Shown(live') = Shown(live) \cup {Input(o)} /\ UNCHANGED <<applied, acked>>
    BY <1>6, <1>9
  <2> QED
    BY <1>1, <1>2, <1>4, <2>1
<1>10. CASE \E o \in Ops : Answers(o)
  <2>1. PICK o \in Ops :
           /\ IsInjective(live'.msgs) /\ live'.ver = live.ver
           /\ Shown(live') = Shown(live) \cup {Answer(o)} /\ acked' = acked
           /\ Answer(o) \notin acked.removed /\ applied' = applied \cup {o}
    BY <1>7, <1>10
  <2>2. \A p \in Ops : p \in applied' <=> Answer(p) \in Shown(live') \cup acked'.removed
    BY <1>1, <1>4, <2>1
  <2>3. \A m \in acked'.removed : m[1] = "user" \/ m \notin Shown(live')
    BY <1>1, <2>1
  <2> QED
    BY <1>1, <1>2, <1>4, <2>1, <2>2, <2>3
<1> QED
  BY <1>0, <1>1, <1>2, <1>5, <1>8, <1>9, <1>10, ServedMoves

LEMMA EditsInvariant == InputSpec => []EditsInv
<1>1. InputInit => EditsInv
  <2> SUFFICES ASSUME InputInit PROVE EditsInv
    OBVIOUS
  <2>1. /\ todo = {} /\ applied = {} /\ live.msgs = <<>> /\ live.ver = 0
        /\ acked.ver = 0 /\ acked.added = {} /\ acked.removed = {}
    BY DEF InputInit, StoreInit
  <2>2. Shown(live) = {} /\ IsInjective(live.msgs)
    BY <2>1 DEF Shown, ToSet, IsInjective
  <2> QED
    BY <2>1, <2>2 DEF EditsInv
<1> QED
  BY <1>1, EditsNext, OrderInvariant, DurableEverywhereInvariant, PTL DEF InputSpec

(* commitQueued, attachTransformed and the recoveries resolve against the  *)
(* chat of the moment: as long as the server does not restart, no step of  *)
(* it undoes a text, a message or a deletion that the user saved meanwhile *)
(* (an input that was deleted may come back).                              *)
THEOREM EditsStayServed == InputSpec => [](restarts = 0 => ConcurrentEditsServed)
<1>1. EditsInv => (restarts = 0 => ConcurrentEditsServed)
  BY DEF EditsInv, ConcurrentEditsServed
<1> QED
  BY <1>1, EditsInvariant, PTL

(* publishCanonicalState: as long as the server does not restart, an       *)
(* answer that was published stays in the chat until the user deletes it.  *)
THEOREM AnswersStayServed == InputSpec => [](restarts = 0 => AnswersServed)
<1>1. InputInv /\ EditsInv => (restarts = 0 => AnswersServed)
  BY DEF EditsInv, AnswersServed, InputInv, InputTypeOK, StoreTypeOK
<1> QED
  BY <1>1, EditsInvariant, InputInvariant, PTL
=============================================================================
