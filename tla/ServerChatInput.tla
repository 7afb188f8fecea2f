--------------------------- MODULE ServerChatInput ---------------------------
(***************************************************************************)
(* The inputs that the server prepares and answers (serverChatInputOwner): *)
(* admission of an input, waiting for the inputs before it, the transform  *)
(* of the input, its attachment to the chat, the run and the commit of the *)
(* answer (ServerChatCommit), cancel, retry of a blocked input, and the    *)
(* recovery before the server listens again after a restart. All of it     *)
(* shares one chat with the saves of the user (ChatStore).                 *)
(*                                                                         *)
(* An operation is one try to answer a command of the user; a retry is a   *)
(* new operation of the same command.                                      *)
(***************************************************************************)
EXTENDS ServerChatCommit, FiniteSets

CONSTANTS
    Commands,     \* what the user asked for, whatever operation tries it
    MaxActive,    \* SERVER_CHAT_INPUT_MAX_NONTERMINAL_PER_CHAT
    MaxSnapshots, \* SERVER_CHAT_SETTINGS_SNAPSHOT_MAX_CONTEXTS
    MaxRestarts,  \* bound: restarts of the server in a behaviour
    NoRec,        \* the operation was never admitted
    NoOp          \* "no operation" in a record

InputStates ==
    {"queued", "attached", "completed", "failed", "cancelled", "blocked_edit"}
Terminal == {"completed", "failed", "cancelled", "blocked_edit"}

Record ==
    [st : InputStates,
     tf : {"not_run", "running", "completed", "unknown"}, \* transformState
     cascade : BOOLEAN,       \* terminal reason is predecessor_blocked_edit
     cmd : Commands,
     replaces : Ops \cup {NoOp},   \* replaceBlockedOperationId
     replacedBy : Ops \cup {NoOp}, \* set together with userResolvedAt
     seq : Nat,               \* admissionSeq
     pred : Ops \cup {NoOp},  \* executionPredecessorId
     resolved : BOOLEAN,      \* predecessorResolution is set
     sub : Chat,              \* submittedBaseRevision
     abase : Chat \cup {NoChat}, \* attachmentBaseRevision
     ebase : Chat \cup {NoChat}, \* op journal, executionBaseRevision, receipt
     pub : BOOLEAN]           \* terminal.publication is published

ASSUME InputAssumption ==
    /\ IsFiniteSet(Ops)
    /\ {MaxActive, MaxSnapshots, MaxRestarts} \subseteq Nat
    /\ NoOp \notin Ops
    /\ NoRec \notin Record

VARIABLES
    rec,       \* durable input records
    snap,      \* operations whose settings snapshot is in memory
    tbase,     \* chat captured when the transform of the operation began
    todo,      \* inputs that startup recovery has still to look at
    restarts,  \* number of restarts so far
    cancelled, \* history: cancels acknowledged for an admitted input
    early      \* history: cancels acknowledged before the input arrived

inputVars == <<rec, snap, tbase, todo, restarts, cancelled, early>>
vars == <<storeVars, commitVars, inputVars>>

InputTypeOK ==
    /\ StoreTypeOK
    /\ CommitTypeOK
    /\ rec \in [Ops -> Record \cup {NoRec}]
    /\ snap \in SUBSET Ops
    /\ tbase \in [Ops -> Chat \cup {NoChat}]
    /\ todo \in SUBSET Ops
    /\ restarts \in 0..MaxRestarts
    /\ cancelled \in SUBSET Ops
    /\ early \in SUBSET Ops

InputInit ==
    /\ StoreInit
    /\ CommitInit
    /\ rec = [o \in Ops |-> NoRec]
    /\ snap = {}
    /\ tbase = [o \in Ops |-> NoChat]
    /\ todo = {}
    /\ restarts = 0
    /\ cancelled = {}
    /\ early = {}

Admitted == {o \in Ops : rec[o] # NoRec}
Live(o) == o \in Admitted /\ rec[o].st \notin Terminal
Is(o, state) == o \in Admitted /\ rec[o].st = state
HasReceipt(o) == o \in Admitted /\ rec[o].ebase # NoChat
UserResolved(o) == rec[o].replacedBy # NoOp
Before(o) == {p \in Admitted : rec[p].seq < rec[o].seq}
Latest(S) == CHOOSE o \in S : \A p \in S : rec[p].seq <= rec[o].seq
(* The server listens: startup recovery is over.                           *)
Listening == todo = {}
-----------------------------------------------------------------------------
(* Mutation: a record that is terminal is settled again.                   *)
SettleAgain(o, state) ==
    rec' = IF o \in Admitted THEN [rec EXCEPT ![o].st = state] ELSE rec

(* settleDurablySynchronously: only a record that is not terminal changes. *)
Settle(o, state) ==
    rec' = IF Live(o) THEN [rec EXCEPT ![o].st = state] ELSE rec

(* Mutation: the settings snapshot is kept.                                *)
SettleAndKeep(o, state) == Settle(o, state) /\ UNCHANGED <<snap, tbase>>

(* settleSynchronously also releases the settings snapshot, when the       *)
(* record is, or already was, in the wanted state.                         *)
SettleAndRelease(o, state) ==
    /\ Settle(o, state)
    /\ snap' = IF Live(o) \/ Is(o, state) THEN snap \ {o} ELSE snap
    /\ tbase' = [tbase EXCEPT ![o] = IF o \in snap' THEN @ ELSE NoChat]
(* The input is blocked until the user retries it; its snapshot is gone.   *)
BlockEdit(o, tf, cascade) ==
    /\ rec' = [rec EXCEPT ![o].st = "blocked_edit", ![o].tf = tf,
                          ![o].cascade = cascade]
    /\ snap' = snap \ {o}
    /\ tbase' = [tbase EXCEPT ![o] = NoChat]
KeepInput == UNCHANGED <<rec, snap, tbase>>
KeepHistory == UNCHANGED <<todo, restarts, cancelled, early>>
-----------------------------------------------------------------------------
InputShown(o) == HasReceipt(o) /\ Input(o) \in Shown(live)

(* Mutation: an input that the chat shows counts as answered.              *)
RequiresUntilShown(p) ==
    CASE Is(p, "blocked_edit") -> ~ UserResolved(p)
      [] Is(p, "completed") -> live # commit[p].chat /\ ~ rec[p].pub
      [] OTHER -> ~ InputShown(p)

(* requiresExecutionPredecessor: a later input may not yet run past p.     *)
Requires(p) ==
    CASE Is(p, "blocked_edit") -> ~ UserResolved(p)
      [] Is(p, "completed") -> live # commit[p].chat /\ ~ rec[p].pub
      [] Is(p, "failed") \/ Is(p, "cancelled") -> HasReceipt(p) /\ ~ InputShown(p)
      [] OTHER -> TRUE

(* latestReplacement: the last retry in the chain that starts at o. More   *)
(* retries than operations there cannot be.                                *)
LatestReplacement(o) ==
    LET follow[n \in Nat, p \in Ops] ==
            IF n = 0 \/ rec[p].replacedBy = NoOp THEN p
            ELSE follow[n - 1, rec[p].replacedBy]
    IN  follow[Cardinality(Ops), o]

(* A record that never ran because its predecessor was blocked.            *)
Cascaded(o) ==
    /\ Is(o, "blocked_edit") /\ rec[o].cascade /\ ~ UserResolved(o)
    /\ rec[o].tf = "not_run" /\ ~ HasReceipt(o)

(* cascadeRoot: the input whose block started the cascade that o is in;    *)
(* none when o is in no cascade or the search comes back to where it was.  *)
CascadeStart(o) ==
    LET up[n \in Nat, p \in Ops] ==
            IF ~ Cascaded(p) THEN p
            ELSE IF n = 0 THEN NoOp
            ELSE up[n - 1, LatestReplacement(rec[p].pred)]
    IN  up[Cardinality(Ops), o]
CascadeRoot(o) ==
    IF ~ Cascaded(o) \/ CascadeStart(o) = o THEN NoOp ELSE CascadeStart(o)

CascadeOf(o, root) ==
    root # NoOp /\ CascadeRoot(o) \in {LatestReplacement(root)} \ {NoOp}

(* Inputs of candidates that one which replaces root has to wait for.      *)
MustWaitFor(candidates, root) ==
    {p \in candidates \ {root} : ~ CascadeOf(p, root) /\ Requires(p)}
-----------------------------------------------------------------------------
(* Mutation: a failed answer can be retried like a blocked input.          *)
RetryableFailed(q, c) ==
    /\ Is(q, "blocked_edit") \/ Is(q, "failed")
    /\ ~ UserResolved(q)
    /\ rec[q].cmd = c

(* A retry names the blocked input that it replaces.                       *)
Retryable(q, c) ==
    /\ Is(q, "blocked_edit") /\ ~ UserResolved(q)
    /\ rec[q].tf \in {"not_run", "completed"} /\ ~ HasReceipt(q)
    /\ rec[q].cmd = c

Unresolved(c) == {p \in Admitted : rec[p].cmd = c /\ ~ UserResolved(p)}

(* Mutation: a command that is blocked can be sent once more as new.       *)
MayTryUnlessLive(c, replaced) ==
    IF replaced = NoOp THEN \A p \in Unresolved(c) : ~ Live(p)
    ELSE Retryable(replaced, c)

MayTry(c, replaced) ==
    IF replaced = NoOp THEN Unresolved(c) = {}
    ELSE Retryable(replaced, c) /\ Unresolved(c) = {replaced}

(* admit: one storage operation and one transaction.                       *)

Admit(o, c, replaced) ==
    /\ Listening /\ slot = Free
    /\ o \notin Admitted
    /\ MayTry(c, replaced)
    /\ Cardinality({p \in Ops : Live(p)}) < MaxActive
    /\ Cardinality(snap) < MaxSnapshots
    /\ LET waitFor == MustWaitFor(Admitted, replaced)
           new == [st |-> "queued", tf |-> "not_run", cascade |-> FALSE,
                   cmd |-> c, replaces |-> replaced, replacedBy |-> NoOp,
                   seq |-> Cardinality(Admitted) + 1,
                   pred |-> IF waitFor = {} THEN NoOp ELSE Latest(waitFor),
                   resolved |-> FALSE, sub |-> live, abase |-> NoChat,
                   ebase |-> NoChat, pub |-> FALSE]
       IN  rec' = [p \in Ops |->
                      IF p = o THEN new
                      ELSE IF p = replaced THEN [rec[p] EXCEPT !.replacedBy = o]
                      ELSE rec[p]]
    /\ opState' = [opState EXCEPT ![o] = "queued"]
    /\ snap' = snap \cup {o}
    /\ UNCHANGED <<commit, run, anchor, starts, storeVars, tbase>>
    /\ KeepHistory
-----------------------------------------------------------------------------
(* advancePredecessor: has everything before o come to an end that o can   *)
(* build on?                                                               *)
StillBefore(o) == MustWaitFor(Before(o), rec[o].replaces)
PredecessorKnown(o) ==
    IF StillBefore(o) = {} THEN TRUE ELSE rec[o].pred = Latest(StillBefore(o))

Ready(o) ==
    \/ ~ Is(o, "queued")
    \/ rec[o].resolved
    \/ rec[o].pred = NoOp /\ StillBefore(o) = {}

(* The predecessor is over, and o has not yet drawn the consequence.       *)
PredecessorEnded(o) ==
    /\ Listening /\ slot = Free
    /\ Is(o, "queued") /\ ~ rec[o].resolved
    /\ rec[o].pred # NoOp /\ PredecessorKnown(o)
    /\ rec[rec[o].pred].tf # "unknown"
    /\ ~ Live(rec[o].pred)

(* The chat that p left behind, and whether it can be seen in the chat.    *)
OutcomeOf(p) ==
    IF Is(p, "completed") THEN commit[p].chat
    ELSE IF HasReceipt(p) THEN rec[p].ebase ELSE rec[p].sub
OutcomeVisible(p) ==
    \/ live = OutcomeOf(p)
    \/ Is(p, "completed") /\ rec[p].pub
    \/ ~ Is(p, "completed") /\ (~ HasReceipt(p) \/ InputShown(p))

CascadeBlock(o) ==
    /\ PredecessorEnded(o)
    /\ Is(rec[o].pred, "blocked_edit")
    /\ BlockEdit(o, rec[o].tf, TRUE)
    /\ UNCHANGED <<storeVars, commitVars>>
    /\ KeepHistory

RevisionBlock(o) ==
    /\ PredecessorEnded(o)
    /\ LET p == rec[o].pred IN
         /\ ~ Is(p, "blocked_edit") /\ ~ OutcomeVisible(p)
         /\ ~ (Is(p, "completed") /\ live = rec[p].ebase) \* publication pending
    /\ BlockEdit(o, rec[o].tf, FALSE)
    /\ UNCHANGED <<storeVars, commitVars>>
    /\ KeepHistory

Resolve(o) ==
    /\ PredecessorEnded(o)
    /\ ~ Is(rec[o].pred, "blocked_edit") /\ OutcomeVisible(rec[o].pred)
    /\ rec' = [rec EXCEPT ![o].resolved = TRUE]
    /\ opState' = [opState EXCEPT ![o] = "queued"]
    /\ UNCHANGED <<commit, run, anchor, starts, storeVars, snap, tbase>>
    /\ KeepHistory
-----------------------------------------------------------------------------
(* loadExecution in the start request of the client, or in the drain of    *)
(* waiting inputs: an attached input that the chat does not show is        *)
(* published again, if the chat is still its attachment base.              *)
Republish(o) ==
    /\ Listening /\ slot = Free
    /\ Is(o, "attached") /\ run[o] = "none" /\ ~ InputShown(o)
    /\ live = rec[o].abase
    /\ live' = rec[o].ebase
    /\ UNCHANGED <<applied, image, staged, slot, acked, commitVars, inputVars>>

(* loadExecution finds work to do, the durable row says queued, and the    *)
(* run is put in the registry.                                             *)
CanRun(o) ==
    /\ Listening /\ run[o] = "none" /\ o \in snap /\ opState[o] = "queued"
    /\ Ready(o)
    /\ \/ Is(o, "queued") /\ rec[o].tf = "not_run"
       \/ Is(o, "attached") /\ InputShown(o)

Launch(o) ==
    /\ CanRun(o)
    /\ run' = [run EXCEPT ![o] = "launched"]
    /\ UNCHANGED <<opState, commit, anchor, starts, storeVars, inputVars>>

(* The registry is full of other chats' runs: the row is deleted and the   *)
(* input is settled as cancelled.                                          *)
LaunchRefused(o) ==
    /\ CanRun(o)
    /\ opState' = [opState EXCEPT ![o] = "none"]
    /\ SettleAndRelease(o, "cancelled")
    /\ UNCHANGED <<commit, run, anchor, starts, storeVars>>
    /\ KeepHistory

(* runDetachedTurn: one run at a time is past "launched".                  *)
MyTurn(o) == \A p \in Ops \ {o} : run[p] \in {"none", "launched"}

(* beginTransform: advancePredecessor is a storage operation of its own.   *)
CheckPredecessor(o) ==
    /\ run[o] = "launched" /\ slot = Free /\ MyTurn(o)
    /\ Ready(o)
    /\ run' = [run EXCEPT ![o] = "checked"]
    /\ UNCHANGED <<opState, commit, anchor, starts, storeVars, inputVars>>

(* The next one reads the record again before it starts the transform.     *)
CanBegin(o) ==
    /\ Is(o, "queued") /\ rec[o].tf = "not_run"
    /\ opState[o] # "cancelled" /\ o \in snap

Begin(o) ==
    /\ run[o] = "checked" /\ slot = Free
    /\ CanBegin(o)
    /\ rec' = [rec EXCEPT ![o].tf = "running"]
    /\ tbase' = [tbase EXCEPT ![o] = live]
    /\ run' = [run EXCEPT ![o] = "transforming"]
    /\ UNCHANGED <<opState, commit, anchor, starts, storeVars, snap>>
    /\ KeepHistory

(* The latest settings do not allow the server to prepare the input.       *)
BeginRejected(o) ==
    /\ run[o] = "checked" /\ slot = Free
    /\ CanBegin(o)
    /\ BlockEdit(o, "not_run", FALSE)
    /\ EndSilently(o)
    /\ KeepHistory

BeginAttached(o) ==
    /\ run[o] = "checked" /\ slot = Free
    /\ Is(o, "attached")
    /\ run' = [run EXCEPT ![o] = "prepared"]
    /\ UNCHANGED <<opState, commit, anchor, starts, storeVars, inputVars>>

(* Nothing to begin: cancelled or blocked meanwhile, or no longer ready.   *)
BeginRefused(o) ==
    /\ slot = Free
    /\ \/ run[o] = "launched" /\ MyTurn(o) /\ ~ Ready(o)
       \/ run[o] = "checked" /\ ~ CanBegin(o) /\ ~ Is(o, "attached")
    /\ EndSilently(o)
    /\ UNCHANGED inputVars
-----------------------------------------------------------------------------
(* The transform itself fails: how far its effects got is not known.       *)
TransformFails(o) ==
    /\ run[o] = "transforming" /\ slot # o
    /\ Is(o, "queued")
    /\ rec' = [rec EXCEPT ![o].tf = "unknown"]
    /\ snap' = snap \ {o}
    /\ tbase' = [tbase EXCEPT ![o] = NoChat]
    /\ EndSilently(o)
    /\ KeepHistory

(* The host cannot run the transform: stopUnsupportedInputSynchronously.   *)
TransformUnsupported(o) ==
    /\ run[o] = "transforming" /\ slot # o
    /\ Is(o, "queued")
    /\ BlockEdit(o, "completed", FALSE)
    /\ EndSilently(o)
    /\ KeepHistory

(* The input was cancelled while its transform ran, or while its           *)
(* attachment was prepared.                                                *)
TransformCancelled(o) ==
    /\ run[o] = "transforming" /\ slot \in {Free, o}
    /\ ~ Is(o, "queued")
    /\ slot' = Free
    /\ RunEnds(o)
    /\ UNCHANGED <<opState, commit, starts, live, applied, image, staged,
                   acked, inputVars>>

(* resolveInputAttachment: whatever the chat has behind the last message   *)
(* that the transform knew was written meanwhile.                          *)
LastKnown(base, chat) ==
    LET known == {k \in DOMAIN chat.msgs : chat.msgs[k] \in Shown(base)}
    IN  IF known = {} THEN 0 ELSE Max(known)
CanAttach(o) == LastKnown(tbase[o], live) = Len(live.msgs)

AttachConflict(o) ==
    /\ run[o] = "transforming" /\ slot = Free
    /\ Is(o, "queued") /\ ~ CanAttach(o)
    /\ BlockEdit(o, "completed", FALSE)
    /\ EndSilently(o)
    /\ KeepHistory

(* Mutation: the chat is shown before its transaction.                     *)
AttachShownFirst(o) ==
    /\ run[o] = "transforming" /\ slot = Free
    /\ Is(o, "queued") /\ CanAttach(o)
    /\ slot' = o
    /\ live' = Insert(live, Len(live.msgs), Input(o))
    /\ UNCHANGED <<applied, image, staged, acked, commitVars, inputVars>>

(* attachTransformed resolves the input against the chat of now, then      *)
(* waits for the journal stage with the storage queue held.                *)
AttachPrepare(o) ==
    /\ run[o] = "transforming" /\ slot = Free
    /\ Is(o, "queued") /\ CanAttach(o)
    /\ slot' = o
    /\ UNCHANGED <<live, applied, image, staged, acked, commitVars, inputVars>>

(* The transaction writes the op journal, the receipt and the attached     *)
(* state; the publication after it may fail, and ends the run when it does.*)
AttachTx(o, publishes) ==
    /\ run[o] = "transforming" /\ slot = o
    /\ Is(o, "queued")
    /\ LET chat == Insert(live, Len(live.msgs), Input(o)) IN
         /\ rec' = [rec EXCEPT ![o].st = "attached", ![o].tf = "completed",
                               ![o].abase = live, ![o].ebase = chat]
         /\ live' = IF publishes THEN chat ELSE live
    /\ opState' = [opState EXCEPT ![o] = "queued"]
    /\ run' = [run EXCEPT ![o] = IF publishes THEN "prepared" ELSE "none"]
    /\ tbase' = [tbase EXCEPT ![o] = NoChat]
    /\ slot' = Free
    /\ UNCHANGED <<commit, anchor, starts, applied, image, staged, acked, snap>>
    /\ KeepHistory
-----------------------------------------------------------------------------
(* The run goes on only while it was not told to stop.                     *)
AssemblePrompt(o) ==
    /\ Is(o, "attached")
    /\ Assemble(o)
    /\ UNCHANGED inputVars

AssemblyConflict(o) ==
    /\ run[o] = "prepared" /\ slot = Free
    /\ Is(o, "attached") /\ ~ CanAssemble(o)
    /\ SettleAndRelease(o, "failed")
    /\ EndWithResult(o)
    /\ KeepHistory

(* An error before the provider, or the abort of a cancel: the record      *)
(* stays as it is, an attached input may be started again.                 *)
RunStops(o) ==
    /\ run[o] \in {"prepared", "assembled"}
    /\ EndSilently(o)
    /\ UNCHANGED inputVars

StartProvider(o) == ProviderStart(o) /\ UNCHANGED inputVars

GenerationReady(o) ==
    /\ Is(o, "attached")
    /\ GenerationSucceeds(o)
    /\ UNCHANGED inputVars

(* The provider failed, or the answer has no place in the chat any more.   *)
GenerationFails(o) ==
    /\ \/ run[o] = "generating"
       \/ run[o] = "committing" /\ slot = Free /\ CommitGateOpen(o) /\ ~ AnswerHasPlace(o)
    /\ Is(o, "attached")
    /\ SettleAndRelease(o, "failed")
    /\ EndWithResult(o)
    /\ KeepHistory

GenerationCancelled(o) ==
    /\ run[o] = "generating" /\ ~ Is(o, "attached")
    /\ EndSilently(o)
    /\ UNCHANGED inputVars

PrepareCommit(o) == CommitPrepare(o) /\ UNCHANGED inputVars

(* The input is settled inside the commit transaction, and the transaction *)
(* fails when the record was settled otherwise.                            *)
CommitAnswer(o, publishes) ==
    /\ Is(o, "attached")
    /\ CommitTx(o, publishes)
    /\ Settle(o, "completed")
    /\ UNCHANGED <<snap, tbase>>
    /\ KeepHistory

AnswerCancelled(o) ==
    /\ CommitCancelled(o)
    /\ SettleAndRelease(o, "cancelled")
    /\ KeepHistory

(* finalizeInputCommit, a storage operation of its own after the commit.   *)
Finalize(o) ==
    /\ run[o] \in {"published", "unpublished"} /\ slot = Free
    /\ rec' = [rec EXCEPT ![o].pub = @ \/ run[o] = "published"]
    /\ snap' = snap \ {o}
    /\ EndSilently(o)
    /\ UNCHANGED tbase
    /\ KeepHistory
-----------------------------------------------------------------------------
(* DELETE of the operation. It needs no storage operation, so it can come  *)
(* between any two steps, even before the start request has arrived. A     *)
(* repeated one has nothing left to do, unless the process died in the     *)
(* first.                                                                  *)
CanCancel(o) ==
    /\ Listening /\ CancelAllowed(o)
    /\ opState[o] # "cancelled" \/ Live(o)

Cancel(o) ==
    /\ CanCancel(o)
    /\ WriteCancelled(o)
    /\ SettleAndRelease(o, "cancelled")
    /\ cancelled' = IF o \in Admitted THEN cancelled \cup {o} ELSE cancelled
    /\ early' = IF o \in Admitted THEN early ELSE early \cup {o}
    /\ UNCHANGED <<storeVars, todo, restarts>>

(* Mutation: a commit is left to its run while there is one.               *)
PendingWithoutRun(o) == Committed(o) /\ ~ (o \in applied /\ rec[o].pub) /\ run[o] = "none"

(* Commits whose publication is not recorded as done.                      *)
Pending(o) == Committed(o) /\ ~ (o \in applied /\ rec[o].pub)

RecordPublished(o) ==
    /\ rec' = [rec EXCEPT ![o].pub = TRUE]
    /\ snap' = snap \ {o}
    /\ UNCHANGED <<tbase, commitVars>>

(* A save of the user first recovers every pending commit of the chat, in  *)
(* its own storage operation, and is refused when that fails; so does a    *)
(* request for the result.                                                 *)
RecoverCommit(o) ==
    /\ Listening /\ slot = Free /\ Pending(o)
    /\ PublishCommit(o)
    /\ RecordPublished(o)
    /\ KeepHistory

SaveChat ==
    /\ Listening
    /\ \A o \in Ops : ~ Pending(o)
    /\ ClientSave
    /\ UNCHANGED <<commitVars, inputVars>>

WriteImage == PersistImage /\ UNCHANGED <<commitVars, inputVars>>
DropJournal == ClearJournal /\ UNCHANGED <<commitVars, inputVars>>
-----------------------------------------------------------------------------
(* The process dies at any point and starts again. The chat is loaded, and *)
(* startup recovery takes up the inputs before the server listens. A       *)
(* cancel writes the row before the input record, and without a            *)
(* transaction: the process may die in between.                            *)
Crash ==
    /\ restarts < MaxRestarts
    /\ Restart
    /\ ForgetRuns
    /\ \/ UNCHANGED opState
       \/ \E o \in Ops : CanCancel(o) /\ opState' = [opState EXCEPT ![o] = "cancelled"]
    /\ snap' = {}
    /\ tbase' = [o \in Ops |-> NoChat]
    /\ todo' = Admitted
    /\ restarts' = restarts + 1
    /\ UNCHANGED <<rec, cancelled, early>>

(* recoverAll takes the inputs in the order of admission.                  *)
NextToRecover(o) ==
    /\ o \in todo /\ slot = Free
    /\ \A p \in todo : rec[o].seq <= rec[p].seq
    /\ todo' = todo \ {o}
    /\ UNCHANGED <<restarts, cancelled, early>>

RecoverCompleted(o) ==
    /\ NextToRecover(o)
    /\ Is(o, "completed")
    /\ PublishCommit(o)
    /\ RecordPublished(o)

(* A transform that was running has an outcome that nobody knows.          *)
RecoverTransform(o) ==
    /\ NextToRecover(o)
    /\ Is(o, "queued")
    /\ rec' = [rec EXCEPT ![o].tf = IF @ = "running" THEN "unknown" ELSE @]
    /\ UNCHANGED <<storeVars, commitVars, snap, tbase>>

(* Mutation: the op journal is published without looking whether the input *)
(* has a receipt, and what it was resolved against.                        *)
RecoverUnattached(o) ==
    /\ NextToRecover(o)
    /\ ~ Is(o, "completed") /\ ~ Is(o, "queued")
    /\ live' = rec[o].ebase
    /\ UNCHANGED <<applied, image, staged, slot, acked, commitVars, rec, snap, tbase>>

(* publishAttached, of every input with a receipt that has no answer: the  *)
(* op journal goes over the chat that it was resolved against.             *)
RecoverAttached(o) ==
    /\ NextToRecover(o)
    /\ ~ Is(o, "completed") /\ ~ Is(o, "queued")
    /\ live' = IF HasReceipt(o) /\ live = rec[o].abase THEN rec[o].ebase ELSE live
    /\ UNCHANGED <<applied, image, staged, slot, acked, commitVars, rec, snap, tbase>>
-----------------------------------------------------------------------------
Run(o) ==
    \/ Republish(o) \/ Launch(o) \/ LaunchRefused(o)
    \/ CheckPredecessor(o) \/ Begin(o) \/ BeginRejected(o)
    \/ BeginAttached(o) \/ BeginRefused(o)
    \/ TransformFails(o) \/ TransformUnsupported(o) \/ TransformCancelled(o)
    \/ AttachConflict(o) \/ AttachPrepare(o)
    \/ \E publishes \in BOOLEAN : AttachTx(o, publishes)
    \/ AssemblePrompt(o) \/ AssemblyConflict(o) \/ RunStops(o)
    \/ StartProvider(o) \/ GenerationReady(o) \/ GenerationFails(o)
    \/ GenerationCancelled(o)
    \/ PrepareCommit(o) \/ AnswerCancelled(o)
    \/ \E publishes \in BOOLEAN : CommitAnswer(o, publishes)
    \/ Finalize(o)

InputNext ==
    \/ \E o \in Ops, c \in Commands, replaced \in Ops \cup {NoOp} :
          Admit(o, c, replaced)
    \/ \E o \in Ops :
          \/ CascadeBlock(o) \/ RevisionBlock(o) \/ Resolve(o)
          \/ Run(o)
          \/ Cancel(o) \/ RecoverCommit(o)
          \/ RecoverCompleted(o) \/ RecoverTransform(o) \/ RecoverAttached(o)
    \/ SaveChat \/ WriteImage \/ DropJournal \/ Crash

InputSpec == InputInit /\ [][InputNext]_vars
-----------------------------------------------------------------------------
(* The chats that are served or that a restart may load.                   *)
ChatCopies == {live, image.chat} \cup ({staged} \ {NoChat})

(* attachTransformed: an input reaches no copy of the chat before its      *)
(* durable receipt, and an answer none before its commit record. It is     *)
(* what readCancelledInputProof relies on when it calls an interrupted     *)
(* transform without a receipt "none".                                     *)
DurableBeforeShown ==
    \A chat \in ChatCopies, o \in Ops :
       /\ Input(o) \in Shown(chat) => HasReceipt(o)
       /\ Answer(o) \in Shown(chat) => Committed(o)

(* admit: of all the operations that try a command, at most one is not     *)
(* superseded by a retry.                                                  *)
OneTryPerCommand ==
    \A c \in Commands : \A p, q \in Unresolved(c) : p = q

(* However often a command is retried, restarted or cancelled, one         *)
(* operation at most ever puts its input in the chat.                      *)
CommandOnce ==
    \A p, q \in Ops :
       HasReceipt(p) /\ HasReceipt(q) /\ rec[p].cmd = rec[q].cmd => p = q

(* The durable row is "an exact paid-work tombstone": the provider is      *)
(* started once at most for a command, over all its operations.            *)
PaidOnce ==
    \A p, q \in Admitted :
       /\ starts[p] <= 1
       /\ starts[p] = 1 /\ starts[q] = 1 /\ rec[p].cmd = rec[q].cmd => p = q

(* A cancel of an admitted input that the server acknowledged is final: no *)
(* answer is committed, wherever the run was when it came, even inside the *)
(* wait of a commit.                                                       *)
CancelWins == \A o \in cancelled : ~ Committed(o)

(* While a commit waits for its publication nobody else changes the chat,  *)
(* so the recovery that puts the stored chat in its place overwrites       *)
(* nothing: later inputs wait, and saves are recovered first or refused.   *)
UnpublishedFrozen ==
    \A o \in Ops :
       Listening /\ Committed(o) /\ o \notin applied => live = commit[o].base

(* The chat reads as a conversation, whatever the user inserts or deletes  *)
(* meanwhile: inputs in the order of admission, each answer behind its own *)
(* input and before the next.                                              *)
Turn(m) == 2 * rec[m[2]].seq + (IF m[1] = "char" THEN 1 ELSE 0)
ConversationOrder ==
    \A i, j \in DOMAIN live.msgs :
       /\ i < j
       /\ live.msgs[i][1] # "note" /\ live.msgs[j][1] # "note"
       => Turn(live.msgs[i]) < Turn(live.msgs[j])

(* Settings snapshots are few, and one that stays behind refuses every     *)
(* later input: no snapshot outlives the run of its input.                 *)
SnapshotReleased ==
    \A o \in snap : Live(o) \/ run[o] \in {"published", "unpublished"}

(* An input joins the chat only after every input before it is over, and   *)
(* after their answers can be read in the chat that it joins.              *)
TurnsInOrder ==
    [][\A o \in Admitted :
          HasReceipt(o)' /\ ~ HasReceipt(o) =>
             \A p \in Before(o) :
                ~ Live(p) /\ (Committed(p) => p \in applied)]_vars

(* The effects of a transform that runs, or whose outcome a failure or a   *)
(* restart left unknown, are not repeated: no other try of the command     *)
(* begins a transform, and its own operation does not begin it again.      *)
TransformNotRepeated ==
    [][\A o, p \in Admitted :
          /\ rec[o].tf # "running" /\ rec'[o].tf = "running"
          /\ rec[p].cmd = rec[o].cmd
          => rec[p].tf \notin {"running", "unknown"}]_vars

(* The outcome of an input is decided once: a late failure, cancel or      *)
(* recovery never turns one outcome into another.                          *)
OutcomeFinal ==
    [][\A o \in Admitted : ~ Live(o) => rec'[o].st = rec[o].st]_vars

(* Without a restart, what the user saves while the server prepares,       *)
(* generates, commits and recovers is still served: the texts, the         *)
(* messages added, and the deletion of any but an input.                   *)
ConcurrentEditsServed ==
    /\ live.ver = acked.ver
    /\ acked.added \ acked.removed \subseteq Shown(live)
    /\ \A m \in acked.removed : m[1] = "user" \/ m \notin Shown(live)

(* Without a restart, an answer that was published stays in the chat until *)
(* the user deletes it: no later attachment or recovery drops it.          *)
AnswersServed ==
    \A o \in applied : Answer(o) \in Shown(live) \cup acked.removed
-----------------------------------------------------------------------------
(* What the comments and the tests of the code say, and the code does not  *)
(* keep.                                                                   *)

(* "lets a blocked root recover without depending on its never-executed    *)
(* cascade": a retry is not blocked by an input that only waits for it.    *)
RetryNotInOwnCascade ==
    \A r, f \in Ops :
       ~ /\ Cascaded(r) /\ rec[r].pred = f
         /\ Cascaded(f) /\ LatestReplacement(rec[f].pred) = r

(* "The journal makes the server's success response durable": the text     *)
(* that the server acknowledged is served, after a restart too.            *)
AckedTextServed == Listening => live.ver = acked.ver

(* "concurrent user edits win, including deletion": an input that the user *)
(* deleted does not come back.                                             *)
DeletedInputStaysDeleted ==
    \A o \in Ops : Input(o) \in acked.removed => Input(o) \notin Shown(live)

(* "the later POST sees this tombstone and never reaches provider work".   *)
EarlyCancelWins == \A o \in early : starts[o] = 0

(* "Journal content is newer than database.bin (or byte-identical ...)":   *)
(* an answer that the image records as applied is in the chat that a       *)
(* restart would load.                                                     *)
RestartKeepsAnswers ==
    \A o \in image.applied : Answer(o) \in Shown(Reloaded) \cup acked.removed
=============================================================================
