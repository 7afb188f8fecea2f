--------------------------- MODULE ServerChatCommit ---------------------------
(***************************************************************************)
(* The run of an operation on the server (bgOrchestrator) from the moment  *)
(* its input is in the chat, and the commit of its answer: assembly of the *)
(* prompt, the start of the provider, the durable commit transaction, its  *)
(* publication into the chat that is served, and its recovery.             *)
(*                                                                         *)
(* The actions say what happens to the chat, to the durable operation      *)
(* state and to the run; ServerChatInput adds what happens to the record   *)
(* of the input in the same step.                                          *)
(***************************************************************************)
EXTENDS ChatStore

CONSTANT NoCommit  \* there is no commit record of the operation

Commits == [base : Chat, chat : Chat]

ASSUME CommitAssumption == NoCommit \notin Commits

VARIABLES
    opState, \* durable lifecycle row of the operation
    commit,  \* durable commit record and op journal: base and stored chat
    run,     \* entry in the registry of runs: how far the run has come
    anchor,  \* the chat that the prompt of the run was assembled from
    starts   \* history: how often the provider was started

commitVars == <<opState, commit, run, anchor, starts>>

Phases == {"none", "launched", "checked", "transforming", "prepared",
           "assembled", "generating", "committing", "published", "unpublished"}
OpStates == {"none", "queued", "running", "result-ready", "cancelled",
             "chat-committed"}
CommitTypeOK ==
    /\ opState \in [Ops -> OpStates]
    /\ commit \in [Ops -> Commits \cup {NoCommit}]
    /\ run \in [Ops -> Phases]
    /\ anchor \in [Ops -> Chat \cup {NoChat}]
    /\ starts \in [Ops -> Nat]

CommitInit ==
    /\ opState = [o \in Ops |-> "none"]
    /\ commit = [o \in Ops |-> NoCommit]
    /\ run = [o \in Ops |-> "none"]
    /\ anchor = [o \in Ops |-> NoChat]
    /\ starts = [o \in Ops |-> 0]

Committed(o) == commit[o] # NoCommit
(* The run has left the registry: finished, discarded or cancelled.        *)
RunEnds(o) ==
    /\ run' = [run EXCEPT ![o] = "none"]
    /\ anchor' = [anchor EXCEPT ![o] = NoChat]
-----------------------------------------------------------------------------
PositionOf(m, chat) == CHOOSE k \in DOMAIN chat.msgs : chat.msgs[k] = m
After(m, chat) ==
    {chat.msgs[k] : k \in {j \in DOMAIN chat.msgs : j > PositionOf(m, chat)}}

(* checkChatAnchor: the input is still there and everything behind it was  *)
(* there when the base was taken.                                          *)
AnchorHolds(o, base, chat) ==
    /\ Input(o) \in Shown(chat)
    /\ After(Input(o), chat) \subseteq base

(* Mutation: the answer goes before its input.                             *)
WithAnswerBefore(o, chat) == Insert(chat, PositionOf(Input(o), chat) - 1, Answer(o))
(* Mutation: the answer goes into the chat that the prompt was made from.  *)
WithAnswerInPrompt(o, chat) ==
    Insert(anchor[o], PositionOf(Input(o), anchor[o]), Answer(o))

(* resolveChatAnchor: the user's chat, with the answer behind its input.   *)
WithAnswer(o, chat) == Insert(chat, PositionOf(Input(o), chat), Answer(o))
-----------------------------------------------------------------------------
(* readAssemblyContext in the storage queue. It is anchored at the input   *)
(* alone, so nothing may stand behind the input.                           *)
CanAssemble(o) == AnchorHolds(o, {}, live)

Assemble(o) ==
    /\ run[o] = "prepared" /\ slot = Free
    /\ CanAssemble(o)
    /\ run' = [run EXCEPT ![o] = "assembled"]
    /\ anchor' = [anchor EXCEPT ![o] = live]
    /\ UNCHANGED <<opState, commit, starts, storeVars>>

(* onProviderStart writes the running row whatever row is there.           *)
ProviderStart(o) ==
    /\ run[o] = "assembled"
    /\ run' = [run EXCEPT ![o] = "generating"]
    /\ opState' = [opState EXCEPT ![o] = "running"]
    /\ starts' = [starts EXCEPT ![o] = @ + 1]
    /\ UNCHANGED <<commit, anchor, storeVars>>

(* The provider returned an answer and the run asks for its commit.        *)
GenerationSucceeds(o) ==
    /\ run[o] = "generating"
    /\ run' = [run EXCEPT ![o] = "committing"]
    /\ UNCHANGED <<opState, commit, anchor, starts, storeVars>>

(* The run ends and leaves a parked result for the client to read.         *)
EndWithResult(o) ==
    /\ RunEnds(o)
    /\ opState' = [opState EXCEPT ![o] = "result-ready"]
    /\ UNCHANGED <<commit, starts, storeVars>>

EndSilently(o) ==
    /\ RunEnds(o)
    /\ UNCHANGED <<opState, commit, starts, storeVars>>
-----------------------------------------------------------------------------
(* operationGate passes and resolveAnchor finds the answer's place.        *)
CommitGateOpen(o) == opState[o] \in {"running", "result-ready"}
AnswerHasPlace(o) == AnchorHolds(o, After(Input(o), anchor[o]), live)

(* commitQueued resolves the answer against the chat of now, then waits    *)
(* for the journal stage to be prepared. It keeps the storage queue while  *)
(* it waits; a cancel does not need the queue.                             *)
CommitPrepare(o) ==
    /\ run[o] = "committing" /\ slot = Free
    /\ CommitGateOpen(o) /\ AnswerHasPlace(o)
    /\ slot' = o
    /\ UNCHANGED <<live, applied, image, staged, acked, commitVars>>

(* The commit transaction, after the gate is read again, and the           *)
(* publication, which may fail and leave the commit to a later recovery.   *)
(* The queue was held, so the chat is still the one that was resolved.     *)
CommitTx(o, publishes) ==
    /\ run[o] = "committing" /\ slot = o
    /\ CommitGateOpen(o)
    /\ LET chat == WithAnswer(o, live) IN
         /\ commit' = [commit EXCEPT ![o] = [base |-> live, chat |-> chat]]
         /\ live' = IF publishes THEN chat ELSE live
         /\ applied' = IF publishes THEN applied \cup {o} ELSE applied
    /\ run' = [run EXCEPT ![o] = IF publishes THEN "published" ELSE "unpublished"]
    /\ opState' = [opState EXCEPT ![o] = "chat-committed"]
    /\ slot' = Free
    /\ UNCHANGED <<anchor, starts, image, staged, acked>>

CommitCancelled(o) ==
    /\ run[o] = "committing" /\ slot \in {Free, o}
    /\ opState[o] = "cancelled"
    /\ slot' = Free
    /\ RunEnds(o)
    /\ UNCHANGED <<opState, commit, starts, live, applied, image, staged, acked>>

(* Mutation: the ledger is written, the chat is not.                       *)
PublishInLedgerOnly(o) ==
    /\ applied' = applied \cup {o}
    /\ UNCHANGED <<live, image, staged, slot, acked>>

(* publishCanonicalState: a commit that the ledger has is not put in the   *)
(* chat again; any other replaces the chat by the stored one.              *)
PublishCommit(o) ==
    /\ live' = IF o \in applied THEN live ELSE commit[o].chat
    /\ applied' = applied \cup {o}
    /\ UNCHANGED <<image, staged, slot, acked>>

(* Mutation: a cancel does not look for a commit record.                   *)
CancelAllowedLate(o) == run[o] # "none" \/ opState[o] # "result-ready"

(* The durable part of a cancel request: refused once there is a commit or *)
(* a result, else the row becomes cancelled. The run is only told to stop. *)
CancelAllowed(o) ==
    /\ ~ Committed(o)
    /\ run[o] # "none" \/ opState[o] # "result-ready"

WriteCancelled(o) ==
    /\ opState' = [opState EXCEPT ![o] = "cancelled"]
    /\ UNCHANGED <<commit, run, anchor, starts>>

(* What a restart of the process leaves of a run: the durable rows.        *)
ForgetRuns ==
    /\ run' = [o \in Ops |-> "none"]
    /\ anchor' = [o \in Ops |-> NoChat]
    /\ UNCHANGED <<commit, starts>>
=============================================================================
