------------------------------ MODULE ChatStore ------------------------------
(***************************************************************************)
(* One chat as the node server of the lazy-chat-sync patch keeps it: the   *)
(* copy in memory that every request reads, the image of it in             *)
(* database.bin, and the chat write journal that makes a save durable      *)
(* before the debounced write of the image.                                *)
(*                                                                         *)
(* The revision of a chat is a hash of its content, so two chats have the  *)
(* same revision exactly when they are equal here.                         *)
(***************************************************************************)
EXTENDS Naturals, Sequences, SequencesExt

CONSTANTS
    Ops,        \* operations: one input of the user and the answer to it
    Notes,      \* other messages that the user adds to the chat
    MaxSaves,   \* bound: saves of the user in a behaviour
    NoChat,     \* "there is no chat here" (a missing key)
    Free,       \* the storage queue runs no operation
    Persisting  \* the storage queue is inside the debounced persist

Input(o) == <<"user", o>>
Answer(o) == <<"char", o>>
Note(n) == <<"note", n>>
Message == ({"user", "char"} \X Ops) \cup ({"note"} \X Notes)

(* The text of the messages is abstracted to the number of the last edit   *)
(* of the user that it contains.                                           *)
Chat == [msgs : Seq(Message), ver : 0..MaxSaves]
Acked == [saves : 0..MaxSaves, ver : 0..MaxSaves,
          added : SUBSET Message, removed : SUBSET Message]

ASSUME StoreAssumption ==
    /\ MaxSaves \in Nat
    /\ Free # Persisting
    /\ {Free, Persisting} \cap Ops = {}
    /\ NoChat \notin Chat

VARIABLES
    live,    \* fullChatStore: the chat that requests read and compare against
    applied, \* operations in the applied ledger of dbCache
    image,   \* database.bin: the chat and the ledger, durable
    staged,  \* the ordinary record of the chat write journal, durable
    slot,    \* who runs in queueStorageOperation: the queue runs one at a time
    acked    \* history: what the user's acknowledged saves contained

storeVars == <<live, applied, image, staged, slot, acked>>

Shown(chat) == ToSet(chat.msgs)
(* chat with message m put after its first k messages                      *)
Insert(chat, k, m) == [chat EXCEPT !.msgs = InsertAt(@, k + 1, m)]
Drop(chat, k) == [chat EXCEPT !.msgs = RemoveAt(@, k)]

StoreTypeOK ==
    /\ live \in Chat
    /\ applied \in SUBSET Ops
    /\ image \in [chat : Chat, applied : SUBSET Ops]
    /\ staged \in Chat \cup {NoChat}
    /\ slot \in Ops \cup {Free, Persisting}
    /\ acked \in Acked

StoreInit ==
    /\ live = [msgs |-> <<>>, ver |-> 0]
    /\ applied = {}
    /\ image = [chat |-> [msgs |-> <<>>, ver |-> 0], applied |-> {}]
    /\ staged = NoChat
    /\ slot = Free
    /\ acked = [saves |-> 0, ver |-> 0, added |-> {}, removed |-> {}]
-----------------------------------------------------------------------------
(* What the user can turn chat c into with one save, and what the save     *)
(* adds to the history: edit a text, write a message, or delete one.       *)
Edits(c) ==
    {<<[c EXCEPT !.ver = acked.saves + 1],
       [acked EXCEPT !.ver = acked.saves + 1]>>}
    \cup {<<Insert(c, k, Note(n)), [acked EXCEPT !.added = @ \cup {Note(n)}]>> :
             k \in 0..Len(c.msgs), n \in {x \in Notes : Note(x) \notin acked.added}}
    \cup {<<Drop(c, k), [acked EXCEPT !.removed = @ \cup {c.msgs[k]}]>> :
             k \in DOMAIN c.msgs}

(* A full or a delta save whose base revision is the revision of live. It  *)
(* is journalled first, then put in memory, then acknowledged, all in one  *)
(* storage operation. A save from an older base is refused and changes     *)
(* nothing, so it is no step here.                                         *)
SaveFrom(c) ==
    /\ slot = Free
    /\ acked.saves < MaxSaves
    /\ \E edit \in Edits(c) :
         /\ staged' = edit[1]
         /\ live' = edit[1]
         /\ acked' = [edit[2] EXCEPT !.saves = @ + 1]

ClientSave ==
    /\ SaveFrom(live)
    /\ UNCHANGED <<applied, image, slot>>

(* The debounced persist writes the image, then clears the journal: two    *)
(* durable writes of one storage operation.                                *)
PersistImage ==
    /\ slot = Free
    /\ image' = [chat |-> live, applied |-> applied]
    /\ slot' = Persisting
    /\ UNCHANGED <<live, applied, staged, acked>>

ClearJournal ==
    /\ slot = Persisting
    /\ staged' = NoChat
    /\ slot' = Free
    /\ UNCHANGED <<live, applied, image, acked>>

(* Mutation: the journal is loaded even when it has no record.             *)
ReloadedFromJournal == staged

(* The chat that initChatStore builds: the image with the journal over it. *)
Reloaded == IF staged = NoChat THEN image.chat ELSE staged

Restart ==
    /\ live' = Reloaded
    /\ applied' = image.applied
    /\ slot' = Free
    /\ UNCHANGED <<image, staged, acked>>

StoreNext == ClientSave \/ PersistImage \/ ClearJournal \/ Restart
StoreSpec == StoreInit /\ [][StoreNext]_storeVars
-----------------------------------------------------------------------------
(* Whatever the server acknowledged is in the chat that it serves: the     *)
(* last edited text, every message added and none of those deleted. A      *)
(* restart at any point, between the two writes of a persist too, must     *)
(* not undo it.                                                            *)
AckedEditsServed ==
    /\ live.ver = acked.ver
    /\ acked.added \ acked.removed \subseteq Shown(live)
    /\ acked.removed \cap Shown(live) = {}

(* What a restart would load now is what is being served: the journal and  *)
(* the image together never lag behind memory.                             *)
RestartLosesNothing == Reloaded = live
=============================================================================
