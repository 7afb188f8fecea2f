----------------------------- MODULE ClientSaves -----------------------------
(***************************************************************************)
(* One page of the browser that saves a chat while others save it too:     *)
(* other pages and devices, and the server with the answers it commits.    *)
(* The page sends the whole chat, or the difference to what it last        *)
(* loaded, together with the revision of that base; the server refuses it  *)
(* when the chat has moved on, and the page reads the chat, merges it with *)
(* its own edits (ChatSaveRebase), shows the result and tries again.       *)
(*                                                                         *)
(* A request and the handling of its answer are one step unless the answer *)
(* is lost: what happens between them does not depend on the other.        *)
(***************************************************************************)
EXTENDS ChatSaveRebase

CONSTANT MaxFaults  \* bound: lost requests and answers in a behaviour

ASSUME ClientAssumption == MaxFaults \in Nat

VARIABLES
    view,    \* the chat in the page, with all edits of its user
    tracked, \* changeTracker names the chat: a save of it has to follow
    sync,    \* chatSyncStates: the chat as the page last knew it to be saved
    save,    \* the save in progress
    stray,   \* a request that the page gave up and the server may still see
    mine,    \* history: what the user of this page has done, see below
    faults   \* bound: counts up to MaxFaults

pageVars == <<view, tracked, sync, save, stray, mine, faults>>
savesVars == <<storeVars, pageVars>>

Idle == [at |-> "idle", body |-> NoChat, base |-> NoChat, rev |-> NoChat, tries |-> 0]
NoRequest == [base |-> NoChat, body |-> NoChat]
(* what the page remembers of a chat that it has read, or saved with an    *)
(* acknowledged revision                                                   *)
Known(chat) == [chat |-> chat, held |-> TRUE, versioned |-> TRUE]

SavesTypeOK ==
    LET chats == Chat \cup {NoChat}
    IN  /\ StoreTypeOK
        /\ view \in Chat
        /\ tracked \in BOOLEAN
        /\ sync \in [chat : Chat, held : BOOLEAN, versioned : BOOLEAN]
        /\ save \in [at : {"idle", "reprint", "baseline", "sent", "confirm"},
                     body : chats, base : chats, rev : chats, tries : 0..2]
        /\ stray \in [base : chats, body : chats]
        /\ mine \in [added : SUBSET Message, removed : SUBSET Message,
                     returning : SUBSET Message, unsure : SUBSET Message,
                     typed : SUBSET (1..MaxSaves), kept : BOOLEAN]
        /\ faults \in 0..MaxFaults

SavesInit ==
    /\ StoreInit
    /\ view = live
    /\ tracked = FALSE
    /\ sync = Known(live)
    /\ save = Idle
    /\ stray = NoRequest
    /\ mine = [added |-> {}, removed |-> {}, returning |-> {}, unsure |-> {},
               typed |-> {}, kept |-> TRUE]
    /\ faults = 0
-----------------------------------------------------------------------------
(* Bound: edits in the page and saves of others count to MaxSaves.         *)
Counted ==
    /\ acked.saves < MaxSaves
    /\ acked' = [acked EXCEPT !.saves = @ + 1]

(* The user edits the chat in the page, whatever a save is doing.          *)
UserEdit ==
    /\ Counted
    /\ tracked' = TRUE
    /\ UNCHANGED <<live, applied, image, staged, slot, sync, save, stray, faults>>

Type ==
    /\ UserEdit
    /\ view' = [view EXCEPT !.ver = acked.saves + 1]
    /\ mine' = [mine EXCEPT !.typed = @ \cup {acked.saves + 1}, !.kept = FALSE]

Write(n) ==
    /\ UserEdit
    /\ Note(n) \notin acked.added \cup mine.added
    /\ \E k \in 0..Len(view.msgs) : view' = Insert(view, k, Note(n))
    /\ mine' = [mine EXCEPT !.added = @ \cup {Note(n)}]

Strike(k) ==
    /\ UserEdit
    /\ view' = Drop(view, k)
    /\ mine' = IF view.msgs[k] \in mine.unsure
               THEN [mine EXCEPT !.returning = @ \cup {view.msgs[k]}]
               ELSE [mine EXCEPT !.removed = @ \cup {view.msgs[k]}]

(* Someone else saves the chat; a new message has an id of its own.        *)
OtherSave ==
    /\ ClientSave
    /\ Shown(live') \cap mine.added \subseteq Shown(live)
    /\ UNCHANGED pageVars
-----------------------------------------------------------------------------
(* What a save starts from: the chat that its edits were made to, as far   *)
(* as the page still has it or can tell that it has not changed.           *)
RemoteBase == IF sync.held \/ (~sync.versioned /\ view = sync.chat)
              THEN sync.chat ELSE NoChat

(* saveChatContentAttempt up to its request: a chat without a revision is  *)
(* read first, and nothing is sent when nothing has changed                *)
Attempt(s, known) ==
    IF ~known.versioned THEN [s EXCEPT !.at = "baseline"]
    ELSE IF known.held /\ known.chat = s.body THEN Idle
    ELSE [s EXCEPT !.at = "sent"]

Take ==
    /\ tracked
    /\ save.at = "idle"
    /\ tracked' = FALSE
    /\ LET s == [at |-> "reprint", body |-> view, base |-> RemoteBase, tries |-> 0,
                 rev |-> IF sync.versioned THEN sync.chat ELSE NoChat]
       IN  save' = IF ~sync.versioned /\ RemoteBase = NoChat
                   THEN s ELSE Attempt(s, sync)
    /\ UNCHANGED <<storeVars, view, sync, stray, mine, faults>>

(* The page knows only a fingerprint of what it saved last: it reads the   *)
(* chat and, if that is still it, has its base back.                       *)
Reprint ==
    /\ save.at = "reprint"
    /\ IF live = sync.chat
       THEN /\ sync' = Known(live)
            /\ save' = Attempt([save EXCEPT !.base = live, !.rev = live], Known(live))
       ELSE /\ save' = Attempt(save, sync)
            /\ UNCHANGED sync
    /\ UNCHANGED <<storeVars, view, tracked, stray, mine, faults>>

(* Mutation: the server does not compare the base with what it serves.     *)
AcceptsAny(base, body) ==
    /\ slot = Free
    /\ base # NoChat
    /\ staged' = body
    /\ live' = body
    /\ acked' = [acked EXCEPT !.ver = body.ver,
                              !.added = @ \cup (Shown(body) \ Shown(live)),
                              !.removed = @ \cup (Shown(live) \ Shown(body))]
    /\ UNCHANGED <<applied, image, slot>>

(* The server takes a body whose base is the chat that it serves: into the *)
(* journal, then into memory.                                              *)
Accepts(base, body) ==
    /\ slot = Free
    /\ live = base
    /\ staged' = body
    /\ live' = body
    /\ acked' = [acked EXCEPT !.ver = body.ver,
                              !.added = @ \cup (Shown(body) \ Shown(live)),
                              !.removed = @ \cup (Shown(live) \ Shown(body))]
    /\ UNCHANGED <<applied, image, slot>>

HasNewest(chat) == chat.ver \in mine.typed /\ \A v \in mine.typed : v <= chat.ver
Kept(body) == mine.kept \/ HasNewest(body)
Fault == faults < MaxFaults /\ faults' = faults + 1

(* No answer: the server may have the messages of the body, or get them    *)
(* yet, and the page cannot tell. One that its user deletes meanwhile may  *)
(* come back with the next merge.                                          *)
InDoubt(body, kept) ==
    mine' = [mine EXCEPT !.unsure = @ \cup Shown(body),
                         !.returning = @ \cup (mine.removed \cap Shown(body)),
                         !.removed = @ \ Shown(body),
                         !.kept = kept]

(* Mutation: the save forgets the edits made while it was under way.       *)
SavedForgetting ==
    /\ save.at = "sent"
    /\ Accepts(sync.chat, save.body)
    /\ sync' = Known(save.body)
    /\ save' = Idle
    /\ stray' = NoRequest
    /\ mine' = [mine EXCEPT !.kept = Kept(save.body), !.unsure = {}]
    /\ tracked' = FALSE
    /\ UNCHANGED <<view, faults>>

Saved ==
    /\ save.at = "sent"
    /\ Accepts(sync.chat, save.body)
    /\ sync' = Known(save.body)
    /\ save' = Idle
    /\ stray' = NoRequest
    /\ mine' = [mine EXCEPT !.kept = Kept(save.body), !.unsure = {}]
    /\ UNCHANGED <<view, tracked, faults>>

(* The answer names no revision, or there is none: the page reads the chat *)
(* to find out.                                                            *)
SavedBare ==
    /\ save.at = "sent"
    /\ Fault
    /\ Accepts(sync.chat, save.body)
    /\ sync' = [chat |-> save.body, held |-> TRUE, versioned |-> FALSE]
    /\ save' = [save EXCEPT !.at = "confirm", !.base = save.body, !.rev = NoChat]
    /\ stray' = NoRequest
    /\ mine' = [mine EXCEPT !.kept = Kept(save.body), !.unsure = {}]
    /\ UNCHANGED <<view, tracked>>

AnswerLost ==
    /\ save.at = "sent"
    /\ Fault
    /\ Accepts(sync.chat, save.body)
    /\ save' = [save EXCEPT !.at = "confirm"]
    /\ stray' = NoRequest
    /\ InDoubt(save.body, Kept(save.body))
    /\ UNCHANGED <<view, tracked, sync>>

RequestLost ==
    /\ save.at = "sent"
    /\ Fault
    /\ save' = [save EXCEPT !.at = "confirm"]
    /\ stray' = [base |-> sync.chat, body |-> save.body]
    /\ InDoubt(save.body, mine.kept)
    /\ UNCHANGED <<storeVars, view, tracked, sync>>

Refused ==
    /\ save.at = "sent"
    /\ slot = Free
    /\ live # sync.chat
    /\ save' = [save EXCEPT !.at = "confirm"]
    /\ stray' = NoRequest
    /\ UNCHANGED <<storeVars, view, tracked, sync, mine, faults>>

(* A request that was given up reaches the server late, but before the     *)
(* page's next one.                                                        *)
Late ==
    /\ Accepts(stray.base, stray.body)
    /\ stray' = NoRequest
    /\ mine' = [mine EXCEPT !.kept = Kept(stray.body)]
    /\ UNCHANGED <<view, tracked, sync, save, faults>>

(* What the page learns from reading a chat that has messages S: a request *)
(* that is still under way keeps its messages in doubt.                    *)
Learns(S) ==
    mine' = [mine EXCEPT !.unsure = IF stray = NoRequest THEN @ \ S ELSE @]

(* The server has what the save wanted: the answer was lost, or others     *)
(* have come to the same chat.                                             *)
Confirmed ==
    /\ save.at \in {"confirm", "baseline"}
    /\ live = save.body
    /\ sync' = Known(live)
    /\ save' = Idle
    /\ Learns(Message)
    /\ UNCHANGED <<storeVars, view, tracked, stray, faults>>

(* Mutation: the view is replaced by the merge of the submitted body.      *)
MergesOfBody(fresh) ==
    IF save.base = NoChat \/ save.tries = 2 \/ fresh = save.rev
    THEN {} ELSE RebaseChatSave(save.base, save.body, fresh)

(* The server has another chat: the submitted body is merged with it, then *)
(* the view with the result, so that edits made during the request stay.   *)
Merges(fresh) ==
    UNION {RebaseChatSave(save.body, view, next) :
             next \in IF save.base = NoChat \/ save.tries = 2 \/ fresh = save.rev
                      THEN {} ELSE RebaseChatSave(save.base, save.body, fresh)}

(* Mutation: the next attempt still names the revision that was refused.   *)
MergedOnOld == sync

(* The merged view is an edit of the chat that was read.                   *)
Merged == Known(live)

Rebase ==
    /\ save.at \in {"confirm", "baseline"}
    /\ live # save.body
    /\ \E chat \in Merges(live) :
         /\ view' = chat
         /\ tracked' \in {tracked, tracked \/ chat # view}
         /\ save' = Attempt([save EXCEPT !.base = live, !.rev = live, !.body = chat,
                                         !.tries = @ + 1], Merged)
    /\ sync' = Merged
    /\ Learns(Shown(live))
    /\ UNCHANGED <<storeVars, stray, faults>>

(* The save fails and the tracker names the chat again.                    *)
Requeue ==
    /\ save' = Idle
    /\ tracked' = TRUE
    /\ UNCHANGED <<storeVars, view, sync, stray, mine>>

Conflict ==
    /\ save.at \in {"confirm", "baseline"}
    /\ live # save.body
    /\ Merges(live) = {}
    /\ Requeue
    /\ UNCHANGED faults

(* A read fails, or the page may not publish now (a reply is streaming).   *)
Falter ==
    /\ save.at \in {"reprint", "baseline", "confirm"}
    /\ Fault
    /\ Requeue

(* The read after an answer without a revision fails: the save is done, and *)
(* the next one has to find out what the server has.                       *)
Unconfirmed ==
    /\ save.at = "confirm"
    /\ ~sync.versioned
    /\ Fault
    /\ save' = Idle
    /\ UNCHANGED <<storeVars, view, tracked, sync, stray, mine>>

(* Other chats push the snapshot out of the page's memory; what it needs   *)
(* to recognise the chat stays.                                            *)
Evict ==
    /\ sync.held
    /\ sync' = [sync EXCEPT !.held = FALSE]
    /\ UNCHANGED <<storeVars, view, tracked, save, stray, mine, faults>>

StoreStep ==
    /\ PersistImage \/ ClearJournal \/ Restart
    /\ UNCHANGED pageVars

UserEdits ==
    Type \/ (\E n \in Notes : Write(n)) \/ (\E k \in DOMAIN view.msgs : Strike(k))
ReadsChat == Reprint \/ Confirmed \/ Rebase \/ Conflict
GetsAnswer == Saved \/ Refused
GoesWrong == SavedBare \/ AnswerLost \/ RequestLost \/ Late \/ Falter \/ Unconfirmed \/ Evict
SavesNext ==
    UserEdits \/ OtherSave \/ Take \/ ReadsChat \/ GetsAnswer \/ GoesWrong \/ StoreStep

SavesSpec == SavesInit /\ [][SavesNext]_savesVars
(* The page's loop takes what is tracked, a failed save after a pause too; *)
(* the storage queue lets every request have its turn.                     *)
FairSaves ==
    /\ SavesSpec
    /\ WF_savesVars(Take)
    /\ WF_savesVars(ReadsChat)
    /\ SF_savesVars(GetsAnswer)
    /\ WF_savesVars(ClearJournal /\ UNCHANGED pageVars)
-----------------------------------------------------------------------------
Quiet == save = Idle /\ ~tracked

(* When the tracker is empty and no save is in progress, everything the    *)
(* user has done in the page has been saved: texts, messages, deletions.   *)
QuietMeansSaved ==
    Quiet => /\ mine.kept
             /\ mine.added \ (mine.removed \cup mine.returning) \subseteq acked.added
             /\ mine.removed \cap acked.added \subseteq acked.removed

(* No merge, retry or lost answer undoes an edit in the page: its messages *)
(* stay until someone deletes them, its deletions stay, and its text is    *)
(* replaced only after it was saved.                                       *)
ViewKeepsEdits ==
    /\ mine.added \ (mine.removed \cup mine.returning \cup acked.removed)
          \subseteq Shown(view)
    /\ mine.removed \cap Shown(view) = {}
    /\ mine.kept \/ HasNewest(view)

(* A save of the page changes nothing in the chat but what its user has    *)
(* edited: it never takes out or brings back what others have saved.       *)
OnlyOwnEdits ==
    [][live' # live /\ acked'.saves = acked.saves =>
          /\ Shown(live') \ Shown(live) \subseteq (mine.added \ acked.added) \cup mine.unsure
          /\ Shown(live) \ Shown(live') \subseteq mine.removed \cup mine.returning
          /\ live'.ver # live.ver => live'.ver \in mine.typed
          /\ Only(live.msgs, Shown(live')) = Only(live'.msgs, Shown(live))]_savesVars

(* Edits that overlap, or that have lost the base they were made to, wait  *)
(* for the user.                                                           *)
Overlaps ==
    /\ live \notin {view, sync.chat}
    /\ RemoteBase = NoChat \/ RebaseChatSave(RemoteBase, view, live) = {}

(* Unless edits overlap for good, every edit of the page reaches the       *)
(* server.                                                                 *)
EditsArrive == <>[](~Overlaps) => []<>Quiet
=============================================================================
