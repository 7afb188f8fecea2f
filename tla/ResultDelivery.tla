---------------------------- MODULE ResultDelivery ----------------------------
(***************************************************************************)
(* The delivery of the result of one server run to the pages of a browser  *)
(* (bg-preserve): the start of the run, its intermediate and its terminal  *)
(* result in the key-value store, the claim that gives a result to one     *)
(* page, the merge into the chat, the durable save in two halves, the      *)
(* acknowledgement, and the recovery by a page that is loaded later.       *)
(*                                                                         *)
(* A result stands for its publish sequence and its identity: "mid" is the *)
(* intermediate one, "end" the terminal one with a reply, "fail" the       *)
(* terminal one without. A chat is the edits of the user that it has and   *)
(* the result that was merged into it. A page saves only over the data     *)
(* that it has loaded: the revisions and the session lock of the storage   *)
(* refuse it otherwise.                                                    *)
(***************************************************************************)
EXTENDS Naturals

CONSTANTS
    Nothing,
    MaxPages,  \* bound: loads of a page of one browser
    MaxLosses  \* bound: responses that are lost and saves that fail

ASSUME DeliveryAssumption ==
    /\ MaxPages \in Nat \ {0} /\ MaxLosses \in Nat
    /\ Nothing \notin Nat \cup {"mid", "end", "fail"}
    /\ Nothing \notin [result : {"mid", "end", "fail"},
                       claim : 1..MaxPages \cup {Nothing}, live : BOOLEAN]

(* Every load of a page is a consumer of its own. They are numbered as     *)
(* they are loaded, and the first one is where the message is sent.        *)
Pages == 1..MaxPages
Sender == 1

VARIABLES
    entry,    \* the run in the registry of the process
    aborted,  \* run.cancelled
    row,      \* bg-orch-state-op: the durable state of the operation
    parked,   \* bg-orch-result-op: the result and its claim, or Nothing
    store,    \* the stored chat, its conflict copy, the root record
    marker,   \* the pending marker in the local storage
    page,     \* each page's watch, memory and merge target
    starts,   \* history: runs whose provider work has started
    answer,   \* history: the last result that was published
    fallback, \* history: the page generates the reply itself
    edited,   \* history: the user has edited the chat
    outrun,   \* history: the claim of a page ran out while it was saving
    losses

deliveryVars == <<entry, aborted, row, parked, store, marker, page, starts,
                  answer, fallback, edited, outrun, losses>>

Active == {"queued", "generating", "post"}
Entries == Active \cup {"missing", "finished", "delivery-failed", "delivered",
                        "cancelled"}
Rows == {"none", "queued", "running", "running-result-ready",
         "running-result-consumed", "result-ready", "delivery-failed",
         "delivered", "cancelled", "result-expired"}
Replies == {"mid", "end"}
ReplyOrNothing == Replies \cup {Nothing}
Rank(result) == CASE result = Nothing -> 0 [] result = "mid" -> 1 [] OTHER -> 2

Root(result, to) == [result |-> result, to |-> to]
Target(to, edits, reply) == [to |-> to, edits |-> edits, reply |-> reply]
Base == Target("chat", 0, Nothing)
Empty == [edits |-> 0, reply |-> Nothing, copy |-> Nothing, root |-> Nothing]
Closed == [at |-> "closed", fresh |-> FALSE, mem |-> Empty,
           target |-> Base, applied |-> Nothing, got |-> Nothing]
Open(p) == page[p].at \notin {"new", "closed"}
Booted(p) == p # Sender

DeliveryInit ==
    /\ entry = "missing" /\ aborted = FALSE /\ row = "none" /\ parked = Nothing
    /\ store = Empty
    /\ marker = [at |-> "none", target |-> Base]
    /\ page = [p \in Pages |-> [Closed EXCEPT !.at = "new"]]
    /\ starts = 0 /\ answer = Nothing /\ fallback = FALSE
    /\ edited = FALSE /\ outrun = FALSE /\ losses = 0

server == <<entry, aborted, row, parked, starts, answer>>
client == <<store, marker, page, fallback, edited>>

Lose == losses < MaxLosses /\ losses' = losses + 1
To(p, stage) == [page EXCEPT ![p].at = stage]

(* stopWatch and finishBootRecovery clear the marker; a deadline, a kill   *)
(* and an unconfirmed acknowledgement keep it.                             *)
ClearMarker == marker' = [marker EXCEPT !.at = "off"]
Close(p) == page' = [page EXCEPT ![p] = Closed] /\ ClearMarker

(* triggerClientFallback: only the page that has sent can send again.      *)
FallBack(p) == fallback' = TRUE /\ Close(p)
---------------------------------------------------------------------------
(* The start                                                               *)

Delegate ==
    /\ marker.at = "none"
    /\ marker' = [at |-> "on", target |-> Base]
    /\ page' = [page EXCEPT ![Sender] =
           [Closed EXCEPT !.at = "starting", !.fresh = TRUE, !.mem = store]]
    /\ UNCHANGED <<server, store, fallback, edited, outrun, losses>>

(* The states of an operation whose provider work cannot have begun.       *)
Restartable == {"none", "queued"}

(* The start request, sent again under the same identity while its answer  *)
(* is lost: a run that is known, in memory or durably, is not started.     *)
Start(p) ==
    /\ page[p].at = "starting"
    /\ IF entry # "missing" \/ row \notin Restartable
       THEN UNCHANGED <<entry, row, parked>>
       ELSE entry' = "queued" /\ row' = "queued" /\ parked' = Nothing
    /\ \/ page' = To(p, "idle") /\ UNCHANGED losses
       \/ Lose /\ UNCHANGED page
    /\ UNCHANGED <<aborted, starts, answer, store, marker, fallback, edited, outrun>>

(* No room in the registry, or the row cannot be written.                  *)
StartRefused(p) ==
    /\ page[p].at = "starting"
    /\ entry = "missing" /\ row \in Restartable
    /\ row' \in {"none", row}
    /\ FallBack(p)
    /\ UNCHANGED <<entry, aborted, parked, starts, answer, store, edited,
                   outrun, losses>>
---------------------------------------------------------------------------
(* The run                                                                 *)

(* onProviderStart does not look at the row. A run that was cancelled      *)
(* meanwhile has its signal aborted and starts no provider work.           *)
ProviderStarts ==
    /\ entry = "queued"
    /\ entry' = "generating" /\ row' = "running"
    /\ starts' = IF aborted THEN starts ELSE starts + 1
    /\ UNCHANGED <<aborted, parked, answer, client, outrun, losses>>

(* Mutation: a result that is replaced takes its claim with it.            *)
PublishUnclaimed(result) == [result |-> result, claim |-> Nothing, live |-> FALSE]

(* persistOrchResult: a result keeps the claim of the one it replaces.     *)
Publish(result) ==
    IF parked = Nothing THEN [result |-> result, claim |-> Nothing, live |-> FALSE]
    ELSE [parked EXCEPT !.result = result]

MidPublish ==
    /\ entry = "generating" /\ ~aborted
    /\ entry' = "post" /\ row' = "running-result-ready"
    /\ parked' = Publish("mid") /\ answer' = "mid"
    /\ UNCHANGED <<aborted, starts, client, outrun, losses>>

(* The run ends, with a reply, or without one when it throws or times out. *)
RunEnds ==
    /\ entry \in Active
    /\ \/ /\ aborted
          /\ entry' = "cancelled"
          /\ UNCHANGED <<row, parked, answer, losses>>
       \/ /\ ~aborted
          /\ entry' = "finished" /\ row' = "result-ready"
          /\ answer' \in IF entry = "queued" THEN {"fail"} ELSE {"end", "fail"}
          /\ parked' = Publish(answer')
          /\ UNCHANGED losses
       \/ /\ ~aborted /\ Lose
          /\ entry' = "delivery-failed" /\ row' = "delivery-failed"
          /\ UNCHANGED <<parked, answer>>
    /\ UNCHANGED <<aborted, starts, client, outrun>>

(* DELETE of the operation. A run that is not active keeps a result that   *)
(* is ready; anything else is cancelled for good.                          *)
Cancel(p) ==
    /\ Open(p)
    /\ entry \in Active \/ row \notin {"delivered", "result-ready"}
    /\ aborted' = (aborted \/ entry \in Active)
    /\ row' = "cancelled" /\ parked' = Nothing
    /\ \/ Close(p) /\ UNCHANGED losses
       \/ Lose /\ UNCHANGED <<page, marker>>
    /\ UNCHANGED <<entry, starts, answer, store, fallback, edited, outrun>>
---------------------------------------------------------------------------
(* The merge                                                               *)

(* Mutation: a chat that already has the result is merged again.           *)
NeverMerged(m, result) == FALSE

(* findChatDelivery with the exact result.                                 *)
Merged(m, result) == result \in {m.reply, m.copy}

(* Mutation: the chat is not compared with the one that was sent.          *)
ConflictNever(m, target) == FALSE

(* orchestrationTargetHasConflict                                          *)
Conflict(m, target) ==
    target.to = "chat" /\ <<m.edits, m.reply>> # <<target.edits, target.reply>>

(* mergeOrchestrationResult: the chat of the result replaces the one that  *)
(* was sent, without the edits made since, or goes to a conflict copy.     *)
Merge(q, result) ==
    LET m    == q.mem
        done == Merged(m, result)
        to   == IF done THEN IF m.reply = result THEN "chat" ELSE "copy"
                ELSE IF Conflict(m, q.target) THEN "copy" ELSE q.target.to
        chat == IF done THEN m
                ELSE IF to = "copy" THEN [m EXCEPT !.copy = result]
                ELSE [m EXCEPT !.reply = result, !.edits = 0]
    IN  [q EXCEPT !.at = "merged", !.got = result,
                  !.mem = [chat EXCEPT !.root = Root(result, to)],
                  !.target = Target(to, 0, result)]

(* A result that is applied or has no reply is only acknowledged.          *)
Take(q, result) ==
    IF result = "fail" \/ Rank(result) <= Rank(q.applied)
    THEN [q EXCEPT !.at = "ack", !.got = result]
    ELSE Merge(q, result)
---------------------------------------------------------------------------
(* Polling                                                                 *)

Gone == row \in {"cancelled", "delivered"} \/ aborted \/ entry = "cancelled"

(* A claim of another page that has not run out.                           *)
ClaimedByOther(p) == parked.live /\ parked.claim # p

Claim(p) == [parked EXCEPT !.claim = p, !.live = TRUE]

(* The operation can never deliver: it was cancelled, delivered, or lost   *)
(* with the process that ran it.                                           *)
NothingLeft(p) ==
    \/ Gone
    \/ /\ parked = Nothing
       /\ IF entry # "missing" THEN entry \in {"delivered", "delivery-failed"}
          ELSE row \notin {"none", "queued", "result-expired"}
    \/ /\ parked = Nothing /\ Booted(p)
       /\ entry \notin Active

(* Mutation: a run that had started is taken for one that had not.         *)
StartLostRunning ==
    entry = "missing" /\ row \in {"queued", "running"} /\ parked = Nothing

(* orphanedOperationState: the run died before its provider work.          *)
StartLost == entry = "missing" /\ row = "queued" /\ parked = Nothing

Poll(p) ==
    /\ page[p].at = "idle"
    /\ \/ /\ NothingLeft(p)
          /\ Close(p)
          /\ UNCHANGED <<parked, fallback, losses>>
       \/ /\ StartLost /\ ~Booted(p)
          /\ FallBack(p)
          /\ UNCHANGED <<parked, losses>>
       \/ /\ ~Gone /\ parked # Nothing /\ ~ClaimedByOther(p)
          /\ parked' = Claim(p)
          /\ \/ /\ page' = [page EXCEPT ![p] = Take(@, parked.result)]
                /\ UNCHANGED losses
             \/ Lose /\ UNCHANGED page
          /\ UNCHANGED <<marker, fallback>>
    /\ UNCHANGED <<entry, aborted, row, starts, answer, store, edited, outrun>>

(* A page that is saving refreshes its claim, or takes one that ran out.   *)
Heartbeat(p) ==
    /\ page[p].at \in {"merged", "half"}
    /\ ~Gone /\ parked # Nothing /\ ~ClaimedByOther(p)
    /\ parked' = Claim(p)
    /\ UNCHANGED <<entry, aborted, row, starts, answer, client, outrun, losses>>

Lapse ==
    /\ parked # Nothing /\ parked.live
    /\ parked' = [parked EXCEPT !.live = FALSE]
    /\ outrun' = (outrun \/ page[parked.claim].at \in {"merged", "half"})
    /\ UNCHANGED <<entry, aborted, row, starts, answer, client, losses>>
---------------------------------------------------------------------------
(* The durable save                                                        *)

(* What p writes makes the data that other pages have loaded stale.        *)
Written(p, stage) ==
    [q \in Pages |-> IF q = p THEN [page[p] EXCEPT !.at = stage]
                     ELSE [page[q] EXCEPT !.fresh = FALSE]]

(* The chat bodies go first ...                                            *)
SaveBody(p) ==
    /\ page[p].at = "merged" /\ page[p].fresh
    /\ store' = [page[p].mem EXCEPT !.root = store.root]
    /\ page' = Written(p, "half")
    /\ UNCHANGED <<server, marker, fallback, edited, outrun, losses>>

(* ... then the root with the record of the delivery.                      *)
SaveRoot(p) ==
    /\ page[p].at = "half" /\ page[p].fresh
    /\ store' = [store EXCEPT !.root = page[p].mem.root]
    /\ page' = [Written(p, "ack") EXCEPT ![p].applied = page[p].got]
    /\ marker' = [marker EXCEPT !.target =
                      IF marker.at = "on" THEN page[p].target ELSE @]
    /\ UNCHANGED <<server, fallback, edited, outrun, losses>>

(* Either half is refused over other data, or fails: polled again.         *)
SaveFails(p) ==
    /\ page[p].at \in {"merged", "half"}
    /\ IF page[p].fresh THEN Lose ELSE UNCHANGED losses
    /\ page' = To(p, "idle")
    /\ UNCHANGED <<server, store, marker, fallback, edited, outrun>>

(* The user edits the chat: on page p, unless its data is stale ...        *)
Edit(p) ==
    /\ Open(p) /\ page[p].fresh /\ ~edited
    /\ edited' = TRUE
    /\ LET chat == [page[p].mem EXCEPT !.edits = 1]
       IN  /\ store' = [chat EXCEPT !.root = store.root]
           /\ page' = [Written(p, page[p].at) EXCEPT ![p].mem = chat]
    /\ UNCHANGED <<server, marker, fallback, outrun, losses>>

(* ... or on one that does not watch the operation.                        *)
EditElsewhere ==
    /\ marker.at # "none" /\ ~edited
    /\ edited' = TRUE
    /\ store' = [store EXCEPT !.edits = 1]
    /\ page' = [q \in Pages |-> [page[q] EXCEPT !.fresh = FALSE]]
    /\ UNCHANGED <<server, marker, fallback, outrun, losses>>
---------------------------------------------------------------------------
(* The acknowledgement                                                     *)

(* Mutation: whatever is parked is acknowledged.                           *)
SupersededNever(p) == FALSE

(* Another result was published meanwhile.                                 *)
Superseded(p) == parked # Nothing /\ parked.result # page[p].got

Terminal(p) == page[p].got # "mid"

(* What page p does when its acknowledgement is confirmed.                 *)
Confirmed(p) ==
    IF ~Terminal(p) THEN page' = To(p, "idle") /\ UNCHANGED <<marker, fallback>>
    ELSE IF page[p].got = "fail" /\ ~Booted(p) THEN FallBack(p)
    ELSE Close(p) /\ UNCHANGED fallback

(* A page that cannot tell whether a terminal result was acknowledged      *)
(* closes and leaves that to a later one; an intermediate one is retried.  *)
Unconfirmed(p) ==
    /\ page' = IF Terminal(p) THEN [page EXCEPT ![p] = Closed] ELSE To(p, "idle")
    /\ UNCHANGED <<marker, fallback>>

(* The exact result is deleted, after its row says so.                     *)
Acknowledge(p) ==
    /\ row' = IF Terminal(p) THEN "delivered" ELSE "running-result-consumed"
    /\ parked' = Nothing
    /\ entry' = IF Terminal(p) /\ entry \in {"finished", "delivery-failed"}
                THEN "delivered" ELSE entry

Ack(p) ==
    /\ page[p].at = "ack"
    /\ \/ /\ Superseded(p)
          /\ page' = To(p, "idle")
          /\ UNCHANGED <<entry, row, parked, marker, fallback, losses>>
       \/ /\ parked # Nothing /\ ~Superseded(p) /\ parked.claim \in {Nothing, p}
          /\ Acknowledge(p)
          /\ \/ Confirmed(p) /\ UNCHANGED losses
             \/ Lose /\ Unconfirmed(p)
       \/ /\ parked # Nothing /\ ~Superseded(p) /\ parked.claim \notin {Nothing, p}
          /\ Unconfirmed(p)
          /\ UNCHANGED <<entry, row, parked, losses>>
       \/ /\ parked = Nothing
          /\ IF entry = "missing" /\ row = "none" THEN Unconfirmed(p) ELSE Confirmed(p)
          /\ UNCHANGED <<entry, row, parked, losses>>
    /\ UNCHANGED <<aborted, starts, answer, store, edited, outrun>>
---------------------------------------------------------------------------
(* Pages and time                                                          *)

(* The page is killed, reloaded, or its watch reaches its deadline.        *)
Leave(p) ==
    /\ Open(p)
    /\ page' = [page EXCEPT ![p] = Closed]
    /\ UNCHANGED <<server, store, marker, fallback, edited, outrun, losses>>

(* The target of a delivery that the chats show, the newest one first.     *)
Delivered(m) ==
    IF Rank(m.copy) > Rank(m.reply) THEN Target("copy", 0, m.copy)
    ELSE Target("chat", 0, m.reply)

(* beginBootRecoveryAfterHydration: the merge target comes from the root   *)
(* record if a chat confirms it, else from the chats, else from the marker.*)
Boot(p) ==
    /\ page[p].at = "new" /\ marker.at = "on"
    /\ \A q \in Pages : q < p => page[q].at # "new"
    /\ LET m == store
           committed == /\ m.root # Nothing
                        /\ m.root.result = IF m.root.to = "chat" THEN m.reply ELSE m.copy
           target == IF committed THEN Target(m.root.to, 0, m.root.result)
                     ELSE IF {m.reply, m.copy} # {Nothing} THEN Delivered(m)
                     ELSE marker.target
       IN  page' = [page EXCEPT ![p] =
               [at |-> "idle", fresh |-> TRUE, mem |-> m,
                target |-> target, got |-> Nothing,
                applied |-> IF committed THEN m.root.result ELSE Nothing]]
    /\ UNCHANGED <<server, store, marker, fallback, edited, outrun, losses>>

(* A page that is loaded finds the marker too old: older than any watch of *)
(* the page that has sent.                                                 *)
MarkerExpires ==
    /\ marker.at = "on"
    /\ ~Open(Sender) /\ \E p \in Pages : page[p].at = "new"
    /\ ClearMarker
    /\ UNCHANGED <<server, store, page, fallback, edited, outrun, losses>>

(* Mutation: a claim protects a result also when it has run out.           *)
ProtectedByAnyClaim == entry \in Active \/ parked.claim # Nothing

(* What the retention sweep does not touch.                                *)
Protected == entry \in Active \/ parked.live

(* The sweep of results that are too old or too many.                      *)
Expire ==
    /\ parked # Nothing /\ ~Protected
    /\ parked' = Nothing
    /\ row' = IF row \in {"delivered", "cancelled"} THEN row ELSE "result-expired"
    /\ UNCHANGED <<entry, aborted, starts, answer, client, outrun, losses>>

(* The process restarts: the registry is empty.                            *)
DeliveryRestart ==
    /\ entry' = "missing" /\ aborted' = FALSE
    /\ UNCHANGED <<row, parked, starts, answer, client, outrun, losses>>

DeliveryStep ==
    \/ Delegate \/ ProviderStarts \/ MidPublish \/ RunEnds \/ Lapse \/ Expire
    \/ MarkerExpires \/ EditElsewhere
    \/ \E p \in Pages :
          \/ Start(p) \/ StartRefused(p) \/ Cancel(p) \/ Poll(p) \/ Heartbeat(p)
          \/ SaveBody(p) \/ SaveRoot(p) \/ SaveFails(p) \/ Edit(p) \/ Ack(p)
          \/ Leave(p) \/ Boot(p)

(* Runs end by their timeout, watches by their deadline, claims, markers   *)
(* and results by their age.                                               *)
DeliveryFairness ==
    /\ WF_deliveryVars(RunEnds) /\ WF_deliveryVars(Lapse)
    /\ WF_deliveryVars(Expire) /\ WF_deliveryVars(MarkerExpires)
    /\ \A p \in Pages : WF_deliveryVars(Leave(p))
---------------------------------------------------------------------------
Targets == [to : {"chat", "copy"}, edits : 0..1, reply : ReplyOrNothing]
Memory == [edits : 0..1, reply : ReplyOrNothing, copy : ReplyOrNothing,
           root : [result : Replies, to : {"chat", "copy"}] \cup {Nothing}]
Results == Replies \cup {"fail"}

DeliveryTypeOK ==
    /\ entry \in Entries /\ aborted \in BOOLEAN /\ row \in Rows
    /\ parked \in [result : Results, claim : Pages \cup {Nothing},
                   live : BOOLEAN] \cup {Nothing}
    /\ store \in Memory
    /\ marker \in [at : {"none", "on", "off"}, target : Targets]
    /\ page \in [Pages -> [at : {"new", "closed", "starting", "idle", "merged", "half",
                                 "ack"},
                           fresh : BOOLEAN, mem : Memory,
                           target : Targets, applied : ReplyOrNothing,
                           got : Results \cup {Nothing}]]
    /\ starts \in Nat /\ answer \in Results \cup {Nothing}
    /\ {fallback, edited, outrun} \subseteq BOOLEAN
    /\ losses \in 0..MaxLosses

(* A reply that is the last result of its run stays on the server until a  *)
(* page has saved it, unless it is cancelled or nobody fetches it in time: *)
(* whatever page is killed, save fails or acknowledgement comes late. An   *)
(* intermediate reply that a terminal result without one has replaced is   *)
(* not kept.                                                               *)
RepliesKept ==
    answer \in Replies /\ row \notin {"cancelled", "result-expired"} =>
        \/ parked # Nothing /\ parked.result = answer
        \/ answer \in {store.reply, store.copy}

(* A result never replaces an edit that the user made while it was         *)
(* generated.                                                              *)
EditsKept == edited => store.edits = 1

(* A result is not stored twice, and not in a copy unless the user has     *)
(* edited the chat: also when a save stopped between its halves and        *)
(* another page repeats it.                                                *)
DeliveredOnce ==
    /\ store.copy # Nothing => edited /\ store.copy # store.reply

(* Two pages save a result at the same time only if the claim of one ran   *)
(* out while it was saving.                                                *)
OneConsumer ==
    \A p, q \in Pages :
        /\ page[p].at \in {"merged", "half"} /\ page[q].at \in {"merged", "half"}
        /\ p # q
        => outrun

(* The server starts the provider work of a message once, and the page     *)
(* generates the reply itself only if it was never started, or if the      *)
(* terminal result has no reply: not while it is unknown whether a lost    *)
(* run had begun, and not after a terminal result with the reply.          *)
FallbackIsDue == starts <= 1 /\ (fallback => starts = 0 \/ answer = "fail")

(* What the header of bgOrchestrate.ts says: if the main reply was         *)
(* produced, even when the post-processing threw, the partial result is    *)
(* merged and the client does not regenerate. The page never generates a   *)
(* reply again that the stored chat has.                                   *)
ReplyNotRegenerated == fallback => {store.reply, store.copy} = {Nothing}

(* A result does not stay on the server for ever, whoever has claimed it.  *)
ResultLeaves == parked # Nothing ~> parked = Nothing
=============================================================================
