------------------------ MODULE ResultDeliveryProofs ------------------------
(***************************************************************************)
(* Theorems about the delivery of results, for every number of pages and   *)
(* losses and within the whole server: its types, leases and retention,    *)
(* and what the delivery leaves in the stored chat. The last reply is not  *)
(* lost and no reply is stored twice.                                      *)
(***************************************************************************)
EXTENDS ServerStorage, TLAPS

Stages == {"new", "closed", "starting", "idle", "merged", "half", "ack"}
PageState == [at : Stages, fresh : BOOLEAN, mem : Memory, target : Targets,
              applied : ReplyOrNothing, got : Results \cup {Nothing}]

Saving(q) == q.at \in {"merged", "half"}
SavingReply == \A p \in Pages : Saving(page[p]) => page[p].got \in Replies

Typed == DeliveryTypeOK /\ SavingReply

(* What a step of the server does to the delivery.                         *)
DeliveryMove == DeliveryStep \/ DeliveryRestart \/ UNCHANGED deliveryVars

LEMMA ServerMoves == [Next]_vars => DeliveryMove
  BY DEF Next, ResetClears, ResetApplies, Restarts, DeliveryMove, vars
---------------------------------------------------------------------------
(* Types                                                                   *)

LEMMA EmptyTyped == Empty \in Memory /\ Base \in Targets /\ Closed \in PageState
  BY DEF Empty, Memory, Base, Target, Targets, Closed, PageState, Stages,
         ReplyOrNothing

LEMMA MemoryEdited ==
    ASSUME NEW m \in Memory, NEW edits \in 0..1
    PROVE  [m EXCEPT !.edits = edits] \in Memory
  BY DEF Memory

LEMMA MemoryRooted ==
    ASSUME NEW m \in Memory, NEW n \in Memory
    PROVE  [m EXCEPT !.root = n.root] \in Memory
  BY DEF Memory

LEMMA MemoryReplied ==
    ASSUME NEW m \in Memory, NEW result \in Replies
    PROVE  /\ [m EXCEPT !.copy = result] \in Memory
           /\ [m EXCEPT !.reply = result, !.edits = 0] \in Memory
  <1>1. result \in ReplyOrNothing
    BY DEF ReplyOrNothing
  <1>2. [m EXCEPT !.copy = result] \in Memory
    BY <1>1 DEF Memory
  <1> DEFINE n == [m EXCEPT !.reply = result]
  <1>3. n \in Memory
    BY <1>1 DEF Memory
  <1>4. [m EXCEPT !.reply = result, !.edits = 0] = [n EXCEPT !.edits = 0]
    OBVIOUS
  <1> HIDE DEF n
  <1>5. 0 \in 0..1
    OBVIOUS
  <1>6. [n EXCEPT !.edits = 0] \in Memory
    BY <1>3, <1>5, MemoryEdited, Zenon
  <1> QED BY <1>2, <1>4, <1>6

LEMMA MergeTyped ==
    ASSUME NEW q \in PageState, NEW result \in Replies
    PROVE  /\ Merge(q, result) \in PageState
           /\ Merge(q, result).at = "merged" /\ Merge(q, result).got = result
           /\ Merge(q, result).fresh = q.fresh
  <1> DEFINE done == Merged(q.mem, result)
             to == IF done THEN IF q.mem.reply = result THEN "chat" ELSE "copy"
                   ELSE IF Conflict(q.mem, q.target) THEN "copy" ELSE q.target.to
             chat == IF done THEN q.mem
                     ELSE IF to = "copy" THEN [q.mem EXCEPT !.copy = result]
                     ELSE [q.mem EXCEPT !.reply = result, !.edits = 0]
             mem == [chat EXCEPT !.root = Root(result, to)]
  <1>1. Merge(q, result) = [q EXCEPT !.at = "merged", !.got = result, !.mem = mem,
                                     !.target = Target(to, 0, result)]
    BY Zenon DEF Merge
  <1>2. q.mem \in Memory /\ q.target \in Targets
    BY DEF PageState
  <1>3. to \in {"chat", "copy"}
    BY <1>2 DEF Targets
  <1> HIDE DEF to, done
  <1>4. chat \in Memory
    BY <1>2, MemoryReplied
  <1> HIDE DEF chat
  <1>5. mem \in Memory
    BY <1>3, <1>4 DEF Memory, Root
  <1>6. Target(to, 0, result) \in Targets
    BY <1>3 DEF Target, Targets, ReplyOrNothing
  <1> HIDE DEF mem
  <1> QED BY <1>1, <1>5, <1>6 DEF PageState, Stages, Results

LEMMA TakeTyped ==
    ASSUME NEW q \in PageState, NEW result \in Results
    PROVE  /\ Take(q, result) \in PageState
           /\ Take(q, result).got = result
           /\ Take(q, result).at \in {"merged", "ack"}
           /\ Take(q, result).at = "merged" => result \in Replies
           /\ Take(q, result).fresh = q.fresh
  <1>1. CASE result = "fail" \/ Rank(result) <= Rank(q.applied)
    <2>1. Take(q, result) = [q EXCEPT !.at = "ack", !.got = result]
      BY <1>1, Zenon DEF Take
    <2> QED BY <2>1 DEF PageState, Stages
  <1>2. CASE ~(result = "fail" \/ Rank(result) <= Rank(q.applied))
    <2>1. Take(q, result) = Merge(q, result) /\ result \in Replies
      BY <1>2, Zenon DEF Take, Results
    <2> QED BY <2>1, MergeTyped
  <1> QED BY <1>1, <1>2

LEMMA PageTyped ==
    ASSUME page \in [Pages -> PageState], NEW p \in Pages, NEW q \in PageState
    PROVE  [page EXCEPT ![p] = q] \in [Pages -> PageState]
  OBVIOUS

LEMMA ToTyped ==
    ASSUME page \in [Pages -> PageState], NEW p \in Pages, NEW stage \in Stages
    PROVE  /\ To(p, stage) \in [Pages -> PageState]
           /\ To(p, stage) = [page EXCEPT ![p] = [page[p] EXCEPT !.at = stage]]
           /\ \A q \in Pages : To(p, stage)[q].got = page[q].got
  <1>1. page[p] \in PageState
    OBVIOUS
  <1>2. [page[p] EXCEPT !.at = stage] \in PageState
    BY <1>1 DEF PageState
  <1>3. To(p, stage) = [page EXCEPT ![p] = [page[p] EXCEPT !.at = stage]]
    BY DEF To
  <1>4. \A q \in Pages : To(p, stage)[q].got = page[q].got
    BY <1>1, <1>3 DEF PageState
  <1> QED BY <1>2, <1>3, <1>4

LEMMA WrittenTyped ==
    ASSUME page \in [Pages -> PageState], NEW p \in Pages, NEW stage \in Stages
    PROVE  /\ Written(p, stage) \in [Pages -> PageState]
           /\ Written(p, stage)[p] = [page[p] EXCEPT !.at = stage]
           /\ \A q \in Pages \ {p} :
                 Written(p, stage)[q] = [page[q] EXCEPT !.fresh = FALSE]
  <1>1. \A q \in Pages : page[q] \in PageState
    OBVIOUS
  <1>2. [page[p] EXCEPT !.at = stage] \in PageState
    BY <1>1 DEF PageState
  <1>3. \A q \in Pages : [page[q] EXCEPT !.fresh = FALSE] \in PageState
    BY <1>1 DEF PageState
  <1> QED BY <1>2, <1>3 DEF Written

LEMMA TypedInit == Init => Typed
  <1> SUFFICES ASSUME DeliveryInit PROVE Typed
    BY DEF Init
  <1>1. page \in [Pages -> PageState] /\ \A p \in Pages : page[p].at = "new"
    <2>1. [Closed EXCEPT !.at = "new"] \in PageState
      BY EmptyTyped DEF PageState, Stages
    <2>2. [Closed EXCEPT !.at = "new"].at = "new"
      BY EmptyTyped DEF PageState
    <2> QED BY <2>1, <2>2 DEF DeliveryInit
  <1>2. SavingReply
    BY <1>1 DEF SavingReply, Saving
  <1>3. marker \in [at : {"none", "on", "off"}, target : Targets]
    BY EmptyTyped DEF DeliveryInit
  <1>4. losses \in 0..MaxLosses
    BY DeliveryAssumption DEF DeliveryInit
  <1> QED BY <1>1, <1>2, <1>3, <1>4, EmptyTyped
          DEF DeliveryInit, Typed, DeliveryTypeOK, PageState, Stages, Entries,
              Active, Rows, Results, Replies

(* The types, with the page's own as a name.                               *)
ServerTyped ==
    /\ entry \in Entries /\ aborted \in BOOLEAN /\ row \in Rows
    /\ parked \in [result : Results, claim : Pages \cup {Nothing},
                   live : BOOLEAN] \cup {Nothing}
    /\ starts \in Nat /\ answer \in Results \cup {Nothing}

ClientTyped ==
    /\ store \in Memory
    /\ marker \in [at : {"none", "on", "off"}, target : Targets]
    /\ page \in [Pages -> PageState]
    /\ {fallback, edited, outrun} \subseteq BOOLEAN
    /\ losses \in 0..MaxLosses

LEMMA TypedParts == Typed <=> ServerTyped /\ ClientTyped /\ SavingReply
  BY DEF Typed, DeliveryTypeOK, ServerTyped, ClientTyped, PageState, Stages

LEMMA TypedNext ==
    ASSUME Typed, DeliveryMove
    PROVE  Typed'
  <1> SUFFICES ServerTyped' /\ ClientTyped' /\ SavingReply'
    BY TypedParts, PTL
  <1>0. ServerTyped /\ ClientTyped /\ SavingReply
    BY TypedParts
  <1>a. Sender \in Pages /\ MaxLosses \in Nat
    BY DeliveryAssumption DEF Sender, Pages
  <1>b. ASSUME Lose PROVE losses' \in 0..MaxLosses
    BY <1>0, <1>a, <1>b DEF Lose, ClientTyped
  <1>c. ASSUME NEW p \in Pages, NEW q \in PageState,
               page' = [page EXCEPT ![p] = q], ~Saving(q)
        PROVE  page' \in [Pages -> PageState] /\ SavingReply'
    BY <1>0, <1>c DEF ClientTyped, SavingReply, Saving
  <1>d. ASSUME NEW p \in Pages, NEW stage \in Stages,
               page' = To(p, stage), stage \notin {"merged", "half"}
        PROVE  page' \in [Pages -> PageState] /\ SavingReply'
    <2>1. [page[p] EXCEPT !.at = stage] \in PageState
          /\ [page[p] EXCEPT !.at = stage].at = stage
      BY <1>0 DEF ClientTyped, PageState
    <2> QED BY <1>c, <1>d, <2>1 DEF To, Saving
  <1>e. ASSUME NEW p \in Pages, page' = [page EXCEPT ![p] = Closed]
        PROVE  page' \in [Pages -> PageState] /\ SavingReply'
    BY <1>c, <1>e, EmptyTyped DEF Closed, Saving
  <1>f. ASSUME ClearMarker
        PROVE  marker' \in [at : {"none", "on", "off"}, target : Targets]
    BY <1>0, <1>f DEF ClearMarker, ClientTyped
  <1>g. CASE UNCHANGED deliveryVars
    BY <1>0, <1>g DEF deliveryVars, ServerTyped, ClientTyped, SavingReply
  <1>1. CASE Delegate
    <2>1. [Closed EXCEPT !.at = "starting", !.fresh = TRUE, !.mem = store] \in PageState
      BY <1>0, EmptyTyped DEF ClientTyped, PageState, Stages
    <2>2. ~Saving([Closed EXCEPT !.at = "starting", !.fresh = TRUE, !.mem = store])
      BY DEF Saving, Closed
    <2>3. page' \in [Pages -> PageState] /\ SavingReply'
      BY <1>1, <1>a, <1>c, <2>1, <2>2 DEF Delegate
    <2> QED BY <1>0, <1>1, <2>3, EmptyTyped
            DEF Delegate, server, ServerTyped, ClientTyped
  <1>2. ASSUME NEW p \in Pages, Start(p) PROVE ServerTyped' /\ ClientTyped' /\ SavingReply'
    <2>1. page' \in [Pages -> PageState] /\ SavingReply'
      <3>1. CASE page' = To(p, "idle")
        BY <3>1, <1>d DEF Stages
      <3>2. CASE UNCHANGED page
        BY <3>2, <1>0 DEF ClientTyped, SavingReply
      <3> QED BY <1>2, <3>1, <3>2 DEF Start
    <2>2. losses' \in 0..MaxLosses
      BY <1>0, <1>2, <1>b DEF Start, ClientTyped
    <2>3. ServerTyped'
      BY <1>0, <1>2 DEF Start, ServerTyped, Entries, Active, Rows
    <2> QED BY <1>0, <1>2, <2>1, <2>2, <2>3 DEF Start, ClientTyped
  <1>3. ASSUME NEW p \in Pages, StartRefused(p)
        PROVE ServerTyped' /\ ClientTyped' /\ SavingReply'
    <2>1. page' \in [Pages -> PageState] /\ SavingReply'
          /\ marker' \in [at : {"none", "on", "off"}, target : Targets]
      BY <1>3, <1>e, <1>f DEF StartRefused, FallBack, Close
    <2> QED BY <1>0, <1>3, <2>1
            DEF StartRefused, FallBack, ServerTyped, ClientTyped, Rows
  <1>4. CASE ProviderStarts
    BY <1>0, <1>4 DEF ProviderStarts, client, ServerTyped, ClientTyped, Entries,
       Active, Rows, SavingReply
  <1>h. \A result \in Results : Publish(result) \in
            [result : Results, claim : Pages \cup {Nothing}, live : BOOLEAN]
    BY <1>0 DEF Publish, ServerTyped
  <1>5. CASE MidPublish
    <2>1. parked' \in [result : Results, claim : Pages \cup {Nothing}, live : BOOLEAN]
      BY <1>5, <1>h DEF MidPublish, Results, Replies
    <2> QED BY <1>0, <1>5, <2>1 DEF MidPublish, client, ServerTyped, ClientTyped,
            Entries, Active, Rows, Results, Replies, SavingReply
  <1>6. CASE RunEnds
    <2>1. UNCHANGED <<page, store, marker, fallback, edited, outrun>>
      BY <1>6 DEF RunEnds, client
    <2>2. SavingReply' /\ losses' \in 0..MaxLosses
      BY <1>0, <1>6, <1>b, <2>1 DEF RunEnds, ClientTyped, SavingReply
    <2>3. \/ UNCHANGED <<parked, answer>>
          \/ answer' \in Results /\ parked' = Publish(answer')
      BY <1>6 DEF RunEnds, Results, Replies
    <2>4. parked' \in [result : Results, claim : Pages \cup {Nothing},
                       live : BOOLEAN] \cup {Nothing}
          /\ answer' \in Results \cup {Nothing}
      BY <1>0, <1>h, <2>3 DEF ServerTyped
    <2>5. entry' \in Entries /\ row' \in Rows /\ UNCHANGED <<aborted, starts>>
      BY <1>0, <1>6 DEF RunEnds, ServerTyped, Entries, Rows
    <2> QED BY <1>0, <2>1, <2>2, <2>4, <2>5 DEF ServerTyped, ClientTyped
  <1>7. ASSUME NEW p \in Pages, Cancel(p)
        PROVE ServerTyped' /\ ClientTyped' /\ SavingReply'
    <2>1. /\ page' \in [Pages -> PageState] /\ SavingReply'
          /\ marker' \in [at : {"none", "on", "off"}, target : Targets]
      <3>1. CASE Close(p)
        BY <3>1, <1>e, <1>f DEF Close
      <3>2. CASE UNCHANGED <<page, marker>>
        BY <3>2, <1>0 DEF ClientTyped, SavingReply
      <3> QED BY <1>7, <3>1, <3>2 DEF Cancel
    <2>2. losses' \in 0..MaxLosses
      BY <1>0, <1>7, <1>b DEF Cancel, ClientTyped
    <2> QED BY <1>0, <1>7, <2>1, <2>2 DEF Cancel, ServerTyped, ClientTyped, Rows
  <1>i. ASSUME NEW p \in Pages, parked # Nothing, parked' = Claim(p)
        PROVE  parked' \in [result : Results, claim : Pages \cup {Nothing},
                            live : BOOLEAN]
    BY <1>0, <1>i DEF Claim, ServerTyped
  <1>8. ASSUME NEW p \in Pages, Poll(p)
        PROVE ServerTyped' /\ ClientTyped' /\ SavingReply'
    <2>1. CASE Close(p) /\ UNCHANGED <<parked, fallback, losses>>
      <3>1. /\ page' \in [Pages -> PageState] /\ SavingReply'
            /\ marker' \in [at : {"none", "on", "off"}, target : Targets]
        BY <2>1, <1>e, <1>f DEF Close
      <3> QED BY <1>0, <1>8, <2>1, <3>1 DEF Poll, ServerTyped, ClientTyped
    <2>2. CASE FallBack(p) /\ UNCHANGED <<parked, losses>>
      <3>1. /\ page' \in [Pages -> PageState] /\ SavingReply'
            /\ marker' \in [at : {"none", "on", "off"}, target : Targets]
        BY <2>2, <1>e, <1>f DEF Close, FallBack
      <3> QED BY <1>0, <1>8, <2>2, <3>1 DEF Poll, FallBack, ServerTyped, ClientTyped
    <2>3. CASE /\ parked # Nothing /\ parked' = Claim(p)
               /\ page' = [page EXCEPT ![p] = Take(@, parked.result)]
               /\ UNCHANGED <<losses, marker, fallback>>
      <3>1. page[p] \in PageState /\ parked.result \in Results
        BY <1>0, <2>3 DEF ServerTyped, ClientTyped
      <3>2. page' = [page EXCEPT ![p] = Take(page[p], parked.result)]
        BY <2>3
      <3>3. /\ page' \in [Pages -> PageState]
            /\ page'[p] = Take(page[p], parked.result)
            /\ \A q \in Pages \ {p} : page'[q] = page[q]
        BY <1>0, <3>1, <3>2, TakeTyped DEF ClientTyped
      <3>4. page'[p].got \in Replies \/ ~Saving(page'[p])
        BY <3>1, <3>3, TakeTyped DEF Saving
      <3>5. SavingReply'
        BY <1>0, <3>3, <3>4 DEF SavingReply, Saving
      <3> QED BY <1>0, <1>8, <1>i, <2>3, <3>3, <3>5 DEF Poll, ServerTyped, ClientTyped
    <2>4. CASE parked # Nothing /\ parked' = Claim(p) /\ Lose
               /\ UNCHANGED <<page, marker, fallback>>
      BY <1>0, <1>8, <1>b, <1>i, <2>4 DEF Poll, ServerTyped, ClientTyped, SavingReply
    <2> QED BY <1>8, <2>1, <2>2, <2>3, <2>4 DEF Poll
  <1>9. ASSUME NEW p \in Pages, Heartbeat(p)
        PROVE ServerTyped' /\ ClientTyped' /\ SavingReply'
    BY <1>0, <1>9, <1>i DEF Heartbeat, client, ServerTyped, ClientTyped, SavingReply
  <1>10. CASE Lapse
    <2>1. outrun' \in BOOLEAN
      BY <1>0, <1>10 DEF Lapse, ClientTyped
    <2>2. parked' \in [result : Results, claim : Pages \cup {Nothing}, live : BOOLEAN]
      BY <1>0, <1>10 DEF Lapse, ServerTyped
    <2> QED BY <1>0, <1>10, <2>1, <2>2
            DEF Lapse, client, ServerTyped, ClientTyped, SavingReply
  <1>11. ASSUME NEW p \in Pages, SaveBody(p)
         PROVE ServerTyped' /\ ClientTyped' /\ SavingReply'
    <2>1. page[p] \in PageState /\ page[p].got \in Replies
      BY <1>0, <1>11 DEF SaveBody, ClientTyped, SavingReply, Saving
    <2>2. store' \in Memory
      BY <1>0, <1>11, <2>1, MemoryRooted DEF SaveBody, ClientTyped, PageState
    <2>3. page' \in [Pages -> PageState] /\ SavingReply'
      <3>1. /\ page' \in [Pages -> PageState]
            /\ page'[p] = [page[p] EXCEPT !.at = "half"]
            /\ \A q \in Pages \ {p} : page'[q] = [page[q] EXCEPT !.fresh = FALSE]
        <4>1. /\ "half" \in Stages /\ page' = Written(p, "half")
              /\ page \in [Pages -> PageState]
          BY <1>0, <1>11 DEF SaveBody, ClientTyped, Stages
        <4> QED BY <4>1, WrittenTyped
      <3>2. \A q \in Pages : page'[q].got = page[q].got
                /\ (q # p => page'[q].at = page[q].at)
        BY <1>0, <2>1, <3>1 DEF ClientTyped, PageState
      <3> QED BY <1>0, <2>1, <3>1, <3>2 DEF SavingReply, Saving
    <2> QED BY <1>0, <1>11, <2>2, <2>3 DEF SaveBody, server, ServerTyped, ClientTyped
  <1>12. ASSUME NEW p \in Pages, SaveRoot(p)
         PROVE ServerTyped' /\ ClientTyped' /\ SavingReply'
    <2>1. page[p] \in PageState /\ page[p].got \in Replies
      BY <1>0, <1>12 DEF SaveRoot, ClientTyped, SavingReply, Saving
    <2>2. store' \in Memory
      BY <1>0, <1>12, <2>1, MemoryRooted DEF SaveRoot, ClientTyped, PageState
    <2>3. page' \in [Pages -> PageState] /\ SavingReply'
      <3> DEFINE w == Written(p, "ack")
      <3>1. /\ w \in [Pages -> PageState]
            /\ w[p] = [page[p] EXCEPT !.at = "ack"]
            /\ \A q \in Pages \ {p} : w[q] = [page[q] EXCEPT !.fresh = FALSE]
        BY <1>0, WrittenTyped DEF ClientTyped, Stages
      <3>2. page' = [w EXCEPT ![p] = [w[p] EXCEPT !.applied = page[p].got]]
        BY <1>12 DEF SaveRoot
      <3> HIDE DEF w
      <3>3. [w[p] EXCEPT !.applied = page[p].got] \in PageState
            /\ [w[p] EXCEPT !.applied = page[p].got].at = "ack"
        <4>1. w[p] \in PageState /\ w[p].at = "ack" /\ page[p].got \in ReplyOrNothing
          BY <2>1, <3>1 DEF PageState, ReplyOrNothing
        <4> QED BY <4>1 DEF PageState
      <3>4. page' \in [Pages -> PageState]
        BY <3>1, <3>2, <3>3
      <3>5. \A q \in Pages \ {p} : page'[q].got = page[q].got /\ page'[q].at = page[q].at
        BY <1>0, <3>1, <3>2 DEF ClientTyped, PageState
      <3> QED BY <1>0, <3>1, <3>2, <3>3, <3>4, <3>5 DEF SavingReply, Saving
    <2>4. marker' \in [at : {"none", "on", "off"}, target : Targets]
      BY <1>0, <1>12, <2>1 DEF SaveRoot, ClientTyped, PageState
    <2> QED BY <1>0, <1>12, <2>2, <2>3, <2>4
            DEF SaveRoot, server, ServerTyped, ClientTyped
  <1>13. ASSUME NEW p \in Pages, SaveFails(p)
         PROVE ServerTyped' /\ ClientTyped' /\ SavingReply'
    <2>1. page' \in [Pages -> PageState] /\ SavingReply'
      BY <1>13, <1>d DEF SaveFails, Stages
    <2>2. losses' \in 0..MaxLosses
      BY <1>0, <1>13, <1>b DEF SaveFails, ClientTyped
    <2> QED BY <1>0, <1>13, <2>1, <2>2 DEF SaveFails, server, ServerTyped, ClientTyped
  <1>14. ASSUME NEW p \in Pages, Edit(p)
         PROVE ServerTyped' /\ ClientTyped' /\ SavingReply'
    <2> DEFINE chat == [page[p].mem EXCEPT !.edits = 1]
               w == Written(p, page[p].at)
    <2>1. page[p] \in PageState
      BY <1>0 DEF ClientTyped
    <2>2. chat \in Memory
      <3>1. 1 \in 0..1 /\ page[p].mem \in Memory
        BY <2>1 DEF PageState
      <3> QED BY <3>1, MemoryEdited, Zenon
    <2>3. /\ w \in [Pages -> PageState]
          /\ w[p] = [page[p] EXCEPT !.at = page[p].at]
          /\ \A q \in Pages \ {p} : w[q] = [page[q] EXCEPT !.fresh = FALSE]
      BY <1>0, <2>1, WrittenTyped DEF ClientTyped, PageState
    <2>4. page' = [w EXCEPT ![p] = [w[p] EXCEPT !.mem = chat]]
          /\ store' = [chat EXCEPT !.root = store.root]
      BY <1>14 DEF Edit
    <2> HIDE DEF w, chat
    <2>5. store' \in Memory
      BY <1>0, <2>2, <2>4, MemoryRooted DEF ClientTyped
    <2>6. [w[p] EXCEPT !.mem = chat] \in PageState
          /\ [w[p] EXCEPT !.mem = chat].at = page[p].at
          /\ [w[p] EXCEPT !.mem = chat].got = page[p].got
      <3>1. w[p] \in PageState /\ w[p].at = page[p].at /\ w[p].got = page[p].got
        BY <2>1, <2>3 DEF PageState
      <3> QED BY <2>2, <3>1 DEF PageState
    <2>7. page' \in [Pages -> PageState]
      BY <2>3, <2>4, <2>6
    <2>8. \A q \in Pages : page'[q].got = page[q].got /\ page'[q].at = page[q].at
      BY <1>0, <2>3, <2>4, <2>6 DEF ClientTyped, PageState
    <2>9. SavingReply'
      BY <1>0, <2>8 DEF SavingReply, Saving
    <2> QED BY <1>0, <1>14, <2>5, <2>7, <2>9 DEF Edit, server, ServerTyped, ClientTyped
  <1>15. CASE EditElsewhere
    <2>1. store' \in Memory
      <3>1. 1 \in 0..1
        OBVIOUS
      <3> QED BY <1>0, <1>15, <3>1, MemoryEdited, Zenon DEF EditElsewhere, ClientTyped
    <2>2. page' \in [Pages -> PageState]
          /\ \A q \in Pages : page'[q].got = page[q].got /\ page'[q].at = page[q].at
      <3>1. \A q \in Pages : [page[q] EXCEPT !.fresh = FALSE] \in PageState
        BY <1>0 DEF ClientTyped, PageState
      <3> QED BY <1>0, <1>15, <3>1 DEF EditElsewhere, ClientTyped, PageState
    <2>3. SavingReply'
      BY <1>0, <2>2 DEF SavingReply, Saving
    <2> QED BY <1>0, <1>15, <2>1, <2>2, <2>3
            DEF EditElsewhere, server, ServerTyped, ClientTyped
  <1>16. ASSUME NEW p \in Pages, Ack(p)
         PROVE ServerTyped' /\ ClientTyped' /\ SavingReply'
    <2>1. ASSUME Confirmed(p)
          PROVE  /\ page' \in [Pages -> PageState] /\ SavingReply'
                 /\ marker' \in [at : {"none", "on", "off"}, target : Targets]
                 /\ fallback' \in BOOLEAN
      <3>1. CASE page' = To(p, "idle") /\ UNCHANGED <<marker, fallback>>
        BY <1>0, <3>1, <1>d DEF Stages, ClientTyped
      <3>2. CASE FallBack(p)
        BY <3>2, <1>e, <1>f DEF FallBack, Close
      <3>3. CASE Close(p) /\ UNCHANGED fallback
        BY <1>0, <3>3, <1>e, <1>f DEF Close, ClientTyped
      <3> QED BY <2>1, <3>1, <3>2, <3>3 DEF Confirmed
    <2>2. ASSUME Unconfirmed(p)
          PROVE  /\ page' \in [Pages -> PageState] /\ SavingReply'
                 /\ marker' \in [at : {"none", "on", "off"}, target : Targets]
                 /\ fallback' \in BOOLEAN
      BY <1>0, <2>2, <1>d, <1>e DEF Unconfirmed, ClientTyped, Stages
    <2>3. /\ page' \in [Pages -> PageState] /\ SavingReply'
          /\ marker' \in [at : {"none", "on", "off"}, target : Targets]
          /\ fallback' \in BOOLEAN
      <3>1. CASE page' = To(p, "idle") /\ UNCHANGED <<marker, fallback>>
        BY <1>0, <3>1, <1>d DEF Stages, ClientTyped
      <3> QED BY <1>16, <2>1, <2>2, <3>1 DEF Ack
    <2>4. losses' \in 0..MaxLosses
      BY <1>0, <1>16, <1>b DEF Ack, ClientTyped
    <2>5. Acknowledge(p) \/ UNCHANGED <<entry, row, parked>>
      BY <1>16 DEF Ack
    <2>6. ServerTyped'
      BY <1>0, <1>16, <2>5 DEF Ack, Acknowledge, ServerTyped, Entries, Rows
    <2> QED BY <1>0, <1>16, <2>3, <2>4, <2>6 DEF Ack, ClientTyped
  <1>17. ASSUME NEW p \in Pages, Leave(p)
         PROVE ServerTyped' /\ ClientTyped' /\ SavingReply'
    BY <1>0, <1>17, <1>e DEF Leave, server, ServerTyped, ClientTyped
  <1>18. ASSUME NEW p \in Pages, Boot(p)
         PROVE ServerTyped' /\ ClientTyped' /\ SavingReply'
    <2> DEFINE committed == /\ store.root # Nothing
                            /\ store.root.result = IF store.root.to = "chat"
                                                   THEN store.reply ELSE store.copy
               target == IF committed THEN Target(store.root.to, 0, store.root.result)
                         ELSE IF {store.reply, store.copy} # {Nothing}
                              THEN Delivered(store) ELSE marker.target
               applied == IF committed THEN store.root.result ELSE Nothing
               q == [at |-> "idle", fresh |-> TRUE, mem |-> store, target |-> target,
                     got |-> Nothing, applied |-> applied]
    <2>1. page' = [page EXCEPT ![p] = q]
      BY <1>18, Zenon DEF Boot
    <2>2. /\ store.reply \in ReplyOrNothing /\ store.copy \in ReplyOrNothing
          /\ store.root # Nothing =>
                /\ store.root.to \in {"chat", "copy"}
                /\ store.root.result \in Replies
      BY <1>0 DEF ClientTyped, Memory
    <2>3. Delivered(store) \in Targets
      BY <2>2 DEF Delivered, Target, Targets
    <2>4. target \in Targets
      <3>1. marker.target \in Targets
        BY <1>0 DEF ClientTyped
      <3>2. committed => Target(store.root.to, 0, store.root.result) \in Targets
        BY <2>2 DEF Target, Targets, ReplyOrNothing
      <3> HIDE DEF committed
      <3> QED BY <2>3, <3>1, <3>2
    <2>5. applied \in ReplyOrNothing
      BY <2>2 DEF ReplyOrNothing
    <2> HIDE DEF committed, target, applied
    <2>6. q \in PageState /\ ~Saving(q)
      BY <1>0, <2>4, <2>5 DEF ClientTyped, PageState, Stages, Saving
    <2> HIDE DEF q
    <2>7. page' \in [Pages -> PageState] /\ SavingReply'
      BY <2>1, <2>6, <1>c
    <2> QED BY <1>0, <1>18, <2>7 DEF Boot, server, ServerTyped, ClientTyped
  <1>19. CASE MarkerExpires
    BY <1>0, <1>19, <1>f DEF MarkerExpires, server, ServerTyped, ClientTyped, SavingReply
  <1>20. CASE Expire
    BY <1>0, <1>20 DEF Expire, client, ServerTyped, ClientTyped, SavingReply, Rows
  <1>21. CASE DeliveryRestart
    BY <1>0, <1>21 DEF DeliveryRestart, client, ServerTyped, ClientTyped, SavingReply,
       Entries
  <1> QED
    BY <1>g, <1>1, <1>2, <1>3, <1>4, <1>5, <1>6, <1>7, <1>8, <1>9, <1>10, <1>11,
       <1>12, <1>13, <1>14, <1>15, <1>16, <1>17, <1>18, <1>19, <1>20, <1>21
       DEF DeliveryMove, DeliveryStep

(* Every variable of the delivery keeps its type, and a page that saves    *)
(* has a reply to save.                                                    *)
THEOREM DeliveryTyped == Spec => [](DeliveryTypeOK /\ SavingReply)
  <1>1. Init => Typed
    BY TypedInit
  <1>2. Typed /\ [Next]_vars => Typed'
    BY TypedNext, ServerMoves
  <1> QED BY <1>1, <1>2, PTL DEF Spec, Typed
---------------------------------------------------------------------------
(* The edits of the user                                                   *)

(* What a page could save has the edit, or is refused.                     *)
HasEdit(q) == q.target.edits = 0 /\ (q.fresh /\ edited => q.mem.edits = 1)

EditsInv ==
    /\ EditsKept
    /\ marker.target.edits = 0
    /\ \A p \in Pages : HasEdit(page[p])

(* Steps that leave the chats alone.                                       *)
Plain(p) ==
    /\ UNCHANGED <<store, edited>> /\ marker'.target = marker.target
    /\ \/ page' = page
       \/ page' = [page EXCEPT ![p] = Closed]
       \/ Open(p) /\ page' = To(p, "idle")

Taken(p) ==
    /\ page[p].at = "idle" /\ ~Gone /\ parked # Nothing /\ ~ClaimedByOther(p)
    /\ parked' = Claim(p)
    /\ page' = [page EXCEPT ![p] = Take(page[p], parked.result)]
    /\ UNCHANGED <<entry, aborted, row, starts, answer, store, edited, outrun,
                   marker, fallback, losses>>

LEMMA DeliveryCases ==
    ASSUME Typed, DeliveryMove
    PROVE  \/ Delegate \/ EditElsewhere
           \/ \E p \in Pages : SaveBody(p) \/ SaveRoot(p) \/ Edit(p) \/ Boot(p)
                               \/ Taken(p) \/ Plain(p)
  <1>0. Sender \in Pages
    BY DeliveryAssumption DEF Sender, Pages
  <1>1. ClearMarker => marker'.target = marker.target
    BY DEF ClearMarker, Typed, DeliveryTypeOK
  <1>2. \A p \in Pages : Start(p) => Plain(p)
    BY DEF Start, Plain, Open
  <1>3. \A p \in Pages : StartRefused(p) => Plain(p)
    BY <1>1 DEF StartRefused, FallBack, Close, Plain
  <1>4. ProviderStarts \/ MidPublish \/ RunEnds \/ Lapse \/ Expire \/ DeliveryRestart
        \/ (UNCHANGED deliveryVars) => Plain(Sender)
    BY DEF ProviderStarts, MidPublish, RunEnds, Lapse, Expire, DeliveryRestart,
           deliveryVars, client, Plain
  <1>5. MarkerExpires => Plain(Sender)
    BY <1>1 DEF MarkerExpires, Plain
  <1>6. \A p \in Pages : Cancel(p) => Plain(p)
    BY <1>1 DEF Cancel, Close, Plain
  <1>7. \A p \in Pages : Poll(p) => Plain(p) \/ Taken(p)
    BY <1>1 DEF Poll, FallBack, Close, Plain, Taken
  <1>8. \A p \in Pages : Heartbeat(p) \/ SaveFails(p) \/ Leave(p) => Plain(p)
    BY DEF Heartbeat, SaveFails, Leave, client, Plain, Open
  <1>9. \A p \in Pages : Ack(p) => Plain(p)
    BY <1>1 DEF Ack, Confirmed, Unconfirmed, FallBack, Close, Plain, Open
  <1> QED BY <1>0, <1>2, <1>3, <1>4, <1>5, <1>6, <1>7, <1>8, <1>9
          DEF DeliveryMove, DeliveryStep

LEMMA MergeKeepsEdit ==
    ASSUME NEW q \in PageState, NEW result \in Replies, HasEdit(q)
    PROVE  HasEdit(Merge(q, result))
  <1> DEFINE done == Merged(q.mem, result)
             to == IF done THEN IF q.mem.reply = result THEN "chat" ELSE "copy"
                   ELSE IF Conflict(q.mem, q.target) THEN "copy" ELSE q.target.to
             chat == IF done THEN q.mem
                     ELSE IF to = "copy" THEN [q.mem EXCEPT !.copy = result]
                     ELSE [q.mem EXCEPT !.reply = result, !.edits = 0]
             mem == [chat EXCEPT !.root = Root(result, to)]
  <1>1. Merge(q, result) = [q EXCEPT !.at = "merged", !.got = result, !.mem = mem,
                                     !.target = Target(to, 0, result)]
    BY Zenon DEF Merge
  <1>2. q.mem \in Memory /\ q.target \in Targets
    BY DEF PageState
  <1>3. ASSUME q.mem.edits = 1 PROVE chat.edits = 1 /\ chat \in Memory
    <2>1. CASE done
      BY <1>2, <1>3, <2>1
    <2>2. CASE ~done /\ to = "copy"
      <3>1. chat = [q.mem EXCEPT !.copy = result]
        BY <2>2
      <3> QED BY <1>2, <1>3, <3>1, MemoryReplied DEF Memory
    <2>3. CASE ~done /\ to # "copy"
      <3>1. ~Conflict(q.mem, q.target) /\ q.target.to = "chat"
        BY <1>2, <2>3 DEF Targets
      <3>2. q.target.edits = 0
        BY DEF HasEdit
      <3> QED BY <1>3, <3>1, <3>2 DEF Conflict
    <2> QED BY <2>1, <2>2, <2>3
  <1> HIDE DEF chat, to, done
  <1>4. ASSUME q.mem.edits = 1 PROVE mem.edits = 1
    BY <1>3, <1>4 DEF Memory
  <1>5. Target(to, 0, result).edits = 0
    BY DEF Target
  <1> HIDE DEF mem
  <1> QED BY <1>1, <1>4, <1>5 DEF HasEdit, PageState

LEMMA TakeKeepsEdit ==
    ASSUME NEW q \in PageState, NEW result \in Results, HasEdit(q)
    PROVE  HasEdit(Take(q, result))
  <1>1. CASE result = "fail" \/ Rank(result) <= Rank(q.applied)
    <2>1. Take(q, result) = [q EXCEPT !.at = "ack", !.got = result]
      BY <1>1, Zenon DEF Take
    <2> QED BY <2>1 DEF PageState, HasEdit
  <1>2. CASE ~(result = "fail" \/ Rank(result) <= Rank(q.applied))
    <2>1. Take(q, result) = Merge(q, result) /\ result \in Replies
      BY <1>2, Zenon DEF Take, Results
    <2> QED BY <2>1, MergeKeepsEdit
  <1> QED BY <1>1, <1>2

LEMMA EditsNext ==
    ASSUME Typed, EditsInv, DeliveryMove
    PROVE  EditsInv'
  <1>0. /\ page \in [Pages -> PageState] /\ \A q \in Pages : page[q] \in PageState
        /\ store \in Memory
    BY TypedParts DEF ClientTyped
  <1>a. Base.edits = 0 /\ Closed.target = Base /\ ~Closed.fresh
    BY DEF Base, Target, Closed
  <1>b. ASSUME NEW p \in Pages, NEW q \in PageState, HasEdit(q),
               page' = [page EXCEPT ![p] = q], UNCHANGED edited
        PROVE  \A x \in Pages : HasEdit(page[x])'
    BY <1>0, <1>b DEF EditsInv, HasEdit
  <1>1. CASE Delegate
    <2> DEFINE q == [Closed EXCEPT !.at = "starting", !.fresh = TRUE, !.mem = store]
    <2>1. q \in PageState /\ q.target = Base /\ q.mem = store
      BY <1>0, EmptyTyped DEF PageState, Stages, Closed
    <2>2. HasEdit(q)
      BY <1>a, <2>1 DEF HasEdit, EditsInv, EditsKept
    <2>3. page' = [page EXCEPT ![Sender] = q] /\ Sender \in Pages
      BY <1>1, DeliveryAssumption DEF Delegate, Sender, Pages
    <2>4. UNCHANGED <<store, edited>> /\ marker'.target = Base
      BY <1>1 DEF Delegate
    <2> HIDE DEF q
    <2> QED BY <1>a, <1>b, <2>1, <2>2, <2>3, <2>4 DEF EditsInv, EditsKept
  <1>2. CASE EditElsewhere
    <2>1. \A q \in Pages : ~page'[q].fresh /\ page'[q].target = page[q].target
      BY <1>0, <1>2 DEF EditElsewhere, PageState
    <2>2. store'.edits = 1 /\ UNCHANGED marker
      BY <1>0, <1>2 DEF EditElsewhere, Memory
    <2> QED BY <2>1, <2>2 DEF EditsInv, EditsKept, HasEdit
  <1>3. ASSUME NEW p \in Pages, Plain(p) PROVE EditsInv'
    <2>1. CASE page' = page
      BY <1>3, <2>1 DEF Plain, EditsInv, EditsKept, HasEdit
    <2>2. CASE page' = [page EXCEPT ![p] = Closed]
      <3>1. HasEdit(Closed)
        BY <1>a DEF HasEdit
      <3> QED BY <1>3, <1>b, <2>2, <3>1, EmptyTyped DEF Plain, EditsInv, EditsKept
    <2>3. CASE page' = To(p, "idle")
      <3>1. [page[p] EXCEPT !.at = "idle"] \in PageState
            /\ HasEdit([page[p] EXCEPT !.at = "idle"])
        BY <1>0 DEF PageState, Stages, HasEdit, EditsInv
      <3> QED BY <1>3, <1>b, <2>3, <3>1 DEF Plain, To, EditsInv, EditsKept
    <2> QED BY <1>3, <2>1, <2>2, <2>3 DEF Plain
  <1>4. ASSUME NEW p \in Pages, Taken(p) PROVE EditsInv'
    <2>1. parked.result \in Results
      BY <1>4, TypedParts DEF Taken, ServerTyped
    <2>2. Take(page[p], parked.result) \in PageState
          /\ HasEdit(Take(page[p], parked.result))
      BY <1>0, <2>1, TakeTyped, TakeKeepsEdit DEF EditsInv
    <2>3. \A x \in Pages : HasEdit(page[x])'
      BY <1>4, <1>b, <2>2 DEF Taken
    <2> QED BY <1>4, <2>3 DEF Taken, EditsInv, EditsKept
  <1>5. ASSUME NEW p \in Pages, SaveBody(p) PROVE EditsInv'
    <2>1. "half" \in Stages /\ page' = Written(p, "half")
      BY <1>5 DEF SaveBody, Stages
    <2>2. /\ page'[p] = [page[p] EXCEPT !.at = "half"]
          /\ \A q \in Pages \ {p} : page'[q] = [page[q] EXCEPT !.fresh = FALSE]
      BY <1>0, <2>1, WrittenTyped
    <2>3. UNCHANGED <<edited, marker>>
      BY <1>5 DEF SaveBody
    <2>4. \A q \in Pages : page'[q].target = page[q].target /\ page'[q].mem = page[q].mem
              /\ (page'[q].fresh => page[q].fresh)
      <3>1. page'[p].target = page[p].target /\ page'[p].mem = page[p].mem
            /\ page'[p].fresh = page[p].fresh
        BY <1>0, <2>2 DEF PageState
      <3>2. \A q \in Pages \ {p} : /\ page'[q].target = page[q].target
                                  /\ page'[q].mem = page[q].mem /\ ~page'[q].fresh
        BY ZenonT(40), <1>0, <2>2 DEF PageState
      <3> QED BY <3>1, <3>2
    <2>5. edited => store'.edits = 1
      BY <1>0, <1>5 DEF SaveBody, EditsInv, HasEdit, PageState, Memory
    <2> QED BY <2>3, <2>4, <2>5 DEF EditsInv, EditsKept, HasEdit
  <1>6. ASSUME NEW p \in Pages, SaveRoot(p) PROVE EditsInv'
    <2> DEFINE w == Written(p, "ack")
    <2>1. /\ w \in [Pages -> PageState] /\ w[p] = [page[p] EXCEPT !.at = "ack"]
          /\ \A q \in Pages \ {p} : w[q] = [page[q] EXCEPT !.fresh = FALSE]
      BY <1>0, WrittenTyped DEF Stages
    <2>2. page' = [w EXCEPT ![p] = [w[p] EXCEPT !.applied = page[p].got]]
      BY <1>6 DEF SaveRoot
    <2> HIDE DEF w
    <2>3. \A q \in Pages : page'[q].target = page[q].target /\ page'[q].mem = page[q].mem
              /\ (page'[q].fresh => page[q].fresh)
      BY <1>0, <2>1, <2>2 DEF PageState
    <2>4. UNCHANGED edited /\ store'.edits = store.edits
      BY <1>0, <1>6 DEF SaveRoot, Memory
    <2>5. marker'.target \in {marker.target, page[p].target}
      BY <1>6, TypedParts DEF SaveRoot, ClientTyped
    <2> QED BY <2>3, <2>4, <2>5 DEF EditsInv, EditsKept, HasEdit
  <1>7. ASSUME NEW p \in Pages, Edit(p) PROVE EditsInv'
    <2> DEFINE chat == [page[p].mem EXCEPT !.edits = 1]
               w == Written(p, page[p].at)
    <2>1. page[p].mem \in Memory /\ page[p].at \in Stages
      BY <1>0 DEF PageState
    <2>2. chat.edits = 1 /\ [chat EXCEPT !.root = store.root].edits = 1
      BY <2>1 DEF Memory
    <2>3. /\ w \in [Pages -> PageState]
          /\ w[p] = [page[p] EXCEPT !.at = page[p].at]
          /\ \A q \in Pages \ {p} : w[q] = [page[q] EXCEPT !.fresh = FALSE]
      BY <1>0, <2>1, WrittenTyped
    <2>4. /\ page' = [w EXCEPT ![p] = [w[p] EXCEPT !.mem = chat]]
          /\ store' = [chat EXCEPT !.root = store.root]
          /\ UNCHANGED marker
      BY <1>7 DEF Edit
    <2> HIDE DEF w, chat
    <2>5. \A q \in Pages \ {p} : page'[q].target = page[q].target /\ ~page'[q].fresh
      BY <1>0, <2>3, <2>4 DEF PageState
    <2>6. page'[p].target = page[p].target /\ page'[p].mem = chat
      BY <1>0, <2>3, <2>4 DEF PageState
    <2> QED BY <2>2, <2>4, <2>5, <2>6 DEF EditsInv, EditsKept, HasEdit
  <1>8. ASSUME NEW p \in Pages, Boot(p) PROVE EditsInv'
    <2> DEFINE committed == /\ store.root # Nothing
                            /\ store.root.result = IF store.root.to = "chat"
                                                   THEN store.reply ELSE store.copy
               target == IF committed THEN Target(store.root.to, 0, store.root.result)
                         ELSE IF {store.reply, store.copy} # {Nothing}
                              THEN Delivered(store) ELSE marker.target
               applied == IF committed THEN store.root.result ELSE Nothing
               q == [at |-> "idle", fresh |-> TRUE, mem |-> store, target |-> target,
                     got |-> Nothing, applied |-> applied]
    <2>1. page' = [page EXCEPT ![p] = q] /\ UNCHANGED <<store, marker, edited>>
      BY <1>8, Zenon DEF Boot
    <2>2. target.edits = 0
      BY DEF Target, Delivered, EditsInv
    <2> HIDE DEF target, applied
    <2>3. q.target.edits = 0 /\ q.mem = store
      BY <2>2
    <2> HIDE DEF q
    <2>4. \A x \in Pages : HasEdit(page[x])'
      BY <1>0, <2>1, <2>3 DEF EditsInv, EditsKept, HasEdit
    <2> QED BY <2>1, <2>4 DEF EditsInv, EditsKept
  <1> QED BY <1>1, <1>2, <1>3, <1>4, <1>5, <1>6, <1>7, <1>8, DeliveryCases

(* An edit that the user makes while a reply is generated survives every   *)
(* delivery of it (orchestrationTargetHasConflict and the conflict copy).  *)
THEOREM EditsSurvive == Spec => []EditsKept
  <1>1. Init => EditsInv
    <2> SUFFICES ASSUME Init PROVE EditsInv
      OBVIOUS
    <2>1. \A p \in Pages : ~page[p].fresh /\ page[p].target = Base
      BY EmptyTyped DEF Init, DeliveryInit, Closed
    <2> QED BY <2>1 DEF Init, DeliveryInit, EditsInv, EditsKept, HasEdit, Base, Target
  <1>2. Typed /\ EditsInv /\ [Next]_vars => EditsInv'
    BY EditsNext, ServerMoves
  <1>3. EditsInv => EditsKept
    BY DEF EditsInv
  <1> QED BY <1>1, <1>2, <1>3, DeliveryTyped, PTL DEF Spec, Typed
---------------------------------------------------------------------------
(* The run and what it has published                                       *)

RunInv ==
    /\ row \in Restartable =>
          /\ answer = Nothing /\ starts = 0 /\ ~aborted
          /\ entry \in {"missing", "queued"}
    /\ entry = "queued" => answer = Nothing /\ starts = 0
    /\ starts <= 1
    /\ answer = "fail" => entry \notin Active
    /\ parked # Nothing => parked.result = answer

(* Answers are never taken back, and an error is the last one.             *)
Forward ==
    /\ answer = "fail" => answer' = "fail"
    /\ answer # Nothing => answer' # Nothing
    /\ outrun => outrun'

LEMMA RunNext ==
    ASSUME Typed, RunInv, DeliveryMove
    PROVE  RunInv' /\ Forward
  <1>0. ServerTyped /\ ClientTyped /\ Nothing \notin Results
    BY TypedParts, DeliveryAssumption DEF Results, Replies
  <1>1. CASE UNCHANGED <<server, outrun>>
    BY <1>1 DEF server, RunInv, Forward
  <1>2. ASSUME NEW p \in Pages, Start(p) PROVE RunInv' /\ Forward
    <2>1. UNCHANGED <<aborted, starts, answer, outrun>>
      BY <1>2 DEF Start
    <2>2. CASE UNCHANGED <<entry, row, parked>>
      BY <2>1, <2>2 DEF RunInv, Forward
    <2>3. CASE /\ row \in Restartable
               /\ entry' = "queued" /\ row' = "queued" /\ parked' = Nothing
      BY <1>0, <2>1, <2>3 DEF RunInv, Forward, Results
    <2> QED BY <1>2, <2>2, <2>3 DEF Start
  <1>3. ASSUME NEW p \in Pages, StartRefused(p) PROVE RunInv' /\ Forward
    BY <1>0, <1>3 DEF StartRefused, RunInv, Forward, Restartable, Active
  <1>4. CASE ProviderStarts
    BY <1>0, <1>4 DEF ProviderStarts, RunInv, Forward, Restartable, Active, ServerTyped
  <1>5. ASSUME NEW result \in Results PROVE Publish(result).result = result
    BY <1>0 DEF Publish, ServerTyped
  <1>6. CASE MidPublish
    <2>1. "mid" \in Results
      BY DEF Results, Replies
    <2>2. parked'.result = "mid" /\ answer' = "mid" /\ row' = "running-result-ready"
      BY <1>5, <1>6, <2>1 DEF MidPublish
    <2>3. entry = "generating" /\ entry' = "post" /\ answer # "fail"
      BY <1>6 DEF MidPublish, RunInv, Active
    <2> QED BY <1>0, <1>6, <2>1, <2>2, <2>3
            DEF MidPublish, RunInv, Forward, Restartable, Active
  <1>7. CASE RunEnds
    <2>1. CASE aborted /\ entry' = "cancelled" /\ UNCHANGED <<row, parked, answer, losses>>
      BY <1>0, <1>7, <2>1 DEF RunEnds, RunInv, Forward, Restartable, Active
    <2>2. CASE /\ entry' = "finished" /\ row' = "result-ready"
               /\ answer' \in {"end", "fail"} /\ parked' = Publish(answer')
      <3>1. answer' \in Results
        BY <2>2 DEF Results, Replies
      <3>2. answer # "fail"
        BY <1>7 DEF RunEnds, RunInv
      <3> QED BY <1>0, <1>5, <1>7, <2>2, <3>1, <3>2
              DEF RunEnds, RunInv, Forward, Restartable, Active
    <2>3. CASE /\ entry' = "delivery-failed" /\ row' = "delivery-failed"
               /\ UNCHANGED <<parked, answer>>
      BY <1>0, <1>7, <2>3 DEF RunEnds, RunInv, Forward, Restartable, Active
    <2> QED BY <1>7, <2>1, <2>2, <2>3 DEF RunEnds
  <1>8. ASSUME NEW p \in Pages, Cancel(p) PROVE RunInv' /\ Forward
    BY <1>0, <1>8 DEF Cancel, RunInv, Forward, Restartable, Active
  <1>9. ASSUME NEW p \in Pages, parked # Nothing, parked' = Claim(p),
               UNCHANGED <<entry, aborted, row, starts, answer, outrun>>
        PROVE  RunInv' /\ Forward
    <2>1. parked'.result = parked.result
      BY <1>0, <1>9 DEF Claim, ServerTyped
    <2> QED BY <1>9, <2>1 DEF RunInv, Forward
  <1>10. ASSUME NEW p \in Pages, Poll(p) \/ Heartbeat(p) PROVE RunInv' /\ Forward
    <2>1. \/ UNCHANGED <<server, outrun>>
          \/ parked # Nothing /\ parked' = Claim(p)
             /\ UNCHANGED <<entry, aborted, row, starts, answer, outrun>>
      BY <1>10 DEF Poll, Heartbeat, server
    <2> QED BY <1>1, <1>9, <2>1
  <1>11. CASE Lapse
    BY <1>0, <1>11 DEF Lapse, RunInv, Forward, ServerTyped
  <1>12. ASSUME NEW p \in Pages, Ack(p) PROVE RunInv' /\ Forward
    <2>1. CASE Acknowledge(p)
      BY <1>0, <1>12, <2>1 DEF Ack, Acknowledge, RunInv, Forward, Restartable, Active
    <2>2. CASE UNCHANGED <<entry, row, parked>>
      BY <1>1, <1>12, <2>2 DEF Ack, server
    <2> QED BY <1>12, <2>1, <2>2 DEF Ack
  <1>13. CASE Expire
    BY <1>0, <1>13 DEF Expire, RunInv, Forward, Restartable
  <1>14. CASE DeliveryRestart
    BY <1>0, <1>14 DEF DeliveryRestart, RunInv, Forward, Restartable, Active
  <1>15. ASSUME NEW p \in Pages,
                SaveBody(p) \/ SaveRoot(p) \/ SaveFails(p) \/ Edit(p) \/ Leave(p) \/ Boot(p)
         PROVE UNCHANGED <<server, outrun>>
    BY <1>15 DEF SaveBody, SaveRoot, SaveFails, Edit, Leave, Boot, server
  <1>16. Delegate \/ EditElsewhere \/ MarkerExpires \/ (UNCHANGED deliveryVars)
            => UNCHANGED <<server, outrun>>
    BY DEF Delegate, EditElsewhere, MarkerExpires, deliveryVars, server
  <1> QED BY <1>1, <1>2, <1>3, <1>4, <1>6, <1>7, <1>8, <1>10, <1>11, <1>12, <1>13,
             <1>14, <1>15, <1>16 DEF DeliveryMove, DeliveryStep
---------------------------------------------------------------------------
(* The pages                                                               *)

(* What a step does to a page other than by sending or by taking a result. *)
Calm(q) ==
    \/ page'[q].at = page[q].at /\ page'[q].got = page[q].got
    \/ /\ page'[q].at \notin {"merged", "half", "starting"}
       /\ page'[q].got \in {page[q].got, Nothing}
    \/ Saving(page[q]) /\ Saving(page'[q]) /\ page'[q].got = page[q].got

LEMMA PageCases ==
    ASSUME Typed, DeliveryMove
    PROVE  \/ Delegate \/ (\E p \in Pages : Taken(p))
           \/ \A q \in Pages : Calm(q)
  <1>0. page \in [Pages -> PageState] /\ \A q \in Pages : page[q] \in PageState
    BY TypedParts DEF ClientTyped
  <1>a. Closed.at = "closed" /\ Closed.got = Nothing
    BY DEF Closed
  <1>1. CASE EditElsewhere
    <2>1. \A q \in Pages : page'[q].got = page[q].got /\ page'[q].at = page[q].at
      BY <1>0, <1>1 DEF EditElsewhere, PageState
    <2> QED BY <2>1 DEF Calm
  <1>2. ASSUME NEW p \in Pages, Plain(p) PROVE \A q \in Pages : Calm(q)
    <2>1. CASE page' = page
      BY <2>1 DEF Calm
    <2>2. CASE page' = [page EXCEPT ![p] = Closed]
      BY <1>0, <1>a, <2>2 DEF Calm
    <2>3. CASE page' = To(p, "idle")
      <3>1. \A q \in Pages \ {p} : page'[q] = page[q]
        BY <1>0, <2>3 DEF To
      <3>2. page'[p].at = "idle" /\ page'[p].got = page[p].got
        BY <1>0, <2>3 DEF To, PageState
      <3> QED BY <3>1, <3>2 DEF Calm
    <2> QED BY <1>2, <2>1, <2>2, <2>3 DEF Plain
  <1>3. ASSUME NEW p \in Pages, SaveBody(p) PROVE \A q \in Pages : Calm(q)
    <2>1. "half" \in Stages /\ page' = Written(p, "half")
      BY <1>3 DEF SaveBody, Stages
    <2>2. /\ page'[p] = [page[p] EXCEPT !.at = "half"]
          /\ \A q \in Pages \ {p} : page'[q] = [page[q] EXCEPT !.fresh = FALSE]
      BY <1>0, <2>1, WrittenTyped
    <2>3. page'[p].at = "half" /\ page'[p].got = page[p].got
      BY <1>0, <2>2 DEF PageState
    <2>4. \A q \in Pages \ {p} : page'[q].at = page[q].at /\ page'[q].got = page[q].got
      BY ZenonT(40), <1>0, <2>2 DEF PageState
    <2>5. page[p].at = "merged"
      BY <1>3 DEF SaveBody
    <2> QED BY <2>3, <2>4, <2>5 DEF Calm, Saving
  <1>4. ASSUME NEW p \in Pages, SaveRoot(p) PROVE \A q \in Pages : Calm(q)
    <2> DEFINE w == Written(p, "ack")
    <2>1. /\ w \in [Pages -> PageState] /\ w[p] = [page[p] EXCEPT !.at = "ack"]
          /\ \A q \in Pages \ {p} : w[q] = [page[q] EXCEPT !.fresh = FALSE]
      BY <1>0, WrittenTyped DEF Stages
    <2>2. page' = [w EXCEPT ![p] = [w[p] EXCEPT !.applied = page[p].got]]
      BY <1>4 DEF SaveRoot
    <2> HIDE DEF w
    <2>3. page'[p].at = "ack" /\ page'[p].got = page[p].got
      BY <1>0, <2>1, <2>2 DEF PageState
    <2>4. \A q \in Pages \ {p} : page'[q].at = page[q].at /\ page'[q].got = page[q].got
      BY <1>0, <2>1, <2>2 DEF PageState
    <2> QED BY <2>3, <2>4 DEF Calm
  <1>5. ASSUME NEW p \in Pages, Edit(p) PROVE \A q \in Pages : Calm(q)
    <2> DEFINE chat == [page[p].mem EXCEPT !.edits = 1]
               w == Written(p, page[p].at)
    <2>1. page[p].at \in Stages
      BY <1>0 DEF PageState
    <2>2. /\ w \in [Pages -> PageState]
          /\ w[p] = [page[p] EXCEPT !.at = page[p].at]
          /\ \A q \in Pages \ {p} : w[q] = [page[q] EXCEPT !.fresh = FALSE]
      BY <1>0, <2>1, WrittenTyped
    <2>3. page' = [w EXCEPT ![p] = [w[p] EXCEPT !.mem = chat]]
      BY <1>5 DEF Edit
    <2> HIDE DEF w, chat
    <2>4. page'[p].at = page[p].at /\ page'[p].got = page[p].got
      BY <1>0, <2>2, <2>3 DEF PageState
    <2>5. \A q \in Pages \ {p} : page'[q].at = page[q].at /\ page'[q].got = page[q].got
      BY <1>0, <2>2, <2>3 DEF PageState
    <2> QED BY <2>4, <2>5 DEF Calm
  <1>6. ASSUME NEW p \in Pages, Boot(p) PROVE \A q \in Pages : Calm(q)
    <2>1. /\ \A q \in Pages \ {p} : page'[q] = page[q]
          /\ page'[p].at = "idle" /\ page'[p].got = Nothing
      BY <1>0, <1>6 DEF Boot
    <2> QED BY <2>1 DEF Calm
  <1> QED BY <1>1, <1>2, <1>3, <1>4, <1>5, <1>6, DeliveryCases

(* No further result can be published.                                     *)
Over == (aborted \/ entry \notin Active) /\ row \notin Restartable

LEMMA ParkedIsSomething ==
    ASSUME NEW r \in [result : Results, claim : Pages \cup {Nothing}, live : BOOLEAN]
    PROVE  r # Nothing
  BY DeliveryAssumption DEF Results, Replies, Pages

(* A result that is claimed is that page's.                                *)
LEMMA ClaimGives ==
    ASSUME ServerTyped, parked # Nothing, NEW p \in Pages, parked' = Claim(p)
    PROVE  parked' # Nothing /\ parked'.live /\ parked'.claim = p
  <1>1. parked \in [result : Results, claim : Pages \cup {Nothing}, live : BOOLEAN]
    BY DEF ServerTyped
  <1>2. /\ parked' \in [result : Results, claim : Pages \cup {Nothing}, live : BOOLEAN]
        /\ parked'.live /\ parked'.claim = p
    BY <1>1 DEF Claim
  <1> QED BY <1>2, ParkedIsSomething

(* The claim of a page that saves holds as long as there is a result.      *)
Owned(p) == IF parked = Nothing THEN Over ELSE parked.live /\ parked.claim = p

WatchInv ==
    \A p \in Pages :
        /\ page[p].got = "fail" => answer = "fail"
        /\ Saving(page[p]) => answer # Nothing
        /\ page[p].at = "starting" => p = Sender

ConsumerInv ==
    /\ WatchInv
    /\ OneConsumer
    /\ \A p \in Pages : Saving(page[p]) /\ ~outrun => Owned(p)

LEMMA OwnedStays ==
    ASSUME Typed, RunInv, ConsumerInv, DeliveryMove,
           NEW p \in Pages, Saving(page[p]), ~outrun'
    PROVE  Owned(p)'
  <1>0. ServerTyped /\ ClientTyped /\ Nothing \notin Results \cup Pages
    BY TypedParts, DeliveryAssumption DEF Results, Replies, Pages
  <1>a. ~outrun /\ answer # Nothing /\ Owned(p) /\ row \notin Restartable
    BY RunNext DEF Forward, ConsumerInv, WatchInv, RunInv
  <1>1. CASE UNCHANGED server
    BY <1>a, <1>1 DEF server, Owned, Over
  <1>2. ASSUME NEW q \in Pages, Start(q) \/ StartRefused(q) PROVE Owned(p)'
    <2>1. UNCHANGED server
      BY <1>2, <1>a DEF Start, StartRefused, server
    <2> QED BY <1>1, <2>1
  <1>3. CASE ProviderStarts
    BY <1>a, <1>3 DEF ProviderStarts, Owned, Over, Active, Restartable
  <1>4. ASSUME NEW result \in Results, parked' = Publish(result), ~Over, parked # Nothing
        PROVE  Owned(p)'
    <2>1. parked \in [result : Results, claim : Pages \cup {Nothing}, live : BOOLEAN]
      BY <1>0, <1>4 DEF ServerTyped
    <2>2. parked' = [parked EXCEPT !.result = result]
      BY <1>4 DEF Publish
    <2>3. /\ parked' \in [result : Results, claim : Pages \cup {Nothing}, live : BOOLEAN]
          /\ parked'.live = parked.live /\ parked'.claim = parked.claim
      BY <1>4, <2>1, <2>2
    <2> QED BY <1>a, <1>4, <2>3, ParkedIsSomething DEF Owned
  <1>5. CASE MidPublish
    <2>1. ~Over /\ "mid" \in Results /\ parked' = Publish("mid")
      BY <1>5 DEF MidPublish, Over, Active, Results, Replies
    <2> QED BY <1>4, <1>a, <2>1 DEF Owned
  <1>6. CASE RunEnds
    <2>1. CASE aborted
      BY <1>6, <1>a, <2>1 DEF RunEnds, Owned, Over, Active
    <2>2. CASE ~aborted
      <3>1. ~Over /\ parked # Nothing
        BY <1>6, <1>a, <2>2 DEF RunEnds, Over, Owned
      <3>2. \/ parked' = Publish(answer') /\ answer' \in Results
            \/ parked' = parked
        BY <1>6, <2>2 DEF RunEnds, Results, Replies
      <3> QED BY <1>4, <1>a, <3>1, <3>2 DEF Owned
    <2> QED BY <2>1, <2>2
  <1>7. ASSUME NEW q \in Pages, Cancel(q) PROVE Owned(p)'
    BY <1>0, <1>7 DEF Cancel, Owned, Over, Restartable, ServerTyped
  <1>8. ASSUME NEW q \in Pages, parked # Nothing, ~ClaimedByOther(q), parked' = Claim(q)
        PROVE  Owned(p)'
    <2>1. parked.live /\ parked.claim = p /\ q = p
      BY <1>a, <1>8 DEF Owned, ClaimedByOther
    <2> QED BY <1>0, <1>8, <2>1, ClaimGives DEF Owned
  <1>9. ASSUME NEW q \in Pages, Poll(q) \/ Heartbeat(q) PROVE Owned(p)'
    <2>1. \/ UNCHANGED server
          \/ parked # Nothing /\ ~ClaimedByOther(q) /\ parked' = Claim(q)
      BY <1>9 DEF Poll, Heartbeat, server
    <2> QED BY <1>1, <1>8, <2>1
  <1>10. CASE Lapse
    BY <1>10, <1>a DEF Lapse, Owned, Saving
  <1>11. ASSUME NEW q \in Pages, Ack(q) PROVE Owned(p)'
    <2>1. CASE UNCHANGED <<entry, row, parked>>
      BY <1>1, <1>11, <2>1 DEF Ack, server
    <2>2. CASE Acknowledge(q) /\ parked # Nothing /\ parked.claim \in {Nothing, q}
      <3>1. page[q].at = "ack" /\ q # p
        BY <1>11 DEF Ack, Saving
      <3>2. parked.claim = p
        BY <1>a, <2>2 DEF Owned
      <3> QED BY <1>0, <2>2, <3>1, <3>2
    <2> QED BY <1>11, <2>1, <2>2 DEF Ack
  <1>12. CASE Expire
    BY <1>12, <1>a DEF Expire, Protected, Owned
  <1>13. CASE DeliveryRestart
    BY <1>13, <1>a DEF DeliveryRestart, Owned, Over, Active
  <1>14. ASSUME NEW q \in Pages,
                SaveBody(q) \/ SaveRoot(q) \/ SaveFails(q) \/ Edit(q) \/ Leave(q) \/ Boot(q)
         PROVE UNCHANGED server
    BY <1>14 DEF SaveBody, SaveRoot, SaveFails, Edit, Leave, Boot
  <1>15. Delegate \/ EditElsewhere \/ MarkerExpires \/ (UNCHANGED deliveryVars)
            => UNCHANGED server
    BY DEF Delegate, EditElsewhere, MarkerExpires, deliveryVars, server
  <1> QED BY <1>1, <1>2, <1>3, <1>5, <1>6, <1>7, <1>9, <1>10, <1>11, <1>12,
             <1>13, <1>14, <1>15 DEF DeliveryMove, DeliveryStep

LEMMA ConsumerNext ==
    ASSUME Typed, RunInv, ConsumerInv, DeliveryMove
    PROVE  ConsumerInv'
  <1>0. page \in [Pages -> PageState] /\ \A q \in Pages : page[q] \in PageState
    BY TypedParts DEF ClientTyped
  <1>1. Forward
    BY RunNext
  <1>2. \A p \in Pages : Saving(page[p]) /\ ~outrun' => Owned(p)'
    BY OwnedStays
  <1>3. CASE \A q \in Pages : Calm(q)
    <2>1. \A q \in Pages : /\ Saving(page'[q]) => Saving(page[q])
                           /\ page'[q].got \in {page[q].got, Nothing}
                           /\ page'[q].at = "starting" => page[q].at = "starting"
      BY <1>3 DEF Calm, Saving
    <2>2. WatchInv'
      BY <1>1, <2>1, DeliveryAssumption DEF WatchInv, ConsumerInv, Forward, Saving
    <2>3. OneConsumer'
      BY <1>1, <2>1 DEF OneConsumer, ConsumerInv, Forward, Saving
    <2> QED BY <1>2, <2>1, <2>2, <2>3 DEF ConsumerInv, Saving
  <1>4. CASE Delegate
    <2>1. Sender \in Pages
      BY DeliveryAssumption DEF Sender, Pages
    <2>2. /\ page'[Sender].at = "starting" /\ page'[Sender].got = Nothing
          /\ \A q \in Pages \ {Sender} : page'[q] = page[q]
      BY <1>0, <1>4, <2>1 DEF Delegate, Closed
    <2>3. UNCHANGED <<answer, outrun>>
      BY <1>4 DEF Delegate, server
    <2>4. WatchInv'
      BY <2>2, <2>3, DeliveryAssumption DEF WatchInv, ConsumerInv, Saving
    <2>5. OneConsumer'
      BY <2>2, <2>3 DEF OneConsumer, ConsumerInv
    <2> QED BY <1>2, <2>2, <2>4, <2>5 DEF ConsumerInv, Saving
  <1>5. ASSUME NEW p \in Pages, Taken(p) PROVE ConsumerInv'
    <2>1. parked.result \in Results /\ parked.result = answer
      BY <1>5, TypedParts DEF Taken, ServerTyped, RunInv
    <2>2. /\ page'[p] = Take(page[p], parked.result)
          /\ \A q \in Pages \ {p} : page'[q] = page[q]
          /\ page[p].at = "idle" /\ UNCHANGED <<answer, outrun>>
      BY <1>0, <1>5 DEF Taken
    <2>3. /\ page'[p].got = answer /\ page'[p].at \in {"merged", "ack"}
          /\ answer # Nothing
      BY <1>0, <2>1, <2>2, TakeTyped, DeliveryAssumption DEF Results, Replies
    <2>4. WatchInv'
      BY <2>2, <2>3 DEF WatchInv, ConsumerInv
    <2>5. Owned(p)'
      <3>1. parked # Nothing /\ parked' = Claim(p)
        BY <1>5 DEF Taken
      <3> QED BY <3>1, TypedParts, ClaimGives DEF Owned
    <2>6. \A q \in Pages \ {p} : Saving(page[q]) => outrun
      BY <1>5 DEF Taken, ConsumerInv, Owned, ClaimedByOther
    <2>7. OneConsumer'
      BY <2>2, <2>6 DEF OneConsumer, ConsumerInv, Saving
    <2> QED BY <1>2, <2>2, <2>4, <2>5, <2>7 DEF ConsumerInv, Saving
  <1> QED BY <1>3, <1>4, <1>5, PageCases

LEMMA RunInit == Init => RunInv /\ ConsumerInv
  <1> SUFFICES ASSUME Init PROVE RunInv /\ ConsumerInv
    OBVIOUS
  <1>1. \A p \in Pages : page[p].at = "new" /\ page[p].got = Nothing
    BY EmptyTyped DEF Init, DeliveryInit, Closed
  <1> QED BY <1>1, DeliveryAssumption
          DEF Init, DeliveryInit, RunInv, ConsumerInv, WatchInv, OneConsumer, Saving,
              Restartable

(* Two pages save a result at once only after the claim of one has run out *)
(* (the claim of persistOrchResult and of the result routes).              *)
THEOREM ConsumersAlone == Spec => [](RunInv /\ ConsumerInv /\ OneConsumer)
  <1>1. Typed /\ RunInv /\ ConsumerInv /\ [Next]_vars => (RunInv /\ ConsumerInv)'
    BY RunNext, ConsumerNext, ServerMoves
  <1>2. RunInv /\ ConsumerInv => OneConsumer
    BY DEF ConsumerInv
  <1> QED BY <1>1, <1>2, RunInit, DeliveryTyped, PTL DEF Spec, Typed
---------------------------------------------------------------------------
(* The fallback                                                            *)

(* No reply has been paid for, or the run has ended without one.           *)
Unpaid == answer = "fail" \/ (starts = 0 /\ entry = "missing")

FallbackInv ==
    fallback => page[Sender].at # "starting" /\ marker.at # "none" /\ Unpaid

LEMMA SenderFallsBack ==
    ASSUME Typed, RunInv, ConsumerInv, DeliveryMove, fallback' # fallback
    PROVE  page'[Sender].at = "closed" /\ marker'.at = "off" /\ Unpaid'
  <1>0. ServerTyped /\ ClientTyped /\ Sender \in Pages
    BY TypedParts, DeliveryAssumption DEF Sender, Pages
  <1>1. ASSUME NEW p \in Pages, p = Sender, FallBack(p)
        PROVE  page'[Sender].at = "closed" /\ marker'.at = "off"
    BY <1>0, <1>1 DEF FallBack, Close, ClearMarker, Closed, ClientTyped
  <1>2. ASSUME NEW p \in Pages, StartRefused(p)
        PROVE  FallBack(p) /\ p = Sender /\ Unpaid'
    BY <1>2 DEF StartRefused, ConsumerInv, WatchInv, RunInv, Unpaid
  <1>3. ASSUME NEW p \in Pages, Poll(p)
        PROVE  FallBack(p) /\ p = Sender /\ Unpaid'
    <2>1. FallBack(p) /\ StartLost /\ ~Booted(p) /\ UNCHANGED <<entry, starts>>
      BY <1>3 DEF Poll
    <2> QED BY <2>1 DEF StartLost, Booted, RunInv, Restartable, Unpaid
  <1>4. ASSUME NEW p \in Pages, Ack(p)
        PROVE  FallBack(p) /\ p = Sender /\ Unpaid'
    <2>1. FallBack(p) /\ page[p].got = "fail" /\ ~Booted(p) /\ UNCHANGED answer
      BY <1>4 DEF Ack, Confirmed, Unconfirmed
    <2> QED BY <2>1 DEF Booted, ConsumerInv, WatchInv, Unpaid
  <1>5. \E p \in Pages : StartRefused(p) \/ Poll(p) \/ Ack(p)
    BY DEF DeliveryMove, DeliveryStep, Delegate, ProviderStarts, MidPublish, RunEnds,
           Lapse, Expire, MarkerExpires, EditElsewhere, Start, Cancel, Close, Heartbeat,
           SaveBody, SaveRoot, SaveFails, Edit, Leave, Boot, DeliveryRestart,
           deliveryVars, client
  <1> QED BY <1>1, <1>2, <1>3, <1>4, <1>5

LEMMA MarkerStays ==
    ASSUME Typed, DeliveryMove, marker.at # "none"
    PROVE  marker'.at # "none"
  <1>1. marker \in [at : {"none", "on", "off"}, target : Targets]
    BY TypedParts DEF ClientTyped
  <1>2. ClearMarker => marker'.at = "off"
    BY <1>1 DEF ClearMarker
  <1>3. ASSUME NEW p \in Pages, SaveRoot(p) PROVE marker'.at = marker.at
    BY <1>1, <1>3 DEF SaveRoot
  <1>4. marker' = marker \/ ClearMarker \/ (\E p \in Pages : SaveRoot(p))
    BY DEF DeliveryMove, DeliveryStep, Delegate, ProviderStarts, MidPublish, RunEnds,
           Lapse, Expire, MarkerExpires, EditElsewhere, Start, StartRefused, Poll, Ack,
           Confirmed, Unconfirmed, FallBack, Cancel, Close, Heartbeat, SaveBody,
           SaveFails, Edit, Leave, Boot, DeliveryRestart, deliveryVars, client
  <1> QED BY <1>2, <1>3, <1>4

LEMMA SenderStays ==
    ASSUME Typed, DeliveryMove, marker.at # "none", page[Sender].at # "starting"
    PROVE  page'[Sender].at # "starting"
  <1>0. Sender \in Pages /\ page \in [Pages -> PageState]
        /\ parked \in [result : Results, claim : Pages \cup {Nothing},
                       live : BOOLEAN] \cup {Nothing}
    BY TypedParts, DeliveryAssumption DEF Sender, Pages, ClientTyped, ServerTyped
  <1>1. CASE Delegate
    BY <1>1 DEF Delegate
  <1>2. ASSUME NEW p \in Pages, Taken(p) PROVE page'[Sender].at # "starting"
    <2>1. parked.result \in Results /\ page[p] \in PageState
      BY <1>0, <1>2 DEF Taken
    <2>2. Take(page[p], parked.result).at \in {"merged", "ack"}
      BY <2>1, TakeTyped
    <2> QED BY <1>0, <1>2, <2>2 DEF Taken
  <1>3. CASE \A q \in Pages : Calm(q)
    BY <1>0, <1>3 DEF Calm, Saving
  <1> QED BY <1>1, <1>2, <1>3, PageCases

LEMMA UnpaidStays ==
    ASSUME Typed, RunInv, ConsumerInv, DeliveryMove, page[Sender].at # "starting", Unpaid
    PROVE  Unpaid'
  <1>1. CASE answer = "fail"
    BY <1>1, RunNext DEF Forward, Unpaid
  <1>2. CASE starts = 0 /\ entry = "missing"
    <2>1. ASSUME NEW p \in Pages, Start(p) PROVE FALSE
      BY <2>1 DEF Start, ConsumerInv, WatchInv
    <2>2. starts' = starts /\ entry' = "missing"
      BY <1>2, <2>1
         DEF DeliveryMove, DeliveryStep, Delegate, ProviderStarts, MidPublish, RunEnds,
             Lapse, Expire, MarkerExpires, EditElsewhere, StartRefused, Poll, Ack,
             Acknowledge, Cancel, Heartbeat, SaveBody, SaveRoot, SaveFails, Edit, Leave,
             Boot, DeliveryRestart, deliveryVars, server, Active
    <2> QED BY <1>2, <2>2 DEF Unpaid
  <1> QED BY <1>1, <1>2 DEF Unpaid

(* The server starts the provider work of a message once, and the page     *)
(* generates the reply itself only if it was never started, or if the      *)
(* terminal result has no reply (the fallback of the watch,                *)
(* orphanedOperationState and the start route).                            *)
THEOREM FallbackOnlyWhenDue == Spec => []FallbackIsDue
  <1>1. Init => FallbackInv
    BY DEF Init, DeliveryInit, FallbackInv
  <1>2. ASSUME Typed, RunInv, ConsumerInv, FallbackInv, DeliveryMove PROVE FallbackInv'
    <2>1. CASE fallback' # fallback
      BY <1>2, <2>1, SenderFallsBack DEF FallbackInv
    <2>2. CASE fallback' = fallback
      BY <1>2, <2>2, MarkerStays, SenderStays, UnpaidStays DEF FallbackInv
    <2> QED BY <2>1, <2>2
  <1>3. Typed /\ RunInv /\ ConsumerInv /\ FallbackInv /\ [Next]_vars => FallbackInv'
    BY <1>2, ServerMoves
  <1>4. RunInv /\ FallbackInv => FallbackIsDue
    BY DEF RunInv, FallbackInv, Unpaid, FallbackIsDue
  <1> QED BY <1>1, <1>3, <1>4, DeliveryTyped, ConsumersAlone, PTL DEF Spec, Typed

---------------------------------------------------------------------------
(* What is stored                                                          *)

(* A page whose watch and memory a step leaves alone; its data can become  *)
(* stale.                                                                  *)
Alike(p) ==
    /\ page'[p].at = page[p].at /\ page'[p].mem = page[p].mem
    /\ page'[p].target = page[p].target
    /\ page'[p].applied = page[p].applied /\ page'[p].got = page[p].got
    /\ page'[p].fresh => page[p].fresh
DataStale(p) == Alike(p) /\ ~page'[p].fresh

(* A page whose watch goes on, with the same memory.                       *)
GoesTo(p, stage) ==
    /\ page'[p].at = stage /\ page'[p].mem = page[p].mem
    /\ page'[p].target = page[p].target /\ page'[p].got = page[p].got
    /\ page'[p].fresh = page[p].fresh

SameChat(m, n) == m.edits = n.edits /\ m.reply = n.reply /\ m.copy = n.copy
EditedChat(m, n) == m.edits = 1 /\ m.reply = n.reply /\ m.copy = n.copy

(* The steps, by what they do to the chats.                                *)
Sends ==
    /\ marker.at = "none" /\ UNCHANGED <<store, edited>>
    /\ marker'.at = "on" /\ marker'.target = Base
    /\ page'[Sender].at = "starting" /\ page'[Sender].mem = store
    /\ page'[Sender].target = Base
    /\ page'[Sender].applied = Nothing /\ page'[Sender].got = Nothing
    /\ \A p \in Pages \ {Sender} : Alike(p)

EditedElsewhere ==
    /\ edited' /\ EditedChat(store', store) /\ store'.root = store.root
    /\ UNCHANGED marker
    /\ \A p \in Pages : DataStale(p)

Watches ==
    /\ UNCHANGED <<store, edited>> /\ marker'.target = marker.target
    /\ marker'.at = "none" => marker.at = "none"
    /\ \A p \in Pages :
          \/ Alike(p)
          \/ page'[p] = Closed
          \/ Open(p) /\ GoesTo(p, "idle") /\ page'[p].applied = page[p].applied

SavesBody(p) ==
    /\ page[p].at = "merged" /\ page[p].fresh
    /\ SameChat(store', page[p].mem) /\ store'.root = store.root
    /\ UNCHANGED <<edited, marker>>
    /\ GoesTo(p, "half") /\ page'[p].applied = page[p].applied
    /\ \A q \in Pages \ {p} : DataStale(q)

SavesRoot(p) ==
    /\ page[p].at = "half" /\ page[p].fresh
    /\ SameChat(store', store) /\ store'.root = page[p].mem.root
    /\ UNCHANGED edited
    /\ marker'.at = marker.at
    /\ marker'.target \in {marker.target, page[p].target}
    /\ GoesTo(p, "ack") /\ page'[p].applied = page[p].got
    /\ \A q \in Pages \ {p} : DataStale(q)

Edits(p) ==
    /\ page[p].fresh /\ edited'
    /\ EditedChat(store', page[p].mem)
    /\ store'.root = store.root
    /\ UNCHANGED marker
    /\ page'[p].at = page[p].at /\ page'[p].target = page[p].target
    /\ page'[p].applied = page[p].applied /\ page'[p].got = page[p].got
    /\ page'[p].fresh
    /\ EditedChat(page'[p].mem, page[p].mem)
    /\ \A q \in Pages \ {p} : DataStale(q)

Boots(p) ==
    /\ UNCHANGED <<store, edited, marker>> /\ marker.at = "on"
    /\ page'[p].at = "idle" /\ page'[p].mem = store /\ page'[p].got = Nothing
    /\ \/ /\ store.root # Nothing
          /\ store.root.result = IF store.root.to = "chat" THEN store.reply ELSE store.copy
          /\ page'[p].target = Target(store.root.to, 0, store.root.result)
          /\ page'[p].applied = store.root.result
       \/ /\ page'[p].target = IF {store.reply, store.copy} # {Nothing}
                               THEN Delivered(store) ELSE marker.target
          /\ page'[p].applied = Nothing
    /\ \A q \in Pages \ {p} : Alike(q)

Takes(p) ==
    /\ UNCHANGED <<store, edited, marker, answer>>
    /\ parked # Nothing /\ page[p].at = "idle"
    /\ page'[p] = Take(page[p], parked.result)
    /\ \A q \in Pages \ {p} : Alike(q)

LEMMA ChatCases ==
    ASSUME Typed, DeliveryMove
    PROVE  \/ Sends \/ EditedElsewhere \/ Watches
           \/ \E p \in Pages : SavesBody(p) \/ SavesRoot(p) \/ Edits(p) \/ Boots(p) \/ Takes(p)
  <1>0. /\ page \in [Pages -> PageState] /\ \A q \in Pages : page[q] \in PageState
        /\ store \in Memory /\ marker \in [at : {"none", "on", "off"}, target : Targets]
    BY TypedParts DEF ClientTyped
  <1>1. ASSUME NEW q \in Pages, page'[q] = page[q] PROVE Alike(q)
    BY <1>1 DEF Alike
  <1>2. ASSUME NEW q \in Pages, page'[q] = [page[q] EXCEPT !.fresh = FALSE] PROVE DataStale(q)
    BY <1>0, <1>2 DEF DataStale, Alike, PageState
  <1>3. CASE Delegate
    <2>1. Sender \in Pages
      BY DeliveryAssumption DEF Sender, Pages
    <2>2. /\ page'[Sender] = [Closed EXCEPT !.at = "starting", !.fresh = TRUE, !.mem = store]
          /\ \A q \in Pages \ {Sender} : page'[q] = page[q]
      BY <1>0, <1>3, <2>1 DEF Delegate
    <2>3. /\ page'[Sender].at = "starting" /\ page'[Sender].mem = store
          /\ page'[Sender].target = Base
          /\ page'[Sender].applied = Nothing /\ page'[Sender].got = Nothing
      BY <2>2 DEF Closed
    <2>4. marker'.at = "on" /\ marker'.target = Base /\ marker.at = "none"
          /\ UNCHANGED <<store, edited>>
      BY <1>3 DEF Delegate
    <2> QED BY <1>1, <2>2, <2>3, <2>4 DEF Sends
  <1>4. CASE EditElsewhere
    <2>1. \A q \in Pages : DataStale(q)
      BY <1>0, <1>2, <1>4 DEF EditElsewhere
    <2>2. EditedChat(store', store) /\ store'.root = store.root
      BY <1>0, <1>4 DEF EditElsewhere, EditedChat, Memory
    <2> QED BY <1>4, <2>1, <2>2 DEF EditElsewhere, EditedElsewhere
  <1>5. ASSUME NEW p \in Pages, Plain(p) PROVE Watches
    <2>1. marker'.at = "none" => marker.at = "none"
      BY MarkerStays
    <2>2. CASE page' = page
      BY <1>1, <1>5, <2>1, <2>2 DEF Plain, Watches
    <2>3. CASE page' = [page EXCEPT ![p] = Closed]
      <3>1. \A q \in Pages : page'[q] = page[q] \/ page'[q] = Closed
        BY <1>0, <2>3
      <3>2. \A q \in Pages : Alike(q) \/ page'[q] = Closed
        BY <1>1, <3>1
      <3> QED BY <1>5, <2>1, <3>2 DEF Plain, Watches
    <2>4. CASE Open(p) /\ page' = To(p, "idle")
      <3>1. /\ page'[p] = [page[p] EXCEPT !.at = "idle"]
            /\ \A q \in Pages \ {p} : page'[q] = page[q]
        BY <1>0, <2>4 DEF To
      <3>2. GoesTo(p, "idle") /\ page'[p].applied = page[p].applied
        BY <1>0, <3>1 DEF GoesTo, PageState
      <3> QED BY <1>1, <1>5, <2>1, <2>4, <3>1, <3>2 DEF Plain, Watches
    <2> QED BY <1>5, <2>2, <2>3, <2>4 DEF Plain
  <1>6. ASSUME NEW p \in Pages, SaveBody(p) PROVE SavesBody(p)
    <2>1. "half" \in Stages /\ page' = Written(p, "half")
      BY <1>6 DEF SaveBody, Stages
    <2>2. /\ page'[p] = [page[p] EXCEPT !.at = "half"]
          /\ \A q \in Pages \ {p} : page'[q] = [page[q] EXCEPT !.fresh = FALSE]
      BY <1>0, <2>1, WrittenTyped
    <2>3. GoesTo(p, "half") /\ page'[p].applied = page[p].applied
      BY <1>0, <2>2 DEF GoesTo, PageState
    <2>4. page[p].mem \in Memory /\ store' = [page[p].mem EXCEPT !.root = store.root]
      BY <1>0, <1>6 DEF SaveBody, PageState
    <2>5. SameChat(store', page[p].mem) /\ store'.root = store.root
      BY <2>4 DEF SameChat, Memory
    <2> QED BY <1>2, <1>6, <2>2, <2>3, <2>5 DEF SaveBody, SavesBody
  <1>7. ASSUME NEW p \in Pages, SaveRoot(p) PROVE SavesRoot(p)
    <2> DEFINE w == Written(p, "ack")
    <2>1. /\ w \in [Pages -> PageState] /\ w[p] = [page[p] EXCEPT !.at = "ack"]
          /\ \A q \in Pages \ {p} : w[q] = [page[q] EXCEPT !.fresh = FALSE]
      BY <1>0, WrittenTyped DEF Stages
    <2>2. page' = [w EXCEPT ![p] = [w[p] EXCEPT !.applied = page[p].got]]
      BY <1>7 DEF SaveRoot
    <2> HIDE DEF w
    <2>3. /\ page'[p] = [w[p] EXCEPT !.applied = page[p].got]
          /\ \A q \in Pages \ {p} : page'[q] = w[q]
      BY <2>1, <2>2
    <2>4. GoesTo(p, "ack") /\ page'[p].applied = page[p].got
      BY <1>0, <2>1, <2>3 DEF GoesTo, PageState
    <2>5. \A q \in Pages \ {p} : DataStale(q)
      BY <1>2, <2>1, <2>3
    <2>6. store' = [store EXCEPT !.root = page[p].mem.root]
      BY <1>7 DEF SaveRoot
    <2>7. SameChat(store', store) /\ store'.root = page[p].mem.root
      BY <1>0, <2>6 DEF SameChat, Memory
    <2>8. marker'.at = marker.at /\ marker'.target \in {marker.target, page[p].target}
      BY <1>0, <1>7 DEF SaveRoot
    <2> QED BY <1>7, <2>4, <2>5, <2>7, <2>8 DEF SaveRoot, SavesRoot
  <1>8. ASSUME NEW p \in Pages, Edit(p) PROVE Edits(p)
    <2> DEFINE chat == [page[p].mem EXCEPT !.edits = 1]
               w == Written(p, page[p].at)
    <2>1. page[p].mem \in Memory /\ page[p].at \in Stages
      BY <1>0 DEF PageState
    <2>2. chat \in Memory /\ EditedChat(chat, page[p].mem)
      BY <2>1 DEF Memory, EditedChat
    <2>3. /\ w \in [Pages -> PageState]
          /\ w[p] = [page[p] EXCEPT !.at = page[p].at]
          /\ \A q \in Pages \ {p} : w[q] = [page[q] EXCEPT !.fresh = FALSE]
      BY <1>0, <2>1, WrittenTyped
    <2>4. /\ page' = [w EXCEPT ![p] = [w[p] EXCEPT !.mem = chat]]
          /\ store' = [chat EXCEPT !.root = store.root]
          /\ UNCHANGED marker /\ edited' /\ page[p].fresh
      BY <1>8 DEF Edit
    <2> HIDE DEF w, chat
    <2>5. /\ page'[p] = [w[p] EXCEPT !.mem = chat]
          /\ \A q \in Pages \ {p} : page'[q] = w[q]
      BY <2>3, <2>4
    <2>6. /\ page'[p].at = page[p].at /\ page'[p].target = page[p].target
          /\ page'[p].applied = page[p].applied /\ page'[p].got = page[p].got
          /\ page'[p].fresh = page[p].fresh /\ page'[p].mem = chat
      BY <1>0, <2>3, <2>5 DEF PageState
    <2>7. \A q \in Pages \ {p} : DataStale(q)
      BY <1>2, <2>3, <2>5
    <2>8. EditedChat(store', page[p].mem) /\ store'.root = store.root
      BY <2>2, <2>4 DEF EditedChat, Memory
    <2> QED BY <2>2, <2>4, <2>6, <2>7, <2>8 DEF Edits
  <1>9. ASSUME NEW p \in Pages, Boot(p) PROVE Boots(p)
    <2> DEFINE committed == /\ store.root # Nothing
                            /\ store.root.result = IF store.root.to = "chat"
                                                   THEN store.reply ELSE store.copy
               target == IF committed THEN Target(store.root.to, 0, store.root.result)
                         ELSE IF {store.reply, store.copy} # {Nothing}
                              THEN Delivered(store) ELSE marker.target
               applied == IF committed THEN store.root.result ELSE Nothing
               q == [at |-> "idle", fresh |-> TRUE, mem |-> store, target |-> target,
                     got |-> Nothing, applied |-> applied]
    <2>1. page' = [page EXCEPT ![p] = q] /\ UNCHANGED <<store, marker, edited>>
          /\ marker.at = "on"
      BY <1>9, Zenon DEF Boot
    <2>2. /\ q.at = "idle" /\ q.mem = store /\ q.got = Nothing
          /\ q.target = target /\ q.applied = applied
      OBVIOUS
    <2> HIDE DEF q
    <2>3. page'[p] = q /\ \A x \in Pages \ {p} : page'[x] = page[x]
      BY <1>0, <2>1
    <2>4. CASE committed
      <3>1. target = Target(store.root.to, 0, store.root.result)
            /\ applied = store.root.result
        BY <2>4
      <3> HIDE DEF target, applied
      <3> QED BY <1>1, <2>1, <2>2, <2>3, <2>4, <3>1 DEF Boots
    <2>5. CASE ~committed
      <3>1. /\ target = IF {store.reply, store.copy} # {Nothing}
                        THEN Delivered(store) ELSE marker.target
            /\ applied = Nothing
        BY <2>5
      <3> HIDE DEF target, applied, committed
      <3> QED BY <1>1, <2>1, <2>2, <2>3, <3>1 DEF Boots
    <2> QED BY <2>4, <2>5
  <1>10. ASSUME NEW p \in Pages, Taken(p) PROVE Takes(p)
    <2>1. /\ page'[p] = Take(page[p], parked.result)
          /\ \A q \in Pages \ {p} : page'[q] = page[q]
      BY <1>0, <1>10 DEF Taken
    <2> QED BY <1>1, <1>10, <2>1 DEF Taken, Takes
  <1> QED BY <1>3, <1>4, <1>5, <1>6, <1>7, <1>8, <1>9, <1>10, DeliveryCases

(* What a page is after it has taken a result.                             *)
Acked(q, t, result) ==
    /\ t.at = "ack" /\ t.mem = q.mem /\ t.target = q.target
    /\ result = "fail" \/ Rank(result) <= Rank(q.applied)
HasIt(q, t, result) ==
    /\ result \in {q.mem.reply, q.mem.copy} /\ SameChat(t.mem, q.mem)
    /\ t.target = Target(IF q.mem.reply = result THEN "chat" ELSE "copy", 0, result)
Copies(q, t, result) ==
    /\ result \notin {q.mem.reply, q.mem.copy}
    /\ Conflict(q.mem, q.target) \/ q.target.to = "copy"
    /\ t.mem.edits = q.mem.edits /\ t.mem.reply = q.mem.reply /\ t.mem.copy = result
    /\ t.target = Target("copy", 0, result)
Replaces(q, t, result) ==
    /\ result \notin {q.mem.reply, q.mem.copy} /\ ~Conflict(q.mem, q.target)
    /\ t.mem.edits = 0 /\ t.mem.reply = result /\ t.mem.copy = q.mem.copy
    /\ t.target = Target("chat", 0, result)

LEMMA MergeCases ==
    ASSUME NEW q \in PageState, NEW result \in Replies, NEW t, t = Merge(q, result)
    PROVE  /\ t.at = "merged" /\ t.got = result /\ t.applied = q.applied /\ t.fresh = q.fresh
           /\ HasIt(q, t, result) \/ Copies(q, t, result) \/ Replaces(q, t, result)
  <1> DEFINE done == Merged(q.mem, result)
             to == IF done THEN IF q.mem.reply = result THEN "chat" ELSE "copy"
                   ELSE IF Conflict(q.mem, q.target) THEN "copy" ELSE q.target.to
             chat == IF done THEN q.mem
                     ELSE IF to = "copy" THEN [q.mem EXCEPT !.copy = result]
                     ELSE [q.mem EXCEPT !.reply = result, !.edits = 0]
             mem == [chat EXCEPT !.root = Root(result, to)]
  <1>1. t = [q EXCEPT !.at = "merged", !.got = result, !.mem = mem,
                      !.target = Target(to, 0, result)]
    BY Zenon DEF Merge
  <1>2. q.mem \in Memory /\ q.target.to \in {"chat", "copy"}
    BY DEF PageState, Targets
  <1>3. chat \in Memory
    <2>1. [q.mem EXCEPT !.copy = result] \in Memory
          /\ [q.mem EXCEPT !.reply = result, !.edits = 0] \in Memory
      BY <1>2, MemoryReplied
    <2> QED BY <1>2, <2>1
  <1>4. done => to = (IF q.mem.reply = result THEN "chat" ELSE "copy") /\ chat = q.mem
    OBVIOUS
  <1>5. ASSUME ~done, to = "copy"
        PROVE  /\ Conflict(q.mem, q.target) \/ q.target.to = "copy"
               /\ chat.edits = q.mem.edits /\ chat.reply = q.mem.reply /\ chat.copy = result
    <2>1. chat = [q.mem EXCEPT !.copy = result]
      BY <1>5
    <2> QED BY <1>2, <1>5, <2>1 DEF Memory
  <1>6. ASSUME ~done, to # "copy"
        PROVE  /\ ~Conflict(q.mem, q.target) /\ to = "chat"
               /\ chat.edits = 0 /\ chat.reply = result /\ chat.copy = q.mem.copy
    <2> DEFINE c == [q.mem EXCEPT !.reply = result]
    <2>1. chat = [q.mem EXCEPT !.reply = result, !.edits = 0]
      BY <1>6
    <2>2. [q.mem EXCEPT !.reply = result, !.edits = 0] = [c EXCEPT !.edits = 0]
      OBVIOUS
    <2>3. c.reply = result /\ c.copy = q.mem.copy /\ c = [x \in DOMAIN c |-> c[x]]
          /\ {"edits", "reply", "copy"} \subseteq DOMAIN c
      BY <1>2 DEF Memory
    <2> HIDE DEF c
    <2>4. chat.edits = 0 /\ chat.reply = result /\ chat.copy = q.mem.copy
      BY <2>1, <2>2, <2>3
    <2> QED BY <1>2, <1>6, <2>4
  <1>7. done <=> result \in {q.mem.reply, q.mem.copy}
    BY DEF Merged
  <1> HIDE DEF done, to, chat
  <1>8. mem.edits = chat.edits /\ mem.reply = chat.reply /\ mem.copy = chat.copy
    BY <1>3 DEF Memory
  <1> HIDE DEF mem
  <1>9. t.at = "merged" /\ t.got = result /\ t.applied = q.applied /\ t.fresh = q.fresh
        /\ t.mem = mem /\ t.target = Target(to, 0, result)
    BY <1>1 DEF PageState
  <1>10. CASE done
    BY <1>4, <1>7, <1>8, <1>9, <1>10 DEF HasIt, SameChat
  <1>11. CASE ~done /\ to = "copy"
    BY <1>5, <1>7, <1>8, <1>9, <1>11 DEF Copies
  <1>12. CASE ~done /\ to # "copy"
    BY <1>6, <1>7, <1>8, <1>9, <1>12 DEF Replaces
  <1> QED BY <1>9, <1>10, <1>11, <1>12

LEMMA TakeCases ==
    ASSUME NEW q \in PageState, NEW result \in Results, NEW t, t = Take(q, result)
    PROVE  /\ t.got = result /\ t.applied = q.applied /\ t.fresh = q.fresh
           /\ \/ Acked(q, t, result)
              \/ /\ t.at = "merged" /\ result \in Replies
                 /\ HasIt(q, t, result) \/ Copies(q, t, result) \/ Replaces(q, t, result)
  <1>1. CASE result = "fail" \/ Rank(result) <= Rank(q.applied)
    <2>1. t = [q EXCEPT !.at = "ack", !.got = result]
      BY <1>1, Zenon DEF Take
    <2> QED BY <1>1, <2>1 DEF PageState, Acked
  <1>2. CASE ~(result = "fail" \/ Rank(result) <= Rank(q.applied))
    <2>1. t = Merge(q, result) /\ result \in Replies
      BY <1>2, Zenon DEF Take, Results
    <2> QED BY <2>1, MergeCases
  <1> QED BY <1>1, <1>2
---------------------------------------------------------------------------
(* No reply is stored twice                                                *)

DoneOnce(m, anEdit) == m.copy # Nothing => anEdit /\ m.copy # m.reply

(* As long as the user has not edited the chat, what a page would merge    *)
(* into is what it has in memory.                                          *)
Untouched(q) ==
    /\ q.mem.edits = 0
    /\ q.target = Target("chat", 0, q.mem.reply)
    /\ q.at = "merged" => q.mem.reply # Nothing

OnceInv ==
    /\ DoneOnce(store, edited)
    /\ \A p \in Pages : DoneOnce(page[p].mem, edited)
    /\ marker.at = "none" => \A p \in Pages : ~Open(p)
    /\ ~edited =>
          /\ store.edits = 0
          /\ store.reply = Nothing => marker.target = Base
          /\ marker.at = "none" => store.reply = Nothing
          /\ \A p \in Pages : /\ Untouched(page[p])
                              /\ page[p].at = "half" => store.reply # Nothing

LEMMA RankNat == Rank(Nothing) = 0 /\ \A x \in ReplyOrNothing : Rank(x) \in Nat
  <1>1. Nothing # "mid" /\ Nothing # "end"
    BY DeliveryAssumption
  <1>2. Rank(Nothing) = 0
    BY <1>1 DEF Rank
  <1>3. Rank("mid") = 1 /\ Rank("end") = 2
    BY <1>1 DEF Rank
  <1> QED BY <1>2, <1>3 DEF ReplyOrNothing, Replies

LEMMA ClosedUntouched ==
    Untouched(Closed) /\ Closed.at = "closed" /\ \A e : DoneOnce(Closed.mem, e)
  BY DEF Untouched, Closed, Base, Empty, Target, DoneOnce

LEMMA OnceNext ==
    ASSUME Typed, OnceInv, DeliveryMove
    PROVE  OnceInv'
  <1>0. /\ \A q \in Pages : page[q] \in PageState
        /\ store \in Memory /\ Sender \in Pages
    BY TypedParts, DeliveryAssumption DEF ClientTyped, Sender, Pages
  <1>a. Nothing \notin Results
    BY DeliveryAssumption DEF Results, Replies
  <1>b. ASSUME NEW q \in Pages, Alike(q), edited => edited'
        PROVE  /\ DoneOnce(page'[q].mem, edited')
               /\ ~edited' => Untouched(page'[q])
    BY <1>b DEF Alike, OnceInv, DoneOnce, Untouched
  <1>1. CASE Sends
    <2>1. edited' = edited /\ store' = store
      BY <1>1 DEF Sends
    <2>2. /\ DoneOnce(page'[Sender].mem, edited')
          /\ ~edited' => Untouched(page'[Sender])
      BY <1>1, <2>1 DEF Sends, OnceInv, Untouched, Base, DoneOnce
    <2>3. \A q \in Pages : /\ DoneOnce(page'[q].mem, edited')
                           /\ ~edited' => Untouched(page'[q])
      BY <1>1, <1>b, <2>1, <2>2 DEF Sends
    <2>4. ~edited' => /\ store'.edits = 0 /\ marker'.target = Base /\ marker'.at = "on"
                      /\ \A q \in Pages : page'[q].at = "half" => store'.reply # Nothing
      BY <1>1, <2>1 DEF Sends, OnceInv, Alike
    <2> QED BY <1>1, <2>1, <2>3, <2>4 DEF OnceInv, Sends
  <1>2. CASE EditedElsewhere
    <2>1. \A q \in Pages : page'[q].mem = page[q].mem /\ page'[q].at = page[q].at
      BY <1>2 DEF EditedElsewhere, DataStale, Alike
    <2> QED BY <1>2, <2>1 DEF EditedElsewhere, OnceInv, DoneOnce, EditedChat, Open
  <1>3. CASE Watches
    <2>1. ASSUME NEW q \in Pages
          PROVE  /\ DoneOnce(page'[q].mem, edited')
                 /\ ~edited' => Untouched(page'[q])
                 /\ page'[q].at = "half" => page[q].at = "half"
                 /\ Open(q)' => Open(q)
      <3>1. CASE Alike(q)
        BY <1>3, <1>b, <3>1 DEF Watches, Alike, Open
      <3>2. CASE page'[q] = Closed
        BY <3>2, ClosedUntouched DEF Open
      <3>3. CASE Open(q) /\ GoesTo(q, "idle")
        BY <1>3, <3>3 DEF Watches, GoesTo, OnceInv, Untouched, DoneOnce
      <3> QED BY <1>3, <3>1, <3>2, <3>3 DEF Watches
    <2>2. UNCHANGED <<store, edited>> /\ marker'.target = marker.target
          /\ (marker'.at = "none" => marker.at = "none")
      BY <1>3 DEF Watches
    <2> QED BY <2>1, <2>2 DEF OnceInv
  <1>4. ASSUME NEW p \in Pages, SavesBody(p) PROVE OnceInv'
    <2>1. UNCHANGED <<edited, marker>> /\ SameChat(store', page[p].mem)
      BY <1>4 DEF SavesBody
    <2>2. /\ DoneOnce(page'[p].mem, edited')
          /\ ~edited' => Untouched(page'[p])
      BY <1>4, <2>1 DEF SavesBody, GoesTo, OnceInv, Untouched, DoneOnce
    <2>3. \A q \in Pages : /\ DoneOnce(page'[q].mem, edited')
                           /\ ~edited' => Untouched(page'[q])
      BY <1>4, <1>b, <2>1, <2>2 DEF SavesBody, DataStale
    <2>4. ~edited => store'.reply # Nothing /\ store'.edits = 0
      BY <1>4, <2>1 DEF SavesBody, OnceInv, Untouched, SameChat
    <2>5. DoneOnce(store', edited')
      BY <2>1 DEF OnceInv, SameChat, DoneOnce
    <2>6. marker.at # "none"
      BY <1>4 DEF SavesBody, OnceInv, Open
    <2> QED BY <2>1, <2>3, <2>4, <2>5, <2>6 DEF OnceInv
  <1>5. ASSUME NEW p \in Pages, SavesRoot(p) PROVE OnceInv'
    <2>1. UNCHANGED edited /\ SameChat(store', store) /\ marker'.at = marker.at
          /\ page[p].at = "half"
      BY <1>5 DEF SavesRoot
    <2>2. /\ DoneOnce(page'[p].mem, edited')
          /\ ~edited' => Untouched(page'[p])
          /\ page'[p].at = "ack"
      BY <1>5, <2>1 DEF SavesRoot, GoesTo, OnceInv, Untouched, DoneOnce
    <2>3. \A q \in Pages : /\ DoneOnce(page'[q].mem, edited')
                           /\ ~edited' => Untouched(page'[q])
                           /\ page'[q].at = "half" => page[q].at = "half"
      BY <1>5, <1>b, <2>1, <2>2 DEF SavesRoot, DataStale, Alike
    <2>4. DoneOnce(store', edited')
      BY <2>1 DEF OnceInv, SameChat, DoneOnce
    <2>5. (~edited => store.reply # Nothing) /\ marker.at # "none"
      BY <2>1 DEF OnceInv, Open
    <2> QED BY <2>1, <2>3, <2>4, <2>5 DEF OnceInv, SameChat
  <1>6. ASSUME NEW p \in Pages, Edits(p) PROVE OnceInv'
    <2>1. edited' /\ EditedChat(store', page[p].mem)
          /\ EditedChat(page'[p].mem, page[p].mem)
      BY <1>6 DEF Edits
    <2>2. /\ \A q \in Pages \ {p} : page'[q].mem = page[q].mem
          /\ \A q \in Pages : page'[q].at = page[q].at
      BY <1>6 DEF Edits, DataStale, Alike
    <2>3. DoneOnce(store', edited') /\ DoneOnce(page'[p].mem, edited')
      BY <2>1 DEF EditedChat, OnceInv, DoneOnce
    <2>4. \A q \in Pages : DoneOnce(page'[q].mem, edited')
      BY <2>1, <2>2, <2>3 DEF OnceInv, DoneOnce
    <2>5. UNCHANGED marker
      BY <1>6 DEF Edits
    <2> QED BY <2>1, <2>2, <2>3, <2>4, <2>5 DEF OnceInv, Open
  <1>7. ASSUME NEW p \in Pages, Boots(p) PROVE OnceInv'
    <2>1. UNCHANGED <<store, edited, marker>> /\ page'[p].mem = store /\ page'[p].at = "idle"
          /\ marker.at = "on"
      BY <1>7 DEF Boots
    <2>2. ASSUME ~edited PROVE page'[p].target = Target("chat", 0, store.reply)
      <3>1. store.copy = Nothing /\ store.edits = 0
        BY <2>2 DEF OnceInv, DoneOnce
      <3>2. store.root # Nothing => store.root.result # Nothing
                                    /\ store.root.to \in {"chat", "copy"}
        BY <1>0, <1>a DEF Memory, Results
      <3>3. ~(Rank(store.copy) > Rank(store.reply))
        BY <1>0, <3>1, RankNat DEF Memory
      <3>4. Delivered(store) = Target("chat", 0, store.reply)
        BY <3>3 DEF Delivered
      <3>5. store.reply = Nothing => marker.target = Target("chat", 0, store.reply)
        BY <2>2 DEF OnceInv, Base
      <3> QED BY <1>7, <3>1, <3>2, <3>4, <3>5 DEF Boots
    <2>3. /\ DoneOnce(page'[p].mem, edited')
          /\ ~edited' => Untouched(page'[p])
      BY <2>1, <2>2 DEF OnceInv, Untouched
    <2>4. \A q \in Pages : /\ DoneOnce(page'[q].mem, edited')
                           /\ ~edited' => Untouched(page'[q])
                           /\ page'[q].at = "half" => page[q].at = "half"
      BY <1>7, <1>b, <2>1, <2>3 DEF Boots, Alike
    <2> QED BY <2>1, <2>4 DEF OnceInv
  <1>8. ASSUME NEW p \in Pages, Takes(p) PROVE OnceInv'
    <2> DEFINE q == page[p]
               t == page'[p]
               result == parked.result
    <2>1. UNCHANGED <<store, edited, marker>> /\ result \in Results /\ q \in PageState
          /\ t = Take(q, result)
      BY <1>0, <1>8, TypedParts DEF Takes, ServerTyped
    <2> HIDE DEF q, t, result
    <2>2. \/ Acked(q, t, result)
          \/ /\ t.at = "merged" /\ result \in Replies
             /\ HasIt(q, t, result) \/ Copies(q, t, result) \/ Replaces(q, t, result)
      BY <2>1, TakeCases
    <2>3. DoneOnce(q.mem, edited) /\ (~edited => Untouched(q))
      BY DEF OnceInv, q
    <2>4. ASSUME ~edited PROVE ~Conflict(q.mem, q.target) /\ q.target.to = "chat"
      BY <2>3, <2>4 DEF Untouched, Conflict, Target
    <2>5. DoneOnce(t.mem, edited) /\ (~edited => Untouched(t)) /\ t.at # "half"
      <3>1. CASE Acked(q, t, result)
        BY <2>3, <3>1 DEF Acked, Untouched, DoneOnce
      <3>2. CASE t.at = "merged" /\ result \in Replies /\ HasIt(q, t, result)
        <4>1. ~edited => q.mem.reply = result
          BY <1>a, <2>3, <3>2 DEF HasIt, DoneOnce, Results
        <4> QED BY <1>a, <2>3, <3>2, <4>1 DEF HasIt, SameChat, DoneOnce, Untouched, Results
      <3>3. CASE t.at = "merged" /\ result \in Replies /\ Copies(q, t, result)
        BY <2>4, <3>3 DEF Copies, DoneOnce
      <3>4. CASE t.at = "merged" /\ result \in Replies /\ Replaces(q, t, result)
        BY <1>a, <2>3, <3>4 DEF Replaces, DoneOnce, Untouched, Results
      <3> QED BY <2>2, <3>1, <3>2, <3>3, <3>4
    <2>6. \A x \in Pages : /\ DoneOnce(page'[x].mem, edited')
                           /\ ~edited' => Untouched(page'[x])
                           /\ page'[x].at = "half" => page[x].at = "half"
      BY <1>8, <1>b, <2>1, <2>5 DEF Takes, Alike, t
    <2>7. marker.at # "none"
      BY <1>8 DEF Takes, OnceInv, Open
    <2> QED BY <2>1, <2>6, <2>7 DEF OnceInv
  <1> QED BY <1>1, <1>2, <1>3, <1>4, <1>5, <1>6, <1>7, <1>8, ChatCases

(* No reply is stored twice, and none in a copy of a chat that the user    *)
(* has not edited, also when a save stopped between its halves and another *)
(* page repeats it (findChatDelivery, the delivery record of the root).    *)
THEOREM StoredOnce == Spec => []DeliveredOnce
  <1>1. Init => OnceInv
    <2> SUFFICES ASSUME Init PROVE OnceInv
      OBVIOUS
    <2>1. \A p \in Pages : /\ page[p].at = "new" /\ page[p].mem = Empty
                           /\ page[p].target = Base
      BY EmptyTyped DEF Init, DeliveryInit, Closed
    <2> QED BY <2>1 DEF Init, DeliveryInit, OnceInv, DoneOnce, Untouched, Base, Empty, Target,
                      Open
  <1>2. Typed /\ OnceInv /\ [Next]_vars => OnceInv'
    BY OnceNext, ServerMoves
  <1>3. OnceInv => DeliveredOnce
    BY DEF OnceInv, DoneOnce, DeliveredOnce
  <1> QED BY <1>1, <1>2, <1>3, DeliveryTyped, PTL DEF Spec, Typed
---------------------------------------------------------------------------
(* The last reply is not lost                                              *)

(* An end is final, and what was cancelled or has expired is over.         *)
RowInv ==
    /\ answer = "end" => entry \notin Active
    /\ entry = "generating" => answer = Nothing
    /\ entry \in Active /\ ~aborted => row \notin {"cancelled", "result-expired"}
    /\ row = "delivered" => parked = Nothing

Published(x, a) ==
    x \in Replies => a # Nothing /\ (x = "end" => a = "end")
IsLast(x, a) == x \in Replies /\ x = a
Holds(m, a) == a \in {m.reply, m.copy}

(* A page that has the last reply has saved it, or has it to save; and     *)
(* what a page could save has it if the store does.                        *)
KeptPage(q, m, a) ==
    /\ Published(q.mem.reply, a) /\ Published(q.mem.copy, a)
    /\ Published(q.applied, a) /\ Published(q.got, a)
    /\ IsLast(q.applied, a) => Holds(m, a)
    /\ IsLast(q.got, a) /\ q.at \in {"half", "ack"} => Holds(m, a)
    /\ IsLast(q.got, a) /\ q.at = "merged" => Holds(q.mem, a)
    /\ q.fresh /\ a \in Replies /\ Holds(m, a) => Holds(q.mem, a)

KeptChats ==
    /\ Published(store.reply, answer) /\ Published(store.copy, answer)
    /\ \A p \in Pages : KeptPage(page[p], store, answer)

KeptInv == RowInv /\ KeptChats /\ RepliesKept

(* The server publishes a result that it had not published.                *)
Publishes ==
    /\ parked' # Nothing /\ parked'.result = answer' /\ UNCHANGED <<store, page>>
    /\ answer' \in Results /\ answer \notin {"end", "fail"}
    /\ answer' = "mid" => answer = Nothing

(* The last reply stays, or the page that has it acknowledges it.          *)
Dropped == {"cancelled", "result-expired"}
ServerKeeps ==
    /\ UNCHANGED answer
    /\ answer \in Replies /\ row' \notin Dropped =>
          \/ /\ row \notin Dropped
             /\ parked # Nothing => parked' # Nothing /\ parked'.result = parked.result
          \/ \E p \in Pages : /\ page[p].at = "ack" /\ page[p].got = answer
                              /\ store' = store

LEMMA RowNext ==
    ASSUME Typed, RunInv, RowInv, DeliveryMove
    PROVE  RowInv' /\ (Publishes \/ ServerKeeps)
  <1>0. ServerTyped /\ Nothing \notin Results /\ Nothing # "mid" /\ Nothing # "end"
    BY TypedParts, DeliveryAssumption DEF Results, Replies
  <1>1. CASE UNCHANGED server
    BY <1>1 DEF server, RowInv, ServerKeeps
  <1>2. ASSUME NEW p \in Pages, Start(p) \/ StartRefused(p)
        PROVE  RowInv' /\ (Publishes \/ ServerKeeps)
    <2>1. CASE UNCHANGED <<entry, row, parked>>
      <3>1. UNCHANGED server
        BY <1>2, <2>1 DEF Start, StartRefused, server
      <3> QED BY <1>1, <3>1
    <2>2. CASE row \in Restartable
      <3>1. answer = Nothing /\ UNCHANGED <<answer, aborted>>
        BY <1>2, <2>2 DEF Start, StartRefused, RunInv
      <3>2. ServerKeeps
        BY <1>0, <3>1 DEF ServerKeeps, Replies
      <3>3. row' \in {"none", "queued"}
        BY <1>2, <2>2 DEF Start, StartRefused, Restartable
      <3>4. RowInv'
        BY <1>0, <3>1, <3>3 DEF RowInv
      <3> QED BY <3>2, <3>4
    <2> QED BY <1>2, <2>1, <2>2 DEF Start, StartRefused
  <1>3. CASE ProviderStarts
    <2>1. answer = Nothing /\ UNCHANGED <<answer, parked>> /\ row' = "running"
      BY <1>3 DEF ProviderStarts, RunInv
    <2>2. ServerKeeps /\ RowInv'
      BY <1>0, <2>1 DEF ServerKeeps, Replies, RowInv
    <2> QED BY <2>2
  <1>4. ASSUME NEW result \in Results, parked' = Publish(result)
        PROVE  parked' # Nothing /\ parked'.result = result
    <2>1. CASE parked = Nothing
      <3>1. parked' = [result |-> result, claim |-> Nothing, live |-> FALSE]
        BY <1>4, <2>1 DEF Publish
      <3>2. parked' \in [result : Results, claim : Pages \cup {Nothing}, live : BOOLEAN]
        BY <3>1
      <3> QED BY <3>1, <3>2, ParkedIsSomething
    <2>2. CASE parked # Nothing
      <3>1. parked \in [result : Results, claim : Pages \cup {Nothing}, live : BOOLEAN]
        BY <1>0, <2>2 DEF ServerTyped
      <3>2. parked' = [parked EXCEPT !.result = result]
        BY <1>4, <2>2 DEF Publish
      <3>3. /\ parked' \in [result : Results, claim : Pages \cup {Nothing}, live : BOOLEAN]
            /\ parked'.result = result
        BY <3>1, <3>2
      <3> QED BY <3>3, ParkedIsSomething
    <2> QED BY <2>1, <2>2
  <1>5. CASE MidPublish
    <2>1. "mid" \in Results /\ parked' = Publish("mid") /\ answer' = "mid"
      BY <1>5 DEF MidPublish, Results, Replies
    <2>2. entry = "generating" /\ answer = Nothing /\ entry' = "post"
          /\ row' = "running-result-ready" /\ UNCHANGED <<store, page>>
      BY <1>5 DEF MidPublish, RowInv, client
    <2>3. Publishes
      BY <1>0, <1>4, <2>1, <2>2 DEF Publishes, Results
    <2>4. RowInv'
      BY <2>1, <2>2 DEF RowInv
    <2> QED BY <2>3, <2>4
  <1>6. CASE RunEnds
    <2>1. entry' \notin Active /\ entry' # "generating" /\ UNCHANGED <<store, page>>
      BY <1>6 DEF RunEnds, Active, client
    <2>2. CASE aborted /\ UNCHANGED <<row, parked, answer>>
      BY <2>1, <2>2 DEF RowInv, ServerKeeps
    <2>3. CASE ~aborted /\ entry' = "finished" /\ row' = "result-ready"
               /\ answer' \in {"end", "fail"} /\ parked' = Publish(answer')
      <3>1. answer' \in Results
        BY <2>3 DEF Results, Replies
      <3>2. answer # "fail" /\ answer # "end"
        BY <1>6 DEF RunEnds, RunInv, RowInv
      <3>3. Publishes
        BY <1>4, <2>1, <2>3, <3>1, <3>2 DEF Publishes
      <3>4. RowInv'
        BY <2>1, <2>3 DEF RowInv
      <3> QED BY <3>3, <3>4
    <2>4. CASE ~aborted /\ row' = "delivery-failed" /\ UNCHANGED <<parked, answer>>
      <3>1. row \notin Dropped
        BY <1>6, <2>4 DEF RunEnds, RowInv, Dropped
      <3> QED BY <2>1, <2>4, <3>1 DEF RowInv, ServerKeeps
    <2> QED BY <1>6, <2>2, <2>3, <2>4 DEF RunEnds
  <1>7. ASSUME NEW p \in Pages, Cancel(p) PROVE RowInv' /\ ServerKeeps
    BY <1>7 DEF Cancel, RowInv, ServerKeeps, Dropped
  <1>8. ASSUME parked # Nothing, parked' # Nothing, parked'.result = parked.result,
               UNCHANGED <<entry, aborted, row, answer>>
        PROVE  RowInv' /\ ServerKeeps
    BY <1>8 DEF RowInv, ServerKeeps
  <1>9. ASSUME NEW p \in Pages, Poll(p) \/ Heartbeat(p) PROVE RowInv' /\ ServerKeeps
    <2>1. CASE UNCHANGED server
      BY <2>1 DEF server, RowInv, ServerKeeps
    <2>2. CASE parked # Nothing /\ parked' = Claim(p)
      <3>1. parked' # Nothing /\ parked'.result = parked.result
        <4>1. parked \in [result : Results, claim : Pages \cup {Nothing}, live : BOOLEAN]
          BY <1>0, <2>2 DEF ServerTyped
        <4> QED BY <1>0, <2>2, <4>1, ClaimGives DEF Claim
      <3> QED BY <1>8, <1>9, <2>2, <3>1 DEF Poll, Heartbeat
    <2> QED BY <1>9, <2>1, <2>2 DEF Poll, Heartbeat, server
  <1>10. CASE Lapse
    <2>1. parked \in [result : Results, claim : Pages \cup {Nothing}, live : BOOLEAN]
          /\ parked' = [parked EXCEPT !.live = FALSE]
      BY <1>0, <1>10 DEF Lapse, ServerTyped
    <2>2. /\ parked' \in [result : Results, claim : Pages \cup {Nothing}, live : BOOLEAN]
          /\ parked'.result = parked.result
      BY <2>1
    <2> QED BY <1>8, <1>10, <2>2, ParkedIsSomething DEF Lapse
  <1>11. ASSUME NEW p \in Pages, Ack(p) PROVE RowInv' /\ ServerKeeps
    <2>1. CASE UNCHANGED <<entry, row, parked>>
      BY <1>11, <2>1 DEF Ack, RowInv, ServerKeeps
    <2>2. CASE Acknowledge(p) /\ parked # Nothing /\ ~Superseded(p)
      <3>1. page[p].at = "ack" /\ page[p].got = answer /\ UNCHANGED <<store, answer, aborted>>
        BY <1>11, <2>2 DEF Ack, Superseded, RunInv
      <3>2. ServerKeeps
        BY <3>1 DEF ServerKeeps
      <3>3. /\ row' \in {"delivered", "running-result-consumed"} /\ parked' = Nothing
            /\ entry' \in {entry, "delivered"}
        BY <2>2 DEF Acknowledge
      <3>4. RowInv'
        BY <3>1, <3>3 DEF RowInv, Active
      <3> QED BY <3>2, <3>4
    <2> QED BY <1>11, <2>1, <2>2 DEF Ack
  <1>12. CASE Expire
    <2>1. row # "delivered" /\ parked' = Nothing /\ UNCHANGED <<entry, aborted, answer>>
      BY <1>12 DEF Expire, RowInv
    <2>2. row' \in Dropped /\ entry \notin Active
      BY <1>12, <2>1 DEF Expire, Protected, Dropped
    <2> QED BY <2>1, <2>2 DEF RowInv, ServerKeeps, Active
  <1>13. CASE DeliveryRestart
    BY <1>13 DEF DeliveryRestart, RowInv, ServerKeeps, Active
  <1>14. ASSUME NEW p \in Pages,
                SaveBody(p) \/ SaveRoot(p) \/ SaveFails(p) \/ Edit(p) \/ Leave(p) \/ Boot(p)
         PROVE UNCHANGED server
    BY <1>14 DEF SaveBody, SaveRoot, SaveFails, Edit, Leave, Boot
  <1>15. Delegate \/ EditElsewhere \/ MarkerExpires \/ (UNCHANGED deliveryVars)
            => UNCHANGED server
    BY DEF Delegate, EditElsewhere, MarkerExpires, deliveryVars, server
  <1> QED BY <1>1, <1>2, <1>3, <1>5, <1>6, <1>7, <1>9, <1>10, <1>11, <1>12, <1>13,
             <1>14, <1>15 DEF DeliveryMove, DeliveryStep

LEMMA NewReply ==
    ASSUME KeptChats, RowInv, Publishes
    PROVE  KeptChats'
  <1>1. ASSUME NEW x, Published(x, answer)
        PROVE  Published(x, answer') /\ ~IsLast(x, answer')
    BY <1>1, DeliveryAssumption DEF Published, IsLast, Publishes, Replies, Results
  <1>2. ASSUME NEW m, Published(m.reply, answer), Published(m.copy, answer),
               answer' \in Replies
        PROVE  ~Holds(m, answer')
    BY <1>1, <1>2 DEF Holds, IsLast
  <1>3. UNCHANGED <<store, page>>
    BY DEF Publishes
  <1>4. ASSUME NEW p \in Pages PROVE KeptPage(page[p], store, answer')
    <2>1. KeptPage(page[p], store, answer)
      BY DEF KeptChats
    <2> QED BY <1>1, <1>2, <2>1 DEF KeptPage, KeptChats
  <1> QED BY <1>1, <1>3, <1>4 DEF KeptChats

LEMMA KeptAlike ==
    ASSUME NEW q, NEW r, NEW m, NEW n, NEW a, KeptPage(q, m, a),
           r.mem = q.mem, r.applied = q.applied, r.got = q.got,
           r.at = q.at \/ r.at = "idle", r.fresh => q.fresh,
           a \in Replies /\ Holds(m, a) => Holds(n, a),
           r.fresh /\ a \in Replies /\ Holds(n, a) => Holds(m, a)
    PROVE  KeptPage(r, n, a)
  BY DEF KeptPage, IsLast

LEMMA ChatsNext ==
    ASSUME Typed, RunInv, KeptChats, DeliveryMove, UNCHANGED answer
    PROVE  KeptChats' /\ (answer \in Replies /\ Holds(store, answer) => Holds(store', answer))
  <1>0. /\ \A q \in Pages : page[q] \in PageState
        /\ store \in Memory /\ Sender \in Pages
    BY TypedParts, DeliveryAssumption DEF ClientTyped, Sender, Pages
  <1>a. Nothing \notin Results /\ Replies \subseteq Results
    BY DeliveryAssumption DEF Results, Replies
  <1>b. \A q \in Pages : KeptPage(page[q], store, answer)
    BY DEF KeptChats
  <1>c. ASSUME NEW q \in Pages, Alike(q), UNCHANGED store
        PROVE  KeptPage(page'[q], store', answer)
    BY <1>b, <1>c, KeptAlike DEF Alike
  <1>d. ASSUME NEW q \in Pages, DataStale(q),
               answer \in Replies /\ Holds(store, answer) => Holds(store', answer)
        PROVE  KeptPage(page'[q], store', answer)
    BY <1>b, <1>d, KeptAlike DEF DataStale, Alike
  <1>e. ASSUME \A q \in Pages : KeptPage(page'[q], store', answer),
               Published(store'.reply, answer), Published(store'.copy, answer)
        PROVE  KeptChats'
    BY <1>e DEF KeptChats
  <1>1. CASE Sends
    <2>1. UNCHANGED store
      BY <1>1 DEF Sends
    <2>2. KeptPage(page'[Sender], store', answer)
      BY <1>1, <1>a, <2>1 DEF Sends, KeptPage, KeptChats, IsLast, Published
    <2> QED BY <1>1, <1>c, <1>e, <2>1, <2>2 DEF Sends, KeptChats
  <1>2. CASE EditedElsewhere
    <2>1. store'.reply = store.reply /\ store'.copy = store.copy
      BY <1>2 DEF EditedElsewhere, EditedChat
    <2>2. Holds(store, answer) => Holds(store', answer)
      BY <2>1 DEF Holds
    <2> QED BY <1>2, <1>d, <1>e, <2>1, <2>2 DEF EditedElsewhere, KeptChats
  <1>3. CASE Watches
    <2>1. UNCHANGED store
      BY <1>3 DEF Watches
    <2>2. ASSUME NEW q \in Pages PROVE KeptPage(page'[q], store', answer)
      <3>1. CASE Alike(q)
        BY <1>c, <2>1, <3>1
      <3>2. CASE page'[q] = Closed
        <4>1. /\ Closed.mem = Empty /\ Closed.applied = Nothing /\ Closed.got = Nothing
              /\ ~Closed.fresh /\ Empty.reply = Nothing /\ Empty.copy = Nothing
          BY DEF Closed, Empty
        <4> QED BY <1>a, <3>2, <4>1 DEF KeptPage, Published, IsLast
      <3>3. CASE GoesTo(q, "idle") /\ page'[q].applied = page[q].applied
        <4>1. KeptPage(page[q], store, answer)
          BY <1>b
        <4> QED BY <2>1, <3>3, <4>1, KeptAlike DEF GoesTo
      <3> QED BY <1>3, <3>1, <3>2, <3>3 DEF Watches
    <2> QED BY <1>e, <2>1, <2>2 DEF KeptChats
  <1>4. ASSUME NEW p \in Pages, SavesBody(p)
        PROVE  KeptChats' /\ (answer \in Replies /\ Holds(store, answer) => Holds(store', answer))
    <2> DEFINE q == page[p]
               r == page'[p]
    <2>1. /\ store'.reply = q.mem.reply /\ store'.copy = q.mem.copy
          /\ q.at = "merged" /\ q.fresh /\ r.at = "half" /\ r.mem = q.mem
          /\ r.applied = q.applied /\ r.got = q.got
      BY <1>4 DEF SavesBody, GoesTo, SameChat
    <2>2. KeptPage(q, store, answer)
      BY <1>b
    <2> HIDE DEF q, r
    <2>3. Holds(store', answer) <=> Holds(q.mem, answer)
      BY <2>1 DEF Holds
    <2>4. answer \in Replies /\ Holds(store, answer) => Holds(store', answer)
      BY <2>1, <2>2, <2>3 DEF KeptPage
    <2>5. KeptPage(r, store', answer)
      BY <2>1, <2>2, <2>3, <2>4 DEF KeptPage, IsLast
    <2>6. \A x \in Pages : KeptPage(page'[x], store', answer)
      BY <1>4, <1>d, <2>4, <2>5 DEF SavesBody, r
    <2> QED BY <1>e, <2>1, <2>2, <2>4, <2>6 DEF KeptPage
  <1>5. ASSUME NEW p \in Pages, SavesRoot(p)
        PROVE  KeptChats' /\ (answer \in Replies /\ Holds(store, answer) => Holds(store', answer))
    <2> DEFINE q == page[p]
               r == page'[p]
    <2>1. /\ store'.reply = store.reply /\ store'.copy = store.copy
          /\ q.at = "half" /\ r.at = "ack" /\ r.mem = q.mem
          /\ r.applied = q.got /\ r.got = q.got /\ r.fresh = q.fresh
      BY <1>5 DEF SavesRoot, GoesTo, SameChat
    <2>2. KeptPage(q, store, answer)
      BY <1>b
    <2> HIDE DEF q, r
    <2>3. Holds(store', answer) <=> Holds(store, answer)
      BY <2>1 DEF Holds
    <2>4. KeptPage(r, store', answer)
      BY <2>1, <2>2, <2>3 DEF KeptPage, IsLast
    <2>5. \A x \in Pages : KeptPage(page'[x], store', answer)
      BY <1>5, <1>d, <2>3, <2>4 DEF SavesRoot, r
    <2> QED BY <1>e, <2>1, <2>3, <2>5 DEF KeptChats
  <1>6. ASSUME NEW p \in Pages, Edits(p)
        PROVE  KeptChats' /\ (answer \in Replies /\ Holds(store, answer) => Holds(store', answer))
    <2> DEFINE q == page[p]
               r == page'[p]
    <2>1. /\ store'.reply = q.mem.reply /\ store'.copy = q.mem.copy
          /\ q.fresh /\ r.at = q.at
          /\ r.mem.reply = q.mem.reply /\ r.mem.copy = q.mem.copy
          /\ r.applied = q.applied /\ r.got = q.got
      BY <1>6 DEF Edits, EditedChat
    <2>2. KeptPage(q, store, answer)
      BY <1>b
    <2> HIDE DEF q, r
    <2>3. /\ Holds(store', answer) <=> Holds(q.mem, answer)
          /\ Holds(r.mem, answer) <=> Holds(q.mem, answer)
      BY <2>1 DEF Holds
    <2>4. answer \in Replies /\ Holds(store, answer) => Holds(store', answer)
      BY <2>1, <2>2, <2>3 DEF KeptPage
    <2>5. KeptPage(r, store', answer)
      BY <2>1, <2>2, <2>3, <2>4 DEF KeptPage, IsLast
    <2>6. \A x \in Pages : KeptPage(page'[x], store', answer)
      BY <1>6, <1>d, <2>4, <2>5 DEF Edits, r
    <2> QED BY <1>e, <2>1, <2>2, <2>4, <2>6 DEF KeptPage
  <1>7. ASSUME NEW p \in Pages, Boots(p)
        PROVE  KeptChats' /\ (answer \in Replies /\ Holds(store, answer) => Holds(store', answer))
    <2>1. UNCHANGED store /\ page'[p].mem = store /\ page'[p].got = Nothing
          /\ page'[p].at = "idle"
      BY <1>7 DEF Boots
    <2>2. page'[p].applied \in {store.reply, store.copy, Nothing}
      BY <1>7 DEF Boots
    <2>3. KeptPage(page'[p], store', answer)
      BY <1>a, <2>1, <2>2 DEF KeptPage, KeptChats, IsLast, Published, Holds
    <2> QED BY <1>7, <1>c, <1>e, <2>1, <2>3 DEF Boots, KeptChats
  <1>8. ASSUME NEW p \in Pages, Takes(p)
        PROVE  KeptChats' /\ (answer \in Replies /\ Holds(store, answer) => Holds(store', answer))
    <2> DEFINE q == page[p]
               t == page'[p]
    <2>1. UNCHANGED store /\ answer \in Results /\ t = Take(q, answer) /\ q \in PageState
      BY <1>0, <1>8, TypedParts DEF Takes, ServerTyped, RunInv
    <2>2. KeptPage(q, store, answer)
      BY <1>b
    <2> HIDE DEF q, t
    <2>3. /\ t.got = answer /\ t.applied = q.applied /\ t.fresh = q.fresh
          /\ \/ Acked(q, t, answer)
             \/ /\ t.at = "merged" /\ answer \in Replies
                /\ HasIt(q, t, answer) \/ Copies(q, t, answer) \/ Replaces(q, t, answer)
      BY <2>1, TakeCases
    <2>4. Published(answer, answer)
      BY <1>a DEF Published
    <2>5. CASE Acked(q, t, answer)
      <3>1. answer \in Replies => q.applied = answer
        <4>1. q.applied \in ReplyOrNothing
          BY <2>1 DEF PageState
        <4>2. Rank(Nothing) = 0 /\ Rank("mid") = 1 /\ Rank("end") = 2
          BY DeliveryAssumption DEF Rank
        <4>3. q.applied = "end" => answer = "end"
          BY <2>2 DEF KeptPage, Published, Replies
        <4>4. answer \in Replies => answer # "fail"
          BY DEF Replies
        <4> QED BY <2>5, <4>1, <4>2, <4>3, <4>4 DEF Acked, ReplyOrNothing, Replies
      <3>2. answer \in Replies => Holds(store, answer)
        BY <2>2, <3>1 DEF KeptPage, IsLast
      <3>3. KeptPage(t, store, answer)
        BY <2>2, <2>3, <2>4, <2>5, <3>2 DEF KeptPage, Acked, IsLast
      <3> QED BY <1>8, <1>c, <1>e, <2>1, <3>3 DEF Takes, KeptChats, t
    <2>6. CASE /\ t.at = "merged" /\ answer \in Replies
               /\ HasIt(q, t, answer) \/ Copies(q, t, answer) \/ Replaces(q, t, answer)
      <3>1. Holds(t.mem, answer)
        BY <2>6 DEF HasIt, Copies, Replaces, SameChat, Holds
      <3>2. t.mem.reply \in {q.mem.reply, answer} /\ t.mem.copy \in {q.mem.copy, answer}
        BY <2>6 DEF HasIt, Copies, Replaces, SameChat
      <3>3. KeptPage(t, store, answer)
        BY <2>2, <2>3, <2>4, <2>6, <3>1, <3>2 DEF KeptPage, IsLast
      <3> QED BY <1>8, <1>c, <1>e, <2>1, <3>3 DEF Takes, KeptChats, t
    <2> QED BY <2>3, <2>5, <2>6
  <1> QED BY <1>1, <1>2, <1>3, <1>4, <1>5, <1>6, <1>7, <1>8, ChatCases

LEMMA KeptNext ==
    ASSUME Typed, RunInv, KeptInv, DeliveryMove
    PROVE  KeptInv'
  <1>0. RowInv /\ KeptChats /\ RepliesKept
    BY DEF KeptInv
  <1>1. RowInv'
    BY <1>0, RowNext
  <1>2. CASE Publishes
    <2>1. KeptChats'
      BY <1>0, <1>2, NewReply
    <2>2. RepliesKept'
      BY <1>2 DEF Publishes, RepliesKept
    <2> QED BY <1>1, <2>1, <2>2 DEF KeptInv
  <1>3. CASE ServerKeeps
    <2>1. UNCHANGED answer
      BY <1>3 DEF ServerKeeps
    <2>2. KeptChats' /\ (answer \in Replies /\ Holds(store, answer) => Holds(store', answer))
      BY <1>0, <2>1, ChatsNext
    <2>3. ASSUME answer \in Replies, row' \notin Dropped
          PROVE  \/ parked' # Nothing /\ parked'.result = answer
                 \/ Holds(store', answer)
      <3>1. CASE \E p \in Pages : page[p].at = "ack" /\ page[p].got = answer
        BY <1>0, <2>2, <2>3, <3>1 DEF KeptChats, KeptPage, IsLast
      <3>2. CASE /\ row \notin Dropped
                 /\ parked # Nothing => parked' # Nothing /\ parked'.result = parked.result
        BY <1>0, <2>2, <2>3, <3>2 DEF RepliesKept, Dropped, Holds
      <3> QED BY <1>3, <2>3, <3>1, <3>2 DEF ServerKeeps
    <2>4. RepliesKept'
      BY <2>1, <2>3 DEF RepliesKept, Dropped, Holds
    <2> QED BY <1>1, <2>2, <2>4 DEF KeptInv
  <1> QED BY <1>0, <1>2, <1>3, RowNext

(* The last reply that was published is on the server or in the stored     *)
(* chat, unless it was cancelled or nobody fetched it in time, whatever    *)
(* pages are killed, saves fail and acknowledgements are lost or late      *)
(* (consumeOrchResult, the exact acknowledgement and the retention sweep). *)
THEOREM ReplyIsKept == Spec => []RepliesKept
  <1>1. Init => KeptInv
    <2> SUFFICES ASSUME Init PROVE KeptInv
      OBVIOUS
    <2>a. Nothing \notin Replies /\ Nothing # "end" /\ Nothing # "mid"
      BY DeliveryAssumption DEF Replies
    <2>1. answer = Nothing /\ entry = "missing" /\ row = "none" /\ store = Empty
      BY DEF Init, DeliveryInit
    <2>2. Empty.reply = Nothing /\ Empty.copy = Nothing
      BY DEF Empty
    <2>3. \A p \in Pages : /\ page[p].at = "new" /\ page[p].mem = Empty
                           /\ page[p].applied = Nothing /\ page[p].got = Nothing
                           /\ ~page[p].fresh
      BY EmptyTyped DEF Init, DeliveryInit, Closed
    <2>4. RowInv /\ RepliesKept
      BY <2>a, <2>1 DEF RowInv, RepliesKept, Active
    <2>5. KeptChats
      BY <2>a, <2>1, <2>2, <2>3 DEF KeptChats, KeptPage, Published, IsLast
    <2> QED BY <2>4, <2>5 DEF KeptInv
  <1>2. Typed /\ RunInv /\ KeptInv /\ [Next]_vars => KeptInv'
    BY KeptNext, ServerMoves
  <1>3. KeptInv => RepliesKept
    BY DEF KeptInv
  <1> QED BY <1>1, <1>2, <1>3, DeliveryTyped, ConsumersAlone, PTL DEF Spec, Typed
=============================================================================
