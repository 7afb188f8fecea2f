--------------------------- MODULE ChatStoreProofs ---------------------------
(***************************************************************************)
(* Theorems about ChatStore, for any number of operations, notes and       *)
(* saves. The lemmas say what Insert and Drop do to the messages of a      *)
(* chat; the modules that change a chat in other ways use them as well.    *)
(***************************************************************************)
EXTENDS ChatStore, SequenceTheorems, TLAPS

LEMMA ToSetSeq ==
    ASSUME NEW S, NEW s \in Seq(S)
    PROVE  ToSet(s) = {s[i] : i \in 1..Len(s)} /\ Len(s) \in Nat
  BY DEF ToSet

(* The sequence facts behind Insert and Drop, element by element.          *)
LEMMA InsertAtElements ==
    ASSUME NEW S, NEW s \in Seq(S), NEW k \in Nat, 1 <= k, k <= Len(s) + 1, NEW m \in S
    PROVE  /\ InsertAt(s, k, m) \in Seq(S)
           /\ Len(InsertAt(s, k, m)) = Len(s) + 1
           /\ \A i \in 1..(Len(s) + 1) :
                 InsertAt(s, k, m)[i] =
                    IF i < k THEN s[i] ELSE IF i = k THEN m ELSE s[i - 1]
<1> DEFINE a == SubSeq(s, 1, k - 1)
           b == SubSeq(s, k, Len(s))
           am == a \o <<m>>
           t == am \o b
<1>0. Len(s) \in Nat /\ k \in Int /\ 1 <= k /\ k <= Len(s) + 1
  BY ToSetSeq
<1>1. /\ a \in Seq(S) /\ Len(a) = k - 1
      /\ \A i \in 1..(k - 1) : a[i] = s[i]
  BY <1>0
<1>2. /\ b \in Seq(S) /\ Len(b) = Len(s) - k + 1
      /\ \A i \in 1..(Len(s) - k + 1) : b[i] = s[k + i - 1]
  BY <1>0
<1> HIDE DEF a, b
<1>3. /\ am \in Seq(S) /\ Len(am) = k
      /\ \A i \in 1..k : am[i] = IF i < k THEN s[i] ELSE m
  BY <1>0, <1>1
<1> HIDE DEF am
<1>4. /\ t \in Seq(S) /\ Len(t) = Len(s) + 1
      /\ \A i \in 1..(Len(s) + 1) : t[i] = IF i <= k THEN am[i] ELSE b[i - k]
  <2>1. /\ t \in Seq(S) /\ Len(t) = Len(am) + Len(b)
        /\ \A i \in 1..(Len(am) + Len(b)) :
              t[i] = IF i <= Len(am) THEN am[i] ELSE b[i - Len(am)]
    BY <1>2, <1>3, ConcatProperties
  <2> HIDE DEF t
  <2>2. Len(am) + Len(b) = Len(s) + 1
    BY <1>0, <1>2, <1>3
  <2> QED
    BY <2>1, <2>2, <1>3
<1> HIDE DEF t
<1>5. ASSUME NEW i \in 1..(Len(s) + 1)
      PROVE  t[i] = IF i < k THEN s[i] ELSE IF i = k THEN m ELSE s[i - 1]
  <2>1. CASE i <= k
    BY <1>0, <2>1, <1>3, <1>4
  <2>2. CASE i > k
    <3>1. i - k \in 1..(Len(s) - k + 1) /\ k + (i - k) - 1 = i - 1
      BY <1>0, <2>2
    <3>2. t[i] = b[i - k]
      BY <1>0, <2>2, <1>4
    <3>3. b[i - k] = s[k + (i - k) - 1]
      BY <3>1, <1>2
    <3> QED
      BY <1>0, <2>2, <3>1, <3>2, <3>3
  <2> QED
    BY <1>0, <2>1, <2>2
<1>6. InsertAt(s, k, m) = t
  BY DEF InsertAt, a, b, am, t
<1> QED
  BY <1>4, <1>5, <1>6

LEMMA RemoveAtElements ==
    ASSUME NEW S, NEW s \in Seq(S), NEW k \in 1..Len(s)
    PROVE  /\ RemoveAt(s, k) \in Seq(S)
           /\ Len(RemoveAt(s, k)) = Len(s) - 1
           /\ \A i \in 1..(Len(s) - 1) :
                 RemoveAt(s, k)[i] = IF i < k THEN s[i] ELSE s[i + 1]
<1> DEFINE a == SubSeq(s, 1, k - 1)
           b == SubSeq(s, k + 1, Len(s))
           t == a \o b
<1>0. Len(s) \in Nat /\ k \in Int /\ 1 <= k /\ k <= Len(s)
  BY ToSetSeq
<1>1. /\ a \in Seq(S) /\ Len(a) = k - 1
      /\ \A i \in 1..(k - 1) : a[i] = s[i]
  BY <1>0
<1>2. /\ b \in Seq(S) /\ Len(b) = Len(s) - k
      /\ \A i \in 1..(Len(s) - k) : b[i] = s[k + i]
  BY <1>0
<1> HIDE DEF a, b
<1>3. /\ t \in Seq(S) /\ Len(t) = Len(a) + Len(b)
      /\ \A i \in 1..(Len(a) + Len(b)) :
            t[i] = IF i <= Len(a) THEN a[i] ELSE b[i - Len(a)]
  BY <1>1, <1>2, ConcatProperties
<1> HIDE DEF t
<1>4. ASSUME NEW i \in 1..(Len(s) - 1)
      PROVE  t[i] = IF i < k THEN s[i] ELSE s[i + 1]
  <2>0. i \in 1..(Len(a) + Len(b))
    BY <1>0, <1>1, <1>2
  <2>1. CASE i < k
    <3>1. i \in 1..(k - 1) /\ i <= Len(a)
      BY <1>0, <2>1, <1>1
    <3> QED
      BY <3>1, <2>0, <2>1, <1>1, <1>3
  <2>2. CASE i >= k
    <3>1. i - (k - 1) \in 1..(Len(s) - k) /\ k + (i - (k - 1)) = i + 1
      BY <1>0, <2>2
    <3> QED
      BY <1>0, <2>0, <2>2, <3>1, <1>1, <1>2, <1>3
  <2> QED
    BY <1>0, <2>1, <2>2
<1>5. RemoveAt(s, k) = t
  BY DEF RemoveAt, a, b, t
<1> QED
  BY <1>0, <1>1, <1>2, <1>3, <1>4, <1>5

(* What they do to the set of the messages.                                *)
LEMMA InsertAtSet ==
    ASSUME NEW S, NEW s \in Seq(S), NEW k \in Nat, 1 <= k, k <= Len(s) + 1, NEW m \in S
    PROVE  ToSet(InsertAt(s, k, m)) = ToSet(s) \cup {m}
<1> DEFINE t == InsertAt(s, k, m)
<1>1. /\ t \in Seq(S) /\ Len(t) = Len(s) + 1
      /\ \A i \in 1..(Len(s) + 1) :
            t[i] = IF i < k THEN s[i] ELSE IF i = k THEN m ELSE s[i - 1]
  BY InsertAtElements
<1> HIDE DEF t
<1>2. /\ ToSet(s) = {s[i] : i \in 1..Len(s)} /\ Len(s) \in Nat
      /\ ToSet(t) = {t[i] : i \in 1..Len(t)}
  BY <1>1, ToSetSeq
<1>3. ASSUME NEW i \in 1..Len(t)
      PROVE  t[i] \in ToSet(s) \cup {m}
  <2>1. CASE i < k
    <3>1. i \in 1..Len(s) /\ t[i] = s[i]
      BY <2>1, <1>1, <1>2
    <3> QED
      BY <3>1, <1>2
  <2>2. CASE i = k
    BY <2>2, <1>1
  <2>3. CASE i > k
    <3>1. i - 1 \in 1..Len(s) /\ t[i] = s[i - 1]
      BY <2>3, <1>1, <1>2
    <3> QED
      BY <3>1, <1>2
  <2> QED
    BY <2>1, <2>2, <2>3, <1>1, <1>2
<1>4. ASSUME NEW i \in 1..Len(s)
      PROVE  s[i] \in ToSet(t)
  <2>1. CASE i < k
    <3>1. i \in 1..Len(t) /\ t[i] = s[i]
      BY <2>1, <1>1, <1>2
    <3> QED
      BY <3>1, <1>2
  <2>2. CASE i >= k
    <3>1. i + 1 \in 1..Len(t) /\ t[i + 1] = s[i]
      BY <2>2, <1>1, <1>2
    <3> QED
      BY <3>1, <1>2
  <2> QED
    BY <2>1, <2>2, <1>2
<1>5. m \in ToSet(t)
  <2>1. k \in 1..Len(t) /\ t[k] = m
    BY <1>1
  <2> QED
    BY <2>1, <1>2
<1>6. ToSet(t) = ToSet(s) \cup {m}
  BY <1>2, <1>3, <1>4, <1>5
<1> QED
  BY <1>6 DEF t

LEMMA RemoveAtSet ==
    ASSUME NEW S, NEW s \in Seq(S), NEW k \in 1..Len(s)
    PROVE  /\ ToSet(RemoveAt(s, k)) \subseteq ToSet(s)
           /\ ToSet(s) \ {s[k]} \subseteq ToSet(RemoveAt(s, k))
<1> DEFINE t == RemoveAt(s, k)
<1>1. /\ t \in Seq(S) /\ Len(t) = Len(s) - 1
      /\ \A i \in 1..(Len(s) - 1) : t[i] = IF i < k THEN s[i] ELSE s[i + 1]
  BY RemoveAtElements
<1> HIDE DEF t
<1>2. /\ ToSet(s) = {s[i] : i \in 1..Len(s)} /\ Len(s) \in Nat
      /\ ToSet(t) = {t[i] : i \in 1..Len(t)}
  BY <1>1, ToSetSeq
<1>3. ASSUME NEW i \in 1..Len(t)
      PROVE  t[i] \in ToSet(s)
  <2>1. i \in 1..Len(s) /\ i + 1 \in 1..Len(s) /\ (t[i] = s[i] \/ t[i] = s[i + 1])
    BY <1>1, <1>2
  <2> QED
    BY <2>1, <1>2
<1>4. ASSUME NEW i \in 1..Len(s), s[i] # s[k]
      PROVE  s[i] \in ToSet(t)
  <2>1. CASE i < k
    <3>1. i \in 1..Len(t) /\ t[i] = s[i]
      BY <2>1, <1>1, <1>2
    <3> QED
      BY <3>1, <1>2
  <2>2. CASE i > k
    <3>1. i - 1 \in 1..Len(t) /\ t[i - 1] = s[i]
      BY <2>2, <1>1, <1>2
    <3> QED
      BY <3>1, <1>2
  <2> QED
    BY <2>1, <2>2, <1>4, <1>2
<1>5. ToSet(t) \subseteq ToSet(s) /\ ToSet(s) \ {s[k]} \subseteq ToSet(t)
  BY <1>2, <1>3, <1>4
<1> QED
  BY <1>5 DEF t

(* Insert keeps a chat a chat, and adds exactly the one message.           *)
LEMMA InsertChat ==
    ASSUME NEW chat \in Chat, NEW k \in 0..Len(chat.msgs), NEW m \in Message
    PROVE  /\ Insert(chat, k, m) \in Chat
           /\ Insert(chat, k, m).ver = chat.ver
           /\ Shown(Insert(chat, k, m)) = Shown(chat) \cup {m}
<1> DEFINE new == InsertAt(chat.msgs, k + 1, m)
<1>1. chat.msgs \in Seq(Message) /\ k + 1 \in Nat
      /\ 1 <= k + 1 /\ k + 1 <= Len(chat.msgs) + 1
  BY DEF Chat
<1>2. new \in Seq(Message) /\ ToSet(new) = ToSet(chat.msgs) \cup {m}
  BY <1>1, InsertAtElements, InsertAtSet
<1>3. Insert(chat, k, m) = [chat EXCEPT !.msgs = new]
  BY DEF Insert
<1> HIDE DEF new
<1>4. /\ Insert(chat, k, m) \in Chat
      /\ Insert(chat, k, m).msgs = new
      /\ Insert(chat, k, m).ver = chat.ver
  BY <1>2, <1>3 DEF Chat
<1> QED
  BY <1>2, <1>4 DEF Shown

(* Drop keeps a chat a chat, and removes at most the one message.          *)
LEMMA DropChat ==
    ASSUME NEW chat \in Chat, NEW k \in DOMAIN chat.msgs
    PROVE  /\ Drop(chat, k) \in Chat
           /\ Drop(chat, k).ver = chat.ver
           /\ Shown(Drop(chat, k)) \subseteq Shown(chat)
           /\ Shown(chat) \ {chat.msgs[k]} \subseteq Shown(Drop(chat, k))
<1> DEFINE new == RemoveAt(chat.msgs, k)
<1>1. chat.msgs \in Seq(Message) /\ k \in 1..Len(chat.msgs)
  BY DEF Chat
<1>2. /\ new \in Seq(Message)
      /\ ToSet(new) \subseteq ToSet(chat.msgs)
      /\ ToSet(chat.msgs) \ {chat.msgs[k]} \subseteq ToSet(new)
  BY <1>1, RemoveAtElements, RemoveAtSet
<1>3. Drop(chat, k) = [chat EXCEPT !.msgs = new]
  BY DEF Drop
<1> HIDE DEF new
<1>4. /\ Drop(chat, k) \in Chat
      /\ Drop(chat, k).msgs = new
      /\ Drop(chat, k).ver = chat.ver
  BY <1>2, <1>3 DEF Chat
<1> QED
  BY <1>2, <1>4 DEF Shown
-----------------------------------------------------------------------------
(* Every save of the user keeps the types and counts as one save.          *)
LEMMA EditsTyped ==
    ASSUME StoreTypeOK, acked.saves < MaxSaves, NEW edit \in Edits(live)
    PROVE  /\ edit[1] \in Chat
           /\ [edit[2] EXCEPT !.saves = @ + 1] \in Acked
<1>0. live \in Chat /\ acked \in Acked /\ acked.saves + 1 \in 0..MaxSaves
  BY StoreAssumption DEF StoreTypeOK, Acked
<1>1. CASE edit = <<[live EXCEPT !.ver = acked.saves + 1],
                    [acked EXCEPT !.ver = acked.saves + 1]>>
  BY <1>0, <1>1 DEF Chat, Acked
<1>2. CASE \E k \in 0..Len(live.msgs), n \in {x \in Notes : Note(x) \notin acked.added} :
             edit = <<Insert(live, k, Note(n)),
                      [acked EXCEPT !.added = @ \cup {Note(n)}]>>
  <2> PICK k \in 0..Len(live.msgs), n \in Notes :
             edit = <<Insert(live, k, Note(n)),
                      [acked EXCEPT !.added = @ \cup {Note(n)}]>>
    BY <1>2
  <2>1. Note(n) \in Message
    BY DEF Note, Message
  <2>2. edit[1] \in Chat
    BY <2>1, <1>0, InsertChat
  <2> QED
    BY <2>1, <2>2, <1>0 DEF Acked
<1>3. CASE \E k \in DOMAIN live.msgs :
             edit = <<Drop(live, k),
                      [acked EXCEPT !.removed = @ \cup {live.msgs[k]}]>>
  <2> PICK k \in DOMAIN live.msgs :
             edit = <<Drop(live, k),
                      [acked EXCEPT !.removed = @ \cup {live.msgs[k]}]>>
    BY <1>3
  <2>1. live.msgs[k] \in Message
    BY <1>0 DEF Chat
  <2>2. edit[1] \in Chat
    BY <1>0, DropChat
  <2> QED
    BY <2>1, <2>2, <1>0 DEF Acked
<1> QED
  BY <1>1, <1>2, <1>3 DEF Edits

(* The type invariant and the agreement of memory with what a restart      *)
(* loads are inductive together: while the persist is between its two      *)
(* writes, the image must already hold the chat, because the journal       *)
(* record that covered for it is about to go.                              *)
StoreInv ==
    /\ StoreTypeOK
    /\ RestartLosesNothing
    /\ slot = Persisting => image.chat = live

LEMMA StoreInvInit == StoreInit => StoreInv
<1> SUFFICES ASSUME StoreInit PROVE StoreInv
  OBVIOUS
<1>1. [msgs |-> <<>>, ver |-> 0] \in Chat
  BY StoreAssumption DEF Chat
<1>2. acked \in Acked
  BY StoreAssumption DEF StoreInit, Acked
<1> QED
  BY <1>1, <1>2, StoreAssumption
     DEF StoreInit, StoreInv, StoreTypeOK, RestartLosesNothing, Reloaded

LEMMA StoreInvNext == StoreInv /\ [StoreNext]_storeVars => StoreInv'
<1> SUFFICES ASSUME StoreInv, [StoreNext]_storeVars PROVE StoreInv'
  OBVIOUS
<1> USE DEF StoreInv, StoreTypeOK, RestartLosesNothing, Reloaded
<1>1. CASE ClientSave
  <2> PICK edit \in Edits(live) :
             /\ staged' = edit[1] /\ live' = edit[1]
             /\ acked' = [edit[2] EXCEPT !.saves = @ + 1]
    BY <1>1 DEF ClientSave, SaveFrom
  <2>1. edit[1] \in Chat /\ acked' \in Acked
    BY <1>1, EditsTyped DEF ClientSave, SaveFrom
  <2> QED
    BY <1>1, <2>1, StoreAssumption DEF ClientSave, SaveFrom
<1>2. CASE PersistImage
  BY <1>2, StoreAssumption DEF PersistImage
<1>3. CASE ClearJournal
  BY <1>3, StoreAssumption DEF ClearJournal
<1>4. CASE Restart
  BY <1>4, StoreAssumption DEF Restart
<1>5. CASE UNCHANGED storeVars
  BY <1>5 DEF storeVars
<1> QED
  BY <1>1, <1>2, <1>3, <1>4, <1>5 DEF StoreNext

(* Every variable of the store keeps its type.                             *)
THEOREM StoreTyped == StoreSpec => []StoreTypeOK
<1>1. StoreInv => StoreTypeOK
  BY DEF StoreInv
<1> QED
  BY <1>1, StoreInvInit, StoreInvNext, PTL DEF StoreSpec

(* initChatStore: at every moment, inside the two writes of a persist too, *)
(* a restart would load the chat that is being served.                     *)
THEOREM StoreDurable == StoreSpec => []RestartLosesNothing
<1>1. StoreInv => RestartLosesNothing
  BY DEF StoreInv
<1> QED
  BY <1>1, StoreInvInit, StoreInvNext, PTL DEF StoreSpec
-----------------------------------------------------------------------------
(* A message occurs once in a chat; then Drop removes it altogether.       *)
LEMMA InsertOnce ==
    ASSUME NEW chat \in Chat, NEW k \in 0..Len(chat.msgs), NEW m \in Message,
           IsInjective(chat.msgs), m \notin Shown(chat)
    PROVE  IsInjective(Insert(chat, k, m).msgs)
<1> DEFINE s == chat.msgs
           here == k + 1
           t == InsertAt(s, here, m)
<1>1. s \in Seq(Message) /\ Len(s) \in Nat /\ here \in Nat
      /\ 1 <= here /\ here <= Len(s) + 1
  BY DEF Chat
<1>2. Insert(chat, k, m).msgs = t
  BY DEF Insert, Chat
<1>3. \A i \in 1..Len(s) : s[i] # m
  BY <1>1 DEF Shown, ToSet
<1>4. \A i, j \in 1..Len(s) : s[i] = s[j] => i = j
  BY <1>1 DEF IsInjective
<1> HIDE DEF s
<1> HIDE DEF here
<1>5. /\ t \in Seq(Message) /\ Len(t) = Len(s) + 1
      /\ \A i \in 1..(Len(s) + 1) :
            t[i] = IF i < here THEN s[i] ELSE IF i = here THEN m ELSE s[i - 1]
  BY <1>1, InsertAtElements
<1> HIDE DEF t
<1>6. DOMAIN t = 1..(Len(s) + 1)
  BY <1>5
<1>7. ASSUME NEW i \in 1..(Len(s) + 1), NEW j \in 1..(Len(s) + 1), t[i] = t[j]
      PROVE  i = j
  <2> DEFINE src(x) == IF x < here THEN x ELSE x - 1
  <2>1. ASSUME NEW x \in 1..(Len(s) + 1), x # here
        PROVE  src(x) \in 1..Len(s) /\ t[x] = s[src(x)] /\ t[x] # m
    BY <2>1, <1>1, <1>3, <1>5
  <2>2. t[here] = m
    BY <1>1, <1>5
  <2>3. CASE i = here \/ j = here
    BY <2>1, <2>2, <2>3, <1>7
  <2>4. CASE i # here /\ j # here
    <3>1. src(i) = src(j)
      BY <2>1, <2>4, <1>4, <1>7
    <3> QED
      BY <3>1, <2>4, <1>1
  <2> QED
    BY <2>3, <2>4
<1> QED
  BY <1>2, <1>6, <1>7 DEF IsInjective

LEMMA DropOnce ==
    ASSUME NEW chat \in Chat, NEW k \in DOMAIN chat.msgs,
           IsInjective(chat.msgs)
    PROVE  /\ IsInjective(Drop(chat, k).msgs)
           /\ chat.msgs[k] \notin Shown(Drop(chat, k))
<1> DEFINE s == chat.msgs
           t == RemoveAt(s, k)
<1>1. s \in Seq(Message) /\ Len(s) \in Nat /\ k \in 1..Len(s)
  BY DEF Chat
<1>2. Drop(chat, k).msgs = t
  BY DEF Drop, Chat
<1>3. \A i, j \in 1..Len(s) : s[i] = s[j] => i = j
  BY <1>1 DEF IsInjective
<1>4. /\ t \in Seq(Message) /\ Len(t) = Len(s) - 1
      /\ \A i \in 1..(Len(s) - 1) : t[i] = IF i < k THEN s[i] ELSE s[i + 1]
  BY <1>1, RemoveAtElements
<1> HIDE DEF s, t
<1>5. DOMAIN t = 1..(Len(s) - 1) /\ ToSet(t) = {t[i] : i \in 1..(Len(s) - 1)}
  BY <1>4, ToSetSeq
<1> DEFINE src(x) == IF x < k THEN x ELSE x + 1
<1>6. ASSUME NEW x \in 1..(Len(s) - 1)
      PROVE  src(x) \in 1..Len(s) /\ src(x) # k /\ t[x] = s[src(x)]
  BY <1>1, <1>4
<1>7. ASSUME NEW i \in 1..(Len(s) - 1), NEW j \in 1..(Len(s) - 1), t[i] = t[j]
      PROVE  i = j
  <2>1. src(i) = src(j)
    BY <1>3, <1>6, <1>7
  <2> QED
    BY <2>1, <1>1
<1>8. ASSUME NEW i \in 1..(Len(s) - 1)
      PROVE  t[i] # s[k]
  BY <1>1, <1>3, <1>6
<1>9. IsInjective(t)
  BY <1>5, <1>7 DEF IsInjective
<1>10. s[k] \notin ToSet(t)
  BY <1>5, <1>8
<1> QED
  BY <1>2, <1>9, <1>10 DEF Shown, s

(* That the acknowledged edits are served needs more: every message of the *)
(* chat came from a save, and none occurs twice.                           *)
ServedInv ==
    /\ StoreInv
    /\ AckedEditsServed
    /\ IsInjective(live.msgs)
    /\ Shown(live) \cup acked.removed \subseteq acked.added

LEMMA ServedInvInit == StoreInit => ServedInv
<1> SUFFICES ASSUME StoreInit PROVE ServedInv
  OBVIOUS
<1>1. live.msgs = <<>> /\ live.ver = 0 /\ acked.ver = 0
      /\ acked.added = {} /\ acked.removed = {}
  BY DEF StoreInit
<1>2. Shown(live) = {} /\ IsInjective(live.msgs)
  BY <1>1 DEF Shown, ToSet, IsInjective
<1> QED
  BY <1>1, <1>2, StoreInvInit DEF ServedInv, AckedEditsServed

LEMMA ServedInvSave == ServedInv /\ ClientSave => ServedInv'
<1> SUFFICES ASSUME ServedInv, ClientSave PROVE ServedInv'
  OBVIOUS
<1>1. StoreInv'
  BY StoreInvNext DEF ServedInv, StoreNext
<1>2. live \in Chat /\ acked \in Acked /\ acked.saves < MaxSaves
  BY DEF ServedInv, StoreInv, StoreTypeOK, ClientSave, SaveFrom
<1> PICK edit \in Edits(live) :
           live' = edit[1] /\ acked' = [edit[2] EXCEPT !.saves = @ + 1]
  BY DEF ClientSave, SaveFrom
<1>3. CASE edit = <<[live EXCEPT !.ver = acked.saves + 1],
                    [acked EXCEPT !.ver = acked.saves + 1]>>
  <2>1. /\ live'.msgs = live.msgs /\ live'.ver = acked'.ver
        /\ acked'.added = acked.added /\ acked'.removed = acked.removed
    BY <1>2, <1>3 DEF Chat, Acked
  <2> QED
    BY <1>1, <2>1 DEF ServedInv, AckedEditsServed, Shown
<1>4. CASE \E k \in 0..Len(live.msgs), n \in {x \in Notes : Note(x) \notin acked.added} :
             edit = <<Insert(live, k, Note(n)),
                      [acked EXCEPT !.added = @ \cup {Note(n)}]>>
  <2> PICK k \in 0..Len(live.msgs), n \in {x \in Notes : Note(x) \notin acked.added} :
             edit = <<Insert(live, k, Note(n)),
                      [acked EXCEPT !.added = @ \cup {Note(n)}]>>
    BY <1>4
  <2>1. /\ live' = Insert(live, k, Note(n)) /\ acked'.ver = acked.ver
        /\ acked'.added = acked.added \cup {Note(n)} /\ acked'.removed = acked.removed
    BY <1>2 DEF Acked
  <2>2. Note(n) \in Message /\ Note(n) \notin acked.added
    BY DEF Note, Message
  <2>3. Note(n) \notin Shown(live) /\ Note(n) \notin acked.removed
    BY <2>2 DEF ServedInv
  <2>4. live'.ver = live.ver /\ Shown(live') = Shown(live) \cup {Note(n)}
    BY <1>2, <2>1, <2>2, InsertChat
  <2>5. IsInjective(live'.msgs)
    BY <1>2, <2>1, <2>2, <2>3, InsertOnce DEF ServedInv
  <2> QED
    BY <1>1, <2>1, <2>3, <2>4, <2>5 DEF ServedInv, AckedEditsServed
<1>5. CASE \E k \in DOMAIN live.msgs :
             edit = <<Drop(live, k),
                      [acked EXCEPT !.removed = @ \cup {live.msgs[k]}]>>
  <2> PICK k \in DOMAIN live.msgs :
             edit = <<Drop(live, k),
                      [acked EXCEPT !.removed = @ \cup {live.msgs[k]}]>>
    BY <1>5
  <2>1. /\ live' = Drop(live, k) /\ acked'.ver = acked.ver
        /\ acked'.added = acked.added
        /\ acked'.removed = acked.removed \cup {live.msgs[k]}
    BY <1>2 DEF Acked
  <2>2. live.msgs[k] \in Shown(live)
    BY DEF Shown, ToSet
  <2>3. /\ live'.ver = live.ver /\ Shown(live') \subseteq Shown(live)
        /\ Shown(live) \ {live.msgs[k]} \subseteq Shown(live')
    BY <1>2, <2>1, DropChat
  <2>4. IsInjective(live'.msgs) /\ live.msgs[k] \notin Shown(live')
    BY <1>2, <2>1, DropOnce DEF ServedInv
  <2> QED
    BY <1>1, <2>1, <2>2, <2>3, <2>4 DEF ServedInv, AckedEditsServed
<1> QED
  BY <1>3, <1>4, <1>5 DEF Edits

LEMMA ServedInvNext == ServedInv /\ [StoreNext]_storeVars => ServedInv'
<1> SUFFICES ASSUME ServedInv, [StoreNext]_storeVars PROVE ServedInv'
  OBVIOUS
<1>1. StoreInv'
  BY StoreInvNext DEF ServedInv
<1>2. CASE ClientSave
  BY <1>2, ServedInvSave
<1>3. CASE ~ ClientSave
  <2>1. live' = live /\ acked' = acked
    BY <1>3 DEF StoreNext, PersistImage, ClearJournal, Restart, storeVars,
                ServedInv, StoreInv, RestartLosesNothing
  <2> QED
    BY <1>1, <2>1 DEF ServedInv, AckedEditsServed, Shown
<1> QED
  BY <1>2, <1>3

(* Delta and full saves, persists and restarts: whatever the server        *)
(* acknowledged is in the chat that it serves, for any number of saves.    *)
THEOREM StoreServes == StoreSpec => []AckedEditsServed
<1>1. ServedInv => AckedEditsServed
  BY DEF ServedInv
<1> QED
  BY <1>1, ServedInvInit, ServedInvNext, PTL DEF StoreSpec
=============================================================================
