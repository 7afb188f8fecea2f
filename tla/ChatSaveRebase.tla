---------------------------- MODULE ChatSaveRebase ----------------------------
(***************************************************************************)
(* The three-way merge with which a page takes over what others have saved *)
(* in the meantime, without dropping its own edits. A merge is the set of  *)
(* its results: one, or none when the edits overlap.                       *)
(***************************************************************************)
EXTENDS ChatStore, FiniteSets

(* A value that only one side has changed is taken from that side.         *)
MergeValue(base, local, remote) ==
    IF local = base THEN {remote}
    ELSE IF remote \in {base, local} THEN {local} ELSE {}

(* those of messages s that are in set S, in their order                   *)
Only(s, S) == FlattenSeq([i \in DOMAIN s |-> IF s[i] \in S THEN <<s[i]>> ELSE <<>>])
Place(s, m) == CHOOSE i \in DOMAIN s : s[i] = m

KeepsOrder(base, s) == Only(s, ToSet(base)) = Only(base, ToSet(s))

(* The gap of base that a new message m of s was put into: gap k follows   *)
(* the k-th message of base, counted from the last one before m in s.      *)
Gap(base, s, m) ==
    LET old == {i \in 1..Place(s, m) : s[i] \in ToSet(base)}
    IN  IF old = {} THEN 0
        ELSE Place(base, s[CHOOSE i \in old : \A j \in old : j <= i])

SameGaps(base, local, remote) ==
    \A m \in (ToSet(local) \cap ToSet(remote)) \ ToSet(base) :
        Gap(base, local, m) = Gap(base, remote, m)

(* what the merge has in gap k, the messages of the other side first, and  *)
(* then the next message of base, unless one side has deleted it           *)
GapAndNext(base, local, remote, k) ==
    LET new(s) == {m \in ToSet(s) \ ToSet(base) : Gap(base, s, m) = k}
        next == IF k = Len(base) THEN <<>> ELSE <<base[k + 1]>>
    IN  Only(remote, new(remote)) \o Only(local, new(local) \ ToSet(remote))
            \o Only(next, ToSet(local) \cap ToSet(remote))

MergeMessages(base, local, remote) ==
    IF local = base THEN {remote}
    ELSE IF remote \in {base, local} THEN {local}
    ELSE IF /\ KeepsOrder(base, local) /\ KeepsOrder(base, remote)
            /\ SameGaps(base, local, remote)
    THEN {FlattenSeq([k \in 1..(Len(base) + 1) |->
                        GapAndNext(base, local, remote, k - 1)])}
    ELSE {}

RebaseChatSave(base, local, remote) ==
    {[msgs |-> m, ver |-> v] :
        m \in MergeMessages(base.msgs, local.msgs, remote.msgs),
        v \in MergeValue(base.ver, local.ver, remote.ver)}
=============================================================================
