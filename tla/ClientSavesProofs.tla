--------------------------- MODULE ClientSavesProofs ---------------------------
(***************************************************************************)
(* Theorems about ClientSaves, for any number of messages, edits, faults   *)
(* and restarts: what a merge yields, that the view of the page keeps the  *)
(* edits of its user, and that a page with nothing left to save has saved  *)
(* them. First come sequences and merges, then the invariant, then one     *)
(* lemma for every action.                                                 *)
(***************************************************************************)
EXTENDS ClientSaves, ChatStoreProofs, WellFoundedInduction

(* A set of numbers that is not empty has a least one.                     *)
LEMMA NatLeast ==
    ASSUME NEW T \in SUBSET Nat, T # {}
    PROVE  \E x \in T : \A y \in T : x <= y
<1> DEFINE R == {ss \in Nat \X Nat : ss[1] < ss[2]}
<1>1. IsWellFoundedOn(R, Nat)
  BY NatLessThanWellFounded DEF OpToRel
<1>2. PICK x \in T : \A y \in T : ~(<<y, x>> \in R)
  <2> HIDE DEF R
  <2> QED BY <1>1, WFMin
<1>3. \A y \in T : ~(y < x)
  BY <1>2
<1> QED BY <1>3

(* What the concatenation of the first n of sequences seqs is.             *)
Joins(g, seqs, n) ==
    \A i \in 1..n : g[i] = IF i = 1 THEN seqs[i] ELSE g[i - 1] \o seqs[i]

(* The concatenations of the first sequences of seqs exist: by a minimal   *)
(* counterexample, for the library's induction theorem takes an operator.  *)
LEMMA JoinsExist ==
    ASSUME NEW S, NEW seqs \in Seq(Seq(S))
    PROVE  \E g \in [1..Len(seqs) -> Seq(S)] : Joins(g, seqs, Len(seqs))
<1> DEFINE N == Len(seqs)
           Missing == {n \in 0..N : ~ \E g \in [1..n -> Seq(S)] : Joins(g, seqs, n)}
<1>1. N \in Nat /\ \A i \in 1..N : seqs[i] \in Seq(S)
  OBVIOUS
<1> HIDE DEF N
<1>2. SUFFICES ASSUME Missing # {} PROVE FALSE
  BY <1>1 DEF N
<1>3. PICK n \in Missing : \A k \in Missing : n <= k
  <2>1. Missing \in SUBSET Nat
    BY <1>1
  <2> QED
    BY <1>2, <2>1, NatLeast
<1>4. CASE n = 0
  <2>1. \E g \in [1..0 -> Seq(S)] : Joins(g, seqs, 0)
    <3>1. [i \in 1..0 |-> <<>>] \in [1..0 -> Seq(S)]
      OBVIOUS
    <3>2. 1..0 = {}
      OBVIOUS
    <3> QED BY <3>1, <3>2 DEF Joins
  <2> QED
    BY <2>1, <1>4
<1>5. CASE n # 0
  <2>1. n - 1 \in 0..N /\ n \in 1..N /\ ~(n - 1 \in Missing)
    BY SMTT(20), <1>1, <1>3, <1>5
  <2>2. PICK g \in [1..(n - 1) -> Seq(S)] : Joins(g, seqs, n - 1)
    BY <2>1
  <2> DEFINE h == [i \in 1..n |-> IF i < n THEN g[i]
                     ELSE IF n = 1 THEN seqs[n] ELSE g[n - 1] \o seqs[n]]
  <2>3. h \in [1..n -> Seq(S)]
    <3>1. \A i \in 1..n : i < n => i \in 1..(n - 1)
      BY <2>1, <1>1
    <3>2. n # 1 => n - 1 \in 1..(n - 1)
      BY <2>1, <1>1
    <3>3. n # 1 => g[n - 1] \o seqs[n] \in Seq(S)
      BY <2>1, <2>2, <3>2, <1>1, ConcatProperties
    <3> QED BY <2>1, <2>2, <3>1, <3>3, <1>1
  <2>4. ASSUME NEW i \in 1..n
        PROVE  h[i] = IF i = 1 THEN seqs[i] ELSE h[i - 1] \o seqs[i]
    <3>1. CASE i < n
      <4>1. i \in 1..(n - 1) /\ (i # 1 => i - 1 \in 1..n /\ i - 1 < n)
        BY <3>1, <2>1, <1>1
      <4> QED BY <3>1, <4>1, <2>2 DEF Joins
    <3>2. CASE i = n
      <4>1. n # 1 => n - 1 \in 1..n /\ n - 1 < n
        BY <2>1, <1>1
      <4> QED BY <3>2, <4>1
    <3> QED BY <3>1, <3>2, <2>1, <1>1
  <2> HIDE DEF h
  <2>5. Joins(h, seqs, n)
    BY <2>4 DEF Joins
  <2> QED
    BY <2>3, <2>5, <1>3
<1> QED
  BY <1>4, <1>5

(* FlattenSeq is the last of them.                                         *)
LEMMA FlattenSeqJoins ==
    ASSUME NEW S, NEW seqs \in Seq(Seq(S)), seqs # <<>>
    PROVE  \E f \in [1..Len(seqs) -> Seq(S)] :
              Joins(f, seqs, Len(seqs)) /\ FlattenSeq(seqs) = f[Len(seqs)]
<1> DEFINE N == Len(seqs)
           F(f) == [i \in 1..N |-> IF i = 1 THEN seqs[i] ELSE f[i - 1] \o seqs[i]]
           f == CHOOSE f : f = F(f)
<1>1. N \in Nat /\ N # 0
  OBVIOUS
<1>2. PICK g \in [1..N -> Seq(S)] : Joins(g, seqs, N)
  BY JoinsExist
<1>3. g = F(g)
  BY <1>2 DEF Joins
<1>4. f = F(f)
  <2> HIDE DEF F
  <2> QED BY <1>3
<1>5. FlattenSeq(seqs) = f[N]
  BY <1>1 DEF FlattenSeq
<1> HIDE DEF f
<1>6. \A i \in 1..N : f[i] = IF i = 1 THEN seqs[i] ELSE f[i - 1] \o seqs[i]
  BY <1>4
<1> DEFINE Bad == {i \in 1..N : f[i] # g[i]}
<1>7. Bad = {}
  <2> SUFFICES ASSUME Bad # {} PROVE FALSE
    OBVIOUS
  <2>1. PICK i \in Bad : \A k \in Bad : i <= k
    <3>1. Bad \in SUBSET Nat
      BY <1>1
    <3> HIDE DEF Bad
    <3> QED BY <3>1, NatLeast
  <2>2. i # 1 => i - 1 \in 1..N /\ ~(i - 1 \in Bad)
    BY <2>1, <1>1
  <2> QED
    BY ZenonT(40), <2>1, <2>2, <1>2, <1>6 DEF Joins
<1>8. f = g
  <2>1. \A i \in 1..N : f[i] = g[i]
    BY <1>7
  <2>2. f = [i \in 1..N |-> f[i]]
    BY <1>4, <1>6
  <2>3. g = [i \in 1..N |-> g[i]]
    BY <1>2
  <2> QED BY <2>1, <2>2, <2>3
<1> QED
  BY <1>2, <1>5, <1>8

(* A set of positions that is not empty has a first one.                   *)
LEMMA FirstOf ==
    ASSUME NEW N \in Nat, NEW T \in SUBSET (1..N), T # {}
    PROVE  \E i \in T : \A k \in 1..(i - 1) : k \in 1..N /\ ~(k \in T)
<1>1. PICK i \in T : \A k \in T : i <= k
  BY NatLeast
<1>2. \A k \in 1..(i - 1) : k \in 1..N /\ ~(i <= k)
  OBVIOUS
<1> QED BY <1>1, <1>2

(* What a concatenation contains, and when it has nothing twice.           *)
LEMMA ConcatSet ==
    ASSUME NEW S, NEW s \in Seq(S), NEW t \in Seq(S)
    PROVE  /\ s \o t \in Seq(S)
           /\ ToSet(s \o t) = ToSet(s) \cup ToSet(t)
<1> DEFINE u == s \o t
<1>1. /\ u \in Seq(S) /\ Len(u) = Len(s) + Len(t)
      /\ Len(s) \in Nat /\ Len(t) \in Nat
      /\ \A i \in 1..(Len(s) + Len(t)) :
            u[i] = IF i <= Len(s) THEN s[i] ELSE t[i - Len(s)]
  BY ConcatProperties
<1> HIDE DEF u
<1>2. /\ ToSet(s) = {s[i] : i \in 1..Len(s)} /\ ToSet(t) = {t[i] : i \in 1..Len(t)}
      /\ ToSet(u) = {u[i] : i \in 1..Len(u)}
  BY <1>1, ToSetSeq
<1>3. ASSUME NEW i \in 1..Len(u)
      PROVE  u[i] \in ToSet(s) \cup ToSet(t)
  <2>1. CASE i <= Len(s)
    <3>1. i \in 1..Len(s) /\ u[i] = s[i]
      BY <2>1, <1>1
    <3> QED BY <3>1, <1>2
  <2>2. CASE i > Len(s)
    <3>1. i - Len(s) \in 1..Len(t) /\ u[i] = t[i - Len(s)]
      BY <2>2, <1>1
    <3> QED BY <3>1, <1>2
  <2> QED BY <2>1, <2>2, <1>1
<1>4. ASSUME NEW i \in 1..Len(s)
      PROVE  s[i] \in ToSet(u)
  <2>1. i \in 1..Len(u) /\ u[i] = s[i]
    BY <1>1
  <2> QED BY <2>1, <1>2
<1>5. ASSUME NEW i \in 1..Len(t)
      PROVE  t[i] \in ToSet(u)
  <2>1. i + Len(s) \in 1..Len(u) /\ u[i + Len(s)] = t[i]
    <3>1. i + Len(s) \in 1..Len(u) /\ ~(i + Len(s) <= Len(s)) /\ i + Len(s) - Len(s) = i
      BY <1>1
    <3>2. i + Len(s) \in 1..(Len(s) + Len(t))
      BY <1>1
    <3>3. u[i + Len(s)] = t[i + Len(s) - Len(s)]
      BY <1>1, <3>1, <3>2
    <3> QED BY <3>1, <3>3
  <2> QED BY <2>1, <1>2
<1>6. ToSet(u) = ToSet(s) \cup ToSet(t)
  BY <1>2, <1>3, <1>4, <1>5
<1> QED
  BY <1>1, <1>6 DEF u

LEMMA ConcatOnce ==
    ASSUME NEW S, NEW s \in Seq(S), NEW t \in Seq(S),
           IsInjective(s), IsInjective(t), ToSet(s) \cap ToSet(t) = {}
    PROVE  IsInjective(s \o t)
<1> DEFINE u == s \o t
<1>1. /\ u \in Seq(S) /\ Len(u) = Len(s) + Len(t)
      /\ Len(s) \in Nat /\ Len(t) \in Nat
      /\ \A i \in 1..(Len(s) + Len(t)) :
            u[i] = IF i <= Len(s) THEN s[i] ELSE t[i - Len(s)]
  BY ConcatProperties
<1> HIDE DEF u
<1>2. /\ \A i \in 1..Len(s) : s[i] \in ToSet(s)
      /\ \A i \in 1..Len(t) : t[i] \in ToSet(t)
  BY <1>1, ToSetSeq
<1>3. ASSUME NEW i \in 1..Len(u), NEW j \in 1..Len(u), u[i] = u[j]
      PROVE  i = j
  <2>1. CASE i <= Len(s) /\ j <= Len(s)
    <3>1. i \in DOMAIN s /\ j \in DOMAIN s /\ s[i] = s[j]
      BY <2>1, <1>1, <1>3
    <3> QED BY <3>1 DEF IsInjective
  <2>2. CASE i > Len(s) /\ j > Len(s)
    <3> DEFINE a == i - Len(s)
               b == j - Len(s)
    <3>1. a \in DOMAIN t /\ b \in DOMAIN t /\ t[a] = t[b]
      BY <2>2, <1>1, <1>3
    <3>2. a = b
      <4> HIDE DEF a, b
      <4> QED BY <3>1 DEF IsInjective
    <3> QED BY <3>2, <1>1
  <2>3. CASE i <= Len(s) /\ j > Len(s)
    <3>1. i \in 1..Len(s) /\ j - Len(s) \in 1..Len(t) /\ s[i] = t[j - Len(s)]
      BY <2>3, <1>1, <1>3
    <3> QED BY <3>1, <1>2
  <2>4. CASE i > Len(s) /\ j <= Len(s)
    <3>1. j \in 1..Len(s) /\ i - Len(s) \in 1..Len(t) /\ s[j] = t[i - Len(s)]
      BY <2>4, <1>1, <1>3
    <3> QED BY <3>1, <1>2
  <2> QED BY <2>1, <2>2, <2>3, <2>4, <1>1
<1>4. DOMAIN u = 1..Len(u)
  BY <1>1
<1>5. IsInjective(u)
  BY <1>3, <1>4 DEF IsInjective
<1> QED
  BY <1>5 DEF u

(* What FlattenSeq contains, and when it has nothing twice.                *)
LEMMA FlattenSeqSet ==
    ASSUME NEW S, NEW seqs \in Seq(Seq(S))
    PROVE  /\ FlattenSeq(seqs) \in Seq(S)
           /\ ToSet(FlattenSeq(seqs)) = UNION {ToSet(seqs[i]) : i \in 1..Len(seqs)}
<1> DEFINE N == Len(seqs)
           Upto(i) == UNION {ToSet(seqs[k]) : k \in 1..i}
<1>1. N \in Nat /\ \A i \in 1..N : seqs[i] \in Seq(S)
  OBVIOUS
<1>2. CASE seqs = <<>>
  <2>1. N = 0 /\ FlattenSeq(seqs) = <<>>
    BY <1>2 DEF FlattenSeq
  <2>2. ToSet(<<>>) = {} /\ 1..0 = {}
    BY DEF ToSet
  <2> QED BY <2>1, <2>2
<1>3. CASE seqs # <<>>
  <2>1. PICK f \in [1..N -> Seq(S)] :
           Joins(f, seqs, N) /\ FlattenSeq(seqs) = f[N]
    BY <1>3, FlattenSeqJoins
  <2>2. N \in 1..N
    BY <1>3, <1>1
  <2> DEFINE Bad == {i \in 1..N : ToSet(f[i]) # Upto(i)}
  <2>3. Bad = {}
    <3> SUFFICES ASSUME Bad # {} PROVE FALSE
      OBVIOUS
    <3>1. PICK i \in Bad : \A k \in 1..(i - 1) : k \in 1..N /\ ~(k \in Bad)
      <4>1. Bad \in SUBSET (1..N)
        OBVIOUS
      <4> HIDE DEF Bad, N
      <4> QED BY <4>1, <1>1, FirstOf
    <3>0. i \in 1..N
      OBVIOUS
    <3> HIDE DEF N
    <3>2. CASE i = 1
      <4>1. f[i] = seqs[i] /\ Upto(i) = ToSet(seqs[i])
        <5>1. f[1] = seqs[1]
          BY <2>1, <3>0, <3>2 DEF Joins
        <5>2. 1..1 = {1}
          OBVIOUS
        <5>3. Upto(1) = ToSet(seqs[1])
          BY <5>2
        <5> QED BY <3>2, <5>1, <5>3
      <4> QED BY <4>1, <3>1
    <3>3. CASE i # 1
      <4>0. i \in 1..N /\ i - 1 \in 1..N /\ i - 1 < i
        BY SMTT(20), <3>0, <3>3, <1>1
      <4>1. i - 1 \in 1..N /\ ~(i - 1 \in Bad) /\ 1..i = (1..(i - 1)) \cup {i}
        <5>1. ~(i - 1 \in Bad)
          <6>1. i - 1 \in 1..(i - 1)
            BY <4>0, <1>1
          <6> HIDE DEF Bad
          <6> QED BY <6>1, <3>1
        <5>2. 1..i = (1..(i - 1)) \cup {i}
          BY SMTT(20), <4>0, <1>1
        <5> QED BY <4>0, <5>1, <5>2
      <4>2. ToSet(f[i - 1]) = Upto(i - 1)
        BY <4>1
      <4>3. f[i] = f[i - 1] \o seqs[i] /\ f[i - 1] \in Seq(S) /\ seqs[i] \in Seq(S)
        BY <3>0, <3>3, <4>0, <2>1, <1>1 DEF Joins
      <4>4. ToSet(f[i]) = Upto(i - 1) \cup ToSet(seqs[i])
        BY SMTT(20), <4>2, <4>3, ConcatSet
      <4>5. Upto(i) = Upto(i - 1) \cup ToSet(seqs[i])
        BY <4>1
      <4> QED BY <4>4, <4>5, <3>1
    <3> QED BY <3>2, <3>3
  <2> QED BY <2>1, <2>2, <2>3
<1> QED
  BY <1>2, <1>3

LEMMA FlattenSeqOnce ==
    ASSUME NEW S, NEW seqs \in Seq(Seq(S)),
           \A i \in 1..Len(seqs) : IsInjective(seqs[i]),
           \A i, j \in 1..Len(seqs) :
              i # j => ToSet(seqs[i]) \cap ToSet(seqs[j]) = {}
    PROVE  IsInjective(FlattenSeq(seqs))
<1> DEFINE N == Len(seqs)
           Upto(i) == UNION {ToSet(seqs[k]) : k \in 1..i}
<1>1. N \in Nat /\ \A i \in 1..N : seqs[i] \in Seq(S)
  OBVIOUS
<1>4. /\ \A i \in 1..N : IsInjective(seqs[i])
      /\ \A i, j \in 1..N : i # j => ToSet(seqs[i]) \cap ToSet(seqs[j]) = {}
  OBVIOUS
<1>2. CASE seqs = <<>>
  <2>1. FlattenSeq(seqs) = <<>>
    BY <1>2 DEF FlattenSeq
  <2> QED BY <2>1 DEF IsInjective
<1>3. CASE seqs # <<>>
  <2>1. PICK f \in [1..N -> Seq(S)] :
           Joins(f, seqs, N) /\ FlattenSeq(seqs) = f[N]
    BY <1>3, FlattenSeqJoins
  <2>2. N \in 1..N
    BY <1>3, <1>1
  <2> DEFINE Good(i) == IsInjective(f[i]) /\ ToSet(f[i]) = Upto(i)
             Bad == {i \in 1..N : ~Good(i)}
  <2>3. Bad = {}
    <3> SUFFICES ASSUME Bad # {} PROVE FALSE
      OBVIOUS
    <3>1. PICK i \in Bad : \A k \in 1..(i - 1) : k \in 1..N /\ ~(k \in Bad)
      <4>1. Bad \in SUBSET (1..N)
        OBVIOUS
      <4> HIDE DEF Bad, N
      <4> QED BY <4>1, <1>1, FirstOf
    <3>0. i \in 1..N
      OBVIOUS
    <3> HIDE DEF N
    <3>2. CASE i = 1
      <4>1. f[i] = seqs[i] /\ Upto(i) = ToSet(seqs[i])
        <5>1. f[1] = seqs[1]
          BY <2>1, <3>0, <3>2 DEF Joins
        <5>2. 1..1 = {1}
          OBVIOUS
        <5>3. Upto(1) = ToSet(seqs[1])
          BY <5>2
        <5> QED BY <3>2, <5>1, <5>3
      <4> QED BY <4>1, <3>0, <3>1, <1>4
    <3>3. CASE i # 1
      <4>0. i \in 1..N /\ i - 1 \in 1..N /\ i - 1 < i
        BY <3>0, <3>3, <1>1
      <4>1. i - 1 \in 1..N /\ ~(i - 1 \in Bad) /\ 1..i = (1..(i - 1)) \cup {i}
        <5>1. ~(i - 1 \in Bad)
          <6>1. i - 1 \in 1..(i - 1)
            BY <4>0, <1>1
          <6> HIDE DEF Bad
          <6> QED BY <6>1, <3>1
        <5>2. 1..i = (1..(i - 1)) \cup {i}
          BY <4>0, <1>1
        <5> QED BY <4>0, <5>1, <5>2
      <4>2. Good(i - 1)
        BY <4>1
      <4>3. f[i] = f[i - 1] \o seqs[i] /\ f[i - 1] \in Seq(S) /\ seqs[i] \in Seq(S)
        BY <3>0, <3>3, <4>0, <2>1, <1>1 DEF Joins
      <4>4. ToSet(f[i]) = Upto(i - 1) \cup ToSet(seqs[i])
        BY <4>2, <4>3, ConcatSet
      <4>5. Upto(i) = Upto(i - 1) \cup ToSet(seqs[i])
        BY <4>1
      <4>6. Upto(i - 1) \cap ToSet(seqs[i]) = {}
        <5>1. \A k \in 1..(i - 1) : k \in 1..N /\ k # i
          BY <4>0, <1>1
        <5>2. \A k \in 1..(i - 1) : ToSet(seqs[k]) \cap ToSet(seqs[i]) = {}
          BY <5>1, <4>0, <1>4
        <5> QED BY <5>2
      <4>7. IsInjective(f[i])
        <5>1. IsInjective(f[i - 1]) /\ IsInjective(seqs[i])
          BY <4>0, <4>2, <1>4
        <5>2. ToSet(f[i - 1]) \cap ToSet(seqs[i]) = {}
          BY <4>2, <4>6
        <5> QED BY <4>3, <5>1, <5>2, ConcatOnce
      <4> QED BY <4>4, <4>5, <4>7, <3>1
    <3> QED BY <3>2, <3>3
  <2> QED BY <2>1, <2>2, <2>3
<1> QED
  BY <1>2, <1>3
-----------------------------------------------------------------------------
(* Sequences with one element or none.                                     *)
LEMMA OneOrNone ==
    ASSUME NEW M, NEW m \in M
    PROVE  /\ <<m>> \in Seq(M) /\ ToSet(<<m>>) = {m} /\ IsInjective(<<m>>)
           /\ <<>> \in Seq(M) /\ ToSet(<<>>) = {} /\ IsInjective(<<>>)
<1>1. ToSet(<<m>>) = {m}
  BY DEF ToSet
<1>2. IsInjective(<<m>>)
  BY DEF IsInjective
<1>3. ToSet(<<>>) = {}
  BY DEF ToSet
<1>4. IsInjective(<<>>)
  BY DEF IsInjective
<1> QED BY <1>1, <1>2, <1>3, <1>4

(* Only filters a sequence, and does not repeat an element.                *)
LEMMA OnlySet ==
    ASSUME NEW M, NEW s \in Seq(M), NEW S
    PROVE  /\ Only(s, S) \in Seq(M)
           /\ ToSet(Only(s, S)) = ToSet(s) \cap S
           /\ IsInjective(s) => IsInjective(Only(s, S))
<1> DEFINE p == [i \in DOMAIN s |-> IF s[i] \in S THEN <<s[i]>> ELSE <<>>]
<1>1. Len(s) \in Nat /\ DOMAIN s = 1..Len(s) /\ \A i \in 1..Len(s) : s[i] \in M
  OBVIOUS
<1>2. \A i \in 1..Len(s) : p[i] = IF s[i] \in S THEN <<s[i]>> ELSE <<>>
  BY <1>1
<1>3. p \in Seq(Seq(M)) /\ Len(p) = Len(s)
  <2>1. \A m \in M : <<m>> \in Seq(M)
    OBVIOUS
  <2>2. <<>> \in Seq(M)
    OBVIOUS
  <2>3. p \in [1..Len(s) -> Seq(M)]
    BY <1>1, <2>1, <2>2
  <2> HIDE DEF p
  <2> QED BY <2>3, <1>1, IsASeq
<1> HIDE DEF p
<1>4. ASSUME NEW i \in 1..Len(s)
      PROVE  ToSet(p[i]) = {s[i]} \cap S /\ IsInjective(p[i])
  <2>1. CASE s[i] \in S
    <3>1. p[i] = <<s[i]>> /\ s[i] \in M
      BY <2>1, <1>1, <1>2
    <3> QED BY <3>1, <2>1, OneOrNone
  <2>2. CASE s[i] \notin S
    <3>1. p[i] = <<>> /\ s[i] \in M
      BY <2>2, <1>1, <1>2
    <3> QED BY <3>1, <2>2, OneOrNone
  <2> QED BY <2>1, <2>2
<1>5. Only(s, S) = FlattenSeq(p)
  BY DEF Only, p
<1>6. FlattenSeq(p) \in Seq(M) /\ ToSet(FlattenSeq(p)) = UNION {ToSet(p[i]) : i \in 1..Len(p)}
  BY <1>3, FlattenSeqSet
<1>7. UNION {ToSet(p[i]) : i \in 1..Len(p)} = ToSet(s) \cap S
  <2>1. ToSet(s) = {s[i] : i \in 1..Len(s)}
    BY ToSetSeq
  <2>2. 1..Len(p) = 1..Len(s)
    BY <1>3
  <2>3. \A i \in 1..Len(s) : ToSet(p[i]) = {s[i]} \cap S
    BY <1>4
  <2>4. UNION {ToSet(p[i]) : i \in 1..Len(s)} = ToSet(s) \cap S
    BY <2>1, <2>3
  <2> QED BY <2>2, <2>4
<1>8. ASSUME IsInjective(s) PROVE IsInjective(FlattenSeq(p))
  <2>1. \A i \in 1..Len(p) : IsInjective(p[i])
    BY <1>3, <1>4
  <2>2. \A i, j \in 1..Len(p) : i # j => ToSet(p[i]) \cap ToSet(p[j]) = {}
    <3>1. \A i, j \in 1..Len(s) : i # j => s[i] # s[j]
      BY <1>8, <1>1 DEF IsInjective
    <3>2. \A i \in 1..Len(s) : ToSet(p[i]) \subseteq {s[i]}
      BY <1>4
    <3>3. 1..Len(p) = 1..Len(s)
      BY <1>3
    <3>4. \A i, j \in 1..Len(s) : i # j => ToSet(p[i]) \cap ToSet(p[j]) = {}
      BY <3>1, <3>2
    <3> QED BY <3>3, <3>4
  <2> QED BY <2>1, <2>2, <1>3, FlattenSeqOnce
<1> QED
  BY <1>5, <1>6, <1>7, <1>8

(* The place and the gap of a message lie within the sequence.             *)
LEMMA PlaceIn ==
    ASSUME NEW M, NEW s \in Seq(M), NEW m \in ToSet(s)
    PROVE  Place(s, m) \in 1..Len(s) /\ s[Place(s, m)] = m
<1>1. \E i \in DOMAIN s : s[i] = m
  BY DEF ToSet
<1>2. DOMAIN s = 1..Len(s)
  OBVIOUS
<1> QED
  BY <1>1, <1>2 DEF Place

LEMMA GapIn ==
    ASSUME NEW M, NEW base \in Seq(M), NEW s \in Seq(M), NEW m \in ToSet(s)
    PROVE  Gap(base, s, m) \in 0..Len(base)
<1> DEFINE n == Place(s, m)
           old == {i \in 1..n : s[i] \in ToSet(base)}
           last == CHOOSE i \in old : \A j \in old : j <= i
<1>1. n \in 1..Len(s) /\ Len(s) \in Nat /\ Len(base) \in Nat
  BY PlaceIn
<1>2. Gap(base, s, m) = IF old = {} THEN 0 ELSE Place(base, s[last])
  BY DEF Gap
<1> HIDE DEF n
<1>3. CASE old # {}
  <2> DEFINE from == {k \in 0..n : \E i \in old : k = n - i}
  <2>1. from \in SUBSET Nat /\ from # {}
    <3>1. PICK i \in old : TRUE
      BY <1>3
    <3>2. n - i \in 0..n
      BY <3>1, <1>1
    <3>3. n - i \in from
      BY <3>1, <3>2
    <3>4. 0..n \in SUBSET Nat
      BY <1>1
    <3> QED BY <3>3, <3>4
  <2>2. PICK k \in from : \A j \in from : k <= j
    <3> HIDE DEF from
    <3> QED BY <2>1, NatLeast
  <2>3. PICK i \in old : k = n - i
    OBVIOUS
  <2>4. ASSUME NEW j \in old
        PROVE  j <= i
    <3>1. n - j \in from
      BY <1>1
    <3>2. n - i <= n - j
      BY <3>1, <2>2, <2>3
    <3> QED BY <3>2, <1>1
  <2>5. last \in old
    <3> HIDE DEF old
    <3> QED BY <2>4
  <2>6. s[last] \in ToSet(base)
    BY <2>5
  <2> HIDE DEF last
  <2>7. Place(base, s[last]) \in 1..Len(base)
    BY <2>6, PlaceIn
  <2> QED BY <2>7, <1>2, <1>3, <1>1
<1> QED
  BY <1>1, <1>2, <1>3

(* what the merge takes from base, local and remote sets of messages      *)
MergedSet(base, local, remote) ==
    (local \ base) \cup (remote \ base) \cup (base \cap local \cap remote)

(* What the merge has in a gap of base and just after it.                  *)
LEMMA GapAndNextSet ==
    ASSUME NEW M, NEW base \in Seq(M), NEW local \in Seq(M), NEW remote \in Seq(M),
           NEW k \in 0..Len(base),
           IsInjective(base), IsInjective(local), IsInjective(remote)
    PROVE  LET p == GapAndNext(base, local, remote, k)
               new(s) == {m \in ToSet(s) \ ToSet(base) : Gap(base, s, m) = k}
               next == IF k = Len(base) THEN {} ELSE {base[k + 1]}
           IN  /\ p \in Seq(M)
               /\ ToSet(p) = new(remote) \cup (new(local) \ ToSet(remote))
                                \cup (next \cap ToSet(local) \cap ToSet(remote))
               /\ IsInjective(p)
<1> DEFINE new(s) == {m \in ToSet(s) \ ToSet(base) : Gap(base, s, m) = k}
           next == IF k = Len(base) THEN <<>> ELSE <<base[k + 1]>>
           nexts == IF k = Len(base) THEN {} ELSE {base[k + 1]}
           a == Only(remote, new(remote))
           b == Only(local, new(local) \ ToSet(remote))
           c == Only(next, ToSet(local) \cap ToSet(remote))
<1>0. GapAndNext(base, local, remote, k) = (a \o b) \o c
  BY DEF GapAndNext
<1>1. next \in Seq(M) /\ ToSet(next) = nexts /\ IsInjective(next) /\ nexts \subseteq ToSet(base)
  <2>1. CASE k = Len(base)
    <3>1. ToSet(<<>>) = {} /\ IsInjective(<<>>) /\ <<>> \in Seq(M)
      BY DEF ToSet, IsInjective
    <3> QED BY <3>1, <2>1
  <2>2. CASE k # Len(base)
    <3>1. k + 1 \in 1..Len(base)
      BY <2>2
    <3>2. base[k + 1] \in M /\ base[k + 1] \in ToSet(base)
      BY <3>1, ToSetSeq
    <3>3. next = <<base[k + 1]>> /\ nexts = {base[k + 1]}
      BY <2>2
    <3> HIDE DEF next, nexts
    <3> QED BY <3>2, <3>3, OneOrNone
  <2> QED BY <2>1, <2>2
<1> HIDE DEF next
<1>2. a \in Seq(M) /\ ToSet(a) = ToSet(remote) \cap new(remote) /\ IsInjective(a)
  <2> HIDE DEF new
  <2> QED BY OnlySet
<1>3. b \in Seq(M) /\ ToSet(b) = ToSet(local) \cap (new(local) \ ToSet(remote)) /\ IsInjective(b)
  <2> HIDE DEF new
  <2> QED BY OnlySet
<1>4. /\ c \in Seq(M) /\ IsInjective(c)
      /\ ToSet(c) = ToSet(next) \cap (ToSet(local) \cap ToSet(remote))
  BY <1>1, OnlySet
<1>5. ToSet(a) = new(remote) /\ ToSet(b) = new(local) \ ToSet(remote)
  BY <1>2, <1>3
<1> HIDE DEF a, b, c
<1>6. ToSet(a) \cap ToSet(b) = {} /\ (ToSet(a) \cup ToSet(b)) \cap ToSet(c) = {}
  <2>1. ToSet(a) \cap ToSet(b) = {}
    BY <1>5
  <2>2. \A m \in ToSet(a) \cup ToSet(b) : m \notin ToSet(base)
    BY <1>5
  <2> QED BY <2>1, <2>2, <1>1, <1>4
<1>7. /\ a \o b \in Seq(M) /\ ToSet(a \o b) = ToSet(a) \cup ToSet(b)
      /\ IsInjective(a \o b)
  BY <1>2, <1>3, <1>6, ConcatSet, ConcatOnce
<1> DEFINE ab == a \o b
<1>8. /\ ab \o c \in Seq(M) /\ ToSet(ab \o c) = ToSet(ab) \cup ToSet(c)
      /\ IsInjective(ab \o c)
  <2>1. ab \in Seq(M) /\ IsInjective(ab) /\ ToSet(ab) \cap ToSet(c) = {}
    BY <1>6, <1>7
  <2> HIDE DEF ab
  <2> QED BY <2>1, <1>4, ConcatSet, ConcatOnce
<1>9. ToSet(ab \o c) = new(remote) \cup (new(local) \ ToSet(remote))
                          \cup (nexts \cap ToSet(local) \cap ToSet(remote))
  <2>1. ToSet(ab) = new(remote) \cup (new(local) \ ToSet(remote))
    BY <1>5, <1>7
  <2> HIDE DEF ab, new, nexts
  <2> QED BY <2>1, <1>1, <1>4, <1>8
<1> QED
  BY <1>0, <1>8, <1>9

(* The merge of the messages: those of both sides that are new, and those  *)
(* of base that neither side has deleted, each of them once.               *)
LEMMA MergedMessages ==
    ASSUME NEW M, NEW base \in Seq(M), NEW local \in Seq(M), NEW remote \in Seq(M),
           IsInjective(base), IsInjective(local), IsInjective(remote),
           NEW res \in MergeMessages(base, local, remote)
    PROVE  /\ res \in Seq(M)
           /\ IsInjective(res)
           /\ ToSet(res) = MergedSet(ToSet(base), ToSet(local), ToSet(remote))
<1> USE DEF MergedSet
<1>1. CASE res = remote /\ local = base
  BY <1>1
<1>2. CASE res = local /\ remote \in {base, local}
  BY <1>2
<1>3. CASE res = FlattenSeq([k \in 1..(Len(base) + 1) |->
                               GapAndNext(base, local, remote, k - 1)])
  <2> DEFINE N == Len(base) + 1
             p == [k \in 1..N |-> GapAndNext(base, local, remote, k - 1)]
             Gapped(s, k) == {m \in ToSet(s) \ ToSet(base) : Gap(base, s, m) = k}
             B == ToSet(base)
             L == ToSet(local)
             R == ToSet(remote)
             Piece(k) == Gapped(remote, k - 1) \cup (Gapped(local, k - 1) \ R)
             Next1(k) == IF k = N THEN {} ELSE {base[k]}
  <2>0. N \in Nat /\ Len(base) \in Nat
    OBVIOUS
  <2>1. ASSUME NEW k \in 1..N
        PROVE  /\ p[k] \in Seq(M) /\ IsInjective(p[k])
               /\ ToSet(p[k]) = Piece(k) \cup (Next1(k) \cap L \cap R)
    <3>1. k - 1 \in 0..Len(base)
      BY <2>0
    <3>2. k - 1 = Len(base) <=> k = N
      BY <2>0
    <3>3. k - 1 + 1 = k
      BY <2>0
    <3>4. p[k] = GapAndNext(base, local, remote, k - 1)
      OBVIOUS
    <3> HIDE DEF p, B, L, R, N
    <3>5. /\ GapAndNext(base, local, remote, k - 1) \in Seq(M)
          /\ ToSet(GapAndNext(base, local, remote, k - 1)) =
                Gapped(remote, k - 1) \cup (Gapped(local, k - 1) \ ToSet(remote))
                  \cup ((IF k - 1 = Len(base) THEN {} ELSE {base[k - 1 + 1]})
                           \cap ToSet(local) \cap ToSet(remote))
          /\ IsInjective(GapAndNext(base, local, remote, k - 1))
      BY <3>1, GapAndNextSet
    <3>6. (IF k - 1 = Len(base) THEN {} ELSE {base[k - 1 + 1]}) = Next1(k)
      BY <3>2, <3>3
    <3> QED BY <3>4, <3>5, <3>6 DEF L, R
  <2>2. p \in Seq(Seq(M)) /\ Len(p) = N
    <3>1. p \in [1..N -> Seq(M)]
      BY <2>1
    <3> HIDE DEF p, N
    <3> QED BY <3>1, <2>0, IsASeq
  <2>3. res = FlattenSeq(p)
    BY <1>3
  <2> HIDE DEF p
  <2>4. ASSUME NEW k \in 1..N
        PROVE  Next1(k) \subseteq B
    <3>1. k # N => k \in 1..Len(base)
      BY <2>0
    <3> QED BY <3>1, ToSetSeq
  <2>5. ASSUME NEW j \in 1..N, NEW k \in 1..N, j # k
        PROVE  ToSet(p[j]) \cap ToSet(p[k]) = {}
    <3>1. Piece(j) \cap B = {} /\ Piece(k) \cap B = {}
      OBVIOUS
    <3>2. Piece(j) \cap Piece(k) = {}
      <4> DEFINE here(m) == IF m \in R THEN Gap(base, remote, m) ELSE Gap(base, local, m)
      <4>1. ASSUME NEW n \in 1..N, NEW m \in Piece(n)
            PROVE  here(m) = n - 1
        <5>1. CASE m \in Gapped(remote, n - 1)
          BY <5>1
        <5>2. CASE m \in Gapped(local, n - 1) /\ m \notin R
          BY <5>2
        <5> QED BY <5>1, <5>2
      <4>3. j - 1 # k - 1
        BY <2>0, <2>5
      <4> HIDE DEF Piece, R, here, N
      <4> QED BY <4>1, <4>3
    <3>3. Next1(j) \cap Next1(k) = {}
      <4>1. CASE j = N \/ k = N
        BY <4>1
      <4>2. CASE j # N /\ k # N
        <5>1. j \in DOMAIN base /\ k \in DOMAIN base
          BY <4>2, <2>0
        <5> QED BY <5>1, <2>5, <4>2 DEF IsInjective
      <4> QED BY <4>1, <4>2
    <3> HIDE DEF Piece, Next1, B
    <3> QED BY <2>1, <2>4, <3>1, <3>2, <3>3
  <2>6. ToSet(res) = UNION {ToSet(p[k]) : k \in 1..N} /\ res \in Seq(M)
    <3>1. ToSet(FlattenSeq(p)) = UNION {ToSet(p[k]) : k \in 1..Len(p)}
          /\ FlattenSeq(p) \in Seq(M)
      BY <2>2, FlattenSeqSet
    <3>2. 1..Len(p) = 1..N
      BY <2>2
    <3> QED BY <2>3, <3>1, <3>2
  <2>7. IsInjective(res)
    <3>1. 1..Len(p) = 1..N
      BY <2>2
    <3>2. \A k \in 1..Len(p) : IsInjective(p[k])
      BY <2>1, <3>1
    <3>3. \A j, k \in 1..Len(p) : j # k => ToSet(p[j]) \cap ToSet(p[k]) = {}
      BY <2>5, <3>1
    <3> HIDE DEF N
    <3> QED BY <2>2, <2>3, <3>2, <3>3, FlattenSeqOnce
  <2>8. ASSUME NEW m \in ToSet(res)
        PROVE  m \in (L \ B) \cup (R \ B) \cup (B \cap L \cap R)
    <3>1. PICK k \in 1..N : m \in Piece(k) \cup (Next1(k) \cap L \cap R)
      BY SMTT(20), <2>1, <2>6
    <3>2. Piece(k) \subseteq (L \ B) \cup (R \ B)
      OBVIOUS
    <3> HIDE DEF Piece, Next1
    <3> QED BY <3>1, <3>2, <2>4
  <2>9. ASSUME NEW m \in (L \ B) \cup (R \ B) \cup (B \cap L \cap R)
        PROVE  m \in ToSet(res)
    <3>1. SUFFICES \E k \in 1..N : m \in Piece(k) \cup (Next1(k) \cap L \cap R)
      BY <2>1, <2>6
    <3>2. CASE m \in R \ B
      <4>1. Gap(base, remote, m) \in 0..Len(base)
        BY <3>2, GapIn
      <4>2. PICK g \in 0..Len(base) : g = Gap(base, remote, m)
        BY <4>1
      <4>3. g + 1 \in 1..N /\ (g + 1) - 1 = g
        BY <2>0
      <4>4. m \in Piece(g + 1)
        BY <3>2, <4>2, <4>3
      <4> HIDE DEF N, Piece
      <4> QED BY <4>3, <4>4
    <3>3. CASE m \in L \ (B \cup R)
      <4>1. Gap(base, local, m) \in 0..Len(base)
        BY <3>3, GapIn
      <4>2. PICK g \in 0..Len(base) : g = Gap(base, local, m)
        BY <4>1
      <4>3. g + 1 \in 1..N /\ (g + 1) - 1 = g
        BY <2>0
      <4>4. m \in Piece(g + 1)
        BY <3>3, <4>2, <4>3
      <4> HIDE DEF N, Piece
      <4> QED BY <4>3, <4>4
    <3>4. CASE m \in B \cap L \cap R
      <4>1. PICK k \in 1..Len(base) : base[k] = m
        BY <3>4, ToSetSeq
      <4>2. k \in 1..N /\ k # N
        BY <2>0
      <4>3. m \in Next1(k)
        BY <4>1, <4>2
      <4> HIDE DEF N, Piece, Next1
      <4> QED BY <3>4, <4>2, <4>3
    <3> HIDE DEF Piece, Next1
    <3> QED BY <3>2, <3>3, <3>4
  <2> HIDE DEF N, p
  <2> QED BY <2>6, <2>7, <2>8, <2>9
<1> QED
  BY <1>1, <1>2, <1>3 DEF MergeMessages

(* rebaseChatSaveConflict, for chats of any length: a merge that succeeds  *)
(* has the messages that either side has added and those of the base that  *)
(* both have kept, each of them once, and the text of a side that changed  *)
(* it.                                                                     *)
THEOREM MergedChat ==
    ASSUME NEW base \in Chat, NEW local \in Chat, NEW remote \in Chat,
           IsInjective(base.msgs), IsInjective(local.msgs), IsInjective(remote.msgs),
           NEW chat \in RebaseChatSave(base, local, remote)
    PROVE  /\ chat \in Chat
           /\ IsInjective(chat.msgs)
           /\ Shown(chat) = MergedSet(Shown(base), Shown(local), Shown(remote))
           /\ chat.ver \in MergeValue(base.ver, local.ver, remote.ver)
<1>1. PICK m \in MergeMessages(base.msgs, local.msgs, remote.msgs),
           v \in MergeValue(base.ver, local.ver, remote.ver) :
           chat = [msgs |-> m, ver |-> v]
  BY DEF RebaseChatSave
<1>2. base.msgs \in Seq(Message) /\ local.msgs \in Seq(Message) /\ remote.msgs \in Seq(Message)
  BY DEF Chat
<1>3. /\ m \in Seq(Message) /\ IsInjective(m)
      /\ ToSet(m) = MergedSet(ToSet(base.msgs), ToSet(local.msgs), ToSet(remote.msgs))
  BY <1>2, MergedMessages
<1>4. v \in 0..MaxSaves
  BY DEF MergeValue, Chat
<1> QED
  BY <1>1, <1>3, <1>4 DEF Shown, Chat
-----------------------------------------------------------------------------
(* Message x stands somewhere before message y in sequence s.              *)
Precedes(s, x, y) == \E i, j \in DOMAIN s : i < j /\ s[i] = x /\ s[j] = y

(* In a sequence that has nothing twice this is a strict linear order.     *)
LEMMA PrecedesOrders ==
    ASSUME NEW M, NEW s \in Seq(M), IsInjective(s)
    PROVE  /\ \A x, y : Precedes(s, x, y) => x \in ToSet(s) /\ y \in ToSet(s) /\ x # y
           /\ \A x, y : ~(Precedes(s, x, y) /\ Precedes(s, y, x))
           /\ \A x, y \in ToSet(s) : x = y \/ Precedes(s, x, y) \/ Precedes(s, y, x)
           /\ \A x, y, z : Precedes(s, x, y) /\ Precedes(s, y, z) => Precedes(s, x, z)
<1>1. /\ DOMAIN s = 1..Len(s) /\ Len(s) \in Nat
      /\ \A i, j \in DOMAIN s : s[i] = s[j] => i = j
  BY DEF IsInjective
<1>2. ToSet(s) = {s[i] : i \in DOMAIN s}
  BY DEF ToSet
<1>3. ASSUME NEW x, NEW y, Precedes(s, x, y)
      PROVE  x \in ToSet(s) /\ y \in ToSet(s) /\ x # y
  <2>1. PICK i, j \in DOMAIN s : i < j /\ s[i] = x /\ s[j] = y
    BY <1>3 DEF Precedes
  <2>2. i # j
    BY <1>1, <2>1
  <2> QED BY <1>1, <1>2, <2>1, <2>2
<1>4. ASSUME NEW x, NEW y, Precedes(s, x, y), Precedes(s, y, x) PROVE FALSE
  <2>1. PICK i, j \in DOMAIN s : i < j /\ s[i] = x /\ s[j] = y
    BY <1>4 DEF Precedes
  <2>2. PICK k, l \in DOMAIN s : k < l /\ s[k] = y /\ s[l] = x
    BY <1>4 DEF Precedes
  <2>3. i = l /\ j = k
    BY <1>1, <2>1, <2>2
  <2> QED BY <1>1, <2>1, <2>2, <2>3
<1>5. ASSUME NEW x \in ToSet(s), NEW y \in ToSet(s), x # y
      PROVE  Precedes(s, x, y) \/ Precedes(s, y, x)
  <2>1. PICK i \in DOMAIN s : s[i] = x
    BY <1>2
  <2>2. PICK j \in DOMAIN s : s[j] = y
    BY <1>2
  <2>3. i < j \/ j < i
    BY <1>1, <1>5, <2>1, <2>2
  <2> QED BY <2>1, <2>2, <2>3 DEF Precedes
<1>6. ASSUME NEW x, NEW y, NEW z, Precedes(s, x, y), Precedes(s, y, z)
      PROVE  Precedes(s, x, z)
  <2>1. PICK i, j \in DOMAIN s : i < j /\ s[i] = x /\ s[j] = y
    BY <1>6 DEF Precedes
  <2>2. PICK k, l \in DOMAIN s : k < l /\ s[k] = y /\ s[l] = z
    BY <1>6 DEF Precedes
  <2>3. j = k
    BY <1>1, <2>1, <2>2
  <2>4. i < l
    BY <1>1, <2>1, <2>2, <2>3
  <2> QED BY <2>1, <2>2, <2>4 DEF Precedes
<1> QED BY <1>3, <1>4, <1>5, <1>6

(* The message that comes first has the lower place.                       *)
LEMMA PrecedesPlaces ==
    ASSUME NEW M, NEW s \in Seq(M), IsInjective(s), NEW x \in ToSet(s), NEW y \in ToSet(s)
    PROVE  Precedes(s, x, y) <=> Place(s, x) < Place(s, y)
<1>1. /\ DOMAIN s = 1..Len(s)
      /\ \A i, j \in DOMAIN s : s[i] = s[j] => i = j
  BY DEF IsInjective
<1>2. /\ Place(s, x) \in DOMAIN s /\ s[Place(s, x)] = x
      /\ Place(s, y) \in DOMAIN s /\ s[Place(s, y)] = y
  BY PlaceIn
<1>3. ASSUME Precedes(s, x, y) PROVE Place(s, x) < Place(s, y)
  <2>1. PICK i, j \in DOMAIN s : i < j /\ s[i] = x /\ s[j] = y
    BY <1>3 DEF Precedes
  <2>2. i = Place(s, x) /\ j = Place(s, y)
    BY <1>1, <1>2, <2>1
  <2> QED BY <2>1, <2>2
<1> QED BY <1>2, <1>3 DEF Precedes

(* Concatenation and flattening keep the order within the pieces and put   *)
(* the pieces one after the other.                                         *)
LEMMA ConcatOrder ==
    ASSUME NEW S, NEW s \in Seq(S), NEW t \in Seq(S), NEW x, NEW y,
           \/ Precedes(s, x, y) \/ Precedes(t, x, y)
           \/ x \in ToSet(s) /\ y \in ToSet(t)
    PROVE  Precedes(s \o t, x, y)
<1> DEFINE u == s \o t
           m == Len(s)
           n == Len(t)
<1>1. /\ DOMAIN u = 1..(m + n) /\ DOMAIN s = 1..m /\ DOMAIN t = 1..n
      /\ m \in Nat /\ n \in Nat
      /\ \A i \in 1..(m + n) : u[i] = IF i <= m THEN s[i] ELSE t[i - m]
  BY ConcatProperties
<1> HIDE DEF u, m, n
<1>2. \A i \in 1..m : i \in DOMAIN u /\ u[i] = s[i]
  BY <1>1
<1>3. ASSUME NEW i \in 1..n PROVE i + m \in DOMAIN u /\ u[i + m] = t[i]
  <2>1. i + m \in 1..(m + n) /\ ~(i + m <= m) /\ (i + m) - m = i
    BY <1>1
  <2> QED BY <1>1, <2>1
<1>4. CASE Precedes(s, x, y)
  <2>1. PICK i, j \in 1..m : i < j /\ s[i] = x /\ s[j] = y
    BY <1>1, <1>4 DEF Precedes
  <2> QED BY <1>2, <2>1 DEF Precedes, u
<1>5. CASE Precedes(t, x, y)
  <2>1. PICK i, j \in 1..n : i < j /\ t[i] = x /\ t[j] = y
    BY <1>1, <1>5 DEF Precedes
  <2>2. i + m < j + m
    BY <1>1, <2>1
  <2>3. Precedes(u, x, y)
    BY <1>3, <2>1, <2>2 DEF Precedes
  <2> QED BY <2>3 DEF u
<1>6. CASE x \in ToSet(s) /\ y \in ToSet(t)
  <2>1. PICK i \in 1..m : s[i] = x
    BY <1>1, <1>6 DEF ToSet
  <2>2. PICK j \in 1..n : t[j] = y
    BY <1>1, <1>6 DEF ToSet
  <2>3. i < j + m
    BY <1>1, <2>1, <2>2
  <2>4. Precedes(u, x, y)
    BY <1>2, <1>3, <2>1, <2>2, <2>3 DEF Precedes
  <2> QED BY <2>4 DEF u
<1> QED BY <1>4, <1>5, <1>6

(* Joining sequences keeps the order in each of them and between them.     *)
LEMMA FlattenSeqOrder ==
    ASSUME NEW S, NEW seqs \in Seq(Seq(S)), NEW x, NEW y,
           \E i, j \in 1..Len(seqs) :
              \/ i = j /\ Precedes(seqs[i], x, y)
              \/ i < j /\ x \in ToSet(seqs[i]) /\ y \in ToSet(seqs[j])
    PROVE  Precedes(FlattenSeq(seqs), x, y)
<1> DEFINE N == Len(seqs)
           Apart(i, j) == \/ i = j /\ Precedes(seqs[i], x, y)
                          \/ i < j /\ x \in ToSet(seqs[i]) /\ y \in ToSet(seqs[j])
<1>1. N \in Nat /\ \A i \in 1..N : seqs[i] \in Seq(S)
  OBVIOUS
<1>0. PICK a, b \in 1..N : Apart(a, b)
  OBVIOUS
<1>2. seqs # <<>> /\ N \in 1..N
  BY <1>0, <1>1
<1>3. PICK f \in [1..N -> Seq(S)] : Joins(f, seqs, N) /\ FlattenSeq(seqs) = f[N]
  BY <1>2, FlattenSeqJoins
<1> DEFINE Good(n) == /\ \A i \in 1..n : ToSet(seqs[i]) \subseteq ToSet(f[n])
                      /\ a <= n /\ b <= n => Precedes(f[n], x, y)
           Bad == {n \in 1..N : ~Good(n)}
<1>4. Bad = {}
  <2> SUFFICES ASSUME Bad # {} PROVE FALSE
    OBVIOUS
  <2>1. PICK n \in Bad : \A k \in 1..(n - 1) : k \in 1..N /\ ~(k \in Bad)
    <3>1. Bad \in SUBSET (1..N)
      OBVIOUS
    <3> HIDE DEF Bad, N
    <3> QED BY <3>1, <1>1, FirstOf
  <2>2. n \in 1..N /\ ~Good(n)
    OBVIOUS
  <2> HIDE DEF N, Bad, Apart
  <2>3. CASE n = 1
    <3>1. f[1] = seqs[1]
      BY <1>3, <2>2, <2>3 DEF Joins
    <3>2. 1..1 = {1}
      OBVIOUS
    <3>3. a <= 1 /\ b <= 1 => a = 1 /\ b = 1
      BY <1>0, <1>1
    <3>4. a <= 1 /\ b <= 1 => Precedes(seqs[1], x, y)
      BY <1>0, <3>3 DEF Apart
    <3> QED BY <2>2, <2>3, <3>1, <3>2, <3>4
  <2>4. CASE n # 1
    <3>1. n - 1 \in 1..N /\ n - 1 \in 1..(n - 1) /\ 1..n = (1..(n - 1)) \cup {n}
      BY <1>1, <2>2, <2>4
    <3>2. Good(n - 1)
      <4>1. ~(n - 1 \in Bad)
        BY <2>1, <3>1
      <4> QED BY <3>1, <4>1 DEF Bad
    <3>3. f[n] = f[n - 1] \o seqs[n] /\ f[n - 1] \in Seq(S) /\ seqs[n] \in Seq(S)
      BY <1>1, <1>3, <2>2, <2>4, <3>1 DEF Joins
    <3>4. ToSet(f[n]) = ToSet(f[n - 1]) \cup ToSet(seqs[n])
      BY <3>3, ConcatSet
    <3>5. \A i \in 1..n : ToSet(seqs[i]) \subseteq ToSet(f[n])
      BY <3>1, <3>2, <3>4
    <3>6. ASSUME a <= n, b <= n PROVE Precedes(f[n], x, y)
      <4>1. CASE a <= n - 1 /\ b <= n - 1
        BY <3>2, <3>3, <4>1, ConcatOrder
      <4>2. CASE a = n /\ b = n
        <5>1. Precedes(seqs[n], x, y)
          BY <1>0, <1>1, <4>2 DEF Apart
        <5> QED BY <3>3, <5>1, ConcatOrder
      <4>3. CASE a <= n - 1 /\ b = n
        <5>1. x \in ToSet(seqs[a]) /\ y \in ToSet(seqs[n])
          BY <1>0, <1>1, <2>2, <4>3 DEF Apart
        <5>2. a \in 1..(n - 1)
          BY <1>0, <1>1, <2>2, <4>3
        <5>3. x \in ToSet(f[n - 1])
          BY <3>2, <5>1, <5>2
        <5> QED BY <3>3, <5>1, <5>3, ConcatOrder
      <4>4. a <= b
        BY <1>0, <1>1 DEF Apart
      <4> QED
        BY <1>0, <1>1, <2>2, <3>6, <4>1, <4>2, <4>3, <4>4
    <3> QED BY <2>2, <3>5, <3>6
  <2> QED BY <2>3, <2>4
<1>5. a <= N /\ b <= N
  BY <1>0, <1>1
<1>6. Good(N)
  <2> HIDE DEF N, Good
  <2> QED BY <1>2, <1>4
<1> QED BY <1>3, <1>5, <1>6

(* Taking some of the messages keeps their order.                          *)
LEMMA OnlyOrder ==
    ASSUME NEW M, NEW s \in Seq(M), NEW S, NEW x \in S, NEW y \in S, Precedes(s, x, y)
    PROVE  Precedes(Only(s, S), x, y)
<1> DEFINE p == [i \in DOMAIN s |-> IF s[i] \in S THEN <<s[i]>> ELSE <<>>]
<1>1. Len(s) \in Nat /\ DOMAIN s = 1..Len(s) /\ \A i \in 1..Len(s) : s[i] \in M
  OBVIOUS
<1>2. \A i \in 1..Len(s) : p[i] = IF s[i] \in S THEN <<s[i]>> ELSE <<>>
  BY <1>1
<1>3. p \in Seq(Seq(M)) /\ Len(p) = Len(s)
  <2>1. \A m \in M : <<m>> \in Seq(M)
    OBVIOUS
  <2>2. <<>> \in Seq(M)
    OBVIOUS
  <2>3. p \in [1..Len(s) -> Seq(M)]
    BY <1>1, <2>1, <2>2
  <2> HIDE DEF p
  <2> QED BY <2>3, <1>1, IsASeq
<1>4. Only(s, S) = FlattenSeq(p)
  BY DEF Only
<1> HIDE DEF p
<1>5. PICK i, j \in 1..Len(s) : i < j /\ s[i] = x /\ s[j] = y
  BY <1>1 DEF Precedes
<1>6. p[i] = <<x>> /\ p[j] = <<y>>
  BY <1>2, <1>5
<1>7. x \in ToSet(p[i]) /\ y \in ToSet(p[j])
  <2>1. x \in M /\ y \in M
    BY <1>1, <1>5
  <2>2. ToSet(<<x>>) = {x} /\ ToSet(<<y>>) = {y}
    BY <2>1, OneOrNone
  <2> QED BY <1>6, <2>2
<1>8. i \in 1..Len(p) /\ j \in 1..Len(p)
  BY <1>3
<1> QED BY <1>3, <1>4, <1>5, <1>7, <1>8, FlattenSeqOrder

(* Two sequences that have nothing twice are the same if they have the     *)
(* same elements in the same order.                                        *)
LEMMA SameOrderSame ==
    ASSUME NEW M, NEW s \in Seq(M), NEW t \in Seq(M), IsInjective(s), IsInjective(t),
           ToSet(s) = ToSet(t), \A x, y : Precedes(s, x, y) => Precedes(t, x, y)
    PROVE  s = t
<1> DEFINE m == Len(s)
           n == Len(t)
           Bad == {i \in 1..m : i > n \/ s[i] # t[i]}
<1>1. /\ m \in Nat /\ n \in Nat /\ DOMAIN s = 1..m /\ DOMAIN t = 1..n
      /\ \A i, j \in 1..m : s[i] = s[j] => i = j
      /\ \A i, j \in 1..n : t[i] = t[j] => i = j
  BY DEF IsInjective
<1>2. /\ \A i \in 1..m : \E j \in 1..n : s[i] = t[j]
      /\ \A j \in 1..n : \E i \in 1..m : s[i] = t[j]
  <2>1. {s[i] : i \in 1..m} = {t[j] : j \in 1..n}
    <3> HIDE DEF m, n
    <3> QED BY <1>1 DEF ToSet
  <2> HIDE DEF m, n
  <2>2. \A i \in 1..m : s[i] \in {t[j] : j \in 1..n}
    BY <2>1
  <2>3. \A j \in 1..n : t[j] \in {s[i] : i \in 1..m}
    BY <2>1
  <2> QED BY <2>2, <2>3
<1>3. Bad = {}
  <2> SUFFICES ASSUME Bad # {} PROVE FALSE
    OBVIOUS
  <2>1. PICK i \in Bad : \A k \in 1..(i - 1) : k \in 1..m /\ ~(k \in Bad)
    <3>1. Bad \in SUBSET (1..m)
      OBVIOUS
    <3> HIDE DEF Bad, m
    <3> QED BY <3>1, <1>1, FirstOf
  <2>2. i \in 1..m /\ (i > n \/ s[i] # t[i])
    OBVIOUS
  <2>3. \A k \in 1..(i - 1) : k \in 1..m /\ k \in 1..n /\ s[k] = t[k]
    BY <1>1, <2>1
  <2> HIDE DEF m, n, Bad
  <2>4. PICK j \in 1..n : s[i] = t[j]
    BY <1>2, <2>2
  <2>5. i < j
    <3>1. CASE j < i
      <4>1. j \in 1..(i - 1)
        BY <1>1, <2>2, <3>1
      <4>2. s[j] = s[i] /\ j \in 1..m
        BY <2>3, <2>4, <4>1
      <4> QED BY <1>1, <2>2, <3>1, <4>2
    <3>2. j # i
      BY <1>1, <2>2, <2>4
    <3> QED BY <1>1, <2>2, <3>1, <3>2
  <2>6. i \in 1..n
    BY <1>1, <2>2, <2>5
  <2>7. PICK k \in 1..m : s[k] = t[i]
    BY <1>2, <2>6
  <2>8. i < k
    <3>1. CASE k < i
      <4>1. k \in 1..(i - 1)
        BY <1>1, <2>2, <3>1
      <4>2. t[k] = t[i] /\ k \in 1..n
        BY <2>3, <2>7, <4>1
      <4> QED BY <1>1, <2>6, <3>1, <4>2
    <3>2. k # i
      BY <1>1, <2>2, <2>6, <2>7
    <3> QED BY <1>1, <2>2, <3>1, <3>2
  <2>9. Precedes(s, s[i], t[i])
    BY <1>1, <2>2, <2>7, <2>8 DEF Precedes
  <2>10. Precedes(t, t[i], s[i])
    BY <1>1, <2>4, <2>5, <2>6 DEF Precedes
  <2> QED BY <2>9, <2>10, PrecedesOrders
<1>4. \A i \in 1..m : i \in 1..n /\ s[i] = t[i]
  BY <1>1, <1>3
<1>5. m = n
  <2> SUFFICES ASSUME m < n PROVE FALSE
    <3>1. m <= n
      <4>1. m # 0 => m \in 1..m
        BY <1>1
      <4>2. m # 0 => m \in 1..n
        <5> HIDE DEF m, n, Bad
        <5> QED BY <4>1, <1>4
      <4>3. m \in Nat /\ n \in Nat
        BY <1>1
      <4> HIDE DEF m, n, Bad
      <4> QED BY <4>2, <4>3
    <3>2. m \in Nat /\ n \in Nat
      BY <1>1
    <3> HIDE DEF m, n, Bad
    <3> QED BY <3>1, <3>2
  <2>1. m + 1 \in 1..n
    BY <1>1
  <2>2. PICK i \in 1..m : s[i] = t[m + 1]
    BY <1>2, <2>1
  <2>3. t[i] = t[m + 1] /\ i \in 1..n /\ i # m + 1
    BY <1>1, <1>4, <2>2
  <2> HIDE DEF m, n
  <2> QED BY <1>1, <2>1, <2>3
<1> HIDE DEF Bad
<1> QED BY <1>1, <1>4, <1>5

(* What it means that s keeps the order of base.                           *)
LEMMA KeepsOrderIs ==
    ASSUME NEW M, NEW base \in Seq(M), NEW s \in Seq(M), IsInjective(base), IsInjective(s)
    PROVE  KeepsOrder(base, s) <=>
              \A x, y \in ToSet(base) \cap ToSet(s) : Precedes(base, x, y) => Precedes(s, x, y)
<1> DEFINE B == ToSet(base)
           S == ToSet(s)
           p == Only(s, B)
           q == Only(base, S)
<1>1. /\ p \in Seq(M) /\ q \in Seq(M) /\ IsInjective(p) /\ IsInjective(q)
      /\ ToSet(p) = S \cap B /\ ToSet(q) = B \cap S
  BY OnlySet
<1>2. \A x, y \in B \cap S : /\ Precedes(s, x, y) => Precedes(p, x, y)
                             /\ Precedes(base, x, y) => Precedes(q, x, y)
  BY OnlyOrder
<1>3. KeepsOrder(base, s) <=> p = q
  BY DEF KeepsOrder
<1> HIDE DEF B, S, p, q
<1>4. /\ \A x, y : ~(Precedes(p, x, y) /\ Precedes(p, y, x))
      /\ \A x, y : ~(Precedes(q, x, y) /\ Precedes(q, y, x))
      /\ \A x, y : Precedes(q, x, y) => x \in B \cap S /\ y \in B \cap S /\ x # y
  BY <1>1, PrecedesOrders
<1>5. \A x, y \in B \cap S :
         /\ x = y \/ Precedes(s, x, y) \/ Precedes(s, y, x)
         /\ x = y \/ Precedes(base, x, y) \/ Precedes(base, y, x)
         /\ ~Precedes(base, x, x)
  BY PrecedesOrders DEF B, S
<1>6. ASSUME p = q, NEW x \in B \cap S, NEW y \in B \cap S, Precedes(base, x, y)
      PROVE  Precedes(s, x, y)
  BY <1>2, <1>4, <1>5, <1>6
<1>7. ASSUME \A x, y \in B \cap S : Precedes(base, x, y) => Precedes(s, x, y)
      PROVE  p = q
  <2>1. \A x, y : Precedes(q, x, y) => Precedes(p, x, y)
    BY <1>2, <1>4, <1>5, <1>7
  <2>2. ToSet(q) = ToSet(p)
    BY <1>1
  <2> QED BY <1>1, <2>1, <2>2, SameOrderSame
<1> QED BY <1>3, <1>6, <1>7 DEF B, S

(* Order is kept from a over b to c when b has what a and c have in common.*)
LEMMA KeepsOrderThrough ==
    ASSUME NEW M, NEW a \in Seq(M), NEW b \in Seq(M), NEW c \in Seq(M),
           IsInjective(a), IsInjective(b), IsInjective(c),
           KeepsOrder(a, b), KeepsOrder(b, c), ToSet(a) \cap ToSet(c) \subseteq ToSet(b)
    PROVE  KeepsOrder(a, c)
<1>1. \A x, y \in ToSet(a) \cap ToSet(b) : Precedes(a, x, y) => Precedes(b, x, y)
  BY KeepsOrderIs
<1>2. \A x, y \in ToSet(b) \cap ToSet(c) : Precedes(b, x, y) => Precedes(c, x, y)
  BY KeepsOrderIs
<1>3. \A x, y \in ToSet(a) \cap ToSet(c) : Precedes(a, x, y) => Precedes(c, x, y)
  BY <1>1, <1>2
<1> QED BY <1>3, KeepsOrderIs

(* A set of places that is not empty has a last one.                       *)
LEMMA LastOf ==
    ASSUME NEW n \in Nat, NEW T \in SUBSET (1..n), T # {}
    PROVE  \E i \in T : \A j \in T : j <= i
<1> DEFINE from == {k \in 0..n : \E i \in T : k = n - i}
<1>1. from \in SUBSET Nat /\ from # {}
  <2>1. PICK i \in T : TRUE
    OBVIOUS
  <2>2. n - i \in 0..n
    OBVIOUS
  <2>3. n - i \in from
    BY <2>2
  <2>4. 0..n \in SUBSET Nat
    OBVIOUS
  <2> QED BY <2>3, <2>4
<1>2. PICK k \in from : \A j \in from : k <= j
  <2> HIDE DEF from
  <2> QED BY <1>1, NatLeast
<1>3. PICK i \in T : k = n - i
  OBVIOUS
<1>4. ASSUME NEW j \in T PROVE j <= i
  <2>1. n - j \in from
    OBVIOUS
  <2>2. n - i <= n - j
    BY <1>2, <1>3, <2>1
  <2> QED BY <2>2
<1> QED BY <1>4

(* A message of base stands in s before the new message m exactly when the *)
(* gap of m is behind it.                                                  *)
LEMMA GapOrder ==
    ASSUME NEW M, NEW base \in Seq(M), NEW s \in Seq(M),
           IsInjective(base), IsInjective(s), KeepsOrder(base, s),
           NEW m \in ToSet(s) \ ToSet(base), NEW x \in ToSet(s) \cap ToSet(base)
    PROVE  Precedes(s, x, m) <=> Place(base, x) <= Gap(base, s, m)
<1> DEFINE n == Place(s, m)
           old == {i \in 1..n : s[i] \in ToSet(base)}
           last == CHOOSE i \in old : \A j \in old : j <= i
<1>1. /\ n \in 1..Len(s) /\ s[n] = m /\ Len(s) \in Nat /\ DOMAIN s = 1..Len(s)
      /\ \A i, j \in 1..Len(s) : s[i] = s[j] => i = j
  BY PlaceIn DEF IsInjective
<1>2. Gap(base, s, m) = IF old = {} THEN 0 ELSE Place(base, s[last])
  BY DEF Gap
<1> HIDE DEF n
<1>3. PICK i \in 1..Len(s) : s[i] = x
  BY <1>1 DEF ToSet
<1>4. i # n /\ (i < n <=> i \in old)
  BY <1>1, <1>3
<1>5. Precedes(s, x, m) <=> i < n
  <2>1. ASSUME Precedes(s, x, m) PROVE i < n
    <3>1. PICK j, k \in 1..Len(s) : j < k /\ s[j] = x /\ s[k] = m
      BY <1>1, <2>1 DEF Precedes
    <3>2. j = i /\ k = n
      BY <1>1, <1>3, <3>1
    <3> QED BY <3>1, <3>2
  <2>2. ASSUME i < n PROVE Precedes(s, x, m)
    BY <1>1, <1>3, <2>2 DEF Precedes
  <2> QED BY <2>1, <2>2
<1>6. Place(base, x) \in Nat /\ Place(base, x) > 0
  <2>1. Place(base, x) \in 1..Len(base) /\ Len(base) \in Nat
    BY PlaceIn
  <2> QED BY <2>1
<1>7. CASE old = {}
  BY <1>2, <1>4, <1>5, <1>6, <1>7
<1>8. CASE old # {}
  <2>1. last \in old /\ \A j \in old : j <= last
    <3>1. \E k \in old : \A j \in old : j <= k
      <4>1. n \in Nat /\ old \in SUBSET (1..n)
        BY <1>1
      <4> HIDE DEF old
      <4> QED BY <1>8, <4>1, LastOf
    <3> HIDE DEF old
    <3> QED BY <3>1
  <2> HIDE DEF last
  <2>2. last \in 1..Len(s) /\ last < n /\ s[last] \in ToSet(base) /\ s[last] \in ToSet(s)
    BY <1>1, <2>1 DEF ToSet
  <2> DEFINE l == s[last]
  <2>3. Place(base, l) \in Nat
    <3>1. Place(base, l) \in 1..Len(base) /\ Len(base) \in Nat
      BY <2>2, PlaceIn
    <3> QED BY <3>1
  <2>4. \A y, z \in ToSet(s) \cap ToSet(base) :
           Precedes(base, y, z) => Precedes(s, y, z)
    BY KeepsOrderIs
  <2>5. \A y, z \in ToSet(base) : Precedes(base, y, z) <=> Place(base, y) < Place(base, z)
    BY PrecedesPlaces
  <2>6. l \in ToSet(s) \cap ToSet(base)
    BY <2>2
  <2> HIDE DEF l
  <2>7. ASSUME i \in old PROVE Place(base, x) <= Place(base, l)
    <3> SUFFICES ASSUME Place(base, l) < Place(base, x) PROVE FALSE
      BY <1>6, <2>3
    <3>1. Precedes(s, l, x)
      BY <2>4, <2>5, <2>6
    <3>2. PICK j, k \in 1..Len(s) : j < k /\ s[j] = l /\ s[k] = x
      BY <1>1, <3>1 DEF Precedes
    <3>3. j = last /\ k = i
      BY <1>1, <1>3, <2>2, <3>2 DEF l
    <3>4. i <= last
      BY <2>1, <2>7
    <3> QED BY <3>2, <3>3, <3>4
  <2>8. ASSUME i \notin old PROVE ~(Place(base, x) <= Place(base, l))
    <3> SUFFICES ASSUME Place(base, x) <= Place(base, l) PROVE FALSE
      OBVIOUS
    <3>1. last < i
      BY <1>1, <1>4, <2>2, <2>8
    <3>2. x # l
      BY <1>1, <1>3, <2>2, <3>1 DEF l
    <3>3. Place(base, x) # Place(base, l)
      <4>1. base[Place(base, x)] = x /\ base[Place(base, l)] = l
        BY <2>6, PlaceIn
      <4> QED BY <3>2, <4>1
    <3>4. Precedes(s, x, l)
      BY <1>6, <2>3, <2>4, <2>5, <2>6, <3>3
    <3>5. PICK j, k \in 1..Len(s) : j < k /\ s[j] = x /\ s[k] = l
      BY <1>1, <3>4 DEF Precedes
    <3>6. j = i /\ k = last
      BY <1>1, <1>3, <2>2, <3>5 DEF l
    <3> QED BY <3>1, <3>5, <3>6
  <2>9. Gap(base, s, m) = Place(base, l)
    BY <1>2, <1>8 DEF l, last
  <2> HIDE DEF old
  <2> QED BY <1>4, <1>5, <2>7, <2>8, <2>9
<1> QED BY <1>7, <1>8

(* New messages stand in the order of their gaps.                          *)
LEMMA GapsFollow ==
    ASSUME NEW M, NEW base \in Seq(M), NEW s \in Seq(M),
           IsInjective(base), IsInjective(s), KeepsOrder(base, s),
           NEW x \in ToSet(s) \ ToSet(base), NEW y \in ToSet(s) \ ToSet(base),
           Precedes(s, x, y)
    PROVE  Gap(base, s, x) <= Gap(base, s, y)
<1> DEFINE g == Gap(base, s, x)
           h == Gap(base, s, y)
<1>1. g \in 0..Len(base) /\ h \in 0..Len(base) /\ Len(base) \in Nat
  BY GapIn
<1>2. SUFFICES ASSUME g > h PROVE FALSE
  <2> HIDE DEF g, h
  <2>1. g <= h
    BY <1>1, <1>2
  <2> QED BY <2>1 DEF g, h
<1>3. PICK l \in ToSet(s) \cap ToSet(base) : Place(base, l) = g
  <2> DEFINE n == Place(s, x)
             old == {i \in 1..n : s[i] \in ToSet(base)}
             last == CHOOSE i \in old : \A j \in old : j <= i
  <2>1. n \in 1..Len(s) /\ Len(s) \in Nat /\ DOMAIN s = 1..Len(s)
    BY PlaceIn
  <2>2. g = IF old = {} THEN 0 ELSE Place(base, s[last])
    BY DEF Gap
  <2>3. old # {}
    <3> HIDE DEF old, g, h
    <3> QED BY <1>1, <1>2, <2>2
  <2>4. last \in old
    <3>1. \E k \in old : \A j \in old : j <= k
      <4>1. n \in Nat /\ old \in SUBSET (1..n)
        BY <2>1
      <4> HIDE DEF old
      <4> QED BY <2>3, <4>1, LastOf
    <3> HIDE DEF old
    <3> QED BY <3>1
  <2> HIDE DEF last, n, g
  <2>5. s[last] \in ToSet(s) \cap ToSet(base)
    BY <2>1, <2>4 DEF ToSet
  <2> QED BY <2>2, <2>3, <2>5
<1>4. Precedes(s, l, x)
  BY <1>1, <1>3, GapOrder
<1>5. Precedes(s, l, y)
  BY <1>4, PrecedesOrders
<1>6. Place(base, l) <= h
  BY <1>5, GapOrder
<1> HIDE DEF g, h
<1> QED BY <1>1, <1>2, <1>3, <1>6

(* In a piece of the merge the new messages of the other side stand in     *)
(* their order, and before the message of base.                            *)
LEMMA GapAndNextOrder ==
    ASSUME NEW M, NEW base \in Seq(M), NEW local \in Seq(M), NEW remote \in Seq(M),
           NEW k \in 0..Len(base), NEW x \in ToSet(remote) \ ToSet(base), NEW y,
           IsInjective(base), IsInjective(local), IsInjective(remote),
           Gap(base, remote, x) = k,
           \/ /\ y \in ToSet(remote) \ ToSet(base) /\ Gap(base, remote, y) = k
              /\ Precedes(remote, x, y)
           \/ k # Len(base) /\ y = base[k + 1] /\ y \in ToSet(local) \cap ToSet(remote)
    PROVE  Precedes(GapAndNext(base, local, remote, k), x, y)
<1> DEFINE new(s) == {m \in ToSet(s) \ ToSet(base) : Gap(base, s, m) = k}
           next == IF k = Len(base) THEN <<>> ELSE <<base[k + 1]>>
           a == Only(remote, new(remote))
           b == Only(local, new(local) \ ToSet(remote))
           c == Only(next, ToSet(local) \cap ToSet(remote))
<1>0. GapAndNext(base, local, remote, k) = (a \o b) \o c
  BY DEF GapAndNext
<1>1. next \in Seq(M) /\ (k # Len(base) => ToSet(next) = {base[k + 1]})
  <2>1. CASE k = Len(base)
    BY <2>1
  <2>2. CASE k # Len(base)
    <3>1. k + 1 \in 1..Len(base)
      BY <2>2
    <3>2. base[k + 1] \in M
      BY <3>1
    <3>3. next = <<base[k + 1]>>
      BY <2>2
    <3> HIDE DEF next
    <3> QED BY <3>2, <3>3, OneOrNone
  <2> QED BY <2>1, <2>2
<1>2. a \in Seq(M) /\ ToSet(a) = ToSet(remote) \cap new(remote)
  <2> HIDE DEF new
  <2> QED BY OnlySet
<1>3. b \in Seq(M)
  <2> HIDE DEF new
  <2> QED BY OnlySet
<1>4. c \in Seq(M) /\ ToSet(c) = ToSet(next) \cap (ToSet(local) \cap ToSet(remote))
  <2> HIDE DEF next
  <2> QED BY <1>1, OnlySet
<1>5. x \in ToSet(a)
  <2> HIDE DEF a
  <2> QED BY <1>2
<1>6. CASE y \in ToSet(remote) \ ToSet(base) /\ Gap(base, remote, y) = k /\ Precedes(remote, x, y)
  <2>1. x \in new(remote) /\ y \in new(remote)
    BY <1>6
  <2>2. Precedes(a, x, y)
    <3> HIDE DEF new
    <3> QED BY <1>6, <2>1, OnlyOrder
  <2> HIDE DEF a, b, c
  <2>3. Precedes(a \o b, x, y) /\ a \o b \in Seq(M)
    BY <1>2, <1>3, <2>2, ConcatOrder, ConcatSet
  <2> DEFINE ab == a \o b
  <2>4. Precedes(ab \o c, x, y)
    <3> HIDE DEF ab
    <3>1. Precedes(ab, x, y) /\ ab \in Seq(M)
      BY <2>3 DEF ab
    <3> QED BY <1>4, <3>1, ConcatOrder
  <2> QED BY <1>0, <2>4
<1>7. CASE k # Len(base) /\ y = base[k + 1] /\ y \in ToSet(local) \cap ToSet(remote)
  <2> HIDE DEF next, a, b, c
  <2>1. y \in ToSet(c)
    BY <1>1, <1>4, <1>7
  <2>2. x \in ToSet(a \o b) /\ a \o b \in Seq(M)
    BY <1>2, <1>3, <1>5, ConcatSet
  <2> DEFINE ab == a \o b
  <2>3. Precedes(ab \o c, x, y)
    <3> HIDE DEF ab
    <3>1. x \in ToSet(ab) /\ ab \in Seq(M)
      BY <2>2 DEF ab
    <3> QED BY <1>4, <2>1, <3>1, ConcatOrder
  <2> QED BY <1>0, <2>3
<1> QED BY <1>6, <1>7

(* A merge keeps the order of the other side.                              *)
LEMMA MergeKeepsOrder ==
    ASSUME NEW M, NEW base \in Seq(M), NEW local \in Seq(M), NEW remote \in Seq(M),
           IsInjective(base), IsInjective(local), IsInjective(remote),
           KeepsOrder(base, local), NEW res \in MergeMessages(base, local, remote)
    PROVE  KeepsOrder(remote, res)
<1>4. ASSUME NEW g \in 0..Len(base)
      PROVE  ToSet(GapAndNext(base, local, remote, g)) =
               {m \in ToSet(remote) \ ToSet(base) : Gap(base, remote, m) = g}
                 \cup ({m \in ToSet(local) \ ToSet(base) : Gap(base, local, m) = g}
                          \ ToSet(remote))
                 \cup ((IF g = Len(base) THEN {} ELSE {base[g + 1]})
                          \cap ToSet(local) \cap ToSet(remote))
  BY GapAndNextSet
<1>1. CASE res = remote
  BY <1>1 DEF KeepsOrder
<1>2. CASE res = local /\ remote \in {base, local}
  BY <1>2 DEF KeepsOrder
<1>3. CASE /\ KeepsOrder(base, remote)
           /\ res = FlattenSeq([k \in 1..(Len(base) + 1) |->
                                  GapAndNext(base, local, remote, k - 1)])
  <2> DEFINE N == Len(base) + 1
             p == [k \in 1..N |-> GapAndNext(base, local, remote, k - 1)]
             B == ToSet(base)
             R == ToSet(remote)
             at(z) == IF z \in B THEN Place(base, z) ELSE Gap(base, remote, z) + 1
  <2>0. N \in Nat /\ Len(base) \in Nat /\ N = Len(base) + 1
    OBVIOUS
  <2>1. ASSUME NEW k \in 1..N
        PROVE  /\ p[k] = GapAndNext(base, local, remote, k - 1)
               /\ k - 1 \in 0..Len(base) /\ k - 1 + 1 = k
    BY <2>0
  <2>8. ASSUME NEW g \in 0..Len(base)
        PROVE  g + 1 \in 1..N /\ p[g + 1] = GapAndNext(base, local, remote, g)
    <3>1. g + 1 \in 1..N /\ g + 1 - 1 = g
      BY <2>0
    <3> QED BY <3>1
  <2>2. p \in Seq(Seq(M)) /\ Len(p) = N
    <3>1. \A k \in 0..Len(base) : GapAndNext(base, local, remote, k) \in Seq(M)
      BY GapAndNextSet
    <3>2. p \in [1..N -> Seq(M)]
      BY <2>1, <3>1
    <3> HIDE DEF p, N
    <3> QED BY <2>0, <3>2, IsASeq
  <2>3. res = FlattenSeq(p)
    BY <1>3
  <2> HIDE DEF p
  <2>4. /\ res \in Seq(M) /\ IsInjective(res)
        /\ ToSet(res) = MergedSet(B, ToSet(local), R)
    BY MergedMessages
  <2>5. ASSUME NEW z \in R \cap ToSet(res), z \in B
        PROVE  /\ z \in ToSet(local) /\ at(z) \in 1..Len(base) /\ base[at(z)] = z
               /\ at(z) \in 1..N /\ z \in ToSet(p[at(z)])
    <3>1. z \in ToSet(local)
      BY <2>4, <2>5 DEF MergedSet
    <3>2. at(z) \in 1..Len(base) /\ base[at(z)] = z
      BY <2>5, PlaceIn
    <3>3. PICK k \in 1..Len(base) : k = at(z)
      BY <3>2
    <3> HIDE DEF at
    <3>4. k \in 1..N /\ k - 1 # Len(base) /\ k - 1 + 1 = k
      BY <2>0
    <3>5. z \in ToSet(GapAndNext(base, local, remote, k - 1))
      <4>1. k - 1 \in 0..Len(base)
        BY <2>0
      <4>2. base[k - 1 + 1] = z
        BY <3>2, <3>3, <3>4
      <4>3. z \in {base[k - 1 + 1]} \cap ToSet(local) \cap ToSet(remote)
        BY <3>1, <4>2
      <4> DEFINE g == k - 1
      <4>4. g \in 0..Len(base) /\ g # Len(base)
            /\ z \in {base[g + 1]} \cap ToSet(local) \cap ToSet(remote)
        BY <3>4, <4>1, <4>3
      <4> HIDE DEF N, B, g
      <4>6. z \in ToSet(GapAndNext(base, local, remote, g))
        <5> HIDE DEF g, N, B, R, at
        <5>1. z \in (IF g = Len(base) THEN {} ELSE {base[g + 1]})
                        \cap ToSet(local) \cap ToSet(remote)
          BY <4>4
        <5> QED BY <4>4, <5>1, <1>4
      <4> QED BY <4>6 DEF g
    <3> QED BY <2>1, <3>1, <3>2, <3>3, <3>4, <3>5
  <2>6. ASSUME NEW z \in R, z \notin B
        PROVE  /\ Gap(base, remote, z) \in 0..Len(base)
               /\ at(z) = Gap(base, remote, z) + 1
               /\ at(z) \in 1..N /\ z \in ToSet(p[at(z)])
    <3>1. PICK g \in 0..Len(base) : g = Gap(base, remote, z)
      BY GapIn
    <3>2. g + 1 \in 1..N /\ g + 1 - 1 = g
      BY <2>0
    <3>3. z \in ToSet(GapAndNext(base, local, remote, g))
      BY <2>6, <3>1, GapAndNextSet
    <3>4. p[g + 1] = GapAndNext(base, local, remote, g)
      BY <2>8
    <3> QED BY <2>6, <3>1, <3>2, <3>3, <3>4
  <2>7. ASSUME NEW x \in R \cap ToSet(res), NEW y \in R \cap ToSet(res),
               Precedes(remote, x, y)
        PROVE  Precedes(res, x, y)
    <3>1. /\ at(x) \in 1..N /\ x \in ToSet(p[at(x)])
          /\ at(y) \in 1..N /\ y \in ToSet(p[at(y)])
      BY <2>5, <2>6
    <3>2. SUFFICES \/ at(x) < at(y)
                   \/ at(x) = at(y) /\ Precedes(p[at(x)], x, y)
      <4> HIDE DEF at, R, N
      <4> QED BY <2>2, <2>3, <3>1, FlattenSeqOrder
    <3>3. ~Precedes(remote, y, x)
      BY <2>7, PrecedesOrders
    <3>4. CASE x \in B /\ y \in B
      <4>1. x \in ToSet(base) \cap ToSet(remote) /\ y \in ToSet(base) \cap ToSet(remote)
        BY <3>4
      <4>2. x # y /\ ~Precedes(base, y, x)
        BY <1>3, <2>7, <3>3, <4>1, KeepsOrderIs, PrecedesOrders
      <4>3. Precedes(base, x, y)
        BY <4>1, <4>2, PrecedesOrders
      <4>4. Place(base, x) < Place(base, y)
        BY <4>1, <4>3, PrecedesPlaces
      <4> QED BY <3>4, <4>4
    <3>5. CASE x \in B /\ y \notin B
      <4>1. Place(base, x) <= Gap(base, remote, y)
        BY <1>3, <2>7, <3>5, GapOrder
      <4>2. Place(base, x) \in 1..Len(base) /\ Gap(base, remote, y) \in 0..Len(base)
        BY <2>5, <2>6, <3>5
      <4>3. Place(base, x) < Gap(base, remote, y) + 1
        BY <4>1, <4>2
      <4> QED BY <3>5, <4>3
    <3>6. CASE x \notin B /\ y \in B
      <4> DEFINE g == Gap(base, remote, x)
                 h == Place(base, y)
      <4>1. ~(h <= g)
        BY <1>3, <3>3, <3>6, GapOrder
      <4>2. /\ h \in 1..Len(base) /\ g \in 0..Len(base) /\ base[h] = y
            /\ y \in ToSet(local)
        BY <2>5, <2>6, <3>6
      <4> HIDE DEF g, h
      <4>3. g + 1 <= h /\ g + 1 \in 1..N /\ g + 1 - 1 = g
        BY <2>0, <4>1, <4>2
      <4>4. CASE g + 1 = h
        <5>1. g # Len(base) /\ y = base[g + 1]
          BY <2>0, <4>2, <4>4
        <5>2. Precedes(GapAndNext(base, local, remote, g), x, y)
          <6>1. x \in ToSet(remote) \ ToSet(base) /\ Gap(base, remote, x) = g
            BY <3>6 DEF g
          <6>2. y \in ToSet(local) \cap ToSet(remote)
            BY <4>2
          <6>3. g # Len(base) /\ y = base[g + 1] /\ y \in ToSet(local) \cap ToSet(remote)
            BY <5>1, <6>2
          <6> HIDE DEF B, R, at, N
          <6> QED BY <4>2, <6>1, <6>3, GapAndNextOrder
        <5>3. p[g + 1] = GapAndNext(base, local, remote, g)
          BY <2>8, <4>2
        <5> QED BY <3>6, <4>4, <5>2, <5>3 DEF g, h
      <4>5. CASE g + 1 # h
        <5>1. g + 1 < h
          BY <4>2, <4>3, <4>5
        <5> QED BY <3>6, <5>1 DEF g, h
      <4> QED BY <4>4, <4>5
    <3>7. CASE x \notin B /\ y \notin B
      <4> DEFINE g == Gap(base, remote, x)
                 h == Gap(base, remote, y)
      <4>1. g <= h
        BY <1>3, <2>7, <3>7, GapsFollow
      <4>2. h \in 0..Len(base) /\ g \in 0..Len(base)
        BY <2>6, <3>7
      <4> HIDE DEF g, h
      <4>3. CASE g = h
        <5>1. Precedes(GapAndNext(base, local, remote, g), x, y)
          <6>1. x \in ToSet(remote) \ ToSet(base) /\ Gap(base, remote, x) = g
            BY <3>7 DEF g
          <6>2. y \in ToSet(remote) \ ToSet(base) /\ Gap(base, remote, y) = g
            BY <3>7, <4>3 DEF h
          <6> HIDE DEF B, R, at, N
          <6> QED BY <2>7, <4>2, <6>1, <6>2, GapAndNextOrder
        <5>2. g + 1 \in 1..N /\ g + 1 - 1 = g
          BY <2>0, <4>2
        <5>3. p[g + 1] = GapAndNext(base, local, remote, g)
          BY <2>8, <4>2
        <5> QED BY <3>7, <4>3, <5>1, <5>3 DEF g, h
      <4>4. CASE g # h
        <5>1. g + 1 < h + 1
          BY <4>1, <4>2, <4>4
        <5> QED BY <3>7, <5>1 DEF g, h
      <4> QED BY <4>3, <4>4
    <3> HIDE DEF at, B
    <3> QED BY <3>4, <3>5, <3>6, <3>7
  <2> HIDE DEF p, N
  <2> QED BY <2>4, <2>7, KeepsOrderIs
<1> QED
  BY <1>1, <1>2, <1>3 DEF MergeMessages

(* A message that is put in or taken out leaves the others in their order. *)
LEMMA InsertKeepsOrder ==
    ASSUME NEW M, NEW s \in Seq(M), IsInjective(s), NEW k \in 1..(Len(s) + 1),
           NEW m \in M, m \notin ToSet(s), IsInjective(InsertAt(s, k, m))
    PROVE  KeepsOrder(s, InsertAt(s, k, m))
<1> DEFINE t == InsertAt(s, k, m)
           n == Len(s)
<1>1. n \in Nat /\ DOMAIN s = 1..n /\ k \in Nat /\ 1 <= k /\ k <= n + 1
  OBVIOUS
<1>2. /\ t \in Seq(M) /\ Len(t) = n + 1
      /\ \A i \in 1..(n + 1) : t[i] = IF i < k THEN s[i] ELSE IF i = k THEN m ELSE s[i - 1]
  BY SMTT(20), <1>1, InsertAtElements
<1>3. DOMAIN t = 1..(n + 1)
  BY <1>2
<1> HIDE DEF t, n
<1>4. ASSUME NEW x, NEW y, Precedes(s, x, y) PROVE Precedes(t, x, y)
  <2>1. PICK i, j \in 1..n : i < j /\ s[i] = x /\ s[j] = y
    BY <1>1, <1>4 DEF Precedes
  <2>2. ASSUME NEW l \in 1..n
        PROVE  /\ l < k => l \in 1..(n + 1) /\ t[l] = s[l]
               /\ ~(l < k) => l + 1 \in 1..(n + 1) /\ t[l + 1] = s[l]
    <3>1. CASE l < k
      BY <1>1, <1>2, <3>1
    <3>2. CASE ~(l < k)
      <4>1. l + 1 \in 1..(n + 1) /\ ~(l + 1 < k) /\ l + 1 # k /\ l + 1 - 1 = l
        BY <1>1, <3>2
      <4> QED BY <3>2, <4>1, <1>2
    <3> QED BY <3>1, <3>2
  <2> DEFINE a == IF i < k THEN i ELSE i + 1
             b == IF j < k THEN j ELSE j + 1
  <2>3. a \in 1..(n + 1) /\ t[a] = x
    BY <2>1, <2>2
  <2>4. b \in 1..(n + 1) /\ t[b] = y
    BY <2>1, <2>2
  <2>5. a < b
    BY <2>1, <1>1
  <2> HIDE DEF a, b
  <2> QED BY <1>3, <2>3, <2>4, <2>5 DEF Precedes
<1>5. IsInjective(t)
  BY DEF t
<1>6. KeepsOrder(s, t)
  BY <1>2, <1>4, <1>5, KeepsOrderIs
<1> QED BY <1>6 DEF t

LEMMA RemoveKeepsOrder ==
    ASSUME NEW M, NEW s \in Seq(M), IsInjective(s), NEW k \in 1..Len(s),
           IsInjective(RemoveAt(s, k))
    PROVE  KeepsOrder(s, RemoveAt(s, k))
<1> DEFINE t == RemoveAt(s, k)
           n == Len(s)
<1>1. n \in Nat /\ DOMAIN s = 1..n /\ k \in 1..n
  OBVIOUS
<1>2. /\ t \in Seq(M) /\ Len(t) = n - 1
      /\ \A i \in 1..(n - 1) : t[i] = IF i < k THEN s[i] ELSE s[i + 1]
  BY <1>1, RemoveAtElements
<1>3. DOMAIN t = 1..(n - 1)
  BY <1>2
<1>0. IsInjective(t)
  BY DEF t
<1> HIDE DEF t, n
<1>4. ASSUME NEW x, NEW y, Precedes(t, x, y) PROVE Precedes(s, x, y)
  <2>1. PICK i, j \in 1..(n - 1) : i < j /\ t[i] = x /\ t[j] = y
    BY <1>3, <1>4 DEF Precedes
  <2> DEFINE a == IF i < k THEN i ELSE i + 1
             b == IF j < k THEN j ELSE j + 1
  <2>2. a \in 1..n /\ s[a] = x
    BY <2>1, <1>1, <1>2
  <2>3. b \in 1..n /\ s[b] = y
    BY <2>1, <1>1, <1>2
  <2>4. a < b
    BY <2>1, <1>1
  <2> HIDE DEF a, b
  <2> QED BY <1>1, <2>2, <2>3, <2>4 DEF Precedes
<1>5. ASSUME NEW x \in ToSet(t), NEW y \in ToSet(t), Precedes(s, x, y)
      PROVE  Precedes(t, x, y)
  <2>1. x = y \/ Precedes(t, x, y) \/ Precedes(t, y, x)
    BY <1>0, <1>2, PrecedesOrders
  <2>2. x # y /\ ~Precedes(s, y, x)
    BY <1>5, PrecedesOrders
  <2> QED BY <2>1, <2>2, <1>4
<1>6. KeepsOrder(s, t)
  BY <1>0, <1>2, <1>5, KeepsOrderIs
<1> QED BY <1>6 DEF t
-----------------------------------------------------------------------------
SaveRecord ==
    [at : {"idle", "reprint", "baseline", "sent", "confirm"},
     body : Chat \cup {NoChat}, base : Chat \cup {NoChat},
     rev : Chat \cup {NoChat}, tries : 0..2]
SyncRecord == [chat : Chat, held : BOOLEAN, versioned : BOOLEAN]
MineRecord ==
    [added : SUBSET Message, removed : SUBSET Message, returning : SUBSET Message,
     unsure : SUBSET Message, typed : SUBSET (1..MaxSaves), kept : BOOLEAN]

(* The page while it saves: it has a chat to send, and what it merges from *)
(* is what it knows to be saved.                                           *)
SaveShape ==
    /\ StoreInv
    /\ SavesTypeOK
    /\ save.at = "idle" => save = Idle
    /\ save.at # "idle" => save.body \in Chat
    /\ save.at = "sent" => sync.versioned
    /\ save.at = "confirm" /\ ~sync.versioned => sync.chat = save.body
    /\ save.base \in {NoChat, sync.chat}
    /\ stray = NoRequest \/ (stray.base \in Chat /\ stray.body \in Chat)

(* No chat has a message twice.                                            *)
ChatsOnce ==
    /\ IsInjective(live.msgs) /\ IsInjective(view.msgs) /\ IsInjective(sync.chat.msgs)
    /\ save.at # "idle" => IsInjective(save.body.msgs)
    /\ stray # NoRequest => IsInjective(stray.body.msgs)

(* Where messages can be: what the page has known to be saved left the     *)
(* server only by a deletion, and what it has and the server serves is     *)
(* known to it or in doubt.                                                *)
MessagesInv ==
    /\ Shown(live) \cup acked.removed = acked.added
    /\ Shown(sync.chat) \subseteq acked.added
    /\ Shown(view) \cup mine.removed \cup mine.returning \subseteq mine.added \cup acked.added
    /\ save.at # "idle" => Shown(save.body) \subseteq mine.added \cup acked.added
    /\ stray # NoRequest => Shown(stray.body) \subseteq mine.unsure
    /\ mine.unsure \subseteq mine.added \cup acked.added
    /\ Shown(live) \cap (mine.removed \cup Shown(view)) \subseteq mine.unsure \cup Shown(sync.chat)
    /\ mine.removed \cap mine.unsure = {}

(* A text of the page that is not saved yet is in no chat that the server  *)
(* serves or the page merges from.                                         *)
TextsInv ==
    /\ \A v \in mine.typed : v <= acked.saves
    /\ live.ver <= acked.saves /\ view.ver <= acked.saves /\ sync.chat.ver <= acked.saves
    /\ save.at # "idle" => save.body.ver <= acked.saves
    /\ stray # NoRequest => stray.body.ver <= acked.saves
    /\ HasNewest(live) \/ HasNewest(sync.chat) => mine.kept

(* What is not tracked has been saved, or is being saved.                  *)
Settled == ~tracked => view = IF save.at = "idle" THEN sync.chat ELSE save.body

SavesInv ==
    SaveShape /\ ChatsOnce /\ MessagesInv /\ TextsInv /\ ViewKeepsEdits /\ Settled

(* The type invariant with its record types named, now and in the next     *)
(* state.                                                                  *)
LEMMA SavesTypes ==
    SavesTypeOK <=>
        /\ StoreTypeOK
        /\ view \in Chat
        /\ tracked \in BOOLEAN
        /\ sync \in SyncRecord
        /\ save \in SaveRecord
        /\ stray \in [base : Chat \cup {NoChat}, body : Chat \cup {NoChat}]
        /\ mine \in MineRecord
        /\ faults \in 0..MaxFaults
  BY DEF SavesTypeOK, SyncRecord, SaveRecord, MineRecord

LEMMA SavesTypesNext ==
    SavesTypeOK' <=>
        /\ StoreTypeOK'
        /\ view' \in Chat
        /\ tracked' \in BOOLEAN
        /\ sync' \in SyncRecord
        /\ save' \in SaveRecord
        /\ stray' \in [base : Chat \cup {NoChat}, body : Chat \cup {NoChat}]
        /\ mine' \in MineRecord
        /\ faults' \in 0..MaxFaults
  BY DEF SavesTypeOK, SyncRecord, SaveRecord, MineRecord

(* An attempt ends the save because nothing is left to send, or goes on    *)
(* with the same body and base.                                            *)
LEMMA AttemptCases ==
    ASSUME NEW s \in SaveRecord, NEW known \in SyncRecord
    PROVE  \/ Attempt(s, known) = Idle /\ known.chat = s.body
           \/ /\ Attempt(s, known) \in SaveRecord
              /\ Attempt(s, known).at \in {"baseline", "sent"}
              /\ Attempt(s, known).at = "sent" => known.versioned
              /\ Attempt(s, known).body = s.body
              /\ Attempt(s, known).base = s.base
<1>1. CASE ~known.versioned
  BY <1>1 DEF Attempt, SaveRecord
<1>2. CASE known.versioned /\ known.held /\ known.chat = s.body
  BY <1>2 DEF Attempt
<1>3. CASE known.versioned /\ ~(known.held /\ known.chat = s.body)
  BY <1>3 DEF Attempt, SaveRecord
<1> QED
  BY <1>1, <1>2, <1>3

LEMMA IdleTyped == Idle \in SaveRecord
  BY DEF Idle, SaveRecord

(* The initial states have the invariant.                                  *)
LEMMA SavesInvInit == SavesInit => SavesInv
<1> SUFFICES ASSUME SavesInit PROVE SavesInv
  OBVIOUS
<1> USE DEF SavesInit
<1>1. /\ StoreInv
      /\ live \in Chat /\ live.msgs = <<>> /\ live.ver = 0
      /\ acked.saves = 0 /\ acked.added = {} /\ acked.removed = {}
  BY StoreInvInit DEF StoreInv, StoreTypeOK, StoreInit
<1>2. Shown(live) = {} /\ IsInjective(live.msgs)
  BY <1>1 DEF Shown, ToSet, IsInjective
<1>3. sync.chat = live /\ sync \in SyncRecord
  BY <1>1 DEF Known, SyncRecord
<1>4. save.at = "idle" /\ save.base = NoChat /\ save \in SaveRecord
  BY IdleTyped DEF Idle
<1>5. SavesTypeOK
  <2>1. mine \in MineRecord
    BY DEF MineRecord
  <2>2. faults \in 0..MaxFaults
    BY ClientAssumption
  <2> QED
    BY <1>1, <1>3, <1>4, <2>1, <2>2, SavesTypes DEF StoreInv, NoRequest
<1>6. SaveShape
  BY <1>1, <1>4, <1>5 DEF SaveShape
<1>7. ChatsOnce
  BY <1>2, <1>3, <1>4 DEF ChatsOnce
<1>8. MessagesInv
  BY <1>1, <1>2, <1>3, <1>4 DEF MessagesInv
<1>9. TextsInv
  BY <1>1, <1>3, <1>4 DEF TextsInv
<1>10. ViewKeepsEdits
  BY DEF ViewKeepsEdits
<1> QED
  BY <1>3, <1>4, <1>6, <1>7, <1>8, <1>9, <1>10 DEF SavesInv, Settled
-----------------------------------------------------------------------------
(* What every proof below starts from.                                     *)
LEMMA SavesFacts ==
    ASSUME SavesInv
    PROVE  /\ StoreInv /\ StoreTypeOK /\ SavesTypeOK
           /\ live \in Chat /\ view \in Chat /\ sync.chat \in Chat
           /\ acked \in Acked /\ acked.saves \in 0..MaxSaves
           /\ sync \in SyncRecord /\ save \in SaveRecord /\ mine \in MineRecord
           /\ tracked \in BOOLEAN /\ faults \in 0..MaxFaults
           /\ stray \in [base : Chat \cup {NoChat}, body : Chat \cup {NoChat}]
<1>1. SavesTypeOK /\ StoreInv
  BY DEF SavesInv, SaveShape
<1>2. StoreTypeOK /\ sync \in SyncRecord
  BY <1>1, SavesTypes
<1>3. sync.chat \in Chat /\ live \in Chat /\ acked \in Acked
  BY <1>2 DEF SyncRecord, StoreTypeOK
<1>4. acked.saves \in 0..MaxSaves
  BY <1>3 DEF Acked
<1> QED
  BY <1>1, <1>2, <1>3, <1>4, SavesTypes

(* Steps that leave the store alone.                                       *)
LEMMA StoreKept == StoreInv /\ UNCHANGED storeVars => StoreInv'
  BY DEF StoreInv, storeVars, StoreTypeOK, RestartLosesNothing, Reloaded

(* The server takes a body of the page.                                    *)
LEMMA TakesBody ==
    ASSUME SavesInv, NEW base, NEW body \in Chat, Accepts(base, body)
    PROVE  /\ live = base
           /\ live' = body
           /\ StoreInv'
           /\ acked'.saves = acked.saves
           /\ acked'.added = acked.added \cup Shown(body)
           /\ acked.removed \subseteq acked'.removed
           /\ Shown(live') \cup acked'.removed = acked'.added
<1>1. StoreInv /\ acked \in Acked /\ live \in Chat
  BY SavesFacts
<1>2. /\ acked.added \in SUBSET Message /\ acked.removed \in SUBSET Message
      /\ acked.saves \in 0..MaxSaves /\ acked.ver \in 0..MaxSaves
  BY <1>1 DEF Acked
<1>3. Shown(live) \cup acked.removed = acked.added
  BY DEF SavesInv, MessagesInv
<1>4. /\ acked' = [acked EXCEPT !.ver = body.ver,
                                !.added = @ \cup (Shown(body) \ Shown(live)),
                                !.removed = @ \cup (Shown(live) \ Shown(body))]
      /\ live = base /\ live' = body /\ staged' = body /\ slot = Free
      /\ UNCHANGED <<applied, image, slot>>
  BY DEF Accepts
<1>5. /\ acked'.saves = acked.saves
      /\ acked'.ver = body.ver
      /\ acked'.added = acked.added \cup (Shown(body) \ Shown(live))
      /\ acked'.removed = acked.removed \cup (Shown(live) \ Shown(body))
      /\ acked' = [saves |-> acked'.saves, ver |-> acked'.ver,
                   added |-> acked'.added, removed |-> acked'.removed]
  BY <1>1, <1>4 DEF Acked
<1>6. Shown(body) \subseteq Message /\ body.ver \in 0..MaxSaves
  <2>1. body.msgs \in Seq(Message) /\ body.ver \in 0..MaxSaves
    BY DEF Chat
  <2> QED
    BY <2>1, ToSetSeq DEF Shown
<1>7. acked' \in Acked
  <2>1. /\ acked'.saves \in 0..MaxSaves /\ acked'.ver \in 0..MaxSaves
        /\ acked'.added \in SUBSET Message /\ acked'.removed \in SUBSET Message
    BY <1>2, <1>3, <1>5, <1>6
  <2> QED
    BY <1>5, <2>1 DEF Acked
<1>8. StoreInv'
  BY <1>1, <1>4, <1>7, StoreAssumption
     DEF StoreInv, StoreTypeOK, RestartLosesNothing, Reloaded
<1> QED
  BY <1>3, <1>4, <1>5, <1>8
-----------------------------------------------------------------------------
(* The user counts one edit up.                                            *)
LEMMA EditCounts ==
    ASSUME SavesInv, UserEdit
    PROVE  /\ StoreInv'
           /\ acked.saves + 1 \in 1..MaxSaves
           /\ acked'.saves = acked.saves + 1
           /\ acked'.added = acked.added /\ acked'.removed = acked.removed
           /\ live' = live /\ tracked' = TRUE
           /\ UNCHANGED <<sync, save, stray, faults>>
<1>1. StoreInv /\ acked \in Acked /\ acked.saves \in 0..MaxSaves
  BY SavesFacts
<1>2. /\ acked.saves < MaxSaves /\ acked' = [acked EXCEPT !.saves = @ + 1]
      /\ UNCHANGED <<live, applied, image, staged, slot, sync, save, stray, faults>>
      /\ tracked' = TRUE
  BY DEF UserEdit, Counted
<1>3. acked.saves + 1 \in 1..MaxSaves
  BY <1>1, <1>2, StoreAssumption
<1>4. /\ acked' \in Acked /\ acked'.saves = acked.saves + 1
      /\ acked'.added = acked.added /\ acked'.removed = acked.removed
  BY <1>1, <1>2, <1>3 DEF Acked
<1>5. StoreInv'
  BY <1>1, <1>2, <1>4 DEF StoreInv, StoreTypeOK, RestartLosesNothing, Reloaded
<1> QED
  BY <1>2, <1>3, <1>4, <1>5

(* The edits of the user: a text, a message, a deletion.                   *)
LEMMA TypeKeeps == SavesInv /\ Type => SavesInv'
<1> SUFFICES ASSUME SavesInv, Type PROVE SavesInv'
  OBVIOUS
<1> DEFINE v == acked.saves + 1
<1>1. /\ StoreInv' /\ v \in 1..MaxSaves /\ acked'.saves = v
      /\ acked'.added = acked.added /\ acked'.removed = acked.removed
      /\ live' = live /\ tracked' = TRUE
      /\ UNCHANGED <<sync, save, stray, faults>>
  BY EditCounts DEF Type
<1>2. /\ view \in Chat /\ mine \in MineRecord /\ StoreTypeOK' /\ acked.saves \in Nat
      /\ live.ver \in Nat /\ sync.chat.ver \in Nat /\ live \in Chat /\ sync.chat \in Chat
  BY <1>1, SavesFacts, StoreAssumption DEF StoreInv, Chat
<1>3. /\ view' \in Chat /\ view'.ver = v /\ view'.msgs = view.msgs
  BY <1>1, <1>2 DEF Type, Chat
<1>4. /\ mine'.typed = mine.typed \cup {v} /\ mine'.kept = FALSE
      /\ mine'.added = mine.added /\ mine'.removed = mine.removed
      /\ mine'.returning = mine.returning /\ mine'.unsure = mine.unsure
      /\ mine' \in MineRecord
  BY <1>1, <1>2 DEF Type, MineRecord
<1>5. mine.typed \subseteq Nat /\ \A x \in mine.typed : x <= acked.saves
  BY <1>2 DEF SavesInv, TextsInv, MineRecord
<1> HIDE DEF v
<1>6. SaveShape'
  <2>1. SavesTypeOK'
    BY <1>1, <1>2, <1>3, <1>4, SavesFacts, SavesTypesNext
  <2> QED
    BY <1>1, <2>1 DEF SavesInv, SaveShape
<1>7. ChatsOnce'
  BY <1>1, <1>3 DEF SavesInv, ChatsOnce
<1>8. MessagesInv'
  BY <1>1, <1>3, <1>4 DEF SavesInv, MessagesInv, Shown
<1>9. TextsInv'
  <2>1. live.ver <= acked.saves /\ sync.chat.ver <= acked.saves
    BY DEF SavesInv, TextsInv
  <2>2. ~HasNewest(live)' /\ ~HasNewest(sync.chat)'
    <3>1. ~(v <= live.ver) /\ ~(v <= sync.chat.ver) /\ v \in mine'.typed
      BY <1>2, <1>4, <2>1 DEF v
    <3>2. live' = live /\ sync' = sync
      BY <1>1
    <3> QED
      BY <3>1, <3>2 DEF HasNewest
  <2>3. \A x \in mine'.typed : x <= v
    BY <1>2, <1>4, <1>5 DEF v
  <2>4. /\ save.at # "idle" => save.body.ver <= v
        /\ stray # NoRequest => stray.body.ver <= v
    <3>1. /\ save.at # "idle" => save.body \in Chat /\ save.body.ver <= acked.saves
          /\ stray # NoRequest => stray.body \in Chat /\ stray.body.ver <= acked.saves
      BY DEF SavesInv, TextsInv, SaveShape
    <3>2. ASSUME NEW chat \in Chat, chat.ver <= acked.saves PROVE chat.ver <= v
      BY <3>2, <1>2 DEF v, Chat
    <3> QED
      BY <3>1, <3>2
  <2>5. live.ver <= v /\ sync.chat.ver <= v /\ v <= v
    BY <1>2, <2>1 DEF v
  <2> QED
    BY <1>1, <1>3, <2>2, <2>3, <2>4, <2>5 DEF TextsInv
<1>10. ViewKeepsEdits'
  <2>1. HasNewest(view)'
    BY <1>2, <1>3, <1>4, <1>5 DEF HasNewest, v
  <2> QED
    BY <1>1, <1>3, <1>4, <2>1 DEF SavesInv, ViewKeepsEdits, Shown
<1> QED
  BY <1>1, <1>6, <1>7, <1>8, <1>9, <1>10 DEF SavesInv, Settled
-----------------------------------------------------------------------------
(* An edit of the page that leaves its text and what was saved of it.      *)
LEMMA EditKeepsTexts ==
    ASSUME SavesInv, UserEdit, view'.ver = view.ver, mine'.typed = mine.typed,
           mine'.kept = mine.kept
    PROVE  /\ TextsInv'
           /\ mine'.kept \/ HasNewest(view)'
<1>1. /\ acked'.saves = acked.saves + 1 /\ live' = live
      /\ UNCHANGED <<sync, save, stray>>
  BY EditCounts
<1>2. /\ acked.saves \in Nat /\ mine \in MineRecord
      /\ live \in Chat /\ view \in Chat /\ sync.chat \in Chat
  BY SavesFacts, StoreAssumption
<1>3. ASSUME NEW chat \in Chat, chat.ver <= acked.saves
      PROVE  chat.ver <= acked'.saves
  BY <1>1, <1>2, <1>3, StoreAssumption DEF Chat
<1>4. \A x \in mine.typed : x <= acked'.saves
  <2>1. mine.typed \subseteq Nat /\ \A x \in mine.typed : x <= acked.saves
    BY <1>2 DEF SavesInv, TextsInv, MineRecord
  <2> QED
    BY <2>1, <1>1, <1>2
<1>5. live'.ver <= acked'.saves /\ view'.ver <= acked'.saves /\ sync'.chat.ver <= acked'.saves
  <2>1. live.ver <= acked.saves /\ view.ver <= acked.saves /\ sync.chat.ver <= acked.saves
    BY DEF SavesInv, TextsInv
  <2> QED
    BY <2>1, <1>1, <1>2, <1>3
<1>6. /\ save'.at # "idle" => save'.body.ver <= acked'.saves
      /\ stray' # NoRequest => stray'.body.ver <= acked'.saves
  <2>1. /\ save.at # "idle" => save.body \in Chat /\ save.body.ver <= acked.saves
        /\ stray # NoRequest => stray.body \in Chat /\ stray.body.ver <= acked.saves
    BY DEF SavesInv, TextsInv, SaveShape
  <2> QED
    BY <2>1, <1>1, <1>3
<1>7. HasNewest(live)' \/ HasNewest(sync.chat)' => mine'.kept
  BY <1>1 DEF SavesInv, TextsInv, HasNewest
<1>8. mine'.kept \/ HasNewest(view)'
  BY DEF SavesInv, ViewKeepsEdits, HasNewest
<1> QED
  BY <1>4, <1>5, <1>6, <1>7, <1>8 DEF TextsInv

LEMMA WriteKeeps ==
    ASSUME SavesInv, NEW n \in Notes, Write(n)
    PROVE  SavesInv'
<1>1. /\ StoreInv' /\ StoreTypeOK'
      /\ acked'.added = acked.added /\ acked'.removed = acked.removed
      /\ live' = live /\ tracked' = TRUE
      /\ UNCHANGED <<sync, save, stray, faults>>
  BY EditCounts DEF Write, StoreInv
<1>2. view \in Chat /\ mine \in MineRecord
  BY SavesFacts
<1>3. Note(n) \in Message /\ Note(n) \notin acked.added /\ Note(n) \notin mine.added
  BY DEF Note, Message, Write
<1>4. Note(n) \notin Shown(view)
  BY <1>3 DEF SavesInv, MessagesInv
<1>5. PICK k \in 0..Len(view.msgs) : view' = Insert(view, k, Note(n))
  BY DEF Write
<1>6. /\ view' \in Chat /\ view'.ver = view.ver
      /\ Shown(view)' = Shown(view) \cup {Note(n)}
  BY <1>2, <1>3, <1>5, InsertChat DEF Shown
<1>7. IsInjective(view'.msgs)
  <2>1. IsInjective(view.msgs)
    BY DEF SavesInv, ChatsOnce
  <2> QED
    BY <2>1, <1>2, <1>3, <1>4, <1>5, InsertOnce
<1>8. /\ mine'.added = mine.added \cup {Note(n)} /\ mine'.removed = mine.removed
      /\ mine'.returning = mine.returning /\ mine'.unsure = mine.unsure
      /\ mine'.typed = mine.typed /\ mine'.kept = mine.kept
      /\ mine' \in MineRecord
  BY <1>2, <1>3 DEF Write, MineRecord
<1>9. SaveShape'
  <2>1. SavesTypeOK'
    BY <1>1, <1>6, <1>8, SavesFacts, SavesTypesNext
  <2> QED
    BY <1>1, <2>1 DEF SavesInv, SaveShape
<1>10. ChatsOnce'
  BY <1>1, <1>7 DEF SavesInv, ChatsOnce
<1>11. MessagesInv'
  <2>1. Shown(live)' = Shown(live) /\ Shown(sync.chat)' = Shown(sync.chat)
    BY <1>1 DEF Shown
  <2>2. Note(n) \notin Shown(live)
    BY <1>3 DEF SavesInv, MessagesInv
  <2>3. /\ save'.at # "idle" => Shown(save'.body) \subseteq mine'.added \cup acked'.added
        /\ stray' # NoRequest => Shown(stray'.body) \subseteq mine'.unsure
    BY <1>1, <1>8 DEF SavesInv, MessagesInv
  <2> QED
    BY <1>1, <1>6, <1>8, <2>1, <2>2, <2>3 DEF SavesInv, MessagesInv
<1>12. TextsInv' /\ (mine'.kept \/ HasNewest(view)')
  BY <1>6, <1>8, EditKeepsTexts DEF Write
<1>13. ViewKeepsEdits'
  <2>1. Note(n) \notin mine.removed
    BY <1>3 DEF SavesInv, MessagesInv
  <2> QED
    BY <1>1, <1>6, <1>8, <1>12, <2>1 DEF SavesInv, ViewKeepsEdits
<1> QED
  BY <1>1, <1>9, <1>10, <1>11, <1>12, <1>13 DEF SavesInv, Settled

LEMMA StrikeKeeps ==
    ASSUME SavesInv, NEW k \in DOMAIN view.msgs, Strike(k)
    PROVE  SavesInv'
<1> DEFINE m == view.msgs[k]
<1>1. /\ StoreInv' /\ StoreTypeOK'
      /\ acked'.added = acked.added /\ acked'.removed = acked.removed
      /\ live' = live /\ tracked' = TRUE
      /\ UNCHANGED <<sync, save, stray, faults>>
  BY EditCounts DEF Strike, StoreInv
<1>2. view \in Chat /\ mine \in MineRecord
  BY SavesFacts
<1>3. m \in Message /\ m \in Shown(view)
  <2>1. view.msgs \in Seq(Message)
    BY <1>2 DEF Chat
  <2> QED
    BY <2>1 DEF Shown, ToSet
<1>4. IsInjective(view.msgs)
  BY DEF SavesInv, ChatsOnce
<1>5. /\ view' \in Chat /\ view'.ver = view.ver
      /\ IsInjective(view'.msgs)
      /\ Shown(view)' = Shown(view) \ {m}
  <2>1. view' = Drop(view, k)
    BY DEF Strike
  <2>2. /\ Shown(Drop(view, k)) \subseteq Shown(view)
        /\ Shown(view) \ {m} \subseteq Shown(Drop(view, k))
        /\ m \notin Shown(Drop(view, k))
        /\ Drop(view, k) \in Chat /\ Drop(view, k).ver = view.ver
        /\ IsInjective(Drop(view, k).msgs)
    BY <1>2, <1>4, DropChat, DropOnce
  <2>3. Shown(view)' = Shown(Drop(view, k))
    BY <2>1 DEF Shown
  <2> QED
    BY <2>1, <2>2, <2>3
<1> HIDE DEF m
<1>6. /\ mine'.added = mine.added /\ mine'.unsure = mine.unsure
      /\ mine'.typed = mine.typed /\ mine'.kept = mine.kept
      /\ \/ /\ m \in mine.unsure
            /\ mine'.returning = mine.returning \cup {m} /\ mine'.removed = mine.removed
         \/ /\ m \notin mine.unsure
            /\ mine'.returning = mine.returning /\ mine'.removed = mine.removed \cup {m}
      /\ mine' \in MineRecord
  <2>1. CASE m \in mine.unsure
    <3>1. mine' = [mine EXCEPT !.returning = @ \cup {m}]
      BY <2>1 DEF Strike, m
    <3> QED
      BY <3>1, <2>1, <1>2, <1>3 DEF MineRecord
  <2>2. CASE m \notin mine.unsure
    <3>1. mine' = [mine EXCEPT !.removed = @ \cup {m}]
      BY <2>2 DEF Strike, m
    <3> QED
      BY <3>1, <2>2, <1>2, <1>3 DEF MineRecord
  <2> QED
    BY <2>1, <2>2
<1>7. SaveShape'
  <2>1. SavesTypeOK'
    BY <1>1, <1>5, <1>6, SavesFacts, SavesTypesNext
  <2> QED
    BY <1>1, <2>1 DEF SavesInv, SaveShape
<1>8. ChatsOnce'
  BY <1>1, <1>5 DEF SavesInv, ChatsOnce
<1>9. MessagesInv'
  <2>1. Shown(live)' = Shown(live) /\ Shown(sync.chat)' = Shown(sync.chat)
    BY <1>1 DEF Shown
  <2>2. /\ save'.at # "idle" => Shown(save'.body) \subseteq mine'.added \cup acked'.added
        /\ stray' # NoRequest => Shown(stray'.body) \subseteq mine'.unsure
    BY <1>1, <1>6 DEF SavesInv, MessagesInv
  <2>3. m \in mine.added \cup acked.added /\ (m \in Shown(live) => m \in mine.unsure \cup Shown(sync.chat))
    BY <1>3 DEF SavesInv, MessagesInv
  <2>4. Shown(live) \cap (mine'.removed \cup Shown(view)') \subseteq mine.unsure \cup Shown(sync.chat)
    BY <1>5, <1>6, <2>3 DEF SavesInv, MessagesInv
  <2>5. Shown(view)' \cup mine'.removed \cup mine'.returning \subseteq mine.added \cup acked.added
    BY <1>5, <1>6, <2>3 DEF SavesInv, MessagesInv
  <2> QED
    BY <1>1, <1>6, <2>1, <2>2, <2>4, <2>5 DEF SavesInv, MessagesInv
<1>10. TextsInv' /\ (mine'.kept \/ HasNewest(view)')
  BY <1>5, <1>6, EditKeepsTexts DEF Strike
<1>11. ViewKeepsEdits'
  BY <1>1, <1>5, <1>6, <1>10 DEF SavesInv, ViewKeepsEdits
<1> QED
  BY <1>1, <1>7, <1>8, <1>9, <1>10, <1>11 DEF SavesInv, Settled
-----------------------------------------------------------------------------
(* Someone else saves: nothing of the page changes, and what is new on the *)
(* server is new to the page as well.                                      *)
LEMMA OthersChange ==
    ASSUME SavesInv, OtherSave
    PROVE  /\ StoreInv'
           /\ live' \in Chat /\ IsInjective(live'.msgs)
           /\ acked'.saves = acked.saves + 1
           /\ live'.ver <= acked'.saves /\ ~(live'.ver # live.ver /\ live'.ver <= acked.saves)
           /\ acked.added \subseteq acked'.added /\ acked.removed \subseteq acked'.removed
           /\ Shown(live)' \cup acked'.removed = acked'.added
           /\ Shown(live)' \cap (mine.added \cup acked.added) \subseteq Shown(live)
           /\ acked'.added \cap mine.added \subseteq acked.added
<1>1. /\ live \in Chat /\ acked \in Acked /\ acked.saves \in 0..MaxSaves
      /\ StoreInv /\ live.ver \in 0..MaxSaves /\ live.ver <= acked.saves
      /\ Shown(live) \cup acked.removed = acked.added
      /\ IsInjective(live.msgs) /\ MaxSaves \in Nat
  BY SavesFacts, StoreAssumption DEF SavesInv, TextsInv, MessagesInv, ChatsOnce, Chat
<1>2. StoreInv'
  BY <1>1, StoreInvNext DEF OtherSave, StoreNext
<1> PICK edit \in Edits(live) :
           live' = edit[1] /\ acked' = [edit[2] EXCEPT !.saves = @ + 1]
  BY DEF OtherSave, ClientSave, SaveFrom
<1>3. Shown(live') \cap mine.added \subseteq Shown(live) /\ Shown(live)' = Shown(live')
  BY DEF OtherSave, Shown
<1>4. CASE edit = <<[live EXCEPT !.ver = acked.saves + 1],
                    [acked EXCEPT !.ver = acked.saves + 1]>>
  <2>1. /\ live'.msgs = live.msgs /\ live'.ver = acked.saves + 1
        /\ acked'.saves = acked.saves + 1
        /\ acked'.added = acked.added /\ acked'.removed = acked.removed
    BY <1>1, <1>4 DEF Chat, Acked
  <2>2. live' \in Chat
    BY <1>2 DEF StoreInv, StoreTypeOK
  <2>3. acked.saves + 1 <= acked.saves + 1 /\ ~(acked.saves + 1 <= acked.saves)
    BY <1>1
  <2> QED
    BY <1>1, <1>2, <2>1, <2>2, <2>3 DEF Shown
<1>5. CASE \E k \in 0..Len(live.msgs), n \in {x \in Notes : Note(x) \notin acked.added} :
             edit = <<Insert(live, k, Note(n)),
                      [acked EXCEPT !.added = @ \cup {Note(n)}]>>
  <2> PICK k \in 0..Len(live.msgs), n \in {x \in Notes : Note(x) \notin acked.added} :
             edit = <<Insert(live, k, Note(n)),
                      [acked EXCEPT !.added = @ \cup {Note(n)}]>>
    BY <1>5
  <2>1. /\ live' = Insert(live, k, Note(n)) /\ acked'.saves = acked.saves + 1
        /\ acked'.added = acked.added \cup {Note(n)} /\ acked'.removed = acked.removed
    BY <1>1 DEF Acked
  <2>2. Note(n) \in Message /\ Note(n) \notin acked.added
    BY DEF Note, Message
  <2>3. Note(n) \notin Shown(live)
    BY <1>1, <2>2
  <2>4. live' \in Chat /\ live'.ver = live.ver /\ Shown(live') = Shown(live) \cup {Note(n)}
    BY <1>1, <2>1, <2>2, InsertChat
  <2>5. IsInjective(live'.msgs)
    BY <1>1, <2>1, <2>2, <2>3, InsertOnce
  <2>6. live.ver <= acked.saves + 1
    BY <1>1
  <2> QED
    BY <1>1, <1>2, <1>3, <2>1, <2>2, <2>3, <2>4, <2>5, <2>6
<1>6. CASE \E k \in DOMAIN live.msgs :
             edit = <<Drop(live, k),
                      [acked EXCEPT !.removed = @ \cup {live.msgs[k]}]>>
  <2> PICK k \in DOMAIN live.msgs :
             edit = <<Drop(live, k),
                      [acked EXCEPT !.removed = @ \cup {live.msgs[k]}]>>
    BY <1>6
  <2>1. /\ live' = Drop(live, k) /\ acked'.saves = acked.saves + 1
        /\ acked'.added = acked.added
        /\ acked'.removed = acked.removed \cup {live.msgs[k]}
    BY <1>1 DEF Acked
  <2>2. live.msgs[k] \in Shown(live)
    BY DEF Shown, ToSet
  <2>3. /\ live' \in Chat /\ live'.ver = live.ver /\ Shown(live') \subseteq Shown(live)
        /\ Shown(live) \ {live.msgs[k]} \subseteq Shown(live')
    BY <1>1, <2>1, DropChat
  <2>4. IsInjective(live'.msgs)
    BY <1>1, <2>1, DropOnce
  <2>5. live.ver <= acked.saves + 1
    BY <1>1
  <2> QED
    BY <1>1, <1>2, <1>3, <2>1, <2>2, <2>3, <2>4, <2>5
<1> QED
  BY <1>4, <1>5, <1>6 DEF Edits

(* A save of others keeps the invariant.                                   *)
LEMMA OtherSaveKeeps == SavesInv /\ OtherSave => SavesInv'
<1> SUFFICES ASSUME SavesInv, OtherSave PROVE SavesInv'
  OBVIOUS
<1>1. UNCHANGED <<view, tracked, sync, save, stray, mine, faults>>
  BY DEF OtherSave, pageVars
<1>2. /\ acked.saves \in Nat /\ live \in Chat /\ view \in Chat /\ sync.chat \in Chat
      /\ mine \in MineRecord /\ StoreTypeOK'
  BY SavesFacts, OthersChange, StoreAssumption DEF StoreInv
<1>3. /\ acked'.saves = acked.saves + 1 /\ live'.ver <= acked'.saves
      /\ ~(live'.ver # live.ver /\ live'.ver <= acked.saves)
  BY OthersChange
<1>4. SaveShape'
  <2>1. SavesTypeOK'
    BY <1>1, <1>2, SavesFacts, SavesTypesNext
  <2> QED
    BY <1>1, <2>1, OthersChange DEF SavesInv, SaveShape
<1>5. ChatsOnce'
  BY <1>1, OthersChange DEF SavesInv, ChatsOnce
<1>6. MessagesInv'
  <2>1. Shown(view)' = Shown(view) /\ Shown(sync.chat)' = Shown(sync.chat)
    BY <1>1 DEF Shown
  <2>2. Shown(live)' \cap (mine.removed \cup Shown(view)) \subseteq Shown(live)
    BY OthersChange DEF SavesInv, MessagesInv
  <2>3. /\ save'.at # "idle" => Shown(save'.body) \subseteq mine'.added \cup acked'.added
        /\ stray' # NoRequest => Shown(stray'.body) \subseteq mine'.unsure
    BY <1>1, OthersChange DEF SavesInv, MessagesInv
  <2>4. Shown(view) \cup mine.removed \cup mine.returning \subseteq mine.added \cup acked'.added
        /\ mine.unsure \subseteq mine.added \cup acked'.added
    BY OthersChange DEF SavesInv, MessagesInv
  <2> QED
    BY <1>1, <2>1, <2>2, <2>3, <2>4, OthersChange DEF SavesInv, MessagesInv
<1>7. TextsInv'
  <2>1. ASSUME NEW chat \in Chat, chat.ver <= acked.saves
        PROVE  chat.ver <= acked'.saves
    BY <1>2, <1>3, <2>1, StoreAssumption DEF Chat
  <2>2. \A x \in mine.typed : x <= acked.saves /\ x <= acked'.saves
    <3>1. mine.typed \subseteq Nat /\ \A x \in mine.typed : x <= acked.saves
      BY <1>2 DEF SavesInv, TextsInv, MineRecord
    <3> QED
      BY <3>1, <1>2, <1>3
  <2>3. /\ view.ver <= acked'.saves /\ sync.chat.ver <= acked'.saves
        /\ save.at # "idle" => save.body.ver <= acked'.saves
        /\ stray # NoRequest => stray.body.ver <= acked'.saves
    <3>1. /\ view.ver <= acked.saves /\ sync.chat.ver <= acked.saves
          /\ save.at # "idle" => save.body \in Chat /\ save.body.ver <= acked.saves
          /\ stray # NoRequest => stray.body \in Chat /\ stray.body.ver <= acked.saves
      BY DEF SavesInv, TextsInv, SaveShape
    <3> QED
      BY <3>1, <2>1, <1>2
  <2>4. HasNewest(live)' => HasNewest(live)
    BY <1>1, <1>3, <2>2 DEF HasNewest
  <2>5. HasNewest(sync.chat)' => HasNewest(sync.chat)
    BY <1>1 DEF HasNewest
  <2> QED
    BY <1>1, <1>3, <2>2, <2>3, <2>4, <2>5 DEF SavesInv, TextsInv
<1>8. ViewKeepsEdits'
  BY <1>1, OthersChange DEF SavesInv, ViewKeepsEdits, Shown, HasNewest
<1> QED
  BY <1>1, <1>4, <1>5, <1>6, <1>7, <1>8 DEF SavesInv, Settled
-----------------------------------------------------------------------------
(* Steps that leave the chats of the page and of the server, and what the  *)
(* user has done, as they are.                                             *)
LEMMA SameChats ==
    ASSUME SavesInv, StoreInv', UNCHANGED <<live, acked, view, stray, mine>>,
           sync'.chat = sync.chat, sync' \in SyncRecord, save' \in SaveRecord,
           tracked' \in BOOLEAN, faults' \in 0..MaxFaults,
           save'.at = "idle" => save' = Idle,
           save'.at # "idle" => \/ save.at # "idle" /\ save'.body = save.body
                                \/ save'.body = view,
           save'.at = "sent" => sync'.versioned,
           save'.at = "confirm" /\ ~sync'.versioned => sync.chat = save'.body,
           save'.base \in {NoChat, sync.chat},
           Settled'
    PROVE  SavesInv'
<1>1. /\ view \in Chat /\ mine \in MineRecord
      /\ stray \in [base : Chat \cup {NoChat}, body : Chat \cup {NoChat}]
      /\ StoreTypeOK'
  BY SavesFacts DEF StoreInv
<1>2. save'.at # "idle" =>
         /\ save'.body \in Chat
         /\ IsInjective(save'.body.msgs)
         /\ Shown(save'.body) \subseteq mine.added \cup acked.added
         /\ save'.body.ver <= acked.saves
  BY <1>1 DEF SavesInv, SaveShape, ChatsOnce, MessagesInv, TextsInv
<1>3. SaveShape'
  <2>1. SavesTypeOK'
    BY <1>1, SavesTypesNext
  <2> QED
    BY <1>2, <2>1 DEF SavesInv, SaveShape
<1>4. ChatsOnce'
  BY <1>2 DEF SavesInv, ChatsOnce
<1>5. MessagesInv'
  BY <1>2 DEF SavesInv, MessagesInv, Shown
<1>6. TextsInv'
  BY <1>2 DEF SavesInv, TextsInv, HasNewest
<1>7. ViewKeepsEdits'
  BY DEF SavesInv, ViewKeepsEdits, Shown, HasNewest
<1> QED
  BY <1>3, <1>4, <1>5, <1>6, <1>7 DEF SavesInv
-----------------------------------------------------------------------------
(* Persists and restarts of the server: the chat that it serves stays.     *)
LEMMA StoreStepKeeps == SavesInv /\ StoreStep => SavesInv'
<1> SUFFICES ASSUME SavesInv, StoreStep PROVE SavesInv'
  OBVIOUS
<1>1. UNCHANGED <<view, tracked, sync, save, stray, mine, faults>>
  BY DEF StoreStep, pageVars
<1>2. StoreInv'
  BY SavesFacts, StoreInvNext DEF StoreStep, StoreNext
<1>3. live' = live /\ acked' = acked
  BY SavesFacts DEF StoreStep, PersistImage, ClearJournal, Restart, StoreInv, RestartLosesNothing
<1>4. /\ sync \in SyncRecord /\ save \in SaveRecord
      /\ tracked \in BOOLEAN /\ faults \in 0..MaxFaults
  BY SavesFacts
<1> QED
  BY <1>1, <1>2, <1>3, <1>4, SameChats DEF SavesInv, SaveShape, Settled

(* The page forgets the chat that it had saved.                            *)
LEMMA EvictKeeps == SavesInv /\ Evict => SavesInv'
<1> SUFFICES ASSUME SavesInv, Evict PROVE SavesInv'
  OBVIOUS
<1>1. /\ UNCHANGED storeVars
      /\ UNCHANGED <<live, acked, view, stray, mine, tracked, save, faults>>
  BY DEF Evict, storeVars
<1>2. StoreInv' /\ save \in SaveRecord /\ tracked \in BOOLEAN /\ faults \in 0..MaxFaults
  BY <1>1, StoreKept, SavesFacts
<1>3. sync'.chat = sync.chat /\ sync'.versioned = sync.versioned /\ sync' \in SyncRecord
  BY SavesFacts DEF Evict, SyncRecord
<1> QED
  BY <1>1, <1>2, <1>3, SameChats DEF SavesInv, SaveShape, Settled

(* A save that ends without an acknowledgement of what is in the view.     *)
LEMMA StopKeeps ==
    SavesInv /\ (Conflict \/ Falter \/ Unconfirmed) => SavesInv'
<1> SUFFICES ASSUME SavesInv, Conflict \/ Falter \/ Unconfirmed PROVE SavesInv'
  OBVIOUS
<1>1. /\ UNCHANGED storeVars
      /\ UNCHANGED <<live, acked, view, stray, mine, sync>>
      /\ save' = Idle
      /\ tracked' = TRUE \/ (tracked' = tracked /\ save.at = "confirm" /\ ~sync.versioned)
      /\ faults' = faults \/ Fault
  BY DEF Conflict, Falter, Unconfirmed, Requeue, storeVars
<1>2. faults' \in 0..MaxFaults /\ sync \in SyncRecord /\ tracked' \in BOOLEAN
  <2>1. faults \in 0..MaxFaults /\ (faults' = faults \/ (faults < MaxFaults /\ faults' = faults + 1))
    BY <1>1, SavesFacts DEF Fault
  <2>2. faults' \in 0..MaxFaults
    BY <2>1, ClientAssumption
  <2> QED
    BY <1>1, <2>2, SavesFacts
<1>3. save' \in SaveRecord /\ save'.at = "idle" /\ save'.base = NoChat
  BY <1>1, IdleTyped DEF Idle
<1>4. StoreInv'
  BY <1>1, StoreKept, SavesFacts
<1>5. Settled'
  BY <1>1, <1>3 DEF SavesInv, Settled, SaveShape
<1> QED
  BY <1>1, <1>2, <1>3, <1>4, <1>5, SameChats

(* The page learns that the chat has moved on.                             *)
LEMMA RefusedKeeps == SavesInv /\ Refused => SavesInv'
<1> SUFFICES ASSUME SavesInv, Refused PROVE SavesInv'
  OBVIOUS
<1>1. /\ UNCHANGED storeVars
      /\ UNCHANGED <<live, acked, view, mine, sync, tracked, faults>>
      /\ stray' = NoRequest
      /\ save.at = "sent" /\ save' = [save EXCEPT !.at = "confirm"]
  BY DEF Refused, storeVars
<1>2. /\ save \in SaveRecord /\ StoreInv' /\ StoreTypeOK' /\ view \in Chat
      /\ sync \in SyncRecord /\ tracked \in BOOLEAN /\ faults \in 0..MaxFaults
      /\ mine \in MineRecord
  BY <1>1, StoreKept, SavesFacts DEF StoreInv
<1>3. /\ save' \in SaveRecord /\ save'.at = "confirm" /\ save'.body = save.body
      /\ save'.base = save.base
  BY <1>1, <1>2 DEF SaveRecord
<1>4. SaveShape'
  <2>1. SavesTypeOK'
    BY <1>1, <1>2, <1>3, SavesTypesNext DEF NoRequest
  <2> QED
    BY <1>1, <1>2, <1>3, <2>1 DEF SavesInv, SaveShape
<1>5. ChatsOnce'
  BY <1>1, <1>3 DEF SavesInv, ChatsOnce
<1>6. MessagesInv'
  BY <1>1, <1>3 DEF SavesInv, MessagesInv, Shown
<1>7. TextsInv'
  BY <1>1, <1>3 DEF SavesInv, TextsInv, HasNewest
<1>8. ViewKeepsEdits'
  BY <1>1 DEF SavesInv, ViewKeepsEdits, Shown, HasNewest
<1>9. Settled'
  BY <1>1, <1>3 DEF SavesInv, Settled
<1> QED
  BY <1>4, <1>5, <1>6, <1>7, <1>8, <1>9 DEF SavesInv

(* A save begins, and finds its base again.                                *)
LEMMA TakeKeeps == SavesInv /\ Take => SavesInv'
<1> SUFFICES ASSUME SavesInv, Take PROVE SavesInv'
  OBVIOUS
<1> DEFINE s == [at |-> "reprint", body |-> view, base |-> RemoteBase, tries |-> 0,
                 rev |-> IF sync.versioned THEN sync.chat ELSE NoChat]
<1>1. /\ UNCHANGED storeVars
      /\ UNCHANGED <<live, acked, view, stray, mine, sync, faults>>
      /\ tracked' = FALSE
      /\ save' = s \/ save' = Attempt(s, sync)
  BY DEF Take, storeVars
<1>2. /\ sync \in SyncRecord /\ view \in Chat /\ sync.chat \in Chat /\ StoreInv'
      /\ faults \in 0..MaxFaults
  BY <1>1, StoreKept, SavesFacts
<1>3. RemoteBase \in {NoChat, sync.chat}
  BY DEF RemoteBase
<1>4. s \in SaveRecord /\ s.at = "reprint" /\ s.body = view /\ s.base = RemoteBase
  BY <1>2, <1>3 DEF SaveRecord
<1> HIDE DEF s
<1>5. CASE save' = s
  BY <1>1, <1>2, <1>3, <1>4, <1>5, SameChats DEF Settled
<1>6. CASE save' = Attempt(s, sync) /\ Attempt(s, sync) = Idle /\ sync.chat = s.body
  <2>1. save' \in SaveRecord /\ save' = Idle /\ save'.at = "idle" /\ save'.base = NoChat
    BY <1>6, IdleTyped DEF Idle
  <2> QED
    BY <1>1, <1>2, <1>4, <1>6, <2>1, SameChats DEF Settled
<1>7. CASE /\ save' = Attempt(s, sync)
           /\ Attempt(s, sync) \in SaveRecord
           /\ Attempt(s, sync).at \in {"baseline", "sent"}
           /\ Attempt(s, sync).at = "sent" => sync.versioned
           /\ Attempt(s, sync).body = s.body
           /\ Attempt(s, sync).base = s.base
  BY <1>1, <1>2, <1>3, <1>4, <1>7, SameChats DEF Settled
<1> QED
  BY <1>1, <1>2, <1>4, <1>5, <1>6, <1>7, AttemptCases

LEMMA ReprintKeeps == SavesInv /\ Reprint => SavesInv'
<1> SUFFICES ASSUME SavesInv, Reprint PROVE SavesInv'
  OBVIOUS
<1>1. /\ UNCHANGED storeVars
      /\ UNCHANGED <<live, acked, view, stray, mine, tracked, faults>>
      /\ save.at = "reprint"
  BY DEF Reprint, storeVars
<1>2. /\ sync \in SyncRecord /\ live \in Chat /\ save \in SaveRecord /\ StoreInv'
      /\ faults \in 0..MaxFaults /\ tracked \in BOOLEAN
      /\ save.base \in {NoChat, sync.chat}
      /\ save.body \in Chat
  BY <1>1, StoreKept, SavesFacts DEF SavesInv, SaveShape
<1>3. PICK s \in SaveRecord :
        /\ s.body = save.body
        /\ s.base \in {NoChat, sync.chat}
        /\ sync'.chat = sync.chat /\ sync' \in SyncRecord
        /\ save' = Attempt(s, sync')
  <2>1. CASE live = sync.chat
    <3> DEFINE s == [save EXCEPT !.base = live, !.rev = live]
    <3>1. s \in SaveRecord /\ s.body = save.body /\ s.base = live
      BY <1>2 DEF SaveRecord
    <3>2. sync' = Known(live) /\ save' = Attempt(s, Known(live))
      BY <2>1 DEF Reprint
    <3>3. Known(live) \in SyncRecord /\ Known(live).chat = live
      BY <1>2 DEF Known, SyncRecord
    <3> HIDE DEF s
    <3> QED
      BY <2>1, <3>1, <3>2, <3>3
  <2>2. CASE live # sync.chat
    BY <2>2, <1>2 DEF Reprint
  <2> QED
    BY <2>1, <2>2
<1>4. ~tracked => view = save.body
  BY <1>1 DEF SavesInv, Settled
<1>5. CASE save' = Idle /\ sync'.chat = s.body
  <2>1. save' \in SaveRecord /\ save'.at = "idle" /\ save'.base = NoChat
    BY <1>5, IdleTyped DEF Idle
  <2> QED
    BY <1>1, <1>2, <1>3, <1>4, <1>5, <2>1, SameChats DEF Settled
<1>6. CASE /\ save' \in SaveRecord
           /\ save'.at \in {"baseline", "sent"}
           /\ save'.at = "sent" => sync'.versioned
           /\ save'.body = s.body
           /\ save'.base = s.base
  BY <1>1, <1>2, <1>3, <1>4, <1>6, SameChats DEF Settled
<1> QED
  BY <1>3, <1>5, <1>6, AttemptCases
-----------------------------------------------------------------------------
(* A fault keeps its bound.                                                *)
LEMMA FaultCounts == SavesInv /\ Fault => faults' \in 0..MaxFaults
<1> SUFFICES ASSUME SavesInv, Fault PROVE faults' \in 0..MaxFaults
  OBVIOUS
<1>1. faults \in 0..MaxFaults /\ faults < MaxFaults /\ faults' = faults + 1
  BY SavesFacts DEF Fault
<1> QED
  BY <1>1, ClientAssumption

(* What a save that is under way has, as single facts.                     *)
LEMMA Sending ==
    ASSUME SavesInv, save.at # "idle"
    PROVE  /\ save.body \in Chat /\ IsInjective(save.body.msgs)
           /\ Shown(save.body) \subseteq mine.added \cup acked.added
           /\ save.body.ver <= acked.saves
           /\ ~tracked => view = save.body
  BY DEF SavesInv, SaveShape, ChatsOnce, MessagesInv, TextsInv, Settled

(* The server has taken the body and the page knows it.                    *)
LEMMA SavedKeeps == SavesInv /\ (Saved \/ SavedBare) => SavesInv'
<1> SUFFICES ASSUME SavesInv, Saved \/ SavedBare PROVE SavesInv'
  OBVIOUS
<1>1. /\ save.at = "sent" /\ Accepts(sync.chat, save.body)
      /\ stray' = NoRequest
      /\ mine' = [mine EXCEPT !.kept = Kept(save.body), !.unsure = {}]
      /\ view' = view /\ tracked' = tracked
  BY DEF Saved, SavedBare
<1>2. /\ sync' \in SyncRecord /\ sync'.chat = save.body
      /\ save' \in SaveRecord
      /\ \/ save'.at = "idle" /\ save' = Idle
         \/ save'.at = "confirm" /\ save'.body = save.body
      /\ save'.base \in {NoChat, save.body}
      /\ faults' \in 0..MaxFaults
  <2>0. save \in SaveRecord /\ save.body \in Chat /\ faults \in 0..MaxFaults
    BY <1>1, Sending, SavesFacts
  <2>1. CASE Saved
    <3>1. sync' = Known(save.body) /\ save' = Idle /\ faults' = faults
      BY <2>1 DEF Saved
    <3> QED
      BY <3>1, <2>0, IdleTyped DEF Known, SyncRecord, Idle
  <2>2. CASE SavedBare
    <3>1. /\ sync' = [chat |-> save.body, held |-> TRUE, versioned |-> FALSE]
          /\ save' = [save EXCEPT !.at = "confirm", !.base = save.body, !.rev = NoChat]
          /\ faults' \in 0..MaxFaults
      BY <2>2, FaultCounts DEF SavedBare
    <3> QED
      BY <3>1, <2>0 DEF SaveRecord, SyncRecord
  <2> QED
    BY <2>1, <2>2
<1>3. /\ save.body \in Chat /\ IsInjective(save.body.msgs)
      /\ Shown(save.body) \subseteq mine.added \cup acked.added
      /\ save.body.ver <= acked.saves
      /\ ~tracked => view = save.body
  BY <1>1, Sending
<1>4. /\ live' = save.body /\ StoreInv' /\ StoreTypeOK'
      /\ acked'.saves = acked.saves
      /\ acked'.added = acked.added \cup Shown(save.body)
      /\ acked.removed \subseteq acked'.removed
      /\ Shown(live') \cup acked'.removed = acked'.added
  BY <1>1, <1>3, TakesBody DEF StoreInv
<1>5. /\ mine' \in MineRecord
      /\ mine'.added = mine.added /\ mine'.removed = mine.removed
      /\ mine'.returning = mine.returning /\ mine'.typed = mine.typed
      /\ mine'.unsure = {} /\ (mine'.kept <=> mine.kept \/ HasNewest(save.body))
  <2>1. mine \in MineRecord /\ Kept(save.body) \in BOOLEAN
    BY SavesFacts DEF Kept, MineRecord, HasNewest
  <2>2. Kept(save.body) <=> mine.kept \/ HasNewest(save.body)
    BY DEF Kept
  <2> HIDE DEF Kept
  <2> QED
    BY <1>1, <2>1, <2>2 DEF MineRecord
<1>6. SaveShape'
  <2>1. SavesTypeOK'
    BY <1>1, <1>2, <1>4, <1>5, SavesFacts, SavesTypesNext DEF NoRequest
  <2> QED
    BY <1>1, <1>2, <1>3, <1>4, <2>1 DEF SavesInv, SaveShape
<1>7. ChatsOnce'
  BY <1>1, <1>2, <1>3, <1>4 DEF SavesInv, ChatsOnce
<1>8. MessagesInv'
  <2>1. Shown(live)' = Shown(save.body) /\ Shown(sync.chat)' = Shown(save.body)
        /\ Shown(view)' = Shown(view)
    BY <1>1, <1>2, <1>4 DEF Shown
  <2>2. save'.at # "idle" => Shown(save'.body) \subseteq mine'.added \cup acked'.added
    BY <1>2, <1>4
  <2>3. Shown(view) \cup mine.removed \cup mine.returning \subseteq mine.added \cup acked'.added
    BY <1>4 DEF SavesInv, MessagesInv
  <2>4. Shown(live)' \cup acked'.removed = acked'.added
    BY <1>4, <2>1 DEF Shown
  <2> QED
    BY <1>1, <1>4, <1>5, <2>1, <2>2, <2>3, <2>4 DEF MessagesInv
<1>9. TextsInv'
  BY <1>1, <1>2, <1>3, <1>4, <1>5 DEF SavesInv, TextsInv, HasNewest
<1>10. ViewKeepsEdits'
  <2>1. Shown(view)' = Shown(view) /\ (HasNewest(view) => HasNewest(view)')
    BY <1>1, <1>5 DEF Shown, HasNewest
  <2> QED
    BY <1>4, <1>5, <2>1 DEF SavesInv, ViewKeepsEdits
<1>11. Settled'
  BY <1>1, <1>2, <1>3 DEF Settled
<1> QED
  BY <1>6, <1>7, <1>8, <1>9, <1>10, <1>11 DEF SavesInv

(* No answer: the messages of the body are in doubt.                       *)
LEMMA DoubtsBody ==
    ASSUME SavesInv, NEW body, NEW kept \in BOOLEAN, InDoubt(body, kept),
           Shown(body) \subseteq Message
    PROVE  /\ mine' \in MineRecord
           /\ mine'.added = mine.added /\ mine'.typed = mine.typed
           /\ mine'.unsure = mine.unsure \cup Shown(body)
           /\ mine'.returning = mine.returning \cup (mine.removed \cap Shown(body))
           /\ mine'.removed = mine.removed \ Shown(body)
           /\ mine'.kept = kept
<1>1. mine \in MineRecord
  BY SavesFacts
<1>2. /\ mine' = [mine EXCEPT !.unsure = @ \cup Shown(body),
                             !.returning = @ \cup (mine.removed \cap Shown(body)),
                             !.removed = @ \ Shown(body),
                             !.kept = kept]
  BY DEF InDoubt
<1> QED
  BY <1>1, <1>2 DEF MineRecord

(* The messages of a chat are messages.                                    *)
LEMMA ShownMessages == \A chat \in Chat : Shown(chat) \subseteq Message
<1> SUFFICES ASSUME NEW chat \in Chat PROVE Shown(chat) \subseteq Message
  OBVIOUS
<1>1. chat.msgs \in Seq(Message)
  BY DEF Chat
<1> QED
  BY <1>1, ToSetSeq DEF Shown

(* The server has taken the body and the page does not know.               *)
LEMMA AnswerLostKeeps == SavesInv /\ AnswerLost => SavesInv'
<1> SUFFICES ASSUME SavesInv, AnswerLost PROVE SavesInv'
  OBVIOUS
<1>1. /\ save.at = "sent" /\ Accepts(sync.chat, save.body)
      /\ stray' = NoRequest
      /\ save' = [save EXCEPT !.at = "confirm"]
      /\ view' = view /\ tracked' = tracked /\ sync' = sync
      /\ faults' \in 0..MaxFaults
  BY FaultCounts DEF AnswerLost
<1>2. /\ save.body \in Chat /\ IsInjective(save.body.msgs)
      /\ Shown(save.body) \subseteq mine.added \cup acked.added
      /\ save.body.ver <= acked.saves
      /\ ~tracked => view = save.body
      /\ Shown(save.body) \subseteq Message
  BY <1>1, Sending, ShownMessages
<1>3. /\ save' \in SaveRecord /\ save'.at = "confirm" /\ save'.body = save.body
      /\ save'.base = save.base
  <2>1. save \in SaveRecord
    BY SavesFacts
  <2> QED
    BY <1>1, <2>1 DEF SaveRecord
<1>4. /\ live' = save.body /\ StoreInv' /\ StoreTypeOK'
      /\ acked'.saves = acked.saves
      /\ acked'.added = acked.added \cup Shown(save.body)
      /\ acked.removed \subseteq acked'.removed
      /\ Shown(live') \cup acked'.removed = acked'.added
  BY <1>1, <1>2, TakesBody DEF StoreInv
<1>5. /\ mine' \in MineRecord
      /\ mine'.added = mine.added /\ mine'.typed = mine.typed
      /\ mine'.unsure = mine.unsure \cup Shown(save.body)
      /\ mine'.returning = mine.returning \cup (mine.removed \cap Shown(save.body))
      /\ mine'.removed = mine.removed \ Shown(save.body)
      /\ (mine'.kept <=> mine.kept \/ HasNewest(save.body))
  <2>1. /\ Kept(save.body) \in BOOLEAN
        /\ Kept(save.body) <=> mine.kept \/ HasNewest(save.body)
        /\ InDoubt(save.body, Kept(save.body))
    <3>1. mine.kept \in BOOLEAN
      BY SavesFacts DEF MineRecord
    <3> QED
      BY <3>1 DEF Kept, HasNewest, AnswerLost
  <2> HIDE DEF Kept
  <2> QED
    BY <1>2, <2>1, DoubtsBody
<1>6. SaveShape'
  <2>1. SavesTypeOK'
    BY <1>1, <1>3, <1>4, <1>5, SavesFacts, SavesTypesNext DEF NoRequest
  <2> QED
    BY <1>1, <1>2, <1>3, <1>4, <2>1 DEF SavesInv, SaveShape
<1>7. ChatsOnce'
  BY <1>1, <1>2, <1>3, <1>4 DEF SavesInv, ChatsOnce
<1>8. MessagesInv'
  <2>1. Shown(live)' = Shown(save.body) /\ Shown(sync.chat)' = Shown(sync.chat)
        /\ Shown(view)' = Shown(view) /\ Shown(live') = Shown(save.body)
    BY <1>1, <1>4 DEF Shown
  <2>2. save'.at # "idle" => Shown(save'.body) \subseteq mine'.added \cup acked'.added
    BY <1>3, <1>4
  <2>3. /\ Shown(view) \cup mine'.removed \cup mine'.returning \subseteq mine.added \cup acked'.added
        /\ mine'.unsure \subseteq mine.added \cup acked'.added
        /\ mine'.removed \cap mine'.unsure = {}
        /\ Shown(sync.chat) \subseteq acked'.added
    BY <1>2, <1>4, <1>5 DEF SavesInv, MessagesInv
  <2> QED
    BY <1>1, <1>4, <1>5, <2>1, <2>2, <2>3 DEF MessagesInv
<1>9. TextsInv'
  BY <1>1, <1>2, <1>3, <1>4, <1>5 DEF SavesInv, TextsInv, HasNewest
<1>10. ViewKeepsEdits'
  <2>1. Shown(view)' = Shown(view) /\ (HasNewest(view) => HasNewest(view)')
    BY <1>1, <1>5 DEF Shown, HasNewest
  <2> QED
    BY <1>4, <1>5, <2>1 DEF SavesInv, ViewKeepsEdits
<1>11. Settled'
  BY <1>1, <1>2, <1>3 DEF Settled
<1> QED
  BY <1>6, <1>7, <1>8, <1>9, <1>10, <1>11 DEF SavesInv

(* The body may still arrive.                                              *)
LEMMA RequestLostKeeps == SavesInv /\ RequestLost => SavesInv'
<1> SUFFICES ASSUME SavesInv, RequestLost PROVE SavesInv'
  OBVIOUS
<1>1. /\ save.at = "sent"
      /\ UNCHANGED storeVars /\ live' = live /\ acked' = acked
      /\ stray' = [base |-> sync.chat, body |-> save.body]
      /\ save' = [save EXCEPT !.at = "confirm"]
      /\ view' = view /\ tracked' = tracked /\ sync' = sync
      /\ faults' \in 0..MaxFaults
  BY FaultCounts DEF RequestLost, storeVars
<1>2. /\ save.body \in Chat /\ IsInjective(save.body.msgs)
      /\ Shown(save.body) \subseteq mine.added \cup acked.added
      /\ save.body.ver <= acked.saves
      /\ ~tracked => view = save.body
      /\ Shown(save.body) \subseteq Message
  BY <1>1, Sending, ShownMessages
<1>3. /\ save' \in SaveRecord /\ save'.at = "confirm" /\ save'.body = save.body
      /\ save'.base = save.base
  <2>1. save \in SaveRecord
    BY SavesFacts
  <2> QED
    BY <1>1, <2>1 DEF SaveRecord
<1>4. StoreInv' /\ StoreTypeOK' /\ view \in Chat /\ sync.chat \in Chat
  BY <1>1, StoreKept, SavesFacts DEF StoreInv
<1>5. /\ mine' \in MineRecord
      /\ mine'.added = mine.added /\ mine'.typed = mine.typed
      /\ mine'.unsure = mine.unsure \cup Shown(save.body)
      /\ mine'.returning = mine.returning \cup (mine.removed \cap Shown(save.body))
      /\ mine'.removed = mine.removed \ Shown(save.body)
      /\ mine'.kept = mine.kept
  <2>1. mine.kept \in BOOLEAN /\ InDoubt(save.body, mine.kept)
    BY SavesFacts DEF MineRecord, RequestLost
  <2> QED
    BY <1>2, <2>1, DoubtsBody
<1>6. SaveShape'
  <2>1. SavesTypeOK'
    BY <1>1, <1>2, <1>3, <1>4, <1>5, SavesFacts, SavesTypesNext
  <2> QED
    BY <1>1, <1>2, <1>3, <1>4, <2>1 DEF SavesInv, SaveShape
<1>7. ChatsOnce'
  BY <1>1, <1>2, <1>3 DEF SavesInv, ChatsOnce
<1>8. MessagesInv'
  <2>1. Shown(live)' = Shown(live) /\ Shown(sync.chat)' = Shown(sync.chat)
        /\ Shown(view)' = Shown(view) /\ Shown(stray'.body) = Shown(save.body)
    BY <1>1 DEF Shown
  <2>2. save'.at # "idle" => Shown(save'.body) \subseteq mine'.added \cup acked'.added
    BY <1>1, <1>2, <1>3, <1>5
  <2>3. /\ Shown(view) \cup mine'.removed \cup mine'.returning \subseteq mine.added \cup acked.added
        /\ mine'.unsure \subseteq mine.added \cup acked.added
        /\ mine'.removed \cap mine'.unsure = {}
        /\ Shown(live) \cap (mine'.removed \cup Shown(view)) \subseteq mine'.unsure \cup Shown(sync.chat)
    BY <1>2, <1>5 DEF SavesInv, MessagesInv
  <2> QED
    BY <1>1, <1>5, <2>1, <2>2, <2>3 DEF SavesInv, MessagesInv
<1>9. TextsInv'
  BY <1>1, <1>2, <1>3, <1>5 DEF SavesInv, TextsInv, HasNewest
<1>10. ViewKeepsEdits'
  <2>1. Shown(view)' = Shown(view) /\ (HasNewest(view) => HasNewest(view)')
    BY <1>1, <1>5 DEF Shown, HasNewest
  <2> QED
    BY <1>1, <1>5, <2>1 DEF SavesInv, ViewKeepsEdits
<1>11. Settled'
  BY <1>1, <1>2, <1>3 DEF Settled
<1> QED
  BY <1>6, <1>7, <1>8, <1>9, <1>10, <1>11 DEF SavesInv
-----------------------------------------------------------------------------
(* The body arrives after all.                                             *)
LEMMA LateKeeps == SavesInv /\ Late => SavesInv'
<1> SUFFICES ASSUME SavesInv, Late PROVE SavesInv'
  OBVIOUS
<1>1. /\ Accepts(stray.base, stray.body)
      /\ stray' = NoRequest
      /\ mine' = [mine EXCEPT !.kept = Kept(stray.body)]
      /\ view' = view /\ tracked' = tracked /\ sync' = sync /\ save' = save
      /\ faults' = faults
  BY DEF Late
<1>2. stray # NoRequest
  <2>1. live = stray.base /\ live \in Chat
    BY <1>1, SavesFacts DEF Accepts
  <2> QED
    BY <2>1, StoreAssumption DEF NoRequest
<1>3. /\ stray.body \in Chat /\ IsInjective(stray.body.msgs)
      /\ Shown(stray.body) \subseteq mine.unsure
      /\ stray.body.ver <= acked.saves
  BY <1>2 DEF SavesInv, SaveShape, ChatsOnce, MessagesInv, TextsInv
<1>4. /\ live' = stray.body /\ StoreInv' /\ StoreTypeOK'
      /\ acked'.saves = acked.saves
      /\ acked'.added = acked.added \cup Shown(stray.body)
      /\ acked.removed \subseteq acked'.removed
      /\ Shown(live') \cup acked'.removed = acked'.added
  BY <1>1, <1>3, TakesBody DEF StoreInv
<1>5. /\ mine' \in MineRecord
      /\ mine'.added = mine.added /\ mine'.removed = mine.removed
      /\ mine'.returning = mine.returning /\ mine'.typed = mine.typed
      /\ mine'.unsure = mine.unsure /\ (mine'.kept <=> mine.kept \/ HasNewest(stray.body))
  <2>1. mine \in MineRecord /\ Kept(stray.body) \in BOOLEAN
    BY SavesFacts DEF Kept, MineRecord, HasNewest
  <2>2. Kept(stray.body) <=> mine.kept \/ HasNewest(stray.body)
    BY DEF Kept
  <2> HIDE DEF Kept
  <2> QED
    BY <1>1, <2>1, <2>2 DEF MineRecord
<1>6. SaveShape'
  <2>1. SavesTypeOK'
    BY <1>1, <1>4, <1>5, SavesFacts, SavesTypesNext DEF NoRequest
  <2> QED
    BY <1>1, <1>4, <2>1 DEF SavesInv, SaveShape
<1>7. ChatsOnce'
  BY <1>1, <1>3, <1>4 DEF SavesInv, ChatsOnce
<1>8. MessagesInv'
  <2>1. Shown(live)' = Shown(stray.body) /\ Shown(sync.chat)' = Shown(sync.chat)
        /\ Shown(view)' = Shown(view) /\ Shown(live') = Shown(stray.body)
    BY <1>1, <1>4 DEF Shown
  <2>2. save'.at # "idle" => Shown(save'.body) \subseteq mine'.added \cup acked'.added
    BY <1>1, <1>4, <1>5 DEF SavesInv, MessagesInv
  <2>3. /\ Shown(view) \cup mine.removed \cup mine.returning \subseteq mine.added \cup acked'.added
        /\ mine.unsure \subseteq mine.added \cup acked'.added
        /\ mine.removed \cap mine.unsure = {}
        /\ Shown(sync.chat) \subseteq acked'.added
    BY <1>4 DEF SavesInv, MessagesInv
  <2> QED
    BY <1>1, <1>3, <1>4, <1>5, <2>1, <2>2, <2>3 DEF MessagesInv
<1>9. TextsInv'
  BY <1>1, <1>3, <1>4, <1>5 DEF SavesInv, TextsInv, HasNewest
<1>10. ViewKeepsEdits'
  <2>1. Shown(view)' = Shown(view) /\ (HasNewest(view) => HasNewest(view)')
    BY <1>1, <1>5 DEF Shown, HasNewest
  <2> QED
    BY <1>4, <1>5, <2>1 DEF SavesInv, ViewKeepsEdits
<1>11. Settled'
  BY <1>1 DEF SavesInv, Settled
<1> QED
  BY <1>6, <1>7, <1>8, <1>9, <1>10, <1>11 DEF SavesInv

(* Reading the chat leaves fewer messages in doubt.                        *)
LEMMA LearnsLess ==
    ASSUME SavesInv, NEW S, Learns(S)
    PROVE  /\ mine' \in MineRecord
           /\ mine'.added = mine.added /\ mine'.removed = mine.removed
           /\ mine'.returning = mine.returning /\ mine'.typed = mine.typed
           /\ mine'.kept = mine.kept
           /\ mine'.unsure \subseteq mine.unsure
           /\ stray # NoRequest => mine'.unsure = mine.unsure
<1>1. mine \in MineRecord
  BY SavesFacts
<1>2. mine' = [mine EXCEPT !.unsure = IF stray = NoRequest THEN @ \ S ELSE @]
  BY DEF Learns
<1> QED
  BY <1>1, <1>2 DEF MineRecord

(* The page has read the chat: what it knows to be saved is what the       *)
(* server has, and its view is a chat that keeps the edits of the user.    *)
LEMMA ReadKeeps ==
    ASSUME SavesInv, NEW S, Learns(S),
           UNCHANGED storeVars, stray' = stray, faults' = faults,
           sync' = Known(live), tracked' \in BOOLEAN,
           view' \in Chat, IsInjective(view'.msgs),
           Shown(view') \subseteq mine.added \cup acked.added,
           mine.added \ (mine.removed \cup mine.returning \cup acked.removed)
              \subseteq Shown(view'),
           mine.removed \cap Shown(view') = {},
           mine.kept \/ HasNewest(view'),
           view'.ver <= acked.saves,
           save' \in SaveRecord,
           save'.at = "idle" => save' = Idle,
           save'.at # "confirm",
           save'.at # "idle" => save'.body = view',
           save'.base \in {NoChat, live},
           save'.at = "idle" /\ ~tracked' => view' = live
    PROVE  SavesInv'
<1>1. live' = live /\ acked' = acked /\ StoreInv' /\ StoreTypeOK'
  BY StoreKept, SavesFacts DEF storeVars, StoreInv
<1>2. /\ mine' \in MineRecord
      /\ mine'.added = mine.added /\ mine'.removed = mine.removed
      /\ mine'.returning = mine.returning /\ mine'.typed = mine.typed
      /\ mine'.kept = mine.kept
      /\ mine'.unsure \subseteq mine.unsure
      /\ stray # NoRequest => mine'.unsure = mine.unsure
  BY LearnsLess
<1>3. sync' \in SyncRecord /\ sync'.chat = live /\ sync'.versioned
  BY SavesFacts DEF Known, SyncRecord
<1>4. SaveShape'
  <2>1. SavesTypeOK'
    BY <1>1, <1>2, <1>3, SavesFacts, SavesTypesNext
  <2> QED
    BY <1>1, <1>3, <2>1 DEF SavesInv, SaveShape
<1>5. ChatsOnce'
  BY <1>1, <1>3 DEF SavesInv, ChatsOnce
<1>6. MessagesInv'
  <2>1. Shown(live)' = Shown(live) /\ Shown(sync.chat)' = Shown(live)
        /\ Shown(view)' = Shown(view')
    BY <1>1, <1>3 DEF Shown
  <2>2. save'.at # "idle" => Shown(save'.body) \subseteq mine'.added \cup acked'.added
    BY <1>1, <1>2
  <2>3. stray' # NoRequest => Shown(stray'.body) \subseteq mine'.unsure
    BY <1>2 DEF SavesInv, MessagesInv
  <2>4. Shown(view') \cup mine.removed \cup mine.returning \subseteq mine.added \cup acked.added
        /\ mine'.unsure \subseteq mine.added \cup acked.added
        /\ mine.removed \cap mine'.unsure = {}
        /\ Shown(live) \cup acked.removed = acked.added
        /\ Shown(live) \subseteq acked.added
    BY <1>2 DEF SavesInv, MessagesInv
  <2> QED
    BY <1>1, <1>2, <2>1, <2>2, <2>3, <2>4 DEF MessagesInv
<1>7. TextsInv'
  <2>1. HasNewest(live)' \/ HasNewest(sync.chat)' => mine'.kept
    BY <1>1, <1>2, <1>3 DEF SavesInv, TextsInv, HasNewest
  <2> QED
    BY <1>1, <1>2, <1>3, <2>1 DEF SavesInv, TextsInv
<1>8. ViewKeepsEdits'
  <2>1. Shown(view)' = Shown(view') /\ (HasNewest(view') => HasNewest(view)')
    BY <1>2 DEF Shown, HasNewest
  <2> QED
    BY <1>1, <1>2, <2>1 DEF ViewKeepsEdits
<1>9. Settled'
  BY <1>3 DEF Settled
<1> QED
  BY <1>4, <1>5, <1>6, <1>7, <1>8, <1>9 DEF SavesInv

(* The server has what the save wanted.                                    *)
LEMMA ConfirmedKeeps == SavesInv /\ Confirmed => SavesInv'
<1> SUFFICES ASSUME SavesInv, Confirmed PROVE SavesInv'
  OBVIOUS
<1>1. /\ save.at # "idle" /\ live = save.body
      /\ sync' = Known(live) /\ save' = Idle /\ Learns(Message)
      /\ UNCHANGED storeVars /\ view' = view /\ tracked' = tracked
      /\ stray' = stray /\ faults' = faults
  BY DEF Confirmed
<1>2. ~tracked => view = live
  BY <1>1, Sending
<1>3. /\ view \in Chat /\ IsInjective(view.msgs) /\ view.ver <= acked.saves
      /\ Shown(view) \subseteq mine.added \cup acked.added
      /\ mine.added \ (mine.removed \cup mine.returning \cup acked.removed) \subseteq Shown(view)
      /\ mine.removed \cap Shown(view) = {}
      /\ mine.kept \/ HasNewest(view)
      /\ tracked \in BOOLEAN
  BY SavesFacts DEF SavesInv, ChatsOnce, TextsInv, MessagesInv, ViewKeepsEdits
<1>4. save' \in SaveRecord /\ save'.at = "idle" /\ save'.base = NoChat
  BY <1>1, IdleTyped DEF Idle
<1> QED
  BY <1>1, <1>2, <1>3, <1>4, ReadKeeps

(* The view after a rebase: the submitted body merged with what the        *)
(* server has, and the view merged with that.                              *)
LEMMA RebasedView ==
    ASSUME SavesInv, save.at \in {"confirm", "baseline"}, NEW chat \in Merges(live)
    PROVE  /\ save.tries # 2
           /\ chat \in Chat /\ IsInjective(chat.msgs) /\ chat.ver <= acked.saves
           /\ Shown(chat) \subseteq mine.added \cup acked.added
           /\ mine.added \ (mine.removed \cup mine.returning \cup acked.removed)
                 \subseteq Shown(chat)
           /\ mine.removed \cap Shown(chat) = {}
           /\ mine.kept \/ HasNewest(chat)
<1> DEFINE base == sync.chat
           body == save.body
<1>1. /\ save.base # NoChat /\ save.tries # 2
      /\ \E next \in RebaseChatSave(save.base, save.body, live) :
            chat \in RebaseChatSave(save.body, view, next)
  BY DEF Merges
<1>2. PICK next \in RebaseChatSave(base, body, live) :
           chat \in RebaseChatSave(body, view, next)
  BY <1>1 DEF SavesInv, SaveShape
<1>3. /\ base \in Chat /\ IsInjective(base.msgs)
      /\ body \in Chat /\ IsInjective(body.msgs)
      /\ view \in Chat /\ IsInjective(view.msgs)
      /\ live \in Chat /\ IsInjective(live.msgs)
      /\ Shown(body) \subseteq mine.added \cup acked.added
      /\ body.ver <= acked.saves /\ view.ver <= acked.saves /\ live.ver <= acked.saves
  BY SavesFacts, Sending DEF SavesInv, ChatsOnce, TextsInv
<1> HIDE DEF base, body
<1>4. /\ next \in Chat /\ IsInjective(next.msgs)
      /\ Shown(next) = MergedSet(Shown(base), Shown(body), Shown(live))
      /\ next.ver \in MergeValue(base.ver, body.ver, live.ver)
  BY <1>2, <1>3, MergedChat
<1>5. /\ chat \in Chat /\ IsInjective(chat.msgs)
      /\ Shown(chat) = MergedSet(Shown(body), Shown(view), Shown(next))
      /\ chat.ver \in MergeValue(body.ver, view.ver, next.ver)
  BY <1>2, <1>3, <1>4, MergedChat
<1>6. chat.ver \in {live.ver, body.ver, view.ver}
  BY <1>4, <1>5 DEF MergeValue
<1>7. /\ Shown(base) \subseteq acked.added
      /\ Shown(live) \cup acked.removed = acked.added
      /\ Shown(view) \subseteq mine.added \cup acked.added
      /\ Shown(live) \cap mine.removed \subseteq Shown(base)
      /\ mine.removed \cap Shown(view) = {}
      /\ mine.added \ (mine.removed \cup mine.returning \cup acked.removed) \subseteq Shown(view)
  BY DEF SavesInv, MessagesInv, ViewKeepsEdits, base
<1>8. Shown(chat) \subseteq mine.added \cup acked.added
  BY <1>3, <1>4, <1>5, <1>7 DEF MergedSet
<1>9. mine.removed \cap Shown(chat) = {}
  BY <1>4, <1>5, <1>7 DEF MergedSet
<1>10. ASSUME NEW m \in mine.added \ (mine.removed \cup mine.returning \cup acked.removed)
       PROVE  m \in Shown(chat)
  <2>1. m \in Shown(view) /\ (m \in Shown(base) => m \in Shown(live))
    BY <1>7
  <2>2. CASE m \notin Shown(body)
    BY <2>1, <2>2, <1>5 DEF MergedSet
  <2>3. CASE m \in Shown(body)
    <3>1. m \in Shown(next)
      BY <2>1, <2>3, <1>4 DEF MergedSet
    <3> QED
      BY <2>1, <2>3, <3>1, <1>5 DEF MergedSet
  <2> QED
    BY <2>2, <2>3
<1>11. ASSUME ~mine.kept PROVE HasNewest(chat)
  <2>1. HasNewest(view) /\ ~HasNewest(live) /\ ~HasNewest(base)
    BY <1>11 DEF SavesInv, TextsInv, ViewKeepsEdits, base
  <2>2. CASE view.ver = body.ver
    <3>1. chat.ver = next.ver
      BY <1>5, <2>2 DEF MergeValue
    <3>2. body.ver # base.ver /\ body.ver # live.ver
      BY <2>1, <2>2 DEF HasNewest
    <3>3. next.ver = body.ver
      BY <1>4, <3>2 DEF MergeValue
    <3> QED
      BY <2>1, <2>2, <3>1, <3>3 DEF HasNewest
  <2>3. CASE view.ver # body.ver
    <3>1. chat.ver = view.ver
      BY <1>5, <2>3 DEF MergeValue
    <3> QED
      BY <2>1, <3>1 DEF HasNewest
  <2> QED
    BY <2>2, <2>3
<1> QED
  BY <1>1, <1>3, <1>5, <1>6, <1>8, <1>9, <1>10, <1>11

(* The server has another chat: the page shows the merge and goes on.      *)
LEMMA RebaseKeeps == SavesInv /\ Rebase => SavesInv'
<1> SUFFICES ASSUME SavesInv, Rebase PROVE SavesInv'
  OBVIOUS
<1>1. /\ save.at \in {"confirm", "baseline"}
      /\ sync' = Known(live) /\ Learns(Shown(live))
      /\ UNCHANGED storeVars /\ stray' = stray /\ faults' = faults
  BY DEF Rebase, Merged
<1>2. PICK chat \in Merges(live) :
        /\ view' = chat
        /\ tracked' \in {tracked, tracked \/ chat # view}
        /\ save' = Attempt([save EXCEPT !.base = live, !.rev = live, !.body = chat,
                                        !.tries = @ + 1], Known(live))
  BY DEF Rebase, Merged
<1>3. /\ save.tries # 2
      /\ chat \in Chat /\ IsInjective(chat.msgs) /\ chat.ver <= acked.saves
      /\ Shown(chat) \subseteq mine.added \cup acked.added
      /\ mine.added \ (mine.removed \cup mine.returning \cup acked.removed) \subseteq Shown(chat)
      /\ mine.removed \cap Shown(chat) = {}
      /\ mine.kept \/ HasNewest(chat)
  BY <1>1, RebasedView
<1>4. /\ save \in SaveRecord /\ live \in Chat
      /\ Known(live) \in SyncRecord /\ Known(live).chat = live
      /\ tracked' \in BOOLEAN
  BY <1>2, SavesFacts DEF Known, SyncRecord
<1> DEFINE s == [save EXCEPT !.base = live, !.rev = live, !.body = chat, !.tries = @ + 1]
<1>5. s \in SaveRecord /\ s.body = chat /\ s.base = live
  <2>1. save.tries + 1 \in 0..2
    BY <1>3, <1>4 DEF SaveRecord
  <2> QED
    BY <2>1, <1>3, <1>4 DEF SaveRecord
<1>6. save' = Attempt(s, Known(live))
  BY <1>2
<1> HIDE DEF s
<1>7. CASE save' = Idle /\ live = chat
  <2>1. save' \in SaveRecord /\ save'.at = "idle" /\ save'.base = NoChat
    BY <1>7, IdleTyped DEF Idle
  <2> QED
    BY <1>1, <1>2, <1>3, <1>4, <1>7, <2>1, ReadKeeps
<1>8. CASE /\ save' \in SaveRecord /\ save'.at \in {"baseline", "sent"}
           /\ save'.body = chat /\ save'.base = live
  BY <1>1, <1>2, <1>3, <1>4, <1>8, ReadKeeps
<1> QED
  BY <1>4, <1>5, <1>6, <1>7, <1>8, AttemptCases
-----------------------------------------------------------------------------
(* Every step keeps the invariant.                                         *)
LEMMA SavesInvNext == SavesInv /\ [SavesNext]_savesVars => SavesInv'
<1> SUFFICES ASSUME SavesInv, [SavesNext]_savesVars PROVE SavesInv'
  OBVIOUS
<1>1. CASE UserEdits
  BY <1>1, TypeKeeps, WriteKeeps, StrikeKeeps DEF UserEdits
<1>2. CASE ReadsChat
  BY <1>2, ReprintKeeps, ConfirmedKeeps, RebaseKeeps, StopKeeps DEF ReadsChat
<1>3. CASE GetsAnswer
  BY <1>3, SavedKeeps, RefusedKeeps DEF GetsAnswer
<1>4. CASE GoesWrong
  BY <1>4, SavedKeeps, AnswerLostKeeps, RequestLostKeeps, LateKeeps, StopKeeps, EvictKeeps
     DEF GoesWrong
<1>5. CASE UNCHANGED savesVars
  <2>1. StoreInv' /\ UNCHANGED <<live, acked, view, tracked, sync, save, stray, mine, faults>>
    BY <1>5, SavesFacts, StoreKept DEF savesVars, storeVars, pageVars
  <2>2. /\ sync \in SyncRecord /\ save \in SaveRecord
        /\ tracked \in BOOLEAN /\ faults \in 0..MaxFaults
    BY SavesFacts
  <2> QED
    BY <2>1, <2>2, SameChats DEF SavesInv, SaveShape, Settled
<1> QED
  BY <1>1, <1>2, <1>3, <1>4, <1>5, OtherSaveKeeps, TakeKeeps, StoreStepKeeps DEF SavesNext

(* Every variable of the page keeps its type.                              *)
THEOREM SavesTyped == SavesSpec => []SavesTypeOK
<1>1. SavesInv => SavesTypeOK
  BY SavesFacts
<1> QED
  BY <1>1, SavesInvInit, SavesInvNext, PTL DEF SavesSpec

(* saveChatContentAttempt and rebaseChatSaveConflict: whatever is lost,    *)
(* refused or merged, the view keeps what the user of the page has done.   *)
THEOREM ViewKept == SavesSpec => []ViewKeepsEdits
<1>1. SavesInv => ViewKeepsEdits
  BY DEF SavesInv
<1> QED
  BY <1>1, SavesInvInit, SavesInvNext, PTL DEF SavesSpec

(* An empty tracker with no save in progress means that all of it has been *)
(* saved.                                                                  *)
THEOREM QuietSaved == SavesSpec => []QuietMeansSaved
<1>1. SavesInv => QuietMeansSaved
  <2> SUFFICES ASSUME SavesInv, Quiet PROVE QuietMeansSaved
    BY DEF QuietMeansSaved
  <2>1. view = sync.chat
    BY DEF SavesInv, Settled, Quiet, Idle
  <2>2. mine.kept
    BY <2>1 DEF SavesInv, ViewKeepsEdits, TextsInv
  <2>3. mine.added \ (mine.removed \cup mine.returning) \subseteq acked.added
    BY <2>1 DEF SavesInv, ViewKeepsEdits, MessagesInv
  <2>4. mine.removed \cap acked.added \subseteq acked.removed
    BY <2>1 DEF SavesInv, ViewKeepsEdits, MessagesInv
  <2> QED
    BY <2>2, <2>3, <2>4 DEF QuietMeansSaved
<1> QED
  BY <1>1, SavesInvInit, SavesInvNext, PTL DEF SavesSpec
-----------------------------------------------------------------------------
(* Body is base with edits of the user and nothing else: what it lacks the *)
(* user has deleted, its text is of the user or of base, and the messages  *)
(* of base are in their order.                                             *)
OwnEdits(h, base, body) ==
    /\ Shown(base) \ Shown(body) \subseteq h.removed \cup h.returning
    /\ body.ver \in h.typed \cup {base.ver}
    /\ KeepsOrder(base.msgs, body.msgs)

OwnState(h, added, base, v, s, r) ==
    /\ OwnEdits(h, base, v)
    /\ Shown(v) \cap added \subseteq h.unsure \cup Shown(base)
    /\ s.at # "idle" =>
         /\ OwnEdits(h, base, s.body)
         /\ Shown(s.body) \cap added \subseteq h.unsure \cup Shown(base)
         /\ OwnEdits(h, s.body, v)
         /\ Shown(v) \ Shown(s.body) \subseteq h.added \ (added \cup h.unsure)
    /\ r # NoRequest => OwnEdits(h, r.base, r.body)

(* What the page has and what it sends, now or late, are edits of its user *)
(* to the chat it was made from.                                           *)
OwnInv == OwnState(mine, acked.added, sync.chat, view, save, stray)

(* No edit is an edit of the user; the user may do more; edits add up.     *)
LEMMA OwnSelf == \A h, chat : OwnEdits(h, chat, chat)
  BY DEF OwnEdits, KeepsOrder

LEMMA OwnGrows ==
    ASSUME NEW h, NEW g, NEW base, NEW body, OwnEdits(h, base, body),
           h.removed \cup h.returning \subseteq g.removed \cup g.returning,
           h.typed \subseteq g.typed
    PROVE  OwnEdits(g, base, body)
  BY DEF OwnEdits

LEMMA OwnThrough ==
    ASSUME NEW h, NEW a \in Chat, NEW b \in Chat, NEW c \in Chat,
           IsInjective(a.msgs), IsInjective(b.msgs), IsInjective(c.msgs),
           OwnEdits(h, a, b), OwnEdits(h, b, c), Shown(a) \cap Shown(c) \subseteq Shown(b)
    PROVE  OwnEdits(h, a, c)
<1>1. a.msgs \in Seq(Message) /\ b.msgs \in Seq(Message) /\ c.msgs \in Seq(Message)
  BY DEF Chat
<1>2. KeepsOrder(a.msgs, b.msgs) /\ KeepsOrder(b.msgs, c.msgs)
  BY DEF OwnEdits
<1>3. ToSet(a.msgs) \cap ToSet(c.msgs) \subseteq ToSet(b.msgs)
  BY DEF Shown
<1>4. KeepsOrder(a.msgs, c.msgs)
  BY <1>1, <1>2, <1>3, KeepsOrderThrough
<1>5. Shown(a) \ Shown(c) \subseteq h.removed \cup h.returning
  BY DEF OwnEdits
<1>6. c.ver \in h.typed \cup {a.ver}
  BY DEF OwnEdits
<1> QED BY <1>4, <1>5, <1>6 DEF OwnEdits

(* The initial states have the invariant.                                  *)
LEMMA OwnInvInit == SavesInit => OwnInv
<1> SUFFICES ASSUME SavesInit PROVE OwnInv
  OBVIOUS
<1>1. acked.added = {} /\ sync.chat = live /\ view = live /\ save.at = "idle" /\ stray = NoRequest
  BY DEF SavesInit, StoreInit, Known, Idle
<1> QED BY <1>1, OwnSelf DEF OwnInv, OwnState

(* Steps that change neither the chats of the page nor what its user did.  *)
LEMMA OwnKept ==
    ASSUME OwnInv, view' = view, sync'.chat = sync.chat, mine' = mine,
           acked'.added = acked.added,
           save'.at # "idle" => save.at # "idle" /\ save'.body = save.body,
           stray' \in {stray, NoRequest}
    PROVE  OwnInv'
  BY DEF OwnInv, OwnState

(* Steps after which no save is in progress, or one of the view.           *)
LEMMA OwnFresh ==
    ASSUME OwnEdits(mine', sync'.chat, view'),
           Shown(view') \cap acked'.added \subseteq mine'.unsure \cup Shown(sync'.chat),
           save'.at # "idle" => save'.body = view',
           stray' # NoRequest => OwnEdits(mine', stray'.base, stray'.body)
    PROVE  OwnInv'
  BY OwnSelf DEF OwnInv, OwnState

(* The user edits the view.                                                *)
LEMMA OwnViewMoves ==
    ASSUME SavesInv, OwnInv, UserEdit, OwnEdits(mine', view, view'),
           view' \in Chat, IsInjective(view'.msgs),
           mine.removed \cup mine.returning \subseteq mine'.removed \cup mine'.returning,
           mine.typed \subseteq mine'.typed, mine.added \subseteq mine'.added,
           mine'.unsure = mine.unsure,
           Shown(view') \ Shown(view) \subseteq mine'.added \ (mine.added \cup acked.added)
    PROVE  OwnInv'
<1>1. /\ acked'.added = acked.added /\ sync' = sync /\ save' = save /\ stray' = stray
  BY EditCounts
<1>2. /\ Shown(sync.chat) \cup mine.unsure \subseteq mine.added \cup acked.added
      /\ save.at # "idle" => Shown(save.body) \subseteq mine.added \cup acked.added
  BY DEF SavesInv, MessagesInv
<1>3. ASSUME NEW b \in Chat, IsInjective(b.msgs), OwnEdits(mine, b, view),
             Shown(b) \subseteq mine.added \cup acked.added
      PROVE  OwnEdits(mine', b, view')
  <2>1. view \in Chat /\ IsInjective(view.msgs)
    BY SavesFacts DEF SavesInv, ChatsOnce
  <2>2. OwnEdits(mine', b, view)
    BY <1>3, OwnGrows
  <2>3. Shown(b) \cap Shown(view') \subseteq Shown(view)
    BY <1>3
  <2> QED BY <1>3, <2>1, <2>2, <2>3, OwnThrough
<1>4. OwnEdits(mine', sync.chat, view')
  <2>1. sync.chat \in Chat /\ IsInjective(sync.chat.msgs) /\ OwnEdits(mine, sync.chat, view)
    BY SavesFacts DEF SavesInv, ChatsOnce, OwnInv, OwnState
  <2> QED BY <1>2, <1>3, <2>1
<1>5. ASSUME save.at # "idle"
      PROVE  /\ OwnEdits(mine', sync.chat, save.body)
             /\ OwnEdits(mine', save.body, view')
             /\ Shown(save.body) \cap acked.added \subseteq mine.unsure \cup Shown(sync.chat)
             /\ Shown(view') \ Shown(save.body)
                   \subseteq mine'.added \ (acked.added \cup mine.unsure)
  <2>1. /\ save.body \in Chat /\ IsInjective(save.body.msgs)
        /\ OwnEdits(mine, sync.chat, save.body) /\ OwnEdits(mine, save.body, view)
        /\ Shown(save.body) \cap acked.added \subseteq mine.unsure \cup Shown(sync.chat)
        /\ Shown(view) \ Shown(save.body) \subseteq mine.added \ (acked.added \cup mine.unsure)
    BY <1>5 DEF SavesInv, SaveShape, ChatsOnce, OwnInv, OwnState
  <2>2. OwnEdits(mine', sync.chat, save.body)
    BY <2>1, OwnGrows
  <2>3. OwnEdits(mine', save.body, view')
    BY <1>2, <1>3, <1>5, <2>1
  <2>4. Shown(view') \ Shown(save.body)
           \subseteq (Shown(view) \ Shown(save.body)) \cup (Shown(view') \ Shown(view))
    OBVIOUS
  <2>5. Shown(view') \ Shown(save.body) \subseteq mine'.added \ (acked.added \cup mine.unsure)
    BY <1>2, <2>1, <2>4
  <2> QED BY <2>1, <2>2, <2>3, <2>5
<1>6. Shown(view') \cap acked.added \subseteq mine.unsure \cup Shown(sync.chat)
  <2>1. Shown(view) \cap acked.added \subseteq mine.unsure \cup Shown(sync.chat)
    BY DEF OwnInv, OwnState
  <2> QED BY <2>1
<1>7. stray # NoRequest => OwnEdits(mine', stray.base, stray.body)
  BY OwnGrows DEF OwnInv, OwnState
<1> QED BY <1>1, <1>4, <1>5, <1>6, <1>7 DEF OwnInv, OwnState

(* The three edits of the user.                                            *)
LEMMA TypeOwn == SavesInv /\ OwnInv /\ Type => OwnInv'
<1> SUFFICES ASSUME SavesInv, OwnInv, Type PROVE OwnInv'
  OBVIOUS
<1>1. /\ view \in Chat /\ mine \in MineRecord /\ IsInjective(view.msgs)
      /\ acked.saves + 1 \in 0..MaxSaves /\ UserEdit
  <2>1. acked.saves + 1 \in 1..MaxSaves
    BY EditCounts DEF Type
  <2>2. acked.saves + 1 \in 0..MaxSaves
    BY <2>1, StoreAssumption
  <2> QED BY <2>2, SavesFacts DEF SavesInv, ChatsOnce, Type
<1>2. /\ view' \in Chat /\ view'.msgs = view.msgs /\ view'.ver = acked.saves + 1
  BY <1>1 DEF Type, Chat
<1>3. /\ mine'.removed = mine.removed /\ mine'.returning = mine.returning
      /\ mine'.typed = mine.typed \cup {acked.saves + 1} /\ mine'.added = mine.added
      /\ mine'.unsure = mine.unsure
  BY <1>1 DEF Type, MineRecord
<1>4. OwnEdits(mine', view, view')
  BY <1>2, <1>3 DEF OwnEdits, Shown, KeepsOrder
<1>5. Shown(view') = Shown(view) /\ IsInjective(view'.msgs)
  BY <1>1, <1>2 DEF Shown
<1> QED BY <1>1, <1>2, <1>3, <1>4, <1>5, OwnViewMoves

LEMMA WriteOwn ==
    ASSUME SavesInv, OwnInv, NEW n \in Notes, Write(n)
    PROVE  OwnInv'
<1>1. /\ view \in Chat /\ mine \in MineRecord /\ IsInjective(view.msgs) /\ UserEdit
  BY SavesFacts DEF SavesInv, ChatsOnce, Write
<1>2. Note(n) \in Message /\ Note(n) \notin acked.added /\ Note(n) \notin mine.added
  BY DEF Note, Message, Write
<1>3. Note(n) \notin Shown(view)
  BY <1>2 DEF SavesInv, MessagesInv
<1>4. PICK k \in 0..Len(view.msgs) : view' = Insert(view, k, Note(n))
  BY DEF Write
<1>5. /\ view' \in Chat /\ view'.ver = view.ver
      /\ Shown(view') = Shown(view) \cup {Note(n)}
      /\ IsInjective(view'.msgs)
  BY <1>1, <1>2, <1>3, <1>4, InsertChat, InsertOnce
<1>6. /\ mine'.added = mine.added \cup {Note(n)} /\ mine'.removed = mine.removed
      /\ mine'.returning = mine.returning /\ mine'.unsure = mine.unsure
      /\ mine'.typed = mine.typed
  BY <1>1, <1>2 DEF Write, MineRecord
<1>7. KeepsOrder(view.msgs, view'.msgs)
  <2>1. /\ view.msgs \in Seq(Message) /\ k + 1 \in 1..(Len(view.msgs) + 1)
        /\ view'.msgs = InsertAt(view.msgs, k + 1, Note(n))
    BY <1>1, <1>4 DEF Insert, Chat
  <2>2. Note(n) \notin ToSet(view.msgs)
    BY <1>3 DEF Shown
  <2> QED BY <1>1, <1>2, <1>5, <2>1, <2>2, InsertKeepsOrder
<1>8. OwnEdits(mine', view, view')
  BY <1>5, <1>7 DEF OwnEdits
<1> QED BY <1>1, <1>2, <1>5, <1>6, <1>8, OwnViewMoves

LEMMA StrikeOwn ==
    ASSUME SavesInv, OwnInv, NEW k \in DOMAIN view.msgs, Strike(k)
    PROVE  OwnInv'
<1> DEFINE m == view.msgs[k]
<1>1. /\ view \in Chat /\ mine \in MineRecord /\ IsInjective(view.msgs) /\ UserEdit
  BY SavesFacts DEF SavesInv, ChatsOnce, Strike
<1>2. view.msgs \in Seq(Message) /\ m \in Message /\ k \in 1..Len(view.msgs)
  BY <1>1 DEF Chat
<1>3. view' = Drop(view, k)
  BY DEF Strike
<1>4. /\ view' \in Chat /\ view'.ver = view.ver /\ IsInjective(view'.msgs)
      /\ Shown(view') \subseteq Shown(view) /\ Shown(view) \ {m} \subseteq Shown(view')
  BY <1>1, <1>3, DropChat, DropOnce
<1>5. KeepsOrder(view.msgs, view'.msgs)
  <2>1. view'.msgs = RemoveAt(view.msgs, k)
    BY <1>1, <1>3 DEF Drop, Chat
  <2> QED BY <1>1, <1>2, <1>4, <2>1, RemoveKeepsOrder
<1>6. /\ mine'.added = mine.added /\ mine'.unsure = mine.unsure /\ mine'.typed = mine.typed
      /\ mine'.removed \cup mine'.returning = mine.removed \cup mine.returning \cup {m}
  <2> HIDE DEF m
  <2>1. CASE m \in mine.unsure
    <3>1. mine' = [mine EXCEPT !.returning = @ \cup {m}]
      BY <2>1 DEF Strike, m
    <3> QED BY <3>1, <1>1 DEF MineRecord
  <2>2. CASE m \notin mine.unsure
    <3>1. mine' = [mine EXCEPT !.removed = @ \cup {m}]
      BY <2>2 DEF Strike, m
    <3> QED BY <3>1, <1>1 DEF MineRecord
  <2> QED BY <2>1, <2>2
<1> HIDE DEF m
<1>7. OwnEdits(mine', view, view')
  BY <1>4, <1>5, <1>6 DEF OwnEdits
<1> QED BY <1>1, <1>4, <1>6, <1>7, OwnViewMoves

(* What others add is neither in the view nor in a body of the page.       *)
LEMMA OtherSaveOwn == SavesInv /\ OwnInv /\ OtherSave => OwnInv'
<1> SUFFICES ASSUME SavesInv, OwnInv, OtherSave PROVE OwnInv'
  OBVIOUS
<1>1. view' = view /\ sync' = sync /\ save' = save /\ stray' = stray /\ mine' = mine
  BY DEF OtherSave, pageVars
<1>2. acked'.added \cap (mine.added \cup acked.added) \subseteq acked.added
  BY OthersChange
<1>3. /\ Shown(view) \subseteq mine.added \cup acked.added
      /\ save.at # "idle" => Shown(save.body) \subseteq mine.added \cup acked.added
  BY DEF SavesInv, MessagesInv
<1>4. Shown(view) \cap acked'.added \subseteq Shown(view) \cap acked.added
  BY <1>2, <1>3
<1>5. save.at # "idle" =>
        /\ Shown(save.body) \cap acked'.added \subseteq Shown(save.body) \cap acked.added
        /\ Shown(view) \ Shown(save.body) \subseteq mine.added \ (acked.added \cup mine.unsure)
             => Shown(view) \ Shown(save.body)
                   \subseteq mine.added \ (acked'.added \cup mine.unsure)
  BY <1>2, <1>3
<1> QED BY <1>1, <1>4, <1>5 DEF OwnInv, OwnState

(* The page starts a save, of the view.                                    *)
LEMMA TakeOwn == SavesInv /\ OwnInv /\ Take => OwnInv'
<1> SUFFICES ASSUME SavesInv, OwnInv, Take PROVE OwnInv'
  OBVIOUS
<1> DEFINE s == [at |-> "reprint", body |-> view, base |-> RemoteBase, tries |-> 0,
                 rev |-> IF sync.versioned THEN sync.chat ELSE NoChat]
<1>1. /\ view' = view /\ sync' = sync /\ mine' = mine /\ acked' = acked /\ stray' = stray
      /\ save' = s \/ save' = Attempt(s, sync)
  BY DEF Take, storeVars
<1>2. sync \in SyncRecord /\ s \in SaveRecord /\ s.body = view
  <2>1. sync \in SyncRecord /\ view \in Chat /\ sync.chat \in Chat
    BY SavesFacts
  <2>2. RemoteBase \in Chat \cup {NoChat}
    BY <2>1 DEF RemoteBase
  <2> QED BY <2>1, <2>2 DEF SaveRecord
<1> HIDE DEF s
<1>3. save'.at # "idle" => save'.body = view
  BY <1>1, <1>2, AttemptCases DEF Idle
<1> QED BY <1>1, <1>3, OwnFresh DEF OwnInv, OwnState

(* The page recognises the base of its save, or does not.                  *)
LEMMA ReprintOwn == SavesInv /\ OwnInv /\ Reprint => OwnInv'
<1> SUFFICES ASSUME SavesInv, OwnInv, Reprint PROVE OwnInv'
  OBVIOUS
<1>1. /\ save.at = "reprint" /\ save \in SaveRecord /\ sync \in SyncRecord
      /\ view' = view /\ mine' = mine /\ acked' = acked /\ stray' = stray
  BY SavesFacts DEF Reprint, storeVars
<1>2. CASE live = sync.chat
  <2> DEFINE s == [save EXCEPT !.base = live, !.rev = live]
  <2>1. /\ sync' = Known(live) /\ save' = Attempt(s, Known(live))
    BY <1>2 DEF Reprint
  <2>2. /\ Known(live) \in SyncRecord /\ Known(live).chat = sync.chat
        /\ s \in SaveRecord /\ s.body = save.body
    BY <1>1, <1>2, SavesFacts DEF Known, SyncRecord, SaveRecord
  <2> HIDE DEF s
  <2>3. save'.at # "idle" => save'.body = save.body
    BY <2>1, <2>2, AttemptCases DEF Idle
  <2> QED BY <1>1, <2>1, <2>2, <2>3, OwnKept
<1>3. CASE live # sync.chat
  <2>1. sync' = sync /\ save' = Attempt(save, sync)
    BY <1>3 DEF Reprint
  <2>2. save'.at # "idle" => save'.body = save.body
    BY <1>1, <2>1, AttemptCases DEF Idle
  <2> QED BY <1>1, <2>1, <2>2, OwnKept
<1> QED BY <1>2, <1>3

(* Steps that end or hold up a save and change no chat.                    *)
LEMMA QuietStepsOwn ==
    ASSUME SavesInv, OwnInv,
           \/ Refused \/ Conflict \/ Falter \/ Unconfirmed \/ Evict \/ StoreStep
           \/ UNCHANGED savesVars
    PROVE  OwnInv'
<1>0. save \in SaveRecord /\ sync \in SyncRecord
  BY SavesFacts
<1>1. CASE Refused
  <2>1. /\ save.at = "sent" /\ save' = [save EXCEPT !.at = "confirm"] /\ stray' = NoRequest
        /\ view' = view /\ sync' = sync /\ mine' = mine /\ acked' = acked
    BY <1>1 DEF Refused, storeVars
  <2>2. save'.body = save.body
    BY <2>1, <1>0 DEF SaveRecord
  <2> QED BY <2>1, <2>2, OwnKept
<1>2. CASE Conflict \/ Falter \/ Unconfirmed
  <2>1. /\ save' = Idle /\ stray' = stray
        /\ view' = view /\ sync' = sync /\ mine' = mine /\ acked' = acked
    BY <1>2 DEF Conflict, Falter, Unconfirmed, Requeue, storeVars
  <2> QED BY <2>1, OwnKept DEF Idle
<1>3. CASE Evict
  <2>1. /\ save' = save /\ stray' = stray /\ sync' = [sync EXCEPT !.held = FALSE]
        /\ view' = view /\ mine' = mine /\ acked' = acked
    BY <1>3 DEF Evict, storeVars
  <2>2. sync'.chat = sync.chat
    BY <2>1, <1>0 DEF SyncRecord
  <2> QED BY <2>1, <2>2, OwnKept
<1>4. CASE StoreStep \/ UNCHANGED savesVars
  <2>1. /\ save' = save /\ stray' = stray /\ sync' = sync
        /\ view' = view /\ mine' = mine /\ acked' = acked
    BY <1>4 DEF StoreStep, PersistImage, ClearJournal, Restart, savesVars, storeVars, pageVars
  <2> QED BY <2>1, OwnKept
<1> QED BY <1>1, <1>2, <1>3, <1>4

(* The server has taken the body and says so.                              *)
LEMMA SavedOwn == SavesInv /\ OwnInv /\ (Saved \/ SavedBare) => OwnInv'
<1> SUFFICES ASSUME SavesInv, OwnInv, Saved \/ SavedBare PROVE OwnInv'
  OBVIOUS
<1> DEFINE body == save.body
<1>1. /\ save.at = "sent" /\ Accepts(sync.chat, body) /\ stray' = NoRequest /\ view' = view
      /\ mine' = [mine EXCEPT !.kept = Kept(body), !.unsure = {}]
  BY DEF Saved, SavedBare
<1>2. /\ sync'.chat = body
      /\ save'.at # "idle" => save'.body = body
  <2>1. CASE Saved
    BY <2>1 DEF Saved, Known, Idle
  <2>2. CASE SavedBare
    BY <2>2, SavesFacts DEF SavedBare, SaveRecord
  <2> QED BY <2>1, <2>2
<1>3. body \in Chat /\ mine \in MineRecord
  BY <1>1, SavesFacts DEF SavesInv, SaveShape
<1>4. acked'.added = acked.added \cup Shown(body)
  BY <1>1, <1>3, TakesBody
<1> HIDE DEF body
<1>5. /\ mine'.added = mine.added /\ mine'.removed = mine.removed
      /\ mine'.returning = mine.returning /\ mine'.typed = mine.typed /\ mine'.unsure = {}
  BY <1>1, <1>3 DEF MineRecord
<1>6. /\ OwnEdits(mine, body, view)
      /\ Shown(view) \ Shown(body) \subseteq mine.added \ (acked.added \cup mine.unsure)
  BY <1>1 DEF OwnInv, OwnState, body
<1>7. OwnEdits(mine', body, view) /\ OwnEdits(mine', body, body)
  BY <1>5, <1>6, OwnGrows, OwnSelf
<1>8. /\ Shown(view) \cap acked'.added \subseteq Shown(body)
      /\ Shown(view) \ Shown(body) \subseteq mine'.added \ (acked'.added \cup mine'.unsure)
  BY <1>4, <1>5, <1>6
<1> QED BY <1>1, <1>2, <1>7, <1>8 DEF OwnInv, OwnState

(* There is no answer: what the body adds is in doubt.                     *)
LEMMA DoubtOwn ==
    ASSUME SavesInv, OwnInv, save.at = "sent", NEW kept \in BOOLEAN,
           InDoubt(save.body, kept), view' = view, sync' = sync,
           save' = [save EXCEPT !.at = "confirm"],
           acked.added \subseteq acked'.added,
           acked'.added \subseteq acked.added \cup Shown(save.body),
           stray' \in {NoRequest, [base |-> sync.chat, body |-> save.body]}
    PROVE  OwnInv'
<1> DEFINE body == save.body
<1>1. body \in Chat /\ save'.at = "confirm" /\ save'.body = body
  BY SavesFacts DEF SavesInv, SaveShape, SaveRecord
<1>2. /\ mine'.added = mine.added /\ mine'.typed = mine.typed
      /\ mine'.unsure = mine.unsure \cup Shown(body)
      /\ mine'.returning = mine.returning \cup (mine.removed \cap Shown(body))
      /\ mine'.removed = mine.removed \ Shown(body)
  BY <1>1, DoubtsBody, ShownMessages
<1>3. /\ OwnEdits(mine, sync.chat, view) /\ OwnEdits(mine, sync.chat, body)
      /\ OwnEdits(mine, body, view)
      /\ Shown(view) \cap acked.added \subseteq mine.unsure \cup Shown(sync.chat)
      /\ Shown(body) \cap acked.added \subseteq mine.unsure \cup Shown(sync.chat)
      /\ Shown(view) \ Shown(body) \subseteq mine.added \ (acked.added \cup mine.unsure)
  BY DEF OwnInv, OwnState
<1>4. acked'.added \subseteq acked.added \cup Shown(body)
  OBVIOUS
<1> HIDE DEF body
<1>5. /\ OwnEdits(mine', sync.chat, view) /\ OwnEdits(mine', sync.chat, body)
      /\ OwnEdits(mine', body, view)
  <2>1. /\ mine.removed \cup mine.returning \subseteq mine'.removed \cup mine'.returning
        /\ mine.typed \subseteq mine'.typed
    BY <1>2
  <2> QED BY <1>3, <2>1, OwnGrows
<1>6. /\ Shown(view) \cap acked'.added \subseteq mine'.unsure \cup Shown(sync.chat)
      /\ Shown(body) \cap acked'.added \subseteq mine'.unsure \cup Shown(sync.chat)
      /\ Shown(view) \ Shown(body) \subseteq mine'.added \ (acked'.added \cup mine'.unsure)
  BY <1>2, <1>3, <1>4
<1>7. stray' # NoRequest => OwnEdits(mine', stray'.base, stray'.body)
  BY <1>5 DEF body
<1> QED BY <1>1, <1>5, <1>6, <1>7 DEF OwnInv, OwnState

(* The answer or the request is lost.                                      *)
LEMMA LostOwn == SavesInv /\ OwnInv /\ (AnswerLost \/ RequestLost) => OwnInv'
<1> SUFFICES ASSUME SavesInv, OwnInv, AnswerLost \/ RequestLost PROVE OwnInv'
  OBVIOUS
<1>1. save.at = "sent" /\ save.body \in Chat /\ mine \in MineRecord
  BY SavesFacts DEF AnswerLost, RequestLost, SavesInv, SaveShape
<1>2. mine.kept \in BOOLEAN /\ Kept(save.body) \in BOOLEAN
  BY <1>1 DEF MineRecord, Kept
<1>3. CASE AnswerLost
  <2>1. acked'.added = acked.added \cup Shown(save.body)
    BY <1>1, <1>3, TakesBody DEF AnswerLost
  <2>2. /\ InDoubt(save.body, Kept(save.body)) /\ stray' = NoRequest
        /\ view' = view /\ sync' = sync /\ save' = [save EXCEPT !.at = "confirm"]
    BY <1>3 DEF AnswerLost
  <2> HIDE DEF Kept
  <2> QED BY <1>1, <1>2, <2>1, <2>2, DoubtOwn
<1>4. CASE RequestLost
  <2>1. /\ InDoubt(save.body, mine.kept) /\ acked' = acked
        /\ stray' = [base |-> sync.chat, body |-> save.body]
        /\ view' = view /\ sync' = sync /\ save' = [save EXCEPT !.at = "confirm"]
    BY <1>4 DEF RequestLost, storeVars
  <2> QED BY <1>1, <1>2, <2>1, DoubtOwn
<1> QED BY <1>3, <1>4

(* A request that arrives late was made by the page.                       *)
LEMMA StrayIs ==
    ASSUME SavesInv, Accepts(stray.base, stray.body)
    PROVE  stray # NoRequest /\ stray.body \in Chat
<1>1. stray.base \in Chat
  BY SavesFacts DEF Accepts
<1>2. stray # NoRequest
  BY <1>1, StoreAssumption DEF NoRequest
<1> QED BY <1>2 DEF SavesInv, SaveShape

(* What a late request adds has been in doubt since it was lost.           *)
LEMMA LateOwn == SavesInv /\ OwnInv /\ Late => OwnInv'
<1> SUFFICES ASSUME SavesInv, OwnInv, Late PROVE OwnInv'
  OBVIOUS
<1>1. /\ Accepts(stray.base, stray.body) /\ stray' = NoRequest
      /\ mine' = [mine EXCEPT !.kept = Kept(stray.body)]
      /\ view' = view /\ sync' = sync /\ save' = save
  BY DEF Late
<1>2. acked'.added = acked.added \cup Shown(stray.body)
  BY <1>1, StrayIs, TakesBody
<1>3. Shown(stray.body) \subseteq mine.unsure
  BY <1>1, StrayIs DEF SavesInv, MessagesInv
<1>4. /\ mine'.added = mine.added /\ mine'.removed = mine.removed
      /\ mine'.returning = mine.returning /\ mine'.typed = mine.typed
      /\ mine'.unsure = mine.unsure
  BY <1>1, SavesFacts DEF MineRecord
<1>5. /\ OwnEdits(mine', sync.chat, view)
      /\ save.at # "idle" => /\ OwnEdits(mine', sync.chat, save.body)
                             /\ OwnEdits(mine', save.body, view)
  BY <1>4, OwnGrows DEF OwnInv, OwnState
<1>6. Shown(view) \cap acked'.added \subseteq mine'.unsure \cup Shown(sync.chat)
  BY <1>2, <1>3, <1>4 DEF OwnInv, OwnState
<1>7. ASSUME save.at # "idle"
      PROVE  /\ Shown(save.body) \cap acked'.added \subseteq mine'.unsure \cup Shown(sync.chat)
             /\ Shown(view) \ Shown(save.body)
                   \subseteq mine'.added \ (acked'.added \cup mine'.unsure)
  BY <1>2, <1>3, <1>4, <1>7 DEF OwnInv, OwnState
<1> QED BY <1>1, <1>5, <1>6, <1>7 DEF OwnInv, OwnState

(* The server has what the save wanted.                                    *)
LEMMA ConfirmedOwn == SavesInv /\ OwnInv /\ Confirmed => OwnInv'
<1> SUFFICES ASSUME SavesInv, OwnInv, Confirmed PROVE OwnInv'
  OBVIOUS
<1>1. /\ save.at # "idle" /\ live = save.body /\ sync'.chat = save.body /\ save'.at = "idle"
      /\ Learns(Message) /\ acked' = acked /\ view' = view /\ stray' = stray
  BY DEF Confirmed, Known, Idle, storeVars
<1>2. /\ mine'.removed = mine.removed /\ mine'.returning = mine.returning
      /\ mine'.typed = mine.typed
  BY <1>1, LearnsLess
<1>3. /\ OwnEdits(mine, save.body, view)
      /\ Shown(view) \cap acked.added \subseteq Shown(save.body)
      /\ stray # NoRequest => OwnEdits(mine, stray.base, stray.body)
  BY <1>1 DEF OwnInv, OwnState
<1>4. /\ OwnEdits(mine', save.body, view)
      /\ stray # NoRequest => OwnEdits(mine', stray.base, stray.body)
  BY <1>2, <1>3, OwnGrows
<1> QED BY <1>1, <1>3, <1>4, OwnFresh

(* What a rebase makes of the view is the chat of the server with the      *)
(* edits of the user: both merges keep the order of the other side.        *)
LEMMA RebasedOwn ==
    ASSUME SavesInv, OwnInv, save.at \in {"confirm", "baseline"}, NEW chat \in Merges(live)
    PROVE  /\ OwnEdits(mine, live, chat)
           /\ (Shown(chat) \cap acked.added) \ Shown(live) \subseteq mine.unsure
<1> DEFINE base == sync.chat
           body == save.body
<1>1. /\ save.base # NoChat
      /\ \E next \in RebaseChatSave(save.base, save.body, live) :
            chat \in RebaseChatSave(save.body, view, next)
  BY DEF Merges
<1>2. PICK next \in RebaseChatSave(base, body, live) :
           chat \in RebaseChatSave(body, view, next)
  BY <1>1 DEF SavesInv, SaveShape
<1>3. /\ base \in Chat /\ IsInjective(base.msgs)
      /\ body \in Chat /\ IsInjective(body.msgs)
      /\ view \in Chat /\ IsInjective(view.msgs)
      /\ live \in Chat /\ IsInjective(live.msgs)
      /\ Shown(live) \subseteq acked.added
  BY SavesFacts, Sending DEF SavesInv, ChatsOnce, MessagesInv
<1>4. /\ OwnEdits(mine, base, body) /\ OwnEdits(mine, body, view)
      /\ Shown(body) \cap acked.added \subseteq mine.unsure \cup Shown(base)
      /\ Shown(view) \ Shown(body) \subseteq mine.added \ (acked.added \cup mine.unsure)
  BY DEF OwnInv, OwnState
<1> HIDE DEF base, body
<1>5. /\ next \in Chat /\ IsInjective(next.msgs)
      /\ Shown(next) = MergedSet(Shown(base), Shown(body), Shown(live))
      /\ next.ver \in MergeValue(base.ver, body.ver, live.ver)
  BY <1>2, <1>3, MergedChat
<1>6. /\ chat \in Chat /\ IsInjective(chat.msgs)
      /\ Shown(chat) = MergedSet(Shown(body), Shown(view), Shown(next))
      /\ chat.ver \in MergeValue(body.ver, view.ver, next.ver)
  BY <1>2, <1>3, <1>5, MergedChat
<1>7. /\ base.msgs \in Seq(Message) /\ body.msgs \in Seq(Message) /\ view.msgs \in Seq(Message)
      /\ live.msgs \in Seq(Message) /\ next.msgs \in Seq(Message) /\ chat.msgs \in Seq(Message)
  BY <1>3, <1>5, <1>6 DEF Chat
<1>8. KeepsOrder(live.msgs, next.msgs)
  <2>1. next.msgs \in MergeMessages(base.msgs, body.msgs, live.msgs)
    BY <1>2 DEF RebaseChatSave
  <2>2. KeepsOrder(base.msgs, body.msgs)
    BY <1>4 DEF OwnEdits
  <2> QED BY <1>3, <1>7, <2>1, <2>2, MergeKeepsOrder
<1>9. KeepsOrder(next.msgs, chat.msgs)
  <2>1. chat.msgs \in MergeMessages(body.msgs, view.msgs, next.msgs)
    BY <1>2 DEF RebaseChatSave
  <2>2. KeepsOrder(body.msgs, view.msgs)
    BY <1>4 DEF OwnEdits
  <2> QED BY <1>3, <1>5, <1>7, <2>1, <2>2, MergeKeepsOrder
<1>10. KeepsOrder(live.msgs, chat.msgs)
  <2>1. Shown(live) \cap Shown(chat) \subseteq Shown(next)
    BY <1>3, <1>4, <1>6 DEF MergedSet
  <2>2. ToSet(live.msgs) \cap ToSet(chat.msgs) \subseteq ToSet(next.msgs)
    BY <2>1 DEF Shown
  <2> QED BY <1>3, <1>5, <1>6, <1>7, <1>8, <1>9, <2>2, KeepsOrderThrough
<1>11. Shown(live) \ Shown(chat) \subseteq mine.removed \cup mine.returning
  <2>1. /\ Shown(base) \ Shown(body) \subseteq mine.removed \cup mine.returning
        /\ Shown(body) \ Shown(view) \subseteq mine.removed \cup mine.returning
    BY <1>4 DEF OwnEdits
  <2>2. Shown(live) \ Shown(next) \subseteq Shown(base) \ Shown(body)
    BY <1>5 DEF MergedSet
  <2>3. Shown(next) \ Shown(chat) \subseteq Shown(body) \ Shown(view)
    BY <1>6 DEF MergedSet
  <2> QED BY <2>1, <2>2, <2>3
<1>12. chat.ver \in mine.typed \cup {live.ver}
  <2>1. body.ver \in mine.typed \cup {base.ver} /\ view.ver \in mine.typed \cup {body.ver}
    BY <1>4 DEF OwnEdits
  <2>2. next.ver \in mine.typed \cup {live.ver}
    BY <2>1, <1>5 DEF MergeValue
  <2> QED BY <2>1, <2>2, <1>6 DEF MergeValue
<1>13. (Shown(chat) \cap acked.added) \ Shown(live) \subseteq mine.unsure
  BY <1>4, <1>5, <1>6 DEF MergedSet
<1> QED BY <1>10, <1>11, <1>12, <1>13 DEF OwnEdits

(* The page shows the merge and goes on with it.                           *)
LEMMA RebaseOwn == SavesInv /\ OwnInv /\ Rebase => OwnInv'
<1> SUFFICES ASSUME SavesInv, OwnInv, Rebase PROVE OwnInv'
  OBVIOUS
<1>1. /\ save.at \in {"confirm", "baseline"} /\ sync'.chat = live
      /\ Learns(Shown(live)) /\ acked' = acked /\ stray' = stray
  BY DEF Rebase, Merged, Known, storeVars
<1> DEFINE next(chat) == [save EXCEPT !.base = live, !.rev = live, !.body = chat, !.tries = @ + 1]
<1>2. PICK chat \in Merges(live) :
        /\ view' = chat
        /\ save' = Attempt(next(chat), Known(live))
  BY DEF Rebase, Merged
<1>3. /\ OwnEdits(mine, live, chat)
      /\ (Shown(chat) \cap acked.added) \ Shown(live) \subseteq mine.unsure
  BY <1>1, RebasedOwn
<1>4. /\ mine'.removed = mine.removed /\ mine'.returning = mine.returning
      /\ mine'.typed = mine.typed
      /\ mine.unsure \ Shown(live) \subseteq mine'.unsure
  <2>1. mine' = [mine EXCEPT !.unsure = IF stray = NoRequest THEN @ \ Shown(live) ELSE @]
    BY <1>1 DEF Learns
  <2> QED BY <2>1, SavesFacts DEF MineRecord
<1>5. OwnEdits(mine', live, chat)
  BY <1>3, <1>4, OwnGrows
<1>6. Shown(chat) \cap acked.added \subseteq mine'.unsure \cup Shown(live)
  BY <1>3, <1>4
<1>7. save'.at # "idle" => save'.body = chat
  <2> DEFINE s == next(chat)
  <2>1. chat \in Chat /\ save.tries # 2
    BY <1>1, RebasedView
  <2>2. save \in SaveRecord /\ live \in Chat /\ Known(live) \in SyncRecord
    BY SavesFacts DEF Known, SyncRecord
  <2>3. s \in SaveRecord /\ s.body = chat
    <3>1. save.tries + 1 \in 0..2
      BY <2>1, <2>2 DEF SaveRecord
    <3> QED BY <2>1, <2>2, <3>1 DEF SaveRecord
  <2>4. save' = Attempt(s, Known(live))
    BY <1>2
  <2> HIDE DEF s
  <2> QED BY <2>2, <2>3, <2>4, AttemptCases DEF Idle
<1>8. stray' # NoRequest => OwnEdits(mine', stray'.base, stray'.body)
  BY <1>1, <1>4, OwnGrows DEF OwnInv, OwnState
<1> QED BY <1>1, <1>2, <1>5, <1>6, <1>7, <1>8, OwnFresh

(* Every step keeps the invariant.                                         *)
LEMMA OwnInvNext == SavesInv /\ OwnInv /\ [SavesNext]_savesVars => OwnInv'
<1> SUFFICES ASSUME SavesInv, OwnInv, [SavesNext]_savesVars PROVE OwnInv'
  OBVIOUS
<1>1. CASE UserEdits
  BY <1>1, TypeOwn, WriteOwn, StrikeOwn DEF UserEdits
<1>2. CASE ReadsChat
  BY <1>2, ReprintOwn, ConfirmedOwn, RebaseOwn, QuietStepsOwn DEF ReadsChat
<1>3. CASE GetsAnswer
  BY <1>3, SavedOwn, QuietStepsOwn DEF GetsAnswer
<1>4. CASE GoesWrong
  BY <1>4, SavedOwn, LostOwn, LateOwn, QuietStepsOwn DEF GoesWrong
<1> QED
  BY <1>1, <1>2, <1>3, <1>4, OtherSaveOwn, TakeOwn, QuietStepsOwn DEF SavesNext

(* A body that the server takes from the page.                             *)
LEMMA TakenIsOwn ==
    ASSUME SavesInv, OwnInv, NEW base, NEW body, Accepts(base, body),
           \/ save.at # "idle" /\ base = sync.chat /\ body = save.body
           \/ base = stray.base /\ body = stray.body
    PROVE  /\ live = base /\ live' = body
           /\ OwnEdits(mine, base, body)
           /\ Shown(body) \ Shown(base) \subseteq (mine.added \ acked.added) \cup mine.unsure
<1>1. CASE save.at # "idle" /\ base = sync.chat /\ body = save.body
  <2>1. Shown(save.body) \subseteq mine.added \cup acked.added
    BY <1>1 DEF SavesInv, MessagesInv
  <2>2. /\ OwnEdits(mine, base, body)
        /\ Shown(body) \cap acked.added \subseteq mine.unsure \cup Shown(base)
    BY <1>1 DEF OwnInv, OwnState
  <2> QED BY <1>1, <2>1, <2>2 DEF Accepts
<1>2. CASE base = stray.base /\ body = stray.body
  <2>1. stray # NoRequest
    BY <1>2, StrayIs
  <2>2. OwnEdits(mine, base, body) /\ Shown(body) \subseteq mine.unsure
    BY <1>2, <2>1 DEF OwnInv, OwnState, SavesInv, MessagesInv
  <2> QED BY <2>2 DEF Accepts
<1> QED BY <1>1, <1>2

(* The chat changes with a save of the page, or with a save that counts.   *)
LEMMA WhoChangesLive ==
    ASSUME SavesInv, SavesNext, live' # live, acked'.saves = acked.saves
    PROVE  \/ save.at # "idle" /\ Accepts(sync.chat, save.body)
           \/ Accepts(stray.base, stray.body)
<1>1. acked.saves \in Nat
  BY SavesFacts, StoreAssumption
<1>2. ~UserEdits
  BY DEF UserEdits, Type, Write, Strike, UserEdit
<1>3. ~OtherSave
  BY <1>1, OthersChange
<1>4. ~Take /\ ~ReadsChat
  BY DEF Take, ReadsChat, Reprint, Confirmed, Rebase, Conflict, Requeue, storeVars
<1>5. ~StoreStep
  <2>1. Reloaded = live
    BY SavesFacts DEF StoreInv, RestartLosesNothing
  <2> QED BY <2>1 DEF StoreStep, PersistImage, ClearJournal, Restart
<1>6. CASE GetsAnswer
  BY <1>6 DEF GetsAnswer, Saved, Refused, storeVars
<1>7. CASE GoesWrong
  BY <1>7 DEF GoesWrong, SavedBare, AnswerLost, RequestLost, Late, Falter, Unconfirmed, Evict,
             Requeue, storeVars
<1> QED BY <1>2, <1>3, <1>4, <1>5, <1>6, <1>7 DEF SavesNext

(* saveChatContentAttempt and rebaseChatSaveConflict: what the server      *)
(* takes from the page, in time or late, changes the chat that it serves   *)
(* only by what the user of the page has done.                             *)
THEOREM OwnEditsOnly == SavesSpec => OnlyOwnEdits
<1>1. ASSUME SavesInv, OwnInv, [SavesNext]_savesVars,
             live' # live, acked'.saves = acked.saves
      PROVE  /\ Shown(live') \ Shown(live) \subseteq (mine.added \ acked.added) \cup mine.unsure
             /\ Shown(live) \ Shown(live') \subseteq mine.removed \cup mine.returning
             /\ live'.ver # live.ver => live'.ver \in mine.typed
             /\ Only(live.msgs, Shown(live')) = Only(live'.msgs, Shown(live))
  <2>1. SavesNext
    BY <1>1 DEF savesVars, storeVars
  <2>2. /\ OwnEdits(mine, live, live')
        /\ Shown(live') \ Shown(live) \subseteq (mine.added \ acked.added) \cup mine.unsure
    BY <1>1, <2>1, WhoChangesLive, TakenIsOwn
  <2> QED BY <2>2 DEF OwnEdits, KeepsOrder, Shown
<1>2. SavesInv /\ OwnInv /\ [SavesNext]_savesVars =>
        [live' # live /\ acked'.saves = acked.saves =>
          /\ Shown(live') \ Shown(live) \subseteq (mine.added \ acked.added) \cup mine.unsure
          /\ Shown(live) \ Shown(live') \subseteq mine.removed \cup mine.returning
          /\ live'.ver # live.ver => live'.ver \in mine.typed
          /\ Only(live.msgs, Shown(live')) = Only(live'.msgs, Shown(live))]_savesVars
  BY <1>1
<1> QED
  BY <1>2, SavesInvInit, SavesInvNext, OwnInvInit, OwnInvNext, PTL
     DEF SavesSpec, OnlyOwnEdits
=============================================================================
