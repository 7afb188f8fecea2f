-------------------------- MODULE PatchComposeProofs --------------------------
(***************************************************************************)
(* Lemmas about the composition of patch packs, which are computed by      *)
(* recursive functions: the selection that the resolver ends with is       *)
(* closed, units applied on texts are taken off again in the opposite      *)
(* order. The theorems about the installer rest on them.                   *)
(*                                                                         *)
(* Every recursion goes up a count from 0. That a function of that form    *)
(* exists, and what holds of its values, is shown for the least count at   *)
(* which it would fail.                                                    *)
(***************************************************************************)
EXTENDS PatchCompose, FiniteSetTheorems, SequenceTheorems,
        WellFoundedInduction, TLAPS

---------------------------------------------------------------------------
(* Induction. The least number that is not in a set of good ones takes the *)
(* place of the library's induction rule, whose parameter is a predicate.  *)

LessThan == {p \in Nat \X Nat : p[1] < p[2]}

LEMMA LessFounded == IsWellFoundedOn(LessThan, Nat)
  BY NatLessThanWellFounded DEF OpToRel, LessThan

LEMMA LeastNumber ==
    ASSUME NEW T, T \subseteq Nat, T # {}
    PROVE  \E n \in T : n \in Nat /\ \A m \in Nat : m < n => m \notin T
  <1>1. \A m, n \in Nat : m < n => <<m, n>> \in LessThan
    BY DEF LessThan
  <1>2. \E n \in T : \A m \in T : ~(<<m, n>> \in LessThan)
    BY LessFounded, WFMin
  <1>. QED  BY <1>1, <1>2

LEMMA UpFrom0 ==
    ASSUME NEW T, 0 \in T, \A n \in Nat : n \in T => n + 1 \in T
    PROVE  Nat \subseteq T
  <1> SUFFICES ASSUME Nat \ T # {} PROVE FALSE
      OBVIOUS
  <1>1. PICK n \in Nat \ T : \A m \in Nat : m < n => m \notin Nat \ T
    <2> DEFINE R == Nat \ T
    <2>1. R \subseteq Nat /\ R # {}
      OBVIOUS
    <2> HIDE DEF R
    <2>2. \E n \in R : n \in Nat /\ \A m \in Nat : m < n => m \notin R
      BY <2>1, LeastNumber
    <2>. QED  BY <2>2 DEF R
  <1>2. n # 0 /\ n - 1 \in Nat /\ n - 1 < n /\ (n - 1) + 1 = n
    BY <1>1
  <1>. QED  BY <1>1, <1>2

---------------------------------------------------------------------------
(* The selection                                                           *)

(* What a set of packs requires is selected with it.                       *)
Closed(cat, T) == \A p \in T : cat[p].requires \subseteq T

LEMMA RequiredClosed ==
    ASSUME NEW cat, IsCatalog(cat), NEW S
    PROVE  /\ WithRequired(cat, S) \subseteq DOMAIN cat
           /\ Closed(cat, WithRequired(cat, S))
  <1> DEFINE W == WithRequired(cat, S)
  <1>1. W \subseteq DOMAIN cat
    BY DEF WithRequired
  <1>2. ASSUME NEW p \in W, NEW r \in cat[p].requires PROVE r \in W
    <2>1. p \in DOMAIN cat /\ r \in DOMAIN cat
      BY <1>1 DEF IsCatalog
    <2>2. ASSUME NEW T \in SUBSET DOMAIN cat, S \subseteq T,
                 \A q \in T : cat[q].requires \subseteq T
          PROVE  r \in T
      BY <2>2 DEF WithRequired
    <2>. QED  BY <2>1, <2>2 DEF WithRequired
  <1>. QED  BY <1>1, <1>2 DEF Closed

(* The packs after the first n packs of the catalog have taken their turn. *)
SupersedingSteps(cat, S, k, g) ==
    g = [n \in 0..k |->
            IF n = 0 THEN [packs |-> S, ok |-> TRUE]
            ELSE IF n \in S THEN Supersede(cat, g[n - 1], n)
            ELSE g[n - 1]]

LEMMA SupersedeFields ==
    ASSUME NEW cat, NEW acc, NEW p
    PROVE  LET list == cat[p].supersedes
           IN  /\ Supersede(cat, acc, p).packs = acc.packs \ ToSet(list)
               /\ Supersede(cat, acc, p).ok =>
                     /\ acc.ok
                     /\ \A k \in DOMAIN list :
                           ~(/\ list[k] \in acc.packs
                             /\ \E q \in acc.packs \ {list[j] : j \in 1..k} :
                                    list[k] \in cat[q].requires)
  BY Zenon DEF Supersede

LEMMA SupersedingExists ==
    ASSUME NEW cat, NEW S
    PROVE  \A k \in Nat : \E g : SupersedingSteps(cat, S, k, g)
  <1> DEFINE T == {k \in Nat : \E g : SupersedingSteps(cat, S, k, g)}
             base == [packs |-> S, ok |-> TRUE]
  <1>1. 0 \in T
    <2>1. SupersedingSteps(cat, S, 0, [n \in 0..0 |-> base])
      BY DEF SupersedingSteps
    <2>. QED  BY <2>1
  <1>2. ASSUME NEW k \in Nat, k \in T PROVE k + 1 \in T
    <2>1. PICK g : SupersedingSteps(cat, S, k, g)
      BY <1>2
    <2> DEFINE last == IF k + 1 \in S THEN Supersede(cat, g[k], k + 1) ELSE g[k]
               h == [n \in 0..(k + 1) |-> IF n = k + 1 THEN last ELSE g[n]]
    <2>2. \A n \in 0..k : h[n] = g[n]
      OBVIOUS
    <2>3. h[k + 1] = last
      OBVIOUS
    <2>4. ASSUME NEW n \in 0..(k + 1)
          PROVE  h[n] = IF n = 0 THEN base
                        ELSE IF n \in S THEN Supersede(cat, h[n - 1], n)
                        ELSE h[n - 1]
      <3>1. CASE n = k + 1
        BY <2>2, <2>3, <3>1
      <3>2. CASE n # k + 1
        <4>1. n \in 0..k /\ (n # 0 => n - 1 \in 0..k)
          BY <3>2
        <4>. QED  BY <2>1, <2>2, <4>1 DEF SupersedingSteps
      <3>. QED  BY <3>1, <3>2
    <2>5. SupersedingSteps(cat, S, k + 1, h)
      BY <2>4 DEF SupersedingSteps
    <2>. QED  BY <2>5
  <1>. QED  BY <1>1, <1>2, UpFrom0

(* What the turns of the packs leave is closed, if none was refused, and   *)
(* has nothing that one of the packs which were there at first supersedes. *)
LEMMA SupersedingCloses ==
    ASSUME NEW cat, IsCatalog(cat), NEW S, S \subseteq DOMAIN cat,
           Closed(cat, S), Superseding(cat, S).ok
    PROVE  LET packs == Superseding(cat, S).packs
           IN  /\ packs \subseteq S
               /\ Closed(cat, packs)
               /\ \A p \in packs : ToSet(cat[p].supersedes) \cap packs = {}
  <1> DEFINE N == Len(cat)
             g == CHOOSE f : SupersedingSteps(cat, S, N, f)
  <1>1. N \in Nat /\ DOMAIN cat = 1..N
    BY DEF IsCatalog
  <1>2. SupersedingSteps(cat, S, N, g)
    BY <1>1, SupersedingExists
  <1>3. Superseding(cat, S) = g[N]
    BY DEF Superseding, SupersedingSteps
  <1> HIDE DEF g, N
  <1>4. g[0] = [packs |-> S, ok |-> TRUE]
    <2>1. 0 \in 0..N
      BY <1>1
    <2>. QED  BY <1>2, <2>1 DEF SupersedingSteps
  <1>5. ASSUME NEW n \in Nat, n + 1 <= N
        PROVE  g[n + 1] = IF n + 1 \in S THEN Supersede(cat, g[n], n + 1)
                          ELSE g[n]
    <2>1. n + 1 \in 0..N /\ n + 1 # 0 /\ (n + 1) - 1 = n
      BY <1>1, <1>5
    <2>. QED  BY <1>2, <2>1 DEF SupersedingSteps
  <1> DEFINE Good(n) ==
          g[n].ok =>
              /\ g[n].packs \subseteq S
              /\ Closed(cat, g[n].packs)
              /\ \A p \in S : p <= n => ToSet(cat[p].supersedes) \cap g[n].packs = {}
             T == {n \in Nat : n <= N => Good(n)}
  <1>6. 0 \in T
    BY <1>1, <1>4
  <1>7. ASSUME NEW n \in Nat, n \in T PROVE n + 1 \in T
    <2> SUFFICES ASSUME n + 1 <= N, g[n + 1].ok
                 PROVE  /\ g[n + 1].packs \subseteq S
                        /\ Closed(cat, g[n + 1].packs)
                        /\ \A p \in S : p <= n + 1 =>
                              ToSet(cat[p].supersedes) \cap g[n + 1].packs = {}
        OBVIOUS
    <2>1. Good(n)
      BY <1>1, <1>7
    <2>2. CASE n + 1 \notin S
      <3>1. g[n + 1] = g[n]
        BY <1>5, <2>2
      <3>2. \A p \in S : p <= n + 1 => p <= n
        BY <1>1, <2>2
      <3>. QED  BY <2>1, <3>1, <3>2
    <2>3. CASE n + 1 \in S
      <3> DEFINE list == cat[n + 1].supersedes
                 P == g[n].packs
      <3>1. g[n + 1] = Supersede(cat, g[n], n + 1)
        BY <1>5, <2>3
      <3>2. /\ g[n].ok
            /\ g[n + 1].packs = P \ ToSet(list)
            /\ \A k \in DOMAIN list :
                  ~(/\ list[k] \in P
                    /\ \E q \in P \ {list[j] : j \in 1..k} :
                           list[k] \in cat[q].requires)
        BY <3>1, SupersedeFields
      <3>3. /\ P \subseteq S /\ Closed(cat, P)
            /\ \A p \in S : p <= n => ToSet(cat[p].supersedes) \cap P = {}
        BY <2>1, <3>2
      <3>4. list \in Seq(DOMAIN cat)
        BY <2>3 DEF IsCatalog
      <3> HIDE DEF list, P
      <3>5. Len(list) \in Nat /\ DOMAIN list = 1..Len(list)
        BY <3>4
      <3>6. ASSUME NEW q \in P \ ToSet(list), NEW r \in cat[q].requires
            PROVE  r \in P \ ToSet(list)
        <4>1. r \in P
          BY <3>3, <3>6 DEF Closed
        <4>2. ASSUME r \in ToSet(list) PROVE FALSE
          <5>1. PICK k \in DOMAIN list : r = list[k]
            BY <4>2 DEF ToSet
          <5>2. \A j \in 1..k : j \in DOMAIN list
            BY <3>5
          <5>3. q \notin {list[j] : j \in 1..k}
            BY <3>6, <5>2 DEF ToSet
          <5>. QED  BY <3>2, <3>6, <4>1, <5>1, <5>3
        <4>. QED  BY <4>1, <4>2
      <3>7. Closed(cat, g[n + 1].packs)
        BY <3>2, <3>6 DEF Closed
      <3>8. \A p \in S : p <= n + 1 => p <= n \/ p = n + 1
        BY <1>1
      <3>9. \A p \in S : p <= n + 1 =>
                ToSet(cat[p].supersedes) \cap g[n + 1].packs = {}
        BY <3>2, <3>3, <3>8 DEF list
      <3>. QED  BY <3>2, <3>3, <3>7, <3>9
    <2>. QED  BY <2>2, <2>3
  <1>8. Good(N)
    <2> HIDE DEF Good
    <2>1. Nat \subseteq T
      <3> HIDE DEF T
      <3>. QED  BY <1>6, <1>7, UpFrom0
    <2>. QED  BY <1>1, <2>1
  <1>9. \A p \in S : p <= N
    BY <1>1
  <1>. QED  BY <1>3, <1>8, <1>9

(* A selection that is not refused is closed.                              *)
LEMMA ResolutionCloses ==
    ASSUME NEW cat, IsCatalog(cat), NEW requested,
           Resolution(cat, requested).ok
    PROVE  LET packs == Resolution(cat, requested).packs
           IN  /\ Closed(cat, packs)
               /\ \A p \in packs :
                     (cat[p].conflicts \cup ToSet(cat[p].supersedes))
                         \cap packs = {}
  <1> DEFINE superseded == UNION {ToSet(cat[p].supersedes) : p \in requested}
             scans == CHOOSE scan : scan = [n \in 0..Len(cat) |->
                 IF n = 0 THEN requested \ superseded
                 ELSE AutoScan(cat, scan[n - 1])]
             E == WithRequired(cat, scans[Len(cat)])
  <1>1. Expanded(cat, requested \ superseded) = E
    BY DEF Expanded
  <1>2. E \subseteq DOMAIN cat /\ Closed(cat, E)
    BY RequiredClosed
  <1> HIDE DEF E, scans
  <1>3. /\ Resolution(cat, requested).packs = Superseding(cat, E).packs
        /\ Superseding(cat, E).ok
        /\ \A p \in Superseding(cat, E).packs :
              cat[p].conflicts \cap Superseding(cat, E).packs = {}
    BY <1>1 DEF Resolution
  <1>. QED  BY <1>2, <1>3, SupersedingCloses

---------------------------------------------------------------------------
(* Texts                                                                   *)

LEMMA LeastOf ==
    ASSUME NEW S, S \subseteq Nat, S # {}
    PROVE  Min(S) \in S /\ \A x \in S : Min(S) <= x
  <1>1. PICK n \in S : n \in Nat /\ \A m \in Nat : m < n => m \notin S
    BY LeastNumber
  <1>2. \A m \in S : n <= m
    BY <1>1
  <1>. QED  BY <1>2 DEF Min

LEMMA WidenSeq ==
    ASSUME NEW T, NEW s, s \in Seq(ToSet(s)), ToSet(s) \subseteq T
    PROVE  s \in Seq(T)
  <1>1. Len(s) \in Nat /\ DOMAIN s = 1..Len(s) /\ s = [k \in 1..Len(s) |-> s[k]]
    OBVIOUS
  <1>2. \A k \in 1..Len(s) : s[k] \in T
    BY <1>1 DEF ToSet
  <1>. QED  BY <1>1, <1>2

(* The tokens of a spliced text, and where they come from.                 *)
LEMMA SpliceElements ==
    ASSUME NEW T, NEW text \in Seq(T), NEW s \in Seq(T),
           NEW i \in Nat, NEW n \in Nat, 1 <= i, i + n <= Len(text) + 1
    PROVE  LET new == Splice(text, i, n, s)
           IN  /\ new \in Seq(T)
               /\ Len(new) = Len(text) - n + Len(s)
               /\ \A k \in 1..Len(new) :
                     new[k] = IF k < i THEN text[k]
                              ELSE IF k < i + Len(s) THEN s[k - i + 1]
                              ELSE text[k - Len(s) + n]
  <1> DEFINE a == SubSeq(text, 1, i - 1)
             b == SubSeq(text, i + n, Len(text))
  <1>1. Len(text) \in Nat /\ Len(s) \in Nat
    OBVIOUS
  <1>2. /\ a \in Seq(T) /\ Len(a) = i - 1
        /\ \A k \in 1..(i - 1) : a[k] = text[k]
    BY <1>1
  <1>3. /\ b \in Seq(T) /\ Len(b) = Len(text) - (i + n) + 1
        /\ \A k \in 1..Len(b) : b[k] = text[i + n + k - 1]
    BY <1>1
  <1>4. Splice(text, i, n, s) = (a \o s) \o b
    BY DEF Splice
  <1> HIDE DEF a, b
  <1>5. /\ a \o s \in Seq(T) /\ Len(a \o s) = Len(a) + Len(s)
        /\ \A k \in 1..(Len(a) + Len(s)) :
              (a \o s)[k] = IF k <= Len(a) THEN a[k] ELSE s[k - Len(a)]
    BY <1>1, <1>2
  <1> DEFINE c == a \o s
  <1> HIDE DEF c
  <1>6. c \in Seq(T) /\ Len(c) = i - 1 + Len(s)
    BY <1>2, <1>5 DEF c
  <1>7. /\ c \o b \in Seq(T) /\ Len(c \o b) = Len(c) + Len(b)
        /\ \A k \in 1..(Len(c) + Len(b)) :
              (c \o b)[k] = IF k <= Len(c) THEN c[k] ELSE b[k - Len(c)]
    <2>1. c \in Seq(T) /\ b \in Seq(T)
      BY <1>3, <1>6
    <2>2. Len(c) \in Nat /\ Len(b) \in Nat
      BY <2>1
    <2>. QED  BY <2>1, <2>2
  <1>8. Len(c \o b) = Len(text) - n + Len(s)
    BY <1>1, <1>3, <1>6, <1>7
  <1>9. ASSUME NEW k \in 1..Len(c \o b)
        PROVE  (c \o b)[k] = IF k < i THEN text[k]
                             ELSE IF k < i + Len(s) THEN s[k - i + 1]
                             ELSE text[k - Len(s) + n]
    <2>1. k \in Nat /\ 1 <= k /\ k <= Len(c) + Len(b)
      BY <1>1, <1>3, <1>6, <1>7
    <2>2. CASE k < i
      <3>1. (c \o b)[k] = c[k] /\ c[k] = a[k] /\ a[k] = text[k]
        BY <1>1, <1>2, <1>5, <1>6, <1>7, <2>1, <2>2 DEF c
      <3>. QED  BY <3>1, <2>2
    <2>3. CASE ~(k < i) /\ k < i + Len(s)
      <3>1. (c \o b)[k] = c[k] /\ c[k] = s[k - Len(a)]
        BY SMTT(20), <1>1, <1>2, <1>5, <1>6, <1>7, <2>1, <2>3 DEF c
      <3>. QED  BY SMTT(20), <1>2, <3>1, <2>3
    <2>4. CASE ~(k < i) /\ ~(k < i + Len(s))
      <3>1. (c \o b)[k] = b[k - Len(c)]
        BY SMTT(20), <1>1, <1>6, <1>7, <2>1, <2>4
      <3>2. k - Len(c) \in 1..Len(b)
        BY <1>1, <1>3, <1>6, <2>1, <2>4
      <3>3. b[k - Len(c)] = text[i + n + (k - Len(c)) - 1]
        BY <1>3, <3>2
      <3>4. i + n + (k - Len(c)) - 1 = k - Len(s) + n
        BY <1>1, <1>6, <2>1
      <3>. QED  BY <2>4, <3>1, <3>3, <3>4
    <2>. QED  BY <2>2, <2>3, <2>4
  <1>. QED  BY <1>4, <1>7, <1>8, <1>9 DEF c

(* Nothing comes into a text but what is spliced in.                       *)
LEMMA SpliceTokens ==
    ASSUME NEW T, NEW text \in Seq(T), NEW s \in Seq(T),
           NEW i \in Nat, NEW n \in Nat, 1 <= i, i + n <= Len(text) + 1
    PROVE  ToSet(Splice(text, i, n, s)) \subseteq ToSet(text) \cup ToSet(s)
  <1> DEFINE new == Splice(text, i, n, s)
  <1>1. /\ new \in Seq(T)
        /\ Len(new) = Len(text) - n + Len(s)
        /\ \A k \in 1..Len(new) :
              new[k] = IF k < i THEN text[k]
                       ELSE IF k < i + Len(s) THEN s[k - i + 1]
                       ELSE text[k - Len(s) + n]
    BY SMTT(20), SpliceElements
  <1> HIDE DEF new
  <1>2. /\ Len(text) \in Nat /\ DOMAIN text = 1..Len(text)
        /\ Len(s) \in Nat /\ DOMAIN s = 1..Len(s)
        /\ Len(new) \in Nat /\ DOMAIN new = 1..Len(new)
    BY <1>1
  <1>3. ASSUME NEW k \in 1..Len(new) PROVE new[k] \in ToSet(text) \cup ToSet(s)
    <2>1. CASE k < i
      <3>1. k \in DOMAIN text
        BY <1>1, <1>2, <2>1
      <3>. QED  BY <1>1, <2>1, <3>1 DEF ToSet
    <2>2. CASE ~(k < i) /\ k < i + Len(s)
      <3>1. k - i + 1 \in DOMAIN s
        BY <1>2, <2>2
      <3>. QED  BY <1>1, <2>2, <3>1 DEF ToSet
    <2>3. CASE ~(k < i) /\ ~(k < i + Len(s))
      <3>1. k - Len(s) + n \in DOMAIN text
        BY <1>1, <1>2, <2>3
      <3>. QED  BY <1>1, <2>3, <3>1 DEF ToSet
    <2>. QED  BY <2>1, <2>2, <2>3
  <1>. QED  BY <1>2, <1>3 DEF new, ToSet

(* Putting back what was taken out.                                        *)
LEMMA SpliceBack ==
    ASSUME NEW T, NEW text \in Seq(T), NEW s \in Seq(T), NEW old \in Seq(T),
           NEW i \in Nat, 1 <= i, i + Len(old) <= Len(text) + 1,
           \A k \in 1..Len(old) : text[i + k - 1] = old[k]
    PROVE  Splice(Splice(text, i, Len(old), s), i, Len(s), old) = text
  <1> DEFINE new == Splice(text, i, Len(old), s)
             back == Splice(new, i, Len(s), old)
  <1>1. Len(text) \in Nat /\ Len(s) \in Nat /\ Len(old) \in Nat
    OBVIOUS
  <1>2. /\ new \in Seq(T)
        /\ Len(new) = Len(text) - Len(old) + Len(s)
        /\ \A k \in 1..Len(new) :
              new[k] = IF k < i THEN text[k]
                       ELSE IF k < i + Len(s) THEN s[k - i + 1]
                       ELSE text[k - Len(s) + Len(old)]
    BY <1>1, SpliceElements
  <1> HIDE DEF new
  <1>3. i + Len(s) <= Len(new) + 1
    BY <1>1, <1>2
  <1>4. /\ back \in Seq(T)
        /\ Len(back) = Len(new) - Len(s) + Len(old)
        /\ \A k \in 1..Len(back) :
              back[k] = IF k < i THEN new[k]
                        ELSE IF k < i + Len(old) THEN old[k - i + 1]
                        ELSE new[k - Len(old) + Len(s)]
    <2>1. new \in Seq(T)
      BY <1>2
    <2>2. PICK w \in Nat : w = Len(s)
      BY <1>1
    <2>3. i + w <= Len(new) + 1
      BY <1>3, <2>2
    <2> DEFINE put == Splice(new, i, w, old)
    <2>4. /\ put \in Seq(T)
          /\ Len(put) = Len(new) - w + Len(old)
          /\ \A k \in 1..Len(put) :
                put[k] = IF k < i THEN new[k]
                         ELSE IF k < i + Len(old) THEN old[k - i + 1]
                         ELSE new[k - Len(old) + w]
      BY <2>1, <2>3, SpliceElements
    <2>. QED  BY <2>2, <2>4
  <1> HIDE DEF back
  <1>5. Len(back) = Len(text)
    BY <1>1, <1>2, <1>4
  <1>6. ASSUME NEW k \in 1..Len(text) PROVE back[k] = text[k]
    <2>1. CASE k < i
      <3>1. k \in 1..Len(new)
        BY <1>1, <1>2, <1>3, <2>1
      <3>. QED  BY <1>2, <1>4, <1>5, <2>1, <3>1
    <2>2. CASE ~(k < i) /\ k < i + Len(old)
      <3>1. k - i + 1 \in 1..Len(old) /\ i + (k - i + 1) - 1 = k
        BY <1>1, <2>2
      <3>2. back[k] = old[k - i + 1]
        BY <1>4, <1>5, <2>2
      <3>. QED  BY <3>1, <3>2
    <2>3. CASE ~(k < i) /\ ~(k < i + Len(old))
      <3> DEFINE m == k - Len(old) + Len(s)
      <3>1. /\ m \in 1..Len(new) /\ ~(m < i) /\ ~(m < i + Len(s))
            /\ m - Len(s) + Len(old) = k
        BY <1>1, <1>2, <2>3
      <3>2. back[k] = new[m]
        BY <1>4, <1>5, <2>3
      <3> HIDE DEF m
      <3>3. new[m] = text[m - Len(s) + Len(old)]
        BY <1>2, <3>1
      <3>. QED  BY <3>1, <3>2, <3>3
    <2>. QED  BY <2>1, <2>2, <2>3
  <1>7. back = text
    <2>1. /\ back = [k \in 1..Len(back) |-> back[k]]
          /\ text = [k \in 1..Len(text) |-> text[k]]
      BY <1>4
    <2>. QED  BY <1>5, <1>6, <2>1
  <1>. QED  BY <1>7 DEF back, new

(* What it means that s is in the text from position i on.                 *)
StandsAt(text, s, i) ==
    /\ i \in Nat /\ 1 <= i /\ i + Len(s) <= Len(text) + 1
    /\ \A k \in 1..Len(s) : text[i + k - 1] = s[k]

LEMMA PlacesAre ==
    ASSUME NEW T, NEW text \in Seq(T), NEW s \in Seq(T)
    PROVE  /\ \A i : i \in Places(text, s) <=> StandsAt(text, s, i)
           /\ Places(text, s) \subseteq Nat
           /\ IsFiniteSet(Places(text, s))
  <1>1. Len(text) \in Nat /\ Len(s) \in Nat
    OBVIOUS
  <1>2. ASSUME NEW i \in Nat, 1 <= i, i + Len(s) <= Len(text) + 1
        PROVE  SubSeq(text, i, i + Len(s) - 1) = s
                 <=> \A k \in 1..Len(s) : text[i + k - 1] = s[k]
    <2> DEFINE sub == SubSeq(text, i, i + Len(s) - 1)
    <2>1. /\ sub \in Seq(T) /\ Len(sub) = Len(s)
          /\ \A k \in 1..Len(s) : sub[k] = text[i + k - 1]
      BY <1>1, <1>2
    <2> HIDE DEF sub
    <2>2. /\ sub = [k \in 1..Len(sub) |-> sub[k]]
          /\ s = [k \in 1..Len(s) |-> s[k]]
      BY <2>1
    <2>3. (\A k \in 1..Len(s) : sub[k] = s[k]) => sub = s
      BY <2>1, <2>2
    <2>. QED  BY <2>1, <2>3 DEF sub
  <1>3. ASSUME NEW i PROVE i \in Places(text, s) <=> StandsAt(text, s, i)
    <2>1. i \in 1..(Len(text) - Len(s) + 1)
            <=> i \in Nat /\ 1 <= i /\ i + Len(s) <= Len(text) + 1
      BY <1>1
    <2>. QED  BY <1>2, <2>1 DEF Places, StandsAt
  <1>4. IsFiniteSet(1..(Len(text) - Len(s) + 1))
    BY <1>1, FS_Interval
  <1>5. Places(text, s) \subseteq 1..(Len(text) - Len(s) + 1)
    BY DEF Places
  <1>6. IsFiniteSet(Places(text, s))
    BY <1>4, <1>5, FS_Subset
  <1>7. Places(text, s) \subseteq Nat
    BY <1>3 DEF StandsAt
  <1>. QED  BY <1>3, <1>6, <1>7

(* A text holds the tokens of what stands in it.                           *)
LEMMA StandsTokens ==
    ASSUME NEW T, NEW text \in Seq(T), NEW s \in Seq(T), NEW i,
           StandsAt(text, s, i)
    PROVE  ToSet(s) \subseteq ToSet(text)
  <1>1. /\ Len(text) \in Nat /\ DOMAIN text = 1..Len(text)
        /\ Len(s) \in Nat /\ DOMAIN s = 1..Len(s)
    OBVIOUS
  <1>2. ASSUME NEW k \in 1..Len(s) PROVE s[k] \in ToSet(text)
    <2>1. i + k - 1 \in DOMAIN text /\ s[k] = text[i + k - 1]
      BY <1>1 DEF StandsAt
    <2>. QED  BY <2>1 DEF ToSet
  <1>. QED  BY <1>1, <1>2 DEF ToSet

LEMMA SplicedSeq ==
    ASSUME NEW T, NEW text \in Seq(T), NEW s \in Seq(T),
           NEW i \in Nat, NEW n \in Nat, 1 <= i, i + n <= Len(text) + 1
    PROVE  Splice(text, i, n, s) \in Seq(T)
  BY SpliceElements

LEMMA SplicedStands ==
    ASSUME NEW T, NEW text \in Seq(T), NEW s \in Seq(T),
           NEW i \in Nat, NEW n \in Nat, 1 <= i, i + n <= Len(text) + 1
    PROVE  StandsAt(Splice(text, i, n, s), s, i)
  <1> DEFINE new == Splice(text, i, n, s)
  <1>1. /\ Len(new) = Len(text) - n + Len(s)
        /\ \A k \in 1..Len(new) :
              new[k] = IF k < i THEN text[k]
                       ELSE IF k < i + Len(s) THEN s[k - i + 1]
                       ELSE text[k - Len(s) + n]
    BY SpliceElements
  <1>2. Len(text) \in Nat /\ Len(s) \in Nat
    OBVIOUS
  <1> HIDE DEF new
  <1>3. ASSUME NEW k \in 1..Len(s) PROVE new[i + k - 1] = s[k]
    <2> DEFINE m == i + k - 1
    <2>1. /\ m \in 1..Len(new) /\ ~(m < i) /\ m < i + Len(s)
          /\ m - i + 1 = k
      BY <1>1, <1>2
    <2> HIDE DEF m
    <2>2. new[m] = s[m - i + 1]
      BY <1>1, <2>1
    <2>. QED  BY <2>1, <2>2 DEF m
  <1>. QED  BY <1>1, <1>2, <1>3 DEF StandsAt, new

---------------------------------------------------------------------------
(* One unit                                                                *)

IsText(T, t) == t = Absent \/ t \in Seq(T)
Tokens(t) == IF t = Absent THEN {} ELSE ToSet(t)

(* The texts of a unit are made of the tokens T.                           *)
UnitOver(T, u) ==
    /\ u.type \in {"owned", "replace", "before", "after"}
    /\ u.block \in Seq(T)
    /\ u.type # "owned" => u.anchor \in Seq(T)

(* A unit that applies and whose block was not there yet puts it at one    *)
(* place, instead of what stood there.                                     *)
LEMMA AppliedSplice ==
    ASSUME NEW T, Absent \notin Seq(T), NEW u, UnitOver(T, u),
           u.type # "owned", NEW t, IsText(T, t), Applies(t, u),
           Count(t, u.block) # 1
    PROVE  \E i \in Nat, old \in Seq(T) :
              /\ t \in Seq(T)
              /\ StandsAt(t, old, i)
              /\ old = IF u.type = "replace" THEN u.anchor ELSE <<>>
              /\ Applied(t, u) = Splice(t, i, Len(old), u.block)
  <1>1. t # Absent /\ Count(t, u.anchor) >= 1
    BY DEF Applies
  <1>2. t \in Seq(T) /\ u.anchor \in Seq(T)
    BY <1>1 DEF IsText, UnitOver
  <1> DEFINE P == Places(t, u.anchor)
             i == Min(P)
  <1>3. P # {}
    <2>1. Cardinality(P) >= 1
      BY <1>1 DEF Count
    <2>. QED  BY <2>1, FS_EmptySet
  <1>4. P \subseteq Nat /\ \A j : j \in P <=> StandsAt(t, u.anchor, j)
    BY <1>2, PlacesAre
  <1> HIDE DEF P
  <1>5. StandsAt(t, u.anchor, i)
    BY <1>3, <1>4, LeastOf
  <1>6. Applied(t, u) = CASE u.type = "replace" ->
                                 Splice(t, i, Len(u.anchor), u.block)
                          [] u.type = "before" -> Splice(t, i, 0, u.block)
                          [] u.type = "after" ->
                                 Splice(t, i + Len(u.anchor), 0, u.block)
    BY DEF Applied, P
  <1> HIDE DEF i
  <1>7. /\ i \in Nat /\ Len(t) \in Nat /\ Len(u.anchor) \in Nat
        /\ 1 <= i /\ i + Len(u.anchor) <= Len(t) + 1
    BY <1>2, <1>5 DEF StandsAt
  <1>8. <<>> \in Seq(T) /\ Len(<<>>) = 0
    OBVIOUS
  <1>9. ASSUME NEW j \in Nat, 1 <= j, j <= Len(t) + 1 PROVE StandsAt(t, <<>>, j)
    BY <1>7, <1>8, <1>9 DEF StandsAt
  <1>10. CASE u.type = "replace"
    BY <1>2, <1>5, <1>6, <1>7, <1>10
  <1>11. CASE u.type = "before"
    <2>1. i <= Len(t) + 1
      BY <1>7
    <2>. QED  BY <1>2, <1>6, <1>7, <1>8, <1>9, <1>11, <2>1
  <1>12. CASE u.type = "after"
    <2> DEFINE j == i + Len(u.anchor)
    <2>1. j \in Nat /\ 1 <= j /\ j <= Len(t) + 1
      BY <1>7
    <2>2. Applied(t, u) = Splice(t, j, 0, u.block)
      BY <1>6, <1>12
    <2> HIDE DEF j
    <2>. QED  BY <1>2, <1>8, <1>9, <1>12, <2>1, <2>2
  <1>. QED  BY <1>10, <1>11, <1>12 DEF UnitOver

(* A text gets from a unit no tokens but those of its block.               *)
LEMMA AppliedTokens ==
    ASSUME NEW T, Absent \notin Seq(T), NEW u, UnitOver(T, u),
           NEW t, IsText(T, t), Applies(t, u)
    PROVE  /\ IsText(T, Applied(t, u))
           /\ Tokens(Applied(t, u)) \subseteq Tokens(t) \cup ToSet(u.block)
  <1>1. CASE u.type = "owned"
    BY <1>1 DEF Applied, IsText, UnitOver, Tokens
  <1>2. CASE u.type # "owned" /\ Count(t, u.block) = 1
    BY <1>2 DEF Applied
  <1>3. CASE u.type # "owned" /\ Count(t, u.block) # 1
    <2>1. PICK i \in Nat, old \in Seq(T) :
              /\ t \in Seq(T)
              /\ StandsAt(t, old, i)
              /\ Applied(t, u) = Splice(t, i, Len(old), u.block)
      BY <1>3, AppliedSplice
    <2>2. /\ u.block \in Seq(T) /\ Len(old) \in Nat
          /\ 1 <= i /\ i + Len(old) <= Len(t) + 1
      BY <2>1 DEF UnitOver, StandsAt
    <2>3. Applied(t, u) \in Seq(T)
      BY <2>1, <2>2, SplicedSeq
    <2>4. ToSet(Applied(t, u)) \subseteq ToSet(t) \cup ToSet(u.block)
      BY <2>1, <2>2, SpliceTokens
    <2>5. t # Absent /\ Applied(t, u) # Absent
      BY <2>1, <2>3
    <2>. QED  BY <2>3, <2>4, <2>5 DEF IsText, Tokens
  <1>. QED  BY <1>1, <1>2, <1>3

(* Reverting a unit gives back the text it was applied to, which held no   *)
(* block of it.                                                            *)
LEMMA RevertedApplied ==
    ASSUME NEW T, Absent \notin Seq(T), NEW u, UnitOver(T, u),
           NEW t, IsText(T, t), Applies(t, u),
           ~(ToSet(u.block) \subseteq Tokens(t)),
           Reverts(Applied(t, u), u)
    PROVE  Reverted(Applied(t, u), u) = t
  <1>1. u.block \in Seq(T)
    BY DEF UnitOver
  <1>2. CASE u.type = "owned"
    <2>1. t \in {Absent, u.block}
      BY <1>2 DEF Applies
    <2>2. t # u.block
      BY <1>1 DEF Tokens
    <2>. QED  BY <1>2, <2>1, <2>2 DEF Reverted
  <1>3. CASE u.type # "owned"
    <2>1. t # Absent /\ t \in Seq(T)
      BY <1>3 DEF Applies, IsText
    <2>2. Places(t, u.block) = {}
      BY <1>1, <2>1, PlacesAre, StandsTokens DEF Tokens
    <2>3. Count(t, u.block) # 1
      BY <2>2, FS_EmptySet DEF Count
    <2>4. PICK i \in Nat, old \in Seq(T) :
              /\ t \in Seq(T)
              /\ StandsAt(t, old, i)
              /\ old = IF u.type = "replace" THEN u.anchor ELSE <<>>
              /\ Applied(t, u) = Splice(t, i, Len(old), u.block)
      BY <1>3, <2>3, AppliedSplice
    <2> DEFINE new == Applied(t, u)
    <2>5. /\ Len(old) \in Nat /\ 1 <= i /\ i + Len(old) <= Len(t) + 1
          /\ \A k \in 1..Len(old) : t[i + k - 1] = old[k]
      BY <2>4 DEF StandsAt
    <2>15. new = Splice(t, i, Len(old), u.block)
      BY <2>4
    <2> HIDE DEF new
    <2>6. new \in Seq(T)
      BY <1>1, <2>1, <2>5, <2>15, SplicedSeq
    <2>7. StandsAt(new, u.block, i)
      BY <1>1, <2>1, <2>5, <2>15, SplicedStands
    <2>8. Splice(new, i, Len(u.block), old) = t
      BY <1>1, <2>1, <2>5, <2>15, SpliceBack
    <2>9. Count(new, u.block) = 1
      BY <1>3 DEF Reverts, new
    <2>10. Reverted(new, u) = Splice(new, Min(Places(new, u.block)),
                                     Len(u.block), old)
      BY <1>3, <2>4 DEF Reverted, new
    <2>11. Places(new, u.block) = {i}
      <3> DEFINE P == Places(new, u.block)
      <3>1. IsFiniteSet(P) /\ i \in P
        BY <1>1, <2>6, <2>7, PlacesAre
      <3>2. Cardinality(P) = 1
        BY <2>9 DEF Count
      <3> HIDE DEF P
      <3>3. \E x : P = {x}
        BY <3>1, <3>2, FS_Singleton
      <3>4. P = {i}
        BY <3>1, <3>3
      <3>. QED  BY <3>4 DEF P
    <2>12. Min({i}) = i
      BY LeastOf
    <2>. QED  BY <2>8, <2>10, <2>11, <2>12 DEF new
  <1>. QED  BY <1>2, <1>3

---------------------------------------------------------------------------
(* The units that a selection brings are units of the catalog.             *)
UnitSteps(cat, packs, k, g) ==
    g = [n \in 0..k |-> IF n = 0 THEN <<>>
                        ELSE IF n \in packs THEN g[n - 1] \o cat[n].units
                        ELSE g[n - 1]]

LEMMA UnitStepsExist ==
    ASSUME NEW cat, NEW packs
    PROVE  \A k \in Nat : \E g : UnitSteps(cat, packs, k, g)
  <1> DEFINE T == {k \in Nat : \E g : UnitSteps(cat, packs, k, g)}
  <1>1. 0 \in T
    <2>1. UnitSteps(cat, packs, 0, [n \in 0..0 |-> <<>>])
      BY DEF UnitSteps
    <2>. QED  BY <2>1
  <1>2. ASSUME NEW k \in Nat, k \in T PROVE k + 1 \in T
    <2>1. PICK g : UnitSteps(cat, packs, k, g)
      BY <1>2
    <2> DEFINE last == IF k + 1 \in packs THEN g[k] \o cat[k + 1].units ELSE g[k]
               h == [n \in 0..(k + 1) |-> IF n = k + 1 THEN last ELSE g[n]]
    <2>2. /\ \A n \in 0..k : h[n] = g[n]
          /\ h[k + 1] = last
      OBVIOUS
    <2>3. ASSUME NEW n \in 0..(k + 1)
          PROVE  h[n] = IF n = 0 THEN <<>>
                        ELSE IF n \in packs THEN h[n - 1] \o cat[n].units
                        ELSE h[n - 1]
      <3>1. CASE n = k + 1
        <4>1. n # 0 /\ n - 1 = k /\ k \in 0..k
          BY <3>1
        <4>2. h[n] = last /\ h[n - 1] = g[k]
          BY <2>2, <3>1, <4>1
        <4> HIDE DEF h
        <4>3. h[n] = IF n \in packs THEN h[n - 1] \o cat[n].units ELSE h[n - 1]
          BY <3>1, <4>2
        <4>. QED  BY <4>1, <4>3
      <3>2. CASE n # k + 1
        <4>1. n \in 0..k /\ (n # 0 => n - 1 \in 0..k)
          BY <3>2
        <4>2. g[n] = IF n = 0 THEN <<>>
                     ELSE IF n \in packs THEN g[n - 1] \o cat[n].units
                     ELSE g[n - 1]
          BY <2>1, <4>1 DEF UnitSteps
        <4>3. h[n] = g[n] /\ (n # 0 => h[n - 1] = g[n - 1])
          BY <2>2, <4>1
        <4> HIDE DEF h
        <4>. QED  BY <4>2, <4>3
      <3>. QED  BY <3>1, <3>2
    <2>4. UnitSteps(cat, packs, k + 1, h)
      BY <2>3 DEF UnitSteps
    <2>. QED  BY <2>4
  <1>. QED  BY <1>1, <1>2, UpFrom0

LEMMA UnitsOfCatalog ==
    ASSUME NEW cat, IsCatalog(cat), NEW packs
    PROVE  UnitsOf(cat, packs) \in Seq(CatalogUnits(cat))
  <1> DEFINE N == Len(cat)
             U == CatalogUnits(cat)
             g == CHOOSE f : UnitSteps(cat, packs, N, f)
  <1>1. N \in Nat /\ DOMAIN cat = 1..N
    BY DEF IsCatalog
  <1>2. UnitSteps(cat, packs, N, g)
    BY <1>1, UnitStepsExist
  <1>3. UnitsOf(cat, packs) = g[N]
    BY DEF UnitsOf, UnitSteps
  <1>4. ASSUME NEW p \in DOMAIN cat PROVE cat[p].units \in Seq(U)
    <2>1. ToSet(cat[p].units) \subseteq U
      BY DEF CatalogUnits
    <2>2. cat[p].units \in Seq(ToSet(cat[p].units))
      BY DEF IsCatalog
    <2>. QED  BY <2>1, <2>2, WidenSeq
  <1> HIDE DEF g, N, U
  <1> DEFINE T == {n \in Nat : n <= N => g[n] \in Seq(U)}
  <1>5. 0 \in T
    <2>1. 0 \in 0..N
      BY <1>1
    <2>2. g[0] = <<>>
      BY <1>2, <2>1 DEF UnitSteps
    <2>3. g[0] \in Seq(U)
      BY <2>2
    <2>. QED  BY <2>3
  <1>6. ASSUME NEW n \in Nat, n \in T PROVE n + 1 \in T
    <2> SUFFICES ASSUME n + 1 <= N PROVE g[n + 1] \in Seq(U)
        OBVIOUS
    <2>1. n + 1 \in 0..N /\ n + 1 # 0 /\ (n + 1) - 1 = n /\ n + 1 \in DOMAIN cat
      BY <1>1
    <2>2. g[n + 1] = IF n + 1 \in packs THEN g[n] \o cat[n + 1].units ELSE g[n]
      BY <1>2, <2>1 DEF UnitSteps
    <2>3. g[n] \in Seq(U) /\ cat[n + 1].units \in Seq(U)
      BY <1>1, <1>4, <1>6, <2>1
    <2>4. g[n] \o cat[n + 1].units \in Seq(U)
      BY <2>3
    <2>. QED  BY <2>2, <2>3, <2>4
  <1>7. Nat \subseteq T
    <2> HIDE DEF T
    <2>. QED  BY <1>5, <1>6, UpFrom0
  <1>. QED  BY <1>1, <1>3, <1>7 DEF U

---------------------------------------------------------------------------
(* The order of the units                                                  *)

SortSteps(ids, edges, k, g) ==
    g = [n \in 0..k |-> IF n = 0 THEN <<>> ELSE PlaceNext(ids, edges, g[n - 1])]

LEMMA SortStepsExist ==
    ASSUME NEW ids, NEW edges
    PROVE  \A k \in Nat : \E g : SortSteps(ids, edges, k, g)
  <1> DEFINE T == {k \in Nat : \E g : SortSteps(ids, edges, k, g)}
  <1>1. 0 \in T
    <2>1. SortSteps(ids, edges, 0, [n \in 0..0 |-> <<>>])
      BY DEF SortSteps
    <2>. QED  BY <2>1
  <1>2. ASSUME NEW k \in Nat, k \in T PROVE k + 1 \in T
    <2>1. PICK g : SortSteps(ids, edges, k, g)
      BY <1>2
    <2> DEFINE h == [n \in 0..(k + 1) |-> IF n = k + 1 THEN PlaceNext(ids, edges, g[k])
                                          ELSE g[n]]
    <2>2. /\ \A n \in 0..k : h[n] = g[n]
          /\ h[k + 1] = PlaceNext(ids, edges, g[k])
      OBVIOUS
    <2>3. ASSUME NEW n \in 0..(k + 1)
          PROVE  h[n] = IF n = 0 THEN <<>> ELSE PlaceNext(ids, edges, h[n - 1])
      <3>1. CASE n = k + 1
        BY <2>2, <3>1
      <3>2. CASE n # k + 1
        <4>1. n \in 0..k /\ (n # 0 => n - 1 \in 0..k)
          BY <3>2
        <4>. QED  BY <2>1, <2>2, <4>1 DEF SortSteps
      <3>. QED  BY <3>1, <3>2
    <2>4. SortSteps(ids, edges, k + 1, h)
      BY <2>3 DEF SortSteps
    <2>. QED  BY <2>4
  <1>. QED  BY <1>1, <1>2, UpFrom0

(* A sequence of different ids.                                            *)
Lists(ids, s) ==
    /\ s \in Seq(ids)
    /\ \A a, b \in 1..Len(s) : s[a] = s[b] => a = b

LEMMA PlaceNextLists ==
    ASSUME NEW ids, ids \subseteq Nat, NEW edges, NEW s, Lists(ids, s)
    PROVE  Lists(ids, PlaceNext(ids, edges, s))
  <1> DEFINE ready == {i \in ids \ ToSet(s) :
                         \A e \in edges : e[2] = i => e[1] \in ToSet(s)}
             m == Min(ready)
  <1>1. PlaceNext(ids, edges, s) = IF ready = {} THEN s ELSE Append(s, m)
    BY DEF PlaceNext
  <1>2. CASE ready = {}
    BY <1>1, <1>2
  <1>3. CASE ready # {}
    <2>1. m \in ids /\ m \notin ToSet(s)
      <3>1. ready \subseteq Nat
        OBVIOUS
      <3> HIDE DEF ready
      <3>2. m \in ready
        BY <1>3, <3>1, LeastOf
      <3>. QED  BY <3>2 DEF ready
    <2> HIDE DEF m, ready
    <2>2. s \in Seq(ids) /\ Len(s) \in Nat /\ DOMAIN s = 1..Len(s)
      BY DEF Lists
    <2> DEFINE t == Append(s, m)
    <2>3. /\ t \in Seq(ids) /\ Len(t) = Len(s) + 1
          /\ \A a \in 1..Len(s) : t[a] = s[a]
          /\ t[Len(s) + 1] = m
      BY <2>1, <2>2
    <2>4. \A a \in 1..Len(s) : s[a] # m
      BY <2>1, <2>2 DEF ToSet
    <2> HIDE DEF t
    <2>5. ASSUME NEW a \in 1..Len(t), NEW b \in 1..Len(t), t[a] = t[b]
          PROVE  a = b
      <3>1. /\ a \in 1..Len(s) \/ a = Len(s) + 1
            /\ b \in 1..Len(s) \/ b = Len(s) + 1
        BY <2>2, <2>3
      <3>. QED  BY <2>3, <2>4, <2>5, <3>1 DEF Lists
    <2>. QED  BY <1>1, <1>3, <2>3, <2>5 DEF Lists, t
  <1>. QED  BY <1>2, <1>3

LEMMA SortedLists ==
    ASSUME NEW ids, ids \subseteq Nat, Cardinality(ids) \in Nat, NEW edges
    PROVE  Lists(ids, Sorted(ids, edges))
  <1> DEFINE N == Cardinality(ids)
             g == CHOOSE f : SortSteps(ids, edges, N, f)
  <1>1. SortSteps(ids, edges, N, g)
    BY SortStepsExist
  <1>2. Sorted(ids, edges) = g[N]
    BY DEF Sorted, SortSteps
  <1> HIDE DEF g
  <1> DEFINE T == {n \in Nat : n <= N => Lists(ids, g[n])}
  <1>3. 0 \in T
    <2>1. g[0] = <<>>
      BY <1>1 DEF SortSteps
    <2>2. Lists(ids, <<>>)
      BY DEF Lists
    <2>. QED  BY <2>1, <2>2
  <1>4. ASSUME NEW n \in Nat, n \in T PROVE n + 1 \in T
    <2> SUFFICES ASSUME n + 1 <= N PROVE Lists(ids, g[n + 1])
        OBVIOUS
    <2>1. n + 1 \in 0..N /\ n + 1 # 0 /\ (n + 1) - 1 = n
      OBVIOUS
    <2>2. g[n + 1] = PlaceNext(ids, edges, g[n])
      BY <1>1, <2>1 DEF SortSteps
    <2>3. Lists(ids, g[n])
      BY <1>4
    <2>. QED  BY <2>2, <2>3, PlaceNextLists
  <1>5. Nat \subseteq T
    <2> HIDE DEF T
    <2>. QED  BY <1>3, <1>4, UpFrom0
  <1>. QED  BY <1>2, <1>5

---------------------------------------------------------------------------
(* Many units                                                              *)

LEMMA ApplyOneDone ==
    ASSUME NEW acc, NEW u, ApplyOne(acc, u).ok
    PROVE  /\ acc.ok
           /\ Applies(acc.texts[u.file], u)
           /\ ApplyOne(acc, u).texts =
                 [acc.texts EXCEPT ![u.file] = Applied(acc.texts[u.file], u)]
  BY Zenon DEF ApplyOne

LEMMA RevertOneDone ==
    ASSUME NEW acc, NEW u, RevertOne(acc, u).ok
    PROVE  /\ acc.ok
           /\ Reverts(acc.texts[u.file], u)
           /\ RevertOne(acc, u).texts =
                 [acc.texts EXCEPT ![u.file] = Reverted(acc.texts[u.file], u)]
  BY Zenon DEF RevertOne

ApplySteps(units, order, texts, k, g) ==
    g = [n \in 0..k |->
            IF n = 0 THEN [texts |-> texts, ok |-> TRUE]
            ELSE ApplyOne(g[n - 1], UnitNamed(units, order[n]))]

LEMMA ApplyStepsExist ==
    ASSUME NEW units, NEW order, NEW texts
    PROVE  \A k \in Nat : \E g : ApplySteps(units, order, texts, k, g)
  <1> DEFINE base == [texts |-> texts, ok |-> TRUE]
             T == {k \in Nat : \E g : ApplySteps(units, order, texts, k, g)}
  <1>1. 0 \in T
    <2>1. ApplySteps(units, order, texts, 0, [n \in 0..0 |-> base])
      BY DEF ApplySteps
    <2>. QED  BY <2>1
  <1>2. ASSUME NEW k \in Nat, k \in T PROVE k + 1 \in T
    <2>1. PICK g : ApplySteps(units, order, texts, k, g)
      BY <1>2
    <2> DEFINE last == ApplyOne(g[k], UnitNamed(units, order[k + 1]))
               h == [n \in 0..(k + 1) |-> IF n = k + 1 THEN last ELSE g[n]]
    <2>2. (\A n \in 0..k : h[n] = g[n]) /\ h[k + 1] = last
      OBVIOUS
    <2>3. ASSUME NEW n \in 0..(k + 1)
          PROVE  h[n] = IF n = 0 THEN base
                        ELSE ApplyOne(h[n - 1], UnitNamed(units, order[n]))
      <3>1. CASE n = k + 1
        <4>1. n # 0 /\ n - 1 = k /\ k \in 0..k
          BY <3>1
        <4>2. h[n] = last /\ h[n - 1] = g[k]
          BY <2>2, <3>1, <4>1
        <4> HIDE DEF h
        <4>. QED  BY <3>1, <4>1, <4>2
      <3>2. CASE n # k + 1
        <4>1. n \in 0..k /\ (n # 0 => n - 1 \in 0..k)
          BY <3>2
        <4>2. g[n] = IF n = 0 THEN base
                     ELSE ApplyOne(g[n - 1], UnitNamed(units, order[n]))
          BY <2>1, <4>1 DEF ApplySteps
        <4>3. h[n] = g[n] /\ (n # 0 => h[n - 1] = g[n - 1])
          BY <2>2, <4>1
        <4> HIDE DEF h
        <4>. QED  BY <4>2, <4>3
      <3>. QED  BY <3>1, <3>2
    <2>4. ApplySteps(units, order, texts, k + 1, h)
      BY <2>3 DEF ApplySteps
    <2>. QED  BY <2>4
  <1>. QED  BY <1>1, <1>2, UpFrom0

(* g[n] are the texts after the first n units of the order.                *)
ApplyRun(units, order, texts, g) ==
    /\ g[0] = [texts |-> texts, ok |-> TRUE]
    /\ g[Len(order)] = ApplyInOrder(units, order, texts)
    /\ \A n \in Nat : n + 1 <= Len(order) =>
          g[n + 1] = ApplyOne(g[n], UnitNamed(units, order[n + 1]))

LEMMA ApplyInOrderSteps ==
    ASSUME NEW units, NEW order, NEW texts, Len(order) \in Nat
    PROVE  \E g : ApplyRun(units, order, texts, g)
  <1> DEFINE N == Len(order)
             g == CHOOSE f : ApplySteps(units, order, texts, N, f)
  <1>1. ApplySteps(units, order, texts, N, g)
    BY ApplyStepsExist
  <1>2. ApplyInOrder(units, order, texts) = g[N]
    BY DEF ApplyInOrder, ApplySteps
  <1> HIDE DEF g, N
  <1>3. N \in Nat /\ 0 \in 0..N
    BY DEF N
  <1>4. g[0] = [texts |-> texts, ok |-> TRUE]
    BY <1>1, <1>3 DEF ApplySteps
  <1>5. ASSUME NEW n \in Nat, n + 1 <= N
        PROVE  g[n + 1] = ApplyOne(g[n], UnitNamed(units, order[n + 1]))
    <2>1. n + 1 \in 0..N /\ n + 1 # 0 /\ (n + 1) - 1 = n
      BY <1>3, <1>5
    <2>. QED  BY <1>1, <2>1 DEF ApplySteps
  <1>. QED  BY <1>2, <1>4, <1>5 DEF N, ApplyRun

StripSteps(units, order, texts, k, g) ==
    g = [n \in 0..k |->
            IF n = 0 THEN [texts |-> texts, ok |-> TRUE]
            ELSE RevertOne(g[n - 1],
                           UnitNamed(units, order[Len(order) + 1 - n]))]

LEMMA StripStepsExist ==
    ASSUME NEW units, NEW order, NEW texts
    PROVE  \A k \in Nat : \E g : StripSteps(units, order, texts, k, g)
  <1> DEFINE base == [texts |-> texts, ok |-> TRUE]
             unit(n) == UnitNamed(units, order[Len(order) + 1 - n])
             T == {k \in Nat : \E g : StripSteps(units, order, texts, k, g)}
  <1>1. 0 \in T
    <2>1. StripSteps(units, order, texts, 0, [n \in 0..0 |-> base])
      BY DEF StripSteps
    <2>. QED  BY <2>1
  <1>2. ASSUME NEW k \in Nat, k \in T PROVE k + 1 \in T
    <2>1. PICK g : StripSteps(units, order, texts, k, g)
      BY <1>2
    <2> DEFINE last == RevertOne(g[k], unit(k + 1))
               h == [n \in 0..(k + 1) |-> IF n = k + 1 THEN last ELSE g[n]]
    <2>2. (\A n \in 0..k : h[n] = g[n]) /\ h[k + 1] = last
      OBVIOUS
    <2>3. ASSUME NEW n \in 0..(k + 1)
          PROVE  h[n] = IF n = 0 THEN base ELSE RevertOne(h[n - 1], unit(n))
      <3>1. CASE n = k + 1
        <4>1. n # 0 /\ n - 1 = k /\ k \in 0..k
          BY <3>1
        <4>2. h[n] = last /\ h[n - 1] = g[k]
          BY <2>2, <3>1, <4>1
        <4> HIDE DEF h, unit
        <4>. QED  BY <3>1, <4>1, <4>2
      <3>2. CASE n # k + 1
        <4>1. n \in 0..k /\ (n # 0 => n - 1 \in 0..k)
          BY <3>2
        <4>2. g[n] = IF n = 0 THEN base ELSE RevertOne(g[n - 1], unit(n))
          BY <2>1, <4>1 DEF StripSteps
        <4>3. h[n] = g[n] /\ (n # 0 => h[n - 1] = g[n - 1])
          BY <2>2, <4>1
        <4> HIDE DEF h, unit
        <4>. QED  BY <4>2, <4>3
      <3>. QED  BY <3>1, <3>2
    <2>4. StripSteps(units, order, texts, k + 1, h)
      BY <2>3 DEF StripSteps
    <2>. QED  BY <2>4
  <1>. QED  BY <1>1, <1>2, UpFrom0

(* h[n] are the texts after the last n units of the order were taken off.  *)
StripRun(units, order, texts, h) ==
    /\ h[0] = [texts |-> texts, ok |-> TRUE]
    /\ h[Len(order)] = Strip(units, order, texts)
    /\ \A n \in Nat : n + 1 <= Len(order) =>
          h[n + 1] = RevertOne(h[n], UnitNamed(units, order[Len(order) - n]))

LEMMA StripInOrderSteps ==
    ASSUME NEW units, NEW order, NEW texts, Len(order) \in Nat
    PROVE  \E h : StripRun(units, order, texts, h)
  <1> DEFINE N == Len(order)
             h == CHOOSE f : StripSteps(units, order, texts, N, f)
  <1>1. StripSteps(units, order, texts, N, h)
    BY StripStepsExist
  <1>2. Strip(units, order, texts) = h[N]
    BY DEF Strip, StripSteps
  <1> HIDE DEF h
  <1>3. N \in Nat /\ 0 \in 0..N
    OBVIOUS
  <1>4. h[0] = [texts |-> texts, ok |-> TRUE]
    BY <1>1, <1>3 DEF StripSteps
  <1>5. ASSUME NEW n \in Nat, n + 1 <= N
        PROVE  h[n + 1] = RevertOne(h[n], UnitNamed(units, order[N - n]))
    <2>1. /\ n + 1 \in 0..N /\ n + 1 # 0 /\ (n + 1) - 1 = n
          /\ N + 1 - (n + 1) = N - n
      BY <1>3, <1>5
    <2>. QED  BY <1>1, <2>1 DEF StripSteps
  <1>. QED  BY <1>2, <1>4, <1>5 DEF StripRun

(* The block of every unit of U has a token of its own: neither the text   *)
(* it goes into nor another unit of that file has it.                      *)
Signed(U, texts) ==
    \A u \in U : \E m \in ToSet(u.block) :
        /\ m \notin Tokens(texts[u.file])
        /\ \A v \in U : v.file = u.file /\ v.id # u.id => m \notin ToSet(v.block)

(* Units over the tokens T that go into the files F.                       *)
UnitsOver(T, F, U) == \A u \in U : UnitOver(T, u) /\ u.file \in F

(* Texts of the files F over the tokens T.                                 *)
TextsOver(T, F, texts) ==
    /\ texts = [f \in F |-> texts[f]]
    /\ \A f \in F : IsText(T, texts[f])

LEMMA NamedUnit ==
    ASSUME NEW units, NEW id \in {u.id : u \in ToSet(units)}
    PROVE  UnitNamed(units, id) \in ToSet(units) /\ UnitNamed(units, id).id = id
  <1>1. \E u \in ToSet(units) : u.id = id
    OBVIOUS
  <1>. QED  BY <1>1 DEF UnitNamed

(* What is in a text after the first n units is from the text below or     *)
(* from one of these units.                                                *)
LEMMA ApplyStepTokens ==
    ASSUME NEW T, Absent \notin Seq(T), NEW F, NEW acc, acc.ok,
           TextsOver(T, F, acc.texts),
           NEW u, UnitOver(T, u), u.file \in F, ApplyOne(acc, u).ok
    PROVE  /\ TextsOver(T, F, ApplyOne(acc, u).texts)
           /\ \A f \in F : f # u.file =>
                 ApplyOne(acc, u).texts[f] = acc.texts[f]
           /\ Tokens(ApplyOne(acc, u).texts[u.file])
                 \subseteq Tokens(acc.texts[u.file]) \cup ToSet(u.block)
  <1> DEFINE t == acc.texts[u.file]
             new == ApplyOne(acc, u).texts
  <1>1. Applies(t, u) /\ new = [acc.texts EXCEPT ![u.file] = Applied(t, u)]
    BY ApplyOneDone
  <1>2. acc.texts = [f \in F |-> acc.texts[f]] /\ \A f \in F : IsText(T, acc.texts[f])
    BY DEF TextsOver
  <1>3. IsText(T, Applied(t, u)) /\ Tokens(Applied(t, u)) \subseteq Tokens(t) \cup ToSet(u.block)
    BY <1>1, <1>2, AppliedTokens
  <1> HIDE DEF t, new
  <1>4. /\ new = [f \in F |-> new[f]]
        /\ new[u.file] = Applied(t, u)
        /\ \A f \in F : f # u.file => new[f] = acc.texts[f]
    BY <1>1, <1>2
  <1>5. \A f \in F : IsText(T, new[f])
    BY <1>2, <1>3, <1>4
  <1>6. TextsOver(T, F, new)
    BY <1>4, <1>5 DEF TextsOver
  <1>. QED  BY <1>3, <1>4, <1>6 DEF t, new

(* Taking the units off in the opposite order gives back the texts below.  *)
THEOREM StripUndoes ==
    ASSUME NEW T, Absent \notin Seq(T), NEW F, NEW units,
           UnitsOver(T, F, ToSet(units)),
           NEW texts, TextsOver(T, F, texts), Signed(ToSet(units), texts),
           NEW order, Lists({u.id : u \in ToSet(units)}, order),
           NEW above, above = ApplyInOrder(units, order, texts), above.ok,
           Strip(units, order, above.texts).ok
    PROVE  Strip(units, order, above.texts).texts = texts
  <1> DEFINE N == Len(order)
             w(n) == UnitNamed(units, order[n])
  <1>1. N \in Nat
    BY DEF Lists
  <1>2. ASSUME NEW n \in 1..N
        PROVE  w(n) \in ToSet(units) /\ w(n).id = order[n]
    <2>1. order[n] \in {u.id : u \in ToSet(units)}
      BY <1>1 DEF Lists
    <2>. QED  BY <2>1, NamedUnit
  <1>3. PICK g : /\ g[0] = [texts |-> texts, ok |-> TRUE]
                 /\ g[N] = ApplyInOrder(units, order, texts)
                 /\ \A n \in Nat : n + 1 <= N => g[n + 1] = ApplyOne(g[n], w(n + 1))
    BY <1>1, ApplyInOrderSteps DEF ApplyRun
  <1>4. PICK h : /\ h[0] = [texts |-> above.texts, ok |-> TRUE]
                 /\ h[N] = Strip(units, order, above.texts)
                 /\ \A n \in Nat : n + 1 <= N => h[n + 1] = RevertOne(h[n], w(N - n))
    <2>1. \E f : StripRun(units, order, above.texts, f)
      BY <1>1, StripInOrderSteps
    <2>. QED  BY <2>1 DEF StripRun
  <1>5. \A a, b \in 1..N : order[a] = order[b] => a = b
    BY DEF Lists
  <1> HIDE DEF N, w
  <1> DEFINE FromUnit(n, f, m) == \E k \in 1..n : w(k).file = f /\ m \in ToSet(w(k).block)
             Good(n) == g[n].ok =>
                 /\ TextsOver(T, F, g[n].texts)
                 /\ \A f \in F : \A m \in Tokens(g[n].texts[f]) :
                       m \in Tokens(texts[f]) \/ FromUnit(n, f, m)
             S == {n \in Nat : n <= N => Good(n)}
  <1>6. 0 \in S
    BY <1>3
  <1>7. ASSUME NEW n \in Nat, n \in S PROVE n + 1 \in S
    <2> SUFFICES ASSUME n + 1 <= N, g[n + 1].ok
                 PROVE  /\ TextsOver(T, F, g[n + 1].texts)
                        /\ \A f \in F : \A m \in Tokens(g[n + 1].texts[f]) :
                              m \in Tokens(texts[f]) \/ FromUnit(n + 1, f, m)
        OBVIOUS
    <2> DEFINE u == w(n + 1)
    <2>1. n + 1 \in 1..N /\ n <= N
      BY <1>1
    <2>2. u \in ToSet(units) /\ UnitOver(T, u) /\ u.file \in F
      BY <1>2, <2>1 DEF UnitsOver
    <2>3. g[n + 1] = ApplyOne(g[n], u)
      BY <1>3
    <2> HIDE DEF u
    <2>4. g[n].ok /\ ApplyOne(g[n], u).ok
      <3>1. ApplyOne(g[n], u).ok
        BY <2>3
      <3>. QED  BY <3>1, ApplyOneDone
    <2>5. /\ TextsOver(T, F, g[n].texts)
          /\ \A f \in F : \A m \in Tokens(g[n].texts[f]) :
                m \in Tokens(texts[f]) \/ FromUnit(n, f, m)
      BY <1>7, <2>1, <2>4
    <2>6. /\ TextsOver(T, F, g[n + 1].texts)
          /\ \A f \in F : f # u.file => g[n + 1].texts[f] = g[n].texts[f]
          /\ Tokens(g[n + 1].texts[u.file])
                \subseteq Tokens(g[n].texts[u.file]) \cup ToSet(u.block)
      <3> DEFINE acc == g[n]
      <3>1. acc.ok /\ ApplyOne(acc, u).ok /\ TextsOver(T, F, acc.texts)
        BY <2>4, <2>5
      <3>2. g[n + 1] = ApplyOne(acc, u) /\ g[n].texts = acc.texts
        BY <2>3
      <3> HIDE DEF acc
      <3>3. /\ TextsOver(T, F, ApplyOne(acc, u).texts)
            /\ \A f \in F : f # u.file =>
                  ApplyOne(acc, u).texts[f] = acc.texts[f]
            /\ Tokens(ApplyOne(acc, u).texts[u.file])
                  \subseteq Tokens(acc.texts[u.file]) \cup ToSet(u.block)
        BY <2>2, <3>1, ApplyStepTokens
      <3>. QED  BY <3>2, <3>3
    <2>7. ASSUME NEW f \in F, NEW m \in Tokens(g[n + 1].texts[f])
          PROVE  m \in Tokens(texts[f]) \/ FromUnit(n + 1, f, m)
      <3>1. \A k \in 1..n : k \in 1..(n + 1)
        OBVIOUS
      <3>2. FromUnit(n, f, m) => FromUnit(n + 1, f, m)
        BY <3>1
      <3>3. CASE m \in Tokens(g[n].texts[f])
        BY <2>5, <3>2, <3>3
      <3>4. CASE m \notin Tokens(g[n].texts[f])
        <4>1. f = u.file /\ m \in ToSet(u.block)
          BY <2>6, <3>4
        <4>2. n + 1 \in 1..(n + 1)
          OBVIOUS
        <4>. QED  BY <4>1, <4>2 DEF u
      <3>. QED  BY <3>3, <3>4
    <2>. QED  BY <2>6, <2>7
  <1>8. \A n \in Nat : n <= N => Good(n)
    <2> HIDE DEF Good
    <2>1. Nat \subseteq S
      <3> HIDE DEF S
      <3>. QED  BY <1>6, <1>7, UpFrom0
    <2>. QED  BY <2>1
  (* A unit is new to the text it is applied to.                           *)
  <1>9. ASSUME NEW n \in Nat, n + 1 <= N, g[n].ok
        PROVE  ~(ToSet(w(n + 1).block) \subseteq Tokens(g[n].texts[w(n + 1).file]))
    <2> DEFINE u == w(n + 1)
    <2>1. n + 1 \in 1..N /\ n <= N
      BY <1>1, <1>9
    <2>2. u \in ToSet(units) /\ u.id = order[n + 1] /\ u.file \in F
      BY <1>2, <2>1 DEF UnitsOver
    <2>3. PICK m \in ToSet(u.block) :
              /\ m \notin Tokens(texts[u.file])
              /\ \A v \in ToSet(units) :
                    v.file = u.file /\ v.id # u.id => m \notin ToSet(v.block)
      BY <2>2 DEF Signed
    <2> HIDE DEF u
    <2>4. ASSUME m \in Tokens(g[n].texts[u.file]) PROVE FALSE
      <3>1. PICK k \in 1..n : w(k).file = u.file /\ m \in ToSet(w(k).block)
        <4>1. Good(n)
          BY <1>8, <2>1
        <4>2. FromUnit(n, u.file, m)
          <5> HIDE DEF FromUnit
          <5>. QED  BY <1>9, <2>2, <2>3, <2>4, <4>1
        <4>. QED  BY <4>2
      <3>2. k \in 1..N /\ k # n + 1
        BY <1>1, <2>1
      <3>3. w(k) \in ToSet(units) /\ w(k).id # u.id
        BY <1>2, <1>5, <2>1, <2>2, <3>2
      <3>. QED  BY <2>3, <3>1, <3>3
    <2>. QED  BY <2>3, <2>4 DEF u
  <1> DEFINE Same(d) == h[d].ok => g[N - d].ok /\ h[d].texts = g[N - d].texts
             D == {d \in Nat : d <= N => Same(d)}
  <1>10. 0 \in D
    <2>1. N - 0 = N
      BY <1>1
    <2>. QED  BY <1>3, <1>4, <2>1
  <1>11. ASSUME NEW d \in Nat, d \in D PROVE d + 1 \in D
    <2> SUFFICES ASSUME d + 1 <= N, h[d + 1].ok
                 PROVE  g[N - (d + 1)].ok /\ h[d + 1].texts = g[N - (d + 1)].texts
        OBVIOUS
    <2> DEFINE n == N - (d + 1)
               u == w(n + 1)
    <2>1. n \in Nat /\ n + 1 = N - d /\ n + 1 <= N /\ n <= N /\ d <= N /\ n + 1 \in 1..N
      BY <1>1
    <2>2. h[d + 1] = RevertOne(h[d], u)
      BY <1>4, <2>1
    <2>3. u \in ToSet(units) /\ UnitOver(T, u) /\ u.file \in F
      BY <1>2, <2>1 DEF UnitsOver
    <2>4. g[n + 1] = ApplyOne(g[n], u)
      BY <1>3, <2>1
    <2>5. ~(ToSet(u.block) \subseteq Tokens(g[n].texts[u.file])) \/ ~g[n].ok
      BY <1>9, <2>1
    <2> HIDE DEF n, u
    <2>6. /\ h[d].ok
          /\ Reverts(h[d].texts[u.file], u)
          /\ h[d + 1].texts = [h[d].texts EXCEPT ![u.file] = Reverted(h[d].texts[u.file], u)]
      <3>1. RevertOne(h[d], u).ok
        BY <2>2
      <3>2. /\ h[d].ok
            /\ Reverts(h[d].texts[u.file], u)
            /\ RevertOne(h[d], u).texts =
                  [h[d].texts EXCEPT ![u.file] = Reverted(h[d].texts[u.file], u)]
        BY <3>1, RevertOneDone
      <3>. QED  BY <2>2, <3>2
    <2>7. g[n + 1].ok /\ h[d].texts = g[n + 1].texts
      BY <1>11, <2>1, <2>6
    <2>8. /\ g[n].ok
          /\ Applies(g[n].texts[u.file], u)
          /\ g[n + 1].texts = [g[n].texts EXCEPT ![u.file] = Applied(g[n].texts[u.file], u)]
      <3>1. ApplyOne(g[n], u).ok
        BY <2>4, <2>7
      <3>2. /\ g[n].ok
            /\ Applies(g[n].texts[u.file], u)
            /\ ApplyOne(g[n], u).texts =
                  [g[n].texts EXCEPT ![u.file] = Applied(g[n].texts[u.file], u)]
        BY <3>1, ApplyOneDone
      <3>. QED  BY <2>4, <3>2
    <2>9. TextsOver(T, F, g[n].texts)
      BY <1>8, <2>1, <2>8
    <2> DEFINE t == g[n].texts
    <2>10. t = [f \in F |-> t[f]] /\ IsText(T, t[u.file])
      BY <2>3, <2>9 DEF TextsOver
    <2>11. g[n + 1].texts[u.file] = Applied(t[u.file], u)
      BY <2>3, <2>8, <2>10
    <2>12. Reverted(Applied(t[u.file], u), u) = t[u.file]
      <3>1. Reverts(Applied(t[u.file], u), u)
        BY <2>6, <2>7, <2>11
      <3>2. ~(ToSet(u.block) \subseteq Tokens(t[u.file])) /\ Applies(t[u.file], u)
        BY <2>5, <2>8
      <3> HIDE DEF t
      <3>. QED  BY <2>3, <2>10, <3>1, <3>2, RevertedApplied
    <2>13. h[d + 1].texts = [[t EXCEPT ![u.file] = Applied(t[u.file], u)]
                                EXCEPT ![u.file] = t[u.file]]
      BY <2>6, <2>7, <2>8, <2>11, <2>12
    <2> HIDE DEF t
    <2>14. h[d + 1].texts = t
      BY <2>3, <2>10, <2>13
    <2>. QED  BY <2>8, <2>14 DEF n, t
  <1>12. \A d \in Nat : d <= N => Same(d)
    <2> HIDE DEF Same
    <2>1. Nat \subseteq D
      <3> HIDE DEF D
      <3>. QED  BY <1>10, <1>11, UpFrom0
    <2>. QED  BY <2>1
  <1>13. N - N = 0
    BY <1>1
  <1>. QED  BY <1>1, <1>3, <1>4, <1>12, <1>13

(* Units that all apply leave texts of the same files.                     *)
LEMMA ApplyOver ==
    ASSUME NEW T, Absent \notin Seq(T), NEW F, NEW units,
           UnitsOver(T, F, ToSet(units)),
           NEW texts, TextsOver(T, F, texts),
           NEW order, Lists({u.id : u \in ToSet(units)}, order),
           ApplyInOrder(units, order, texts).ok
    PROVE  TextsOver(T, F, ApplyInOrder(units, order, texts).texts)
  <1> DEFINE N == Len(order)
             w(n) == UnitNamed(units, order[n])
  <1>1. N \in Nat
    BY DEF Lists
  <1>2. ASSUME NEW n \in 1..N PROVE w(n) \in ToSet(units)
    <2>1. order[n] \in {u.id : u \in ToSet(units)}
      BY <1>1 DEF Lists
    <2>. QED  BY <2>1, NamedUnit
  <1>3. PICK g : /\ g[0] = [texts |-> texts, ok |-> TRUE]
                 /\ g[N] = ApplyInOrder(units, order, texts)
                 /\ \A n \in Nat : n + 1 <= N => g[n + 1] = ApplyOne(g[n], w(n + 1))
    BY <1>1, ApplyInOrderSteps DEF ApplyRun
  <1> HIDE DEF N, w
  <1> DEFINE Good(n) == g[n].ok => TextsOver(T, F, g[n].texts)
             S == {n \in Nat : n <= N => Good(n)}
  <1>4. 0 \in S
    BY <1>3
  <1>5. ASSUME NEW n \in Nat, n \in S PROVE n + 1 \in S
    <2> SUFFICES ASSUME n + 1 <= N, g[n + 1].ok
                 PROVE  TextsOver(T, F, g[n + 1].texts)
        OBVIOUS
    <2> DEFINE u == w(n + 1)
               acc == g[n]
    <2>1. n + 1 \in 1..N /\ n <= N
      BY <1>1
    <2>2. UnitOver(T, u) /\ u.file \in F
      BY <1>2, <2>1 DEF UnitsOver
    <2>3. g[n + 1] = ApplyOne(acc, u)
      BY <1>3
    <2>4. acc.ok => TextsOver(T, F, acc.texts)
      BY <1>5, <2>1
    <2> HIDE DEF u, acc
    <2>5. ApplyOne(acc, u).ok
      BY <2>3
    <2>6. acc.ok
      BY <2>5, ApplyOneDone
    <2>7. TextsOver(T, F, ApplyOne(acc, u).texts)
      BY <2>2, <2>4, <2>5, <2>6, ApplyStepTokens
    <2>. QED  BY <2>3, <2>7
  <1>6. Good(N)
    <2> HIDE DEF Good
    <2>1. Nat \subseteq S
      <3> HIDE DEF S
      <3>. QED  BY <1>4, <1>5, UpFrom0
    <2>. QED  BY <1>1, <2>1
  <1>. QED  BY <1>3, <1>6

(* A composition that is not refused applies every unit once, in an order  *)
(* of their ids.                                                           *)
LEMMA ComposeApplies ==
    ASSUME NEW units, \A u \in ToSet(units) : u.id \in Nat,
           units \in Seq(ToSet(units)), NEW texts, Compose(units, texts).ok
    PROVE  LET new == Compose(units, texts)
               above == ApplyInOrder(units, new.order, texts)
           IN  /\ Lists({u.id : u \in ToSet(units)}, new.order)
               /\ above.ok
               /\ new.texts = above.texts
  <1> DEFINE ids == {u.id : u \in ToSet(units)}
             edges == Analyzed(units, texts).edges
             new == Compose(units, texts)
  <1>1. /\ new.order = Sorted(ids, edges)
        /\ ApplyInOrder(units, new.order, texts).ok
        /\ new.texts = ApplyInOrder(units, new.order, texts).texts
    BY Zenon DEF Compose
  <1>2. Cardinality(ids) \in Nat
    <2>1. DOMAIN units = 1..Len(units) /\ Len(units) \in Nat
      OBVIOUS
    <2>2. IsFiniteSet(1..Len(units))
      BY <2>1, FS_Interval
    <2> DEFINE f == [k \in 1..Len(units) |-> units[k].id]
    <2>3. f \in Surjection(1..Len(units), ids)
      <3>1. \A k \in 1..Len(units) : units[k] \in ToSet(units)
        BY <2>1 DEF ToSet
      <3>2. f \in [1..Len(units) -> ids]
        BY <3>1
      <3>3. ASSUME NEW i \in ids PROVE \E k \in 1..Len(units) : f[k] = i
        <4>1. PICK u \in ToSet(units) : u.id = i
          OBVIOUS
        <4>2. PICK k \in 1..Len(units) : units[k] = u
          BY <2>1 DEF ToSet
        <4>. QED  BY <4>1, <4>2
      <3>. QED  BY <3>2, <3>3 DEF Surjection
    <2> HIDE DEF f, ids
    <2>4. IsFiniteSet(ids)
      BY <2>2, <2>3, FS_Surjection
    <2>. QED  BY <2>4, FS_CardinalityType
  <1> HIDE DEF edges
  <1>3. Lists(ids, Sorted(ids, edges))
    BY <1>2, SortedLists
  <1>. QED  BY <1>1, <1>3
=============================================================================
