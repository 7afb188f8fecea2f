---------------------------- MODULE PatchCompose ----------------------------
(***************************************************************************)
(* How the installer turns a selection of patch packs into texts: the      *)
(* resolver of the selection, and the composition of the units of the      *)
(* selected packs on the texts of the host program (src/src/resolver.cjs,  *)
(* src/src/compose.cjs).                                                   *)
(*                                                                         *)
(* A catalog is a sequence of packs, a pack has a sequence of units; both  *)
(* are numbered in the order of their ids.                                 *)
(*   pack: [visible, requires, conflicts, supersedes, all, any, none,      *)
(*          units]                                                         *)
(*   unit: [id, file, type, anchor, block, marks, first, needs, before,    *)
(*          after]                                                         *)
(* A text is a sequence of tokens. The block of a unit is a sequence too,  *)
(* it holds the marker tokens of the unit, and it may hold the anchor of   *)
(* another. No anchor or block overlaps itself.                            *)
(***************************************************************************)
EXTENDS Naturals, Sequences, FiniteSets, SequencesExt, FiniteSetsExt

CONSTANT Absent  \* the content of a file that does not exist

---------------------------------------------------------------------------
(* Selection                                                               *)

(* assertUnit: what a unit needs to be composed.                           *)
IsUnit(u) ==
    /\ u.id \in Nat
    /\ u.type \in {"owned", "replace", "before", "after"}
    /\ u.block \in Seq(ToSet(u.block))
    /\ u.type # "owned" =>
          u.anchor # <<>> /\ u.anchor \in Seq(ToSet(u.anchor))

(* What the resolver requires of a catalog before it selects.              *)
IsCatalog(cat) ==
    /\ cat \in Seq(ToSet(cat))
    /\ \A p \in DOMAIN cat :
          /\ cat[p].requires \subseteq DOMAIN cat
          /\ cat[p].supersedes \in Seq(DOMAIN cat)
          /\ cat[p].units \in Seq(ToSet(cat[p].units))

CatalogUnits(cat) == UNION {ToSet(cat[p].units) : p \in DOMAIN cat}

Visible(cat) == {p \in DOMAIN cat : cat[p].visible}

(* Mutation: what the packs require is not selected.                       *)
WithoutRequired(cat, S) == S

(* The packs of S with all that they require, directly or not: what every  *)
(* set that holds S and the requirements of its packs has.                 *)
WithRequired(cat, S) ==
    LET closed(T) == \A p \in T : cat[p].requires \subseteq T
    IN  {p \in DOMAIN cat : \A T \in SUBSET DOMAIN cat :
             S \subseteq T /\ closed(T) => p \in T}

AutoMatches(pack, S) ==
    /\ pack.all \cup pack.any \cup pack.none # {}
    /\ pack.all \subseteq S
    /\ pack.any = {} \/ pack.any \cap S # {}
    /\ pack.none \cap S = {}

(* One scan of the catalog adds the packs whose condition holds by then.   *)
AutoScan(cat, S) ==
    FoldLeft(LAMBDA T, p : IF AutoMatches(cat[p], T) THEN T \cup {p} ELSE T,
             WithRequired(cat, S), [p \in DOMAIN cat |-> p])

(* Scans until one adds nothing, which is after one scan per pack at most. *)
Expanded(cat, S) ==
    LET scan[n \in 0..Len(cat)] ==
            IF n = 0 THEN S ELSE AutoScan(cat, scan[n - 1])
    IN  WithRequired(cat, scan[Len(cat)])

(* A selected pack removes the packs it supersedes, one after the other;   *)
(* that is refused when a pack that is still selected requires the removed *)
(* one.                                                                    *)
Supersede(cat, acc, p) ==
    LET list == cat[p].supersedes
        stuck(k) == /\ list[k] \in acc.packs
                    /\ \E q \in acc.packs \ {list[j] : j \in 1..k} :
                           list[k] \in cat[q].requires
    IN  [packs |-> acc.packs \ ToSet(list),
         ok |-> acc.ok /\ \A k \in DOMAIN list : ~stuck(k)]

(* The packs that are selected at first do so in the order of their ids.   *)
Superseding(cat, S) ==
    LET after[n \in 0..Len(cat)] ==
            IF n = 0 THEN [packs |-> S, ok |-> TRUE]
            ELSE IF n \in S THEN Supersede(cat, after[n - 1], n)
            ELSE after[n - 1]
    IN  after[Len(cat)]

(* resolveSelection: the selected packs, or a refusal.                     *)
Resolution(cat, requested) ==
    LET superseded == UNION {ToSet(cat[p].supersedes) : p \in requested}
        expanded == Expanded(cat, requested \ superseded)
        final == Superseding(cat, expanded)
    IN  [packs |-> final.packs,
         ok |-> /\ final.ok
                /\ \A p \in expanded : p \notin WithRequired(cat, cat[p].requires)
                /\ superseded \cap requested \cap final.packs = {}
                /\ \A p \in final.packs : cat[p].conflicts \cap final.packs = {}]

(* The units of the selected packs, in the order of the packs.             *)
UnitsOf(cat, packs) ==
    LET upTo[n \in 0..Len(cat)] ==
            IF n = 0 THEN <<>>
            ELSE IF n \in packs THEN upTo[n - 1] \o cat[n].units
            ELSE upTo[n - 1]
    IN  upTo[Len(cat)]

---------------------------------------------------------------------------
(* One unit                                                                *)

Places(text, s) ==
    {i \in 1..(Len(text) - Len(s) + 1) : SubSeq(text, i, i + Len(s) - 1) = s}
Count(text, s) == Cardinality(Places(text, s))

(* text with s in place of the n tokens from position i on                 *)
Splice(text, i, n, s) ==
    SubSeq(text, 1, i - 1) \o s \o SubSeq(text, i + n, Len(text))

(* The unit can be applied: its block is there exactly once already, or    *)
(* nothing of it is there and its anchor is where the unit expects it.     *)
Applies(text, u) ==
    IF u.type = "owned" THEN text \in {Absent, u.block}
    ELSE /\ text # Absent
         /\ \/ Count(text, u.block) = 1
            \/ /\ Count(text, u.block) = 0
               /\ u.marks \cap ToSet(text) = {}
               /\ Count(text, u.anchor) >= 1
               /\ u.first \/ Count(text, u.anchor) = 1

Applied(text, u) ==
    IF u.type = "owned" THEN u.block
    ELSE IF Count(text, u.block) = 1 THEN text
    ELSE LET i == Min(Places(text, u.anchor))
         IN  CASE u.type = "replace" ->
                      Splice(text, i, Len(u.anchor), u.block)
               [] u.type = "before" -> Splice(text, i, 0, u.block)
               [] u.type = "after" ->
                      Splice(text, i + Len(u.anchor), 0, u.block)

Reverts(text, u) ==
    IF u.type = "owned" THEN text \in {Absent, u.block}
    ELSE text # Absent /\ Count(text, u.block) = 1

(* Mutation: a replaced anchor is not put back.                            *)
RevertedCut(text, u) ==
    IF u.type = "owned" THEN Absent
    ELSE Splice(text, Min(Places(text, u.block)), Len(u.block), <<>>)

Reverted(text, u) ==
    IF u.type = "owned" THEN Absent
    ELSE Splice(text, Min(Places(text, u.block)), Len(u.block),
                IF u.type = "replace" THEN u.anchor ELSE <<>>)

---------------------------------------------------------------------------
(* Many units                                                              *)

BothApply(text, u, v) == Applies(text, u) /\ Applies(Applied(text, u), v)
AppliedBoth(text, u, v) == Applied(Applied(text, u), v)

Declared(units) ==
    LET ids == {u.id : u \in ToSet(units)}
        edges(u) == ({u.id} \X (u.before \cap ids))
                      \cup ((u.after \cap ids) \X {u.id})
                      \cup (u.needs \X {u.id})
    IN  UNION {edges(u) : u \in ToSet(units)}

(* hasPath: every set of units with the successors of i and those of its   *)
(* own members holds j, or the other way round.                            *)
Follows(edges, i, j) ==
    LET next(k) == {e[2] : e \in {d \in edges : d[1] = k}}
    IN  \A T \in SUBSET {e[2] : e \in edges} :
            next(i) \subseteq T /\ (\A k \in T : next(k) \subseteq T) => j \in T

Ordered(edges, i, j) == Follows(edges, i, j) \/ Follows(edges, j, i)

(* Two units of a file that no edge orders yet: what each order of them    *)
(* gives on the host text decides whether an order has to be inferred.     *)
AnalyzePair(acc, u, v, text) ==
    LET uv == BothApply(text, u, v)
        vu == BothApply(text, v, u)
        same == AppliedBoth(text, u, v) = AppliedBoth(text, v, u)
        edge == IF uv THEN <<u.id, v.id>> ELSE <<v.id, u.id>>
    IN  IF u.file # v.file \/ Ordered(acc.edges, u.id, v.id) THEN acc
        ELSE IF uv /\ vu
             THEN IF same THEN acc
                  ELSE [acc EXCEPT !.unclear = @ \cup {edge}]
        ELSE IF uv \/ vu THEN [acc EXCEPT !.edges = @ \cup {edge}]
        ELSE [acc EXCEPT !.ok = FALSE]

Analyzed(units, texts) ==
    LET pairs == {p \in (DOMAIN units) \X (DOMAIN units) : p[1] < p[2]}
        earlier(p, q) == p[1] < q[1] \/ (p[1] = q[1] /\ p[2] < q[2])
        step(acc, p) == AnalyzePair(acc, units[p[1]], units[p[2]],
                                    texts[units[p[1]].file])
    IN  FoldLeft(step, [edges |-> Declared(units), unclear |-> {}, ok |-> TRUE],
                 SetToSortSeq(pairs, earlier))

(* topologicalSort: the smallest unit without an unplaced predecessor is   *)
(* next. A cycle leaves the sequence short.                                *)
PlaceNext(ids, edges, done) ==
    LET ready == {i \in ids \ ToSet(done) :
                     \A e \in edges : e[2] = i => e[1] \in ToSet(done)}
    IN  IF ready = {} THEN done ELSE Append(done, Min(ready))

Sorted(ids, edges) ==
    LET placed[n \in 0..Cardinality(ids)] ==
            IF n = 0 THEN <<>> ELSE PlaceNext(ids, edges, placed[n - 1])
    IN  placed[Cardinality(ids)]

UnitNamed(units, id) == CHOOSE u \in ToSet(units) : u.id = id

ApplyOne(acc, u) ==
    LET done == acc.ok /\ Applies(acc.texts[u.file], u)
    IN  [texts |-> IF done THEN [acc.texts EXCEPT ![u.file] = Applied(@, u)]
                   ELSE acc.texts,
         ok |-> done]

ApplyInOrder(units, order, texts) ==
    LET above[n \in 0..Len(order)] ==
            IF n = 0 THEN [texts |-> texts, ok |-> TRUE]
            ELSE ApplyOne(above[n - 1], UnitNamed(units, order[n]))
    IN  above[Len(order)]

(* compose: the order of the units and the texts they give.                *)
Compose(units, texts) ==
    LET ids == {u.id : u \in ToSet(units)}
        plan == Analyzed(units, texts)
        order == Sorted(ids, plan.edges)
        result == ApplyInOrder(units, order, texts)
    IN  [order |-> order,
         texts |-> result.texts,
         ok |-> /\ \A u \in ToSet(units) : u.needs \subseteq ids
                /\ plan.ok
                /\ \A p \in plan.unclear : Ordered(plan.edges, p[1], p[2])
                /\ Len(order) = Cardinality(ids)
                /\ result.ok]

RevertOne(acc, u) ==
    LET done == acc.ok /\ Reverts(acc.texts[u.file], u)
    IN  [texts |-> IF done THEN [acc.texts EXCEPT ![u.file] = Reverted(@, u)]
                   ELSE acc.texts,
         ok |-> done]

(* stripCurrentUnits: the host texts under the units of the installed      *)
(* state, reverted in the opposite order.                                  *)
Strip(units, order, texts) ==
    LET under[n \in 0..Len(order)] ==
            IF n = 0 THEN [texts |-> texts, ok |-> TRUE]
            ELSE RevertOne(under[n - 1],
                           UnitNamed(units, order[Len(order) + 1 - n]))
    IN  under[Len(order)]
=============================================================================
