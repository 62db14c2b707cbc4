----------------------------- MODULE LingTrees -----------------------------
(***************************************************************************)
(* The whole-subtree operations of ling_class/item_aux.cc, on top of the   *)
(* heap of LingGraph: merging and moving items, copying a subtree below    *)
(* another item, exchanging two subtrees.  copy_node_tree takes contents   *)
(* away from the items it copies, as each copy is entered in the same      *)
(* relation; some originals are then neither deleted nor in any tree.      *)
(***************************************************************************)
EXTENDS LingGraph, Sequences

CONSTANT ForeignViews  \* may exchange_sub_trees be given an ITEM1 seen from
                       \* another relation than ITEM2's?

InTree(h, c, t) == c \in {t} \cup Under(h, t)

(* A copy of from's later siblings and their daughters is made behind to,  *)
(* then one of from's own daughters below it.                              *)
Copying == [heap : Heap, from : Items, to : Items]

CopyNext(copy, h, from, to) ==
  LET x == h.n[from] IN
  IF x = Nil THEN h
  ELSE copy[[heap |-> InsertAfter(h, to, x), from |-> x, to |-> NewSlot(h)]]

CopyDown(copy, h, from, to) ==
  LET x == h.d[from] IN
  IF x = Nil THEN h
  ELSE copy[[heap |-> InsertBelow(h, to, x), from |-> x, to |-> NewSlot(h)]]

(* The calls in it go down, however deep the tree is, by fewer levels than *)
(* there are items.                                                        *)
CopyNodeTree[levels \in 0 .. Cardinality(Items)] ==
  [c \in Copying |->
     IF levels = 0 THEN c.heap
     ELSE LET copy == CopyNodeTree[levels - 1]
          IN  CopyDown(copy, CopyNext(copy, c.heap, c.from, c.to), c.from, c.to)]

(* Copies of the list that starts at x become the first daughters of to.   *)
CopyBelow(h, x, to) ==
  IF x = Nil THEN h
  ELSE CopyNodeTree[Cardinality(Items)][
         [heap |-> InsertBelow(h, to, x), from |-> x, to |-> NewSlot(h)]]

(* The list that starts at x is deleted, and the daughters with it.        *)
DeleteList(h, x) ==
  IF x = Nil THEN h ELSE Free([h EXCEPT !.n = Store(@, h.p[x], Nil)], Tree(h, x))

MoveItem(h, from, to) ==
  LET rfrom == AsRelation(h, from, h.rel[to])
      g     == SetContents(h, to, h.con[from])
  IN  IF rfrom = Nil THEN g ELSE Delete(g, rfrom)

(* to's daughters outlive the copying: from may be among them.             *)
MoveSubTree(h, from, to) ==
  LET rfrom == AsRelation(h, from, h.rel[to])
      old   == h.d[to]
      cut   == CutDaughters(SetContents(h, to, h.con[from]), to)
      doomed1 == IF rfrom = old /\ old # Nil THEN h.n[old] ELSE old
      copied  == Delete(CopyBelow(cut, cut.d[rfrom], to), rfrom)
  IN  IF InTree(h, to, from) THEN h
      ELSE DeleteList(IF rfrom # Nil /\ cut.d[rfrom] # Nil
                      THEN copied ELSE cut, doomed1)

(* to's daughters are rebuilt below from, not below rfrom.                 *)
ExchangeSubTrees(h, from, to) ==
  LET rfrom == AsRelation(h, from, h.rel[to])
      taken == GrabContents(GrabContents(h, to), rfrom)
      cut   == CutDaughters(CutDaughters(taken, rfrom), to)
      named == SetContents(SetContents(cut, to, h.con[rfrom]),
                           rfrom, h.con[to])
  IN  CopyBelow(CopyBelow(named, h.d[rfrom], to), h.d[to], from)

MayExchange(h, from, to) ==
  LET rfrom == AsRelation(h, from, h.rel[to])
  IN  rfrom # Nil /\ ~InTree(h, rfrom, to) /\ ~InTree(h, to, rfrom)

(* merge_item: each other view of from is given to's contents.  s lists    *)
(* the relations the loop visits.                                          *)
GiveContents(h, from, to, s) ==
  LET given[k \in 0..Len(s)] ==
        IF k = 0 THEN h
        ELSE LET g == given[k - 1]
             IN  SetContents(g, AsRelation(g, from, s[k]), g.con[to])
  IN  given[Len(s)]

MergeItem(h, from, to, s) ==
  LET g == GiveContents(h, from, to, s)
  IN  SetContents(g, from, g.con[to])
-----------------------------------------------------------------------------
(* Bound: a tree operation needs item slots for what it copies.            *)
RoomFor(h, k) ==
  Cardinality(Items \ Live(h)) >= k /\ Cardinality(Contents \ h.mem) >= k + 3

(* Set_contents frees the list entry the loop stands on, which is then     *)
(* asked for the next one: the build may go on through the list or find    *)
(* its end, so any first part of any order of the relations is visited.    *)
(* Bound: spare contents for each item that is given to's contents.        *)
merge_item(from, to) ==
  LET others == {r \in Rels : AsRelation(heap, from, r) \notin {Nil, from}}
      visits == {s \in UNION {[1..k -> others] : k \in 0..Cardinality(others)} :
                   \A a, b \in DOMAIN s : s[a] = s[b] => a = b}
  IN  /\ Calm /\ RoomFor(heap, 0)
      /\ \E s \in visits : /\ others # {} => s # <<>>
                           /\ Cardinality(Contents \ heap.mem) > Len(s)
                           /\ Put(MergeItem(heap, from, to, s))

(* Callers' part: to is not in the tree that is deleted.                   *)
move_item(from, to) ==
  LET rfrom == AsRelation(heap, from, heap.rel[to])
  IN  /\ Calm /\ RoomFor(heap, 0)
      /\ rfrom # Nil => ~InTree(heap, to, rfrom)
      /\ Put(MoveItem(heap, from, to))

(* Callers' part: the code compares to with the tree of from; seen from    *)
(* another relation, from must not stand for an item above to either.      *)
move_sub_tree(from, to) ==
  LET rfrom == AsRelation(heap, from, heap.rel[to])
  IN  /\ Calm
      /\ RoomFor(heap, IF rfrom = Nil THEN 0 ELSE Cardinality(Under(heap, rfrom)))
      /\ rfrom # Nil /\ rfrom # from => ~InTree(heap, to, rfrom)
      /\ Put(MoveSubTree(heap, from, to))

exchange_sub_trees(from, to) ==
  LET rfrom == AsRelation(heap, from, heap.rel[to])
  IN  /\ Calm /\ MayExchange(heap, from, to)
      /\ ~ForeignViews => rfrom = from
      /\ RoomFor(heap, Cardinality(Under(heap, rfrom) \cup Under(heap, to)))
      /\ Put(ExchangeSubTrees(heap, from, to))

TreeCall ==
  \E from, to \in InUse(heap) :
    \/ merge_item(from, to)
    \/ move_item(from, to)
    \/ move_sub_tree(from, to)
    \/ exchange_sub_trees(from, to)

TreeNext == Next \/ TreeCall

TreeSpec == Init /\ [][TreeNext]_vars
=============================================================================
