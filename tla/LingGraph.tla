----------------------------- MODULE LingGraph -----------------------------
(***************************************************************************)
(* The heterogeneous relation graph every Festival utterance is built on   *)
(* (speech_tools/ling_class): EST_Item nodes linked into a list or forest  *)
(* per EST_Relation, sharing EST_Item_Content records, each of which       *)
(* indexes by relation name the one item that shows it in that relation.   *)
(*                                                                         *)
(* The heap is one record, so that an operation of the code that calls     *)
(* others is the composition of operators on heaps.  Features, and the     *)
(* "id" feature a new item is given (assign_id), are left out: no link     *)
(* depends on them.  Items outside any relation are not modelled.          *)
(***************************************************************************)
EXTENDS Naturals, FiniteSets

CONSTANTS Items,     \* addresses of EST_Item objects
          Contents,  \* addresses of EST_Item_Content objects
          Rels,      \* relation names
          MaxItems,  \* bound: the items a relation grows to
          Nil        \* the null pointer

ASSUME PointerAssumption ==
  /\ IsFiniteSet(Items) /\ IsFiniteSet(Contents)
  /\ Nil \notin Items /\ Nil \notin Contents /\ Nil \notin Rels

ASSUME BoundAssumption == MaxItems \in [Rels -> Nat]

VARIABLES heap,    \* every item, content and relation
          doomed   \* the content unref_and_delete is walking, or Nil

vars == <<heap, doomed>>

Ptr == Items \cup {Nil}

Heap == [n : [Items -> Ptr], p : [Items -> Ptr],        \* siblings
         u : [Items -> Ptr], d : [Items -> Ptr],        \* parent, daughter1
         rel : [Items -> Rels \cup {Nil}],  \* p_relation; Nil: not allocated
         con : [Items -> Contents \cup {Nil}],          \* p_contents
         head : [Rels -> Ptr], tail : [Rels -> Ptr],
         reg : [Contents -> [Rels -> Ptr]],             \* relations
         mem : SUBSET Contents]                         \* allocated contents

Live(h) == {i \in Items : h.rel[i] # Nil}

NoLink == [i \in Items |-> Nil]
NoRef  == [r \in Rels |-> Nil]

Init ==
  /\ heap = [n |-> NoLink, p |-> NoLink, u |-> NoLink, d |-> NoLink,
             rel |-> NoLink, con |-> NoLink, head |-> NoRef, tail |-> NoRef,
             reg |-> [c \in Contents |-> NoRef], mem |-> {}]
  /\ doomed = Nil
-----------------------------------------------------------------------------
(* Walking the links.                                                      *)

(* The siblings from x on: the least set with x that next() does not leave *)
List(h, x) ==
  LET Closed == {S \in SUBSET Items : /\ x \in S \cup {Nil}
                                      /\ \A k \in S : h.n[k] \in S \cup {Nil}}
  IN  {j \in Items : \A S \in Closed : j \in S}

(* x, its later siblings, and all the daughters of these. *)
Tree(h, x) ==
  LET Closed == {S \in SUBSET Items : /\ x \in S \cup {Nil}
                                      /\ \A k \in S : /\ h.n[k] \in S \cup {Nil}
                                                      /\ h.d[k] \in S \cup {Nil}}
  IN  {j \in Items : \A S \in Closed : j \in S}

Under(h, x)  == Tree(h, h.d[x])
Last(h, x)   == CHOOSE j \in List(h, x) : h.n[j] = Nil
AsRelation(h, i, r) == h.reg[h.con[i]][r]

(* if (k != 0) k->f = v *)
Store(f, k, v) == IF k = Nil THEN f ELSE [f EXCEPT ![k] = v]

(* if (p_end == x) p_end = v, of relation r *)
Instead(f, r, x, v) == IF f[r] = x THEN [f EXCEPT ![r] = v] ELSE f
-----------------------------------------------------------------------------
(* Items and the contents they share.                                      *)

NewSlot(h)    == CHOOSE i \in Items : h.rel[i] = Nil
NewContent(h) == CHOOSE c \in Contents : c \notin h.mem

(* Drop i's entry from its contents; a content without entries dies. *)
Unref(h, i) ==
  LET c == h.con[i]
      g == [h EXCEPT !.reg[c][h.rel[i]] = Nil, !.con[i] = Nil]
  IN  IF c = Nil THEN h
      ELSE [g EXCEPT !.mem = IF g.reg[c] = NoRef THEN @ \ {c} ELSE @]

\* Mutant: the index is given the contents, not the item.
RegisterSelf(h, i, c) ==
  [h EXCEPT !.con[i] = c, !.mem = @ \cup {c}, !.reg[c][h.rel[i]] = c]

(* Point i at c and enter i in c's index of relations. *)
Register(h, i, c) ==
  [h EXCEPT !.con[i] = c, !.mem = @ \cup {c}, !.reg[c][h.rel[i]] = i]

\* Mutant: an item c shows already in i's relation is not looked for.
SetContentsOver(h, i, c) ==
  IF h.con[i] = c THEN h ELSE Register(Unref(h, i), i, c)

(* An item that c already shows in i's relation is left an empty content. *)
SetContents(h, i, c) ==
  LET g  == Unref(h, i)
      nn == g.reg[c][g.rel[i]]
  IN  IF h.con[i] = c THEN h
      ELSE IF nn = Nil THEN Register(g, i, c)
      ELSE Register(Register(g, nn, NewContent(g)), i, c)

SetEmpty(h, i) == LET g == Unref(h, i) IN Register(g, i, NewContent(h))

(* The contents are taken away without being deleted. *)
GrabContents(h, i) ==
  LET g == [h EXCEPT !.reg[h.con[i]][h.rel[i]] = Nil, !.con[i] = Nil]
  IN  Register(g, i, NewContent(g))

(* A new, unlinked item of relation r with the contents of si. *)
NewItem(h, r, si) ==
  LET i == NewSlot(h)
      g == [h EXCEPT !.rel[i] = r]
  IN  IF si = Nil THEN SetEmpty(g, i) ELSE SetContents(g, i, h.con[si])
-----------------------------------------------------------------------------
(* Deleting.  The destructor unlinks the item, then deletes the daughters. *)

\* Mutant: the next daughter is not told that it is the first now.
UnlinkNoUp(h, x) ==
  LET r == h.rel[x]
  IN  [h EXCEPT
         !.p = Store(@, h.n[x], h.p[x]),
         !.n = Store(@, h.p[x], h.n[x]),
         !.d = Store(@, h.u[x], h.n[x]),
         !.head = Instead(@, r, x, h.n[x]),
         !.tail = Instead(@, r, x, h.p[x])]

Unlink(h, x) ==
  LET r == h.rel[x]
  IN  [h EXCEPT
         !.p = Store(@, h.n[x], h.p[x]),
         !.u = Store(@, h.n[x], h.u[x]),
         !.n = Store(@, h.p[x], h.n[x]),
         !.d = Store(@, h.u[x], h.n[x]),
         !.head = Instead(@, r, x, h.n[x]),
         !.tail = Instead(@, r, x, h.p[x])]

(* The items of D are gone, with the contents nothing else refers to. *)
Free(h, D) ==
  LET Wipe(f) == [i \in Items |-> IF i \in D THEN Nil ELSE f[i]]
      Gone(f) == [r \in Rels |-> IF f[r] \in D THEN Nil ELSE f[r]]
      g == [c \in Contents |-> [r \in Rels |->
              IF \E j \in D : h.con[j] = c /\ h.rel[j] = r
              THEN Nil ELSE h.reg[c][r]]]
  IN  [n |-> Wipe(h.n), p |-> Wipe(h.p), u |-> Wipe(h.u), d |-> Wipe(h.d),
       rel |-> Wipe(h.rel), con |-> Wipe(h.con),
       head |-> Gone(h.head), tail |-> Gone(h.tail), reg |-> g,
       mem |-> {c \in h.mem : g[c] # NoRef}]

\* Mutant: the other views of the deleted item go with it.
DeleteViews(h, x) ==
  Free(Unlink(h, x),
       {x} \cup Under(h, x) \cup {i \in Live(h) : h.con[i] = h.con[x]})

Delete(h, x) == Free(Unlink(h, x), {x} \cup Under(h, x))

Clear(h, r) ==
  LET g == Free(h, Tree(h, h.head[r]))
  IN  [g EXCEPT !.head[r] = Nil, !.tail[r] = Nil]
-----------------------------------------------------------------------------
(* Inserting.  i is the new item, t the item the method is called on.      *)

\* Mutant: p_tail stays where it was.
InsertAfterTail(h, t, si) ==
  LET i == NewSlot(h)
  IN  [NewItem(h, h.rel[t], si) EXCEPT
         !.p = Store(Store(@, i, t), h.n[t], i),
         !.n[i] = h.n[t], !.n[t] = i]

InsertAfter(h, t, si) ==
  LET i == NewSlot(h)
      r == h.rel[t]
  IN  [NewItem(h, r, si) EXCEPT
         !.p = Store(Store(@, i, t), h.n[t], i),
         !.n[i] = h.n[t], !.n[t] = i,
         !.tail = Instead(@, r, t, i)]

(* Only the first daughter points to the parent. *)
InsertBefore(h, t, si) ==
  LET i == NewSlot(h)
      r == h.rel[t]
  IN  [NewItem(h, r, si) EXCEPT
         !.n = Store(Store(@, i, t), h.p[t], i),
         !.p[i] = h.p[t], !.p[t] = i,
         !.u[i] = h.u[t], !.u[t] = Nil,
         !.d = Store(@, h.u[t], i),
         !.head = Instead(@, r, t, i)]

InsertBelow(h, t, si) ==
  LET i == NewSlot(h)
  IN  [NewItem(h, h.rel[t], si) EXCEPT
         !.u = Store(Store(@, i, t), h.d[t], i),
         !.d[i] = h.d[t], !.d[t] = i]

InsertAbove(h, t, si) ==
  LET i == NewSlot(h)
      r == h.rel[t]
  IN  [NewItem(h, r, si) EXCEPT
         !.d = Store(Store(@, i, t), h.u[t], i),
         !.u[i] = h.u[t], !.u[t] = i,
         !.head = Instead(@, r, t, i),
         !.tail = Instead(@, r, t, i)]

(* t's contents move to a new daughter; t is given si's, or empty ones. *)
InsertParent(h, t, si) ==
  LET a == InsertBelow(h, t, Nil)
      b == SetContents(GrabContents(a, t), a.d[t], a.con[t])
  IN  IF si = Nil THEN SetEmpty(b, t)
      ELSE SetContents(GrabContents(b, si), t, b.con[si])

AppendTop(h, r, si) ==
  LET i == NewSlot(h)
  IN  IF h.tail[r] = Nil
      THEN [NewItem(h, r, si) EXCEPT !.head[r] = i, !.tail[r] = i]
      ELSE [InsertAfter(h, h.tail[r], si) EXCEPT !.tail[r] = i]

PrependTop(h, r, si) ==
  LET i == NewSlot(h)
  IN  IF h.head[r] = Nil
      THEN [NewItem(h, r, si) EXCEPT !.head[r] = i, !.tail[r] = i]
      ELSE [InsertBefore(h, h.head[r], si) EXCEPT !.head[r] = i]

(* The form si already has at the top level of t's relation, or Nil. *)
TopForm(h, t, si) ==
  LET c == IF si = Nil THEN Nil ELSE AsRelation(h, si, h.rel[t])
  IN  IF c \in List(h, h.head[h.rel[t]]) THEN c ELSE Nil

HangLast(h, t, si) ==
  IF h.d[t] = Nil THEN InsertBelow(h, t, si)
  ELSE InsertAfter(h, Last(h, h.d[t]), si)

HangFirst(h, t, si) ==
  IF h.d[t] = Nil THEN InsertBelow(h, t, si)
  ELSE InsertBefore(h, h.d[t], si)

(* An item that is at the top level already is taken from there: its       *)
(* daughters are cut off, given to the new item, and the old form deleted. *)
CutDaughters(h, c) ==
  [h EXCEPT !.d[c] = Nil, !.u = Store(@, h.d[c], Nil)]

\* Mutant: the daughters are not put back.
LoseDaughters(h, i, downs) == h

GiveDaughters(h, i, downs) ==
  IF downs = Nil THEN h
  ELSE [h EXCEPT !.d[i] = downs, !.u[downs] = i]

AppendDaughter(h, t, si) ==
  LET c == TopForm(h, t, si)
      g == HangLast(CutDaughters(h, c), t, si)
  IN  IF c = Nil THEN HangLast(h, t, si)
      ELSE Delete(GiveDaughters(g, NewSlot(h), h.d[c]), c)

PrependDaughter(h, t, si) ==
  LET c == TopForm(h, t, si)
      g == HangFirst(CutDaughters(h, c), t, si)
  IN  IF c = Nil THEN HangFirst(h, t, si)
      ELSE Delete(GiveDaughters(g, NewSlot(h), h.d[c]), c)
-----------------------------------------------------------------------------
(* The calls.  Bounds: an insertion needs a spare item, and five spare     *)
(* contents, enough for those that any one of them allocates; and unless   *)
(* it moves an item, a relation of fewer than MaxItems items.              *)

Spare(h) == Live(h) # Items /\ Cardinality(Contents \ h.mem) >= 5

Room(h, r) ==
  Spare(h) /\ Cardinality({i \in Items : h.rel[i] = r}) < MaxItems[r]

Calm == doomed = Nil
Put(h) == heap' = h /\ UNCHANGED doomed

(* Callers' part: they work on items of the utterance.                     *)
InUse(h) == {i \in Live(h) : i \in Tree(h, h.head[h.rel[i]])}

append(r, si)  == Calm /\ Room(heap, r) /\ Put(AppendTop(heap, r, si))
prepend(r, si) == Calm /\ Room(heap, r) /\ Put(PrependTop(heap, r, si))
insert_after(t, si) ==
  Calm /\ Room(heap, heap.rel[t]) /\ Put(InsertAfter(heap, t, si))
insert_before(t, si) ==
  Calm /\ Room(heap, heap.rel[t]) /\ Put(InsertBefore(heap, t, si))
insert_below(t, si) ==
  Calm /\ Room(heap, heap.rel[t]) /\ Put(InsertBelow(heap, t, si))

(* Callers' part: festival.texi 4007 recommends against inserting above;   *)
(* it is sound for all the daughters of an item, or for a relation's only  *)
(* top-level item.                                                         *)
insert_above(t, si) ==
  /\ Calm /\ Room(heap, heap.rel[t])
  /\ heap.p[t] = Nil /\ (heap.n[t] = Nil \/ heap.u[t] # Nil)
  /\ Put(InsertAbove(heap, t, si))

insert_parent(t, si) ==
  Calm /\ Room(heap, heap.rel[t]) /\ Put(InsertParent(heap, t, si))

(* Callers' part: an item is not made a daughter of itself or of an item   *)
(* below it.                                                               *)
OutsideOf(t, si) ==
  LET c == TopForm(heap, t, si)
  IN  c # Nil => t \notin {c} \cup Under(heap, c)

RoomToHang(t, si) ==
  Spare(heap) /\ (TopForm(heap, t, si) = Nil => Room(heap, heap.rel[t]))

append_daughter(t, si) ==
  /\ Calm /\ RoomToHang(t, si) /\ OutsideOf(t, si)
  /\ Put(AppendDaughter(heap, t, si))
prepend_daughter(t, si) ==
  /\ Calm /\ RoomToHang(t, si) /\ OutsideOf(t, si)
  /\ Put(PrependDaughter(heap, t, si))

remove_item(i) == Calm /\ Put(Delete(heap, i))
clear(r)       == Calm /\ Put(Clear(heap, r))

(* unref_all: the loop of unref_and_delete deletes the item the contents   *)
(* show in one relation at a time, until the contents themselves are gone. *)
unref_all(i) == Calm /\ doomed' = heap.con[i] /\ UNCHANGED heap

delete_next(r) ==
  /\ doomed # Nil /\ heap.reg[doomed][r] # Nil
  /\ heap' = Delete(heap, heap.reg[doomed][r])
  /\ doomed' = IF doomed \in heap'.mem THEN doomed ELSE Nil

Insertion ==
  \E si \in InUse(heap) \cup {Nil} :
    \/ \E r \in Rels : append(r, si) \/ prepend(r, si)
    \/ \E t \in InUse(heap) :
         \/ insert_after(t, si) \/ insert_before(t, si)
         \/ insert_below(t, si) \/ insert_above(t, si) \/ insert_parent(t, si)
         \/ append_daughter(t, si) \/ prepend_daughter(t, si)

Deletion ==
  \/ \E i \in InUse(heap) : remove_item(i) \/ unref_all(i)
  \/ \E r \in Rels : clear(r) \/ delete_next(r)

Next == Insertion \/ Deletion

Spec == Init /\ [][Next]_vars
-----------------------------------------------------------------------------
(* The heap holds pointers of the right kinds.                             *)
TypeOK == heap \in Heap /\ doomed \in Contents \cup {Nil}

(* No pointer of a live item or relation leads to a deleted item, links    *)
(* stay within one relation, and a deleted item points nowhere.            *)
LiveLinks(h) ==
  /\ \A i \in Items : \A j \in {h.n[i], h.p[i], h.u[i], h.d[i]} \ {Nil} :
       h.rel[i] # Nil /\ h.rel[j] = h.rel[i]
  /\ \A r \in Rels : \A j \in {h.head[r], h.tail[r]} \ {Nil} : h.rel[j] = r

(* Sibling and parent links agree in both directions, and only the first   *)
(* of a list of daughters points to the parent (EST_Item::verify, and the  *)
(* assumption insert_before states).                                       *)
LinksAgree(h) ==
  \A i \in Items :
    /\ h.n[i] # Nil => h.p[h.n[i]] = i /\ h.u[h.n[i]] = Nil
    /\ h.d[i] # Nil => h.u[h.d[i]] = i /\ h.p[h.d[i]] = Nil
    /\ h.p[i] # Nil => h.n[h.p[i]] = i
    /\ h.u[i] # Nil => h.d[h.u[i]] = i

DoubleLinks == LiveLinks(heap) /\ LinksAgree(heap)

(* An item and its contents refer to each other, a content is shown by one *)
(* item per relation, and contents are allocated exactly while some item   *)
(* has them.                                                               *)
RefsAgree(h) ==
  /\ \A i \in Items : h.rel[i] # Nil =>
       h.con[i] # Nil /\ h.reg[h.con[i]][h.rel[i]] = i
  /\ \A i \in Items : h.rel[i] = Nil => h.con[i] = Nil
  /\ \A c \in Contents, r \in Rels : h.reg[c][r] # Nil =>
       h.con[h.reg[c][r]] = c /\ h.rel[h.reg[c][r]] = r
  /\ \A c \in Contents : c \in h.mem <=> h.reg[c] # NoRef

BackPointers == RefsAgree(heap)

(* The top-level list of a relation runs from p_head to p_tail, whose      *)
(* neighbours beyond are null: append and length rely on it.               *)
EndsMeet ==
  \A r \in Rels :
    LET top == List(heap, heap.head[r]) IN
    /\ heap.head[r] = Nil <=> heap.tail[r] = Nil
    /\ heap.head[r] # Nil =>
         /\ heap.tail[r] \in top /\ heap.n[heap.tail[r]] = Nil
         /\ heap.p[heap.head[r]] = Nil /\ heap.u[heap.head[r]] = Nil

(* From an item of an utterance every other view of it is again an item of *)
(* the utterance: originals that a tree operation has copied and leaves    *)
(* behind, in no relation's tree, stay out of sight.                       *)
ViewsAreReachable ==
  \A i \in InUse(heap), r \in Rels :
    AsRelation(heap, i, r) # Nil =>
      AsRelation(heap, i, r) \in Tree(heap, heap.head[r])

(* A call changes the links of one relation at most ("Other relations this *)
(* item are in remain untouched", festival.texi 4024).                     *)
LinksOf(h, r) ==
  [head |-> h.head[r], tail |-> h.tail[r],
   at |-> [i \in {j \in Items : h.rel[j] = r} |->
             <<h.n[i], h.p[i], h.u[i], h.d[i]>>]]
OneRelationAtATime ==
  [][\A q, r \in Rels : q # r => LinksOf(heap, q) = LinksOf(heap, q)'
                              \/ LinksOf(heap, r) = LinksOf(heap, r)']_vars
=============================================================================
