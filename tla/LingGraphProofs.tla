-------------------------- MODULE LingGraphProofs --------------------------
(***************************************************************************)
(* For every number of items, contents and relations, after any sequence   *)
(* of the calls of LingGraph and LingTrees: the links of the utterance     *)
(* graph agree in both directions, its items and contents refer to each    *)
(* other, the list of each relation leads from p_head to p_tail, every     *)
(* view of an item in use is in use, and each call has changed one         *)
(* relation at most; insertions and deletions alone lose no item.          *)
(*                                                                         *)
(* Linking an item leaves contents alone and the operators on contents     *)
(* leave the links alone, so these two halves of the invariant are carried *)
(* through the operators separately, the contents first.                   *)
(* What is reached from a head is shown with closed sets: a set that the   *)
(* links of the new heap do not leave is, or becomes with the items the    *)
(* call removes, one that the links of the old heap do not leave.          *)
(* The copying of a tree is a function of the levels it goes down, and is  *)
(* followed by induction on these: what has grown at an item (Grown) is    *)
(* reached from it, and leaves the rest of the heap as it was.             *)
(***************************************************************************)
EXTENDS LingTrees, FiniteSetTheorems, WellFoundedInduction, TLAPS

-----------------------------------------------------------------------------
(* Contents.                                                               *)

(* RefsAgree while item x, if any, is without contents and contents f, if  *)
(* any, are between two owners.                                            *)
RefsLoose(h, x, f) ==
  /\ \A i \in Items : IF h.rel[i] = Nil \/ i = x THEN h.con[i] = Nil
                      ELSE h.con[i] # Nil /\ h.reg[h.con[i]][h.rel[i]] = i
  /\ \A c \in Contents, r \in Rels : h.reg[c][r] # Nil =>
       h.con[h.reg[c][r]] = c /\ h.rel[h.reg[c][r]] = r
  /\ f # Nil => f \in h.mem
  /\ \A c \in Contents \ {f} : c \in h.mem <=> h.reg[c] # NoRef

LEMMA LooseIsAgree ==
  ASSUME NEW h, h \in Heap
  PROVE  RefsAgree(h) <=> RefsLoose(h, Nil, Nil)
BY PointerAssumption DEF RefsAgree, RefsLoose

(* What two heaps with the same links have in common. *)
SameLinks(g, h) ==
  /\ g.n = h.n /\ g.p = h.p /\ g.u = h.u /\ g.d = h.d
  /\ g.rel = h.rel /\ g.head = h.head /\ g.tail = h.tail

(* At least k contents are unallocated. *)
Spares(h, k) == Cardinality(Contents \ h.mem) >= k

LEMMA SpareStep ==
  ASSUME NEW M \in SUBSET Contents, NEW N \in SUBSET Contents,
         NEW x, N \subseteq M \cup {x}, NEW k \in Nat,
         Cardinality(Contents \ M) >= k + 1
  PROVE  Cardinality(Contents \ N) >= k
<1> DEFINE A == Contents \ M
           B == A \ {x}
<1>1. IsFiniteSet(A) /\ IsFiniteSet(Contents \ N)
  BY PointerAssumption, FS_Subset
<1>2. IsFiniteSet(B) /\ Cardinality(B) \in {Cardinality(A), Cardinality(A) - 1}
  <2>1. CASE x \in A
    BY <1>1, <2>1, FS_RemoveElement
  <2>2. CASE x \notin A
    <3>1. B = A
      BY <2>2
    <3> QED
      BY <1>1, <3>1
  <2> QED
    BY <2>1, <2>2
<1>3. B \subseteq Contents \ N
  OBVIOUS
<1>4. Cardinality(B) <= Cardinality(Contents \ N)
  BY <1>1, <1>3, FS_Subset
<1>5. Cardinality(A) \in Nat /\ Cardinality(B) \in Nat
      /\ Cardinality(Contents \ N) \in Nat
  BY <1>1, <1>2, FS_CardinalityType
<1> HIDE DEF B
<1> QED
  BY <1>2, <1>4, <1>5

LEMMA FreshContent ==
  ASSUME NEW h, h \in Heap, NEW k \in Nat, Spares(h, k), k > 0
  PROVE  NewContent(h) \in Contents /\ NewContent(h) \notin h.mem
<1>1. Contents \ h.mem # {}
  <2> SUFFICES ASSUME Contents \ h.mem = {} PROVE FALSE
    OBVIOUS
  <2>1. Cardinality({}) = 0
    BY FS_EmptySet
  <2> QED
    BY <2>1 DEF Spares
<1> QED
  BY <1>1 DEF NewContent

(* Taking an item's contents away leaves only that item without. *)
LEMMA UnrefLoose ==
  ASSUME NEW h, h \in Heap, NEW i \in Items, h.rel[i] \in Rels,
         NEW x \in {Nil, i}, NEW f \in Contents \cup {Nil}, RefsLoose(h, x, f),
         h.con[i] = Nil \/ h.con[i] # f
  PROVE  /\ Unref(h, i) \in Heap /\ SameLinks(Unref(h, i), h)
         /\ Unref(h, i).mem \subseteq h.mem
         /\ RefsLoose(Unref(h, i), i, f)
<1> DEFINE c == h.con[i]
           r == h.rel[i]
           R == [h.reg EXCEPT ![c][r] = Nil]
           g == Unref(h, i)
<1>1. CASE c = Nil
  <2>1. g = h
    BY <1>1 DEF Unref
  <2>2. h.con = [h.con EXCEPT ![i] = Nil]
    BY <1>1 DEF Heap
  <2> QED
    BY <2>1, <2>2, <1>1, PointerAssumption DEF RefsLoose, SameLinks
<1>2. CASE c # Nil
  <2>1. c \in Contents /\ r \in Rels /\ r # Nil
    BY <1>2, PointerAssumption DEF Heap
  <2>2. /\ g.reg = R /\ g.con = [h.con EXCEPT ![i] = Nil]
        /\ g.mem = IF R[c] = NoRef THEN h.mem \ {c} ELSE h.mem
        /\ SameLinks(g, h)
    BY <1>2 DEF Unref, SameLinks
  <2>3. g \in Heap
    BY <2>1, <1>2 DEF Heap, Unref, Ptr
  <2>4. \A a \in Contents, q \in Rels :
          R[a][q] = IF a = c /\ q = r THEN Nil ELSE h.reg[a][q]
    BY <2>1 DEF Heap
  <2>5. \A a \in Contents : a # c => R[a] = h.reg[a]
    BY <2>1 DEF Heap
  <2>6. h.reg[c][r] = i
    BY <1>2, <2>1, PointerAssumption DEF RefsLoose
  <2>7. h.reg[c] # NoRef /\ c \in h.mem
    BY <2>1, <2>6, PointerAssumption DEF NoRef, RefsLoose
  <2>8. ASSUME NEW j \in Items
        PROVE  IF g.rel[j] = Nil \/ j = i THEN g.con[j] = Nil
               ELSE g.con[j] # Nil /\ g.reg[g.con[j]][g.rel[j]] = j
    <3>1. CASE j = i
      BY <3>1, <2>2 DEF Heap
    <3>2. CASE j # i /\ h.rel[j] = Nil
      BY <3>2, <2>2 DEF Heap, RefsLoose, SameLinks
    <3>3. CASE j # i /\ h.rel[j] # Nil
      <4>1. h.con[j] \in Contents /\ h.rel[j] \in Rels
            /\ h.reg[h.con[j]][h.rel[j]] = j
        BY <3>3, PointerAssumption DEF Heap, RefsLoose
      <4>2. ~(h.con[j] = c /\ h.rel[j] = r)
        BY <4>1, <3>3, <2>6
      <4> QED
        BY <4>1, <4>2, <3>3, <2>2, <2>4, PointerAssumption
        DEF Heap, SameLinks
    <3> QED
      BY <3>1, <3>2, <3>3
  <2>9. ASSUME NEW a \in Contents, NEW q \in Rels, g.reg[a][q] # Nil
        PROVE  g.con[g.reg[a][q]] = a /\ g.rel[g.reg[a][q]] = q
    <3>1. g.reg[a][q] = h.reg[a][q] /\ ~(a = c /\ q = r)
      BY <2>2, <2>4, <2>9, SMTT(30)
    <3>2. h.con[h.reg[a][q]] = a /\ h.rel[h.reg[a][q]] = q
          /\ h.reg[a][q] \in Items
      BY <3>1, <2>9 DEF RefsLoose, Heap, Ptr
    <3>3. h.reg[a][q] # i
      BY <3>1, <3>2
    <3> QED
      BY <3>1, <3>2, <3>3, <2>2 DEF Heap, SameLinks
  <2>10. f # Nil => f \in g.mem
    BY <1>2, <2>2 DEF RefsLoose
  <2>11. ASSUME NEW a \in Contents \ {f}
         PROVE  a \in g.mem <=> g.reg[a] # NoRef
    BY <2>2, <2>5, <2>7, <2>11, SMTT(30) DEF RefsLoose
  <2>12. RefsLoose(g, i, f)
    <3> HIDE DEF g
    <3> QED
      BY <2>8, <2>9, <2>10, <2>11 DEF RefsLoose
  <2> QED
    BY <2>2, <2>3, <2>12
<1> QED
  BY <1>1, <1>2

LEMMA RegisterHeap ==
  ASSUME NEW h, h \in Heap, NEW i \in Items, h.rel[i] \in Rels,
         NEW c \in Contents
  PROVE  Register(h, i, c) \in Heap
BY DEF Register, Heap, Ptr

(* Entering an item without contents in contents that are allocated and do *)
(* not show its relation, or that are new.                                 *)
LEMMA RegisterLoose ==
  ASSUME NEW h, h \in Heap, NEW i \in Items, h.rel[i] \in Rels,
         NEW f \in Contents \cup {Nil}, RefsLoose(h, i, f),
         NEW c \in Contents, h.reg[c][h.rel[i]] = Nil
  PROVE  /\ Register(h, i, c) \in Heap /\ SameLinks(Register(h, i, c), h)
         /\ Register(h, i, c).mem = h.mem \cup {c}
         /\ f = c \/ f = Nil => RefsLoose(Register(h, i, c), Nil, Nil)
         /\ f # c => RefsLoose(Register(h, i, c), Nil, f)
<1> DEFINE r == h.rel[i]
           g == Register(h, i, c)
<1>1. /\ g.con = [h.con EXCEPT ![i] = c] /\ g.mem = h.mem \cup {c}
      /\ g.reg = [h.reg EXCEPT ![c][r] = i]
      /\ SameLinks(g, h)
  BY DEF Register, SameLinks, Heap
<1>2. g \in Heap
  BY RegisterHeap
<1>3. \A a \in Contents, q \in Rels :
        g.reg[a][q] = IF a = c /\ q = r THEN i ELSE h.reg[a][q]
  BY <1>1 DEF Heap
<1>4. \A a \in Contents : a # c => g.reg[a] = h.reg[a]
  BY <1>1 DEF Heap
<1>5. r # Nil /\ i # Nil /\ c # Nil
  BY PointerAssumption
<1>6. g.reg[c] # NoRef
  BY <1>3, <1>5 DEF NoRef
<1>7. ASSUME NEW j \in Items
      PROVE  IF g.rel[j] = Nil \/ j = Nil THEN g.con[j] = Nil
             ELSE g.con[j] # Nil /\ g.reg[g.con[j]][g.rel[j]] = j
  <2>1. CASE j = i
    BY <2>1, <1>1, <1>3, <1>5 DEF Heap, SameLinks
  <2>2. CASE j # i /\ h.rel[j] = Nil
    BY <2>2, <1>1 DEF Heap, RefsLoose, SameLinks
  <2>3. CASE j # i /\ h.rel[j] # Nil
    <3>1. h.con[j] \in Contents /\ h.rel[j] \in Rels
          /\ h.reg[h.con[j]][h.rel[j]] = j /\ j # Nil
      BY <2>3, PointerAssumption DEF Heap, RefsLoose
    <3>2. ~(h.con[j] = c /\ h.rel[j] = r)
      BY <3>1
    <3>3. g.con[j] = h.con[j] /\ g.rel[j] = h.rel[j]
      BY <2>3, <1>1 DEF Heap, SameLinks
    <3>4. g.reg[h.con[j]][h.rel[j]] = j
      BY <3>1, <3>2, <1>3
    <3> QED
      BY <3>1, <3>3, <3>4, <2>3, PointerAssumption
  <2> QED
    BY <2>1, <2>2, <2>3
<1>8. ASSUME NEW a \in Contents, NEW q \in Rels, g.reg[a][q] # Nil
      PROVE  g.con[g.reg[a][q]] = a /\ g.rel[g.reg[a][q]] = q
  <2>1. CASE a = c /\ q = r
    BY <2>1, <1>1, <1>3 DEF Heap, SameLinks
  <2>2. CASE ~(a = c /\ q = r)
    <3>1. g.reg[a][q] = h.reg[a][q]
      BY <2>2, <1>3
    <3>2. h.con[h.reg[a][q]] = a /\ h.rel[h.reg[a][q]] = q
          /\ h.reg[a][q] \in Items
      BY <3>1, <1>8 DEF RefsLoose, Heap, Ptr
    <3>3. h.reg[a][q] # i
      BY <3>2, PointerAssumption DEF RefsLoose
    <3> QED
      BY <3>1, <3>2, <3>3, <1>1 DEF Heap, SameLinks
  <2> QED
    BY <2>1, <2>2
<1>9. f # Nil => f \in g.mem
  BY <1>1 DEF RefsLoose
<1>10. ASSUME NEW a \in Contents, a = c \/ a # f
       PROVE  a \in g.mem <=> g.reg[a] # NoRef
  BY <1>1, <1>4, <1>6, <1>10 DEF RefsLoose
<1> HIDE DEF g
<1>11. f \in {c, Nil} => RefsLoose(g, Nil, Nil)
  BY <1>5, <1>7, <1>8, <1>10 DEF RefsLoose
<1>12. f # c => RefsLoose(g, Nil, f)
  BY <1>7, <1>8, <1>9, <1>10 DEF RefsLoose
<1> QED
  BY <1>1, <1>2, <1>11, <1>12 DEF g

(* Allocated contents that show another item in i's relation: that item is *)
(* given new contents first, then i takes the place.                       *)
LEMMA StealLoose ==
  ASSUME NEW h, h \in Heap, NEW i \in Items, h.rel[i] \in Rels,
         NEW c \in Contents, NEW nn \in Items, h.reg[c][h.rel[i]] = nn,
         NEW k \in {c, Nil}, RefsLoose(h, i, k),
         NEW f \in Contents, f \notin h.mem
  PROVE  /\ Register(Register(h, nn, f), i, c) \in Heap
         /\ SameLinks(Register(Register(h, nn, f), i, c), h)
         /\ Register(Register(h, nn, f), i, c).mem = h.mem \cup {f}
         /\ RefsLoose(Register(Register(h, nn, f), i, c), Nil, Nil)
<1> DEFINE r == h.rel[i]
           b == Register(h, nn, f)
           g == Register(b, i, c)
<1>1. /\ nn # Nil /\ nn # i /\ h.con[nn] = c /\ h.rel[nn] = r /\ r # Nil
      /\ i # Nil /\ c # Nil /\ f # Nil
  BY PointerAssumption DEF RefsLoose
<1>2. c \in h.mem /\ c # f
  BY <1>1, PointerAssumption DEF RefsLoose, NoRef
<1>3. h.reg[f] = NoRef
  BY <1>1, <1>2 DEF RefsLoose
<1>4. /\ b.con = [h.con EXCEPT ![nn] = f] /\ b.mem = h.mem \cup {f}
      /\ b.reg = [h.reg EXCEPT ![f][r] = nn]
      /\ SameLinks(b, h) /\ b.rel = h.rel
  BY <1>1 DEF Register, SameLinks, Heap
<1>5. b \in Heap
  BY <1>1, RegisterHeap
<1>6. /\ g.con = [b.con EXCEPT ![i] = c] /\ g.mem = b.mem \cup {c}
      /\ g.reg = [b.reg EXCEPT ![c][r] = i]
      /\ SameLinks(g, b) /\ g.rel = b.rel
  BY <1>4, <1>5 DEF Register, SameLinks, Heap
<1>7. g \in Heap
  BY <1>4, <1>5, RegisterHeap
<1>8. \A a \in Contents, q \in Rels :
        g.reg[a][q] = IF q = r /\ a = c THEN i
                      ELSE IF q = r /\ a = f THEN nn ELSE h.reg[a][q]
  BY <1>2, <1>4, <1>6 DEF Heap
<1>9. \A j \in Items : g.con[j] = IF j = i THEN c
                                  ELSE IF j = nn THEN f ELSE h.con[j]
  BY <1>1, <1>4, <1>6 DEF Heap
<1>10. \A a \in Contents : a \notin {c, f} => g.reg[a] = h.reg[a]
  BY <1>4, <1>6 DEF Heap
<1>11. g.mem = h.mem \cup {f} /\ SameLinks(g, h) /\ g.rel = h.rel
       /\ g.con = [h.con EXCEPT ![nn] = f, ![i] = c]
  BY <1>2, <1>4, <1>6 DEF SameLinks
<1>12. ASSUME NEW j \in Items
       PROVE  IF g.rel[j] = Nil \/ j = Nil THEN g.con[j] = Nil
              ELSE g.con[j] # Nil /\ g.reg[g.con[j]][g.rel[j]] = j
  <2>1. CASE j = i \/ j = nn
    BY <2>1, <1>1, <1>2, <1>8, <1>9, <1>11
  <2>2. CASE j \notin {i, nn} /\ h.rel[j] = Nil
    BY <2>2, <1>9, <1>11 DEF RefsLoose
  <2>3. CASE j \notin {i, nn} /\ h.rel[j] # Nil
    <3>1. h.con[j] \in Contents /\ h.rel[j] \in Rels
          /\ h.reg[h.con[j]][h.rel[j]] = j /\ j # Nil
      BY <2>3, PointerAssumption DEF Heap, RefsLoose
    <3>2. h.con[j] # f
      BY <3>1, <1>3 DEF NoRef
    <3>3. ~(h.con[j] = c /\ h.rel[j] = r)
      BY <3>1, <2>3
    <3> QED
      BY <3>1, <3>2, <3>3, <2>3, <1>8, <1>9, <1>11, PointerAssumption
  <2> QED
    BY <2>1, <2>2, <2>3
<1>13. ASSUME NEW a \in Contents, NEW q \in Rels, g.reg[a][q] # Nil
       PROVE  g.con[g.reg[a][q]] = a /\ g.rel[g.reg[a][q]] = q
  <2>1. CASE q = r /\ a \in {c, f}
    BY <2>1, <1>1, <1>2, <1>8, <1>9, <1>11
  <2>2. CASE ~(q = r /\ a \in {c, f})
    <3>1. g.reg[a][q] = h.reg[a][q]
      BY <2>2, <1>8
    <3>2. h.con[h.reg[a][q]] = a /\ h.rel[h.reg[a][q]] = q
          /\ h.reg[a][q] \in Items
      BY <3>1, <1>13 DEF RefsLoose, Heap, Ptr
    <3>3. h.reg[a][q] # i /\ h.reg[a][q] # nn
      BY <3>2, <2>2, <1>1, PointerAssumption DEF RefsLoose
    <3> QED
      BY <3>1, <3>2, <3>3, <1>9, <1>11
  <2> QED
    BY <2>1, <2>2
<1>14. ASSUME NEW a \in Contents
       PROVE  a \in g.mem <=> g.reg[a] # NoRef
  <2>1. CASE a \in {c, f}
    BY <2>1, <1>1, <1>2, <1>8, <1>11 DEF NoRef
  <2>2. CASE a \notin {c, f}
    BY <1>1, <1>2, <2>2, <1>10, <1>11, PointerAssumption DEF RefsLoose
  <2> QED
    BY <2>1, <2>2
<1> HIDE DEF g
<1>15. RefsLoose(g, Nil, Nil)
  BY <1>12, <1>13, <1>14 DEF RefsLoose
<1> QED
  BY <1>7, <1>11, <1>15 DEF g

(* What an operation on contents guarantees: the links are as they were,   *)
(* items and contents agree, at most one more content is allocated.        *)
Settled(g, h) ==
  /\ g \in Heap /\ SameLinks(g, h) /\ RefsAgree(g)
  /\ \E x \in Contents : g.mem \subseteq h.mem \cup {x}

LEMMA SetContentsSettles ==
  ASSUME NEW h, h \in Heap, Spares(h, 1),
         NEW i \in Items, h.rel[i] \in Rels,
         NEW c \in Contents, c \in h.mem,
         NEW x \in {Nil, i}, NEW k \in {Nil, c}, RefsLoose(h, x, k)
  PROVE  Settled(SetContents(h, i, c), h)
<1> DEFINE g  == Unref(h, i)
           r  == h.rel[i]
           nn == g.reg[c][g.rel[i]]
<1>1. CASE h.con[i] = c
  <2>1. SetContents(h, i, c) = h
    BY <1>1 DEF SetContents
  <2>2. x = Nil
    BY <1>1, PointerAssumption DEF RefsLoose
  <2>3. h.reg[c] # NoRef
    BY <1>1, <2>2, PointerAssumption DEF RefsLoose, NoRef
  <2>4. RefsLoose(h, Nil, Nil)
    BY <2>2, <2>3 DEF RefsLoose
  <2> QED
    BY <2>1, <2>4, LooseIsAgree DEF Settled, SameLinks
<1>2. CASE h.con[i] # c
  <2>1. /\ g \in Heap /\ SameLinks(g, h) /\ g.mem \subseteq h.mem
        /\ RefsLoose(g, i, k)
    BY <1>2, UnrefLoose
  <2>2. g.rel[i] = r /\ r \in Rels
    BY <2>1 DEF SameLinks
  <2>3. Spares(g, 1)
    <3>1. IsFiniteSet(Contents \ g.mem) /\ IsFiniteSet(Contents \ h.mem)
      BY PointerAssumption, FS_Subset
    <3>2. Contents \ h.mem \subseteq Contents \ g.mem
      BY <2>1
    <3>3. Cardinality(Contents \ h.mem) <= Cardinality(Contents \ g.mem)
          /\ Cardinality(Contents \ h.mem) \in Nat
          /\ Cardinality(Contents \ g.mem) \in Nat
      BY <3>1, <3>2, FS_Subset, FS_CardinalityType
    <3> QED
      BY <3>3 DEF Spares
  <2> HIDE DEF g
  <2>4. CASE nn = Nil
    <3>1. SetContents(h, i, c) = Register(g, i, c)
      BY <1>2, <2>4 DEF SetContents, g
    <3>2. /\ Register(g, i, c) \in Heap /\ SameLinks(Register(g, i, c), g)
          /\ Register(g, i, c).mem = g.mem \cup {c}
          /\ RefsLoose(Register(g, i, c), Nil, Nil)
      BY <2>1, <2>2, <2>4, RegisterLoose
    <3> QED
      BY <2>1, <3>1, <3>2, LooseIsAgree DEF Settled, SameLinks
  <2>5. CASE nn # Nil
    <3> DEFINE f == NewContent(g)
               b == Register(Register(g, nn, f), i, c)
    <3>1. SetContents(h, i, c) = b
      BY <1>2, <2>5 DEF SetContents, g
    <3>2. f \in Contents /\ f \notin g.mem
      BY <2>1, <2>3, FreshContent
    <3>3. nn \in Items /\ g.rel[i] \in Rels /\ g.reg[c][g.rel[i]] = nn
      BY <2>1, <2>2, <2>5 DEF Heap, Ptr
    <3> HIDE DEF f, nn
    <3>4. /\ b \in Heap /\ SameLinks(b, g) /\ b.mem = g.mem \cup {f}
          /\ RefsLoose(b, Nil, Nil)
      BY <2>1, <2>2, <3>2, <3>3, StealLoose
    <3>5. b.mem \subseteq h.mem \cup {f}
      BY <2>1, <3>4
    <3> HIDE DEF b
    <3> QED
      BY <2>1, <3>1, <3>2, <3>4, <3>5, LooseIsAgree DEF Settled, SameLinks
  <2> QED
    BY <2>4, <2>5
<1> QED
  BY <1>1, <1>2

LEMMA SetEmptySettles ==
  ASSUME NEW h, h \in Heap, Spares(h, 1),
         NEW i \in Items, h.rel[i] \in Rels,
         NEW x \in {Nil, i}, RefsLoose(h, x, Nil)
  PROVE  Settled(SetEmpty(h, i), h)
<1> DEFINE g == Unref(h, i)
           f == NewContent(h)
           k == Register(g, i, f)
<1>1. /\ g \in Heap /\ SameLinks(g, h) /\ g.mem \subseteq h.mem
      /\ RefsLoose(g, i, Nil)
  BY UnrefLoose
<1>2. f \in Contents /\ f \notin h.mem
  BY FreshContent
<1> HIDE DEF g, f
<1>3. g.rel[i] \in Rels /\ g.reg[f] = NoRef
  BY <1>1, <1>2, PointerAssumption DEF RefsLoose, SameLinks
<1>4. g.reg[f][g.rel[i]] = Nil
  BY <1>3 DEF NoRef
<1>5. /\ k \in Heap /\ SameLinks(k, g) /\ k.mem = g.mem \cup {f}
      /\ RefsLoose(k, Nil, Nil)
  BY <1>1, <1>2, <1>3, <1>4, RegisterLoose
<1>6. SetEmpty(h, i) = k
  BY DEF SetEmpty, g, f
<1> HIDE DEF k
<1> QED
  BY <1>1, <1>2, <1>5, <1>6, LooseIsAgree DEF Settled, SameLinks

(* Grabbed contents are between two owners; the item has new ones.         *)
LEMMA GrabContentsFloats ==
  ASSUME NEW h, h \in Heap, RefsAgree(h), Spares(h, 1),
         NEW i \in Items, h.rel[i] \in Rels
  PROVE  /\ GrabContents(h, i) \in Heap /\ SameLinks(GrabContents(h, i), h)
         /\ RefsLoose(GrabContents(h, i), Nil, h.con[i])
         /\ h.con[i] \in Contents /\ h.con[i] \in GrabContents(h, i).mem
         /\ \E x \in Contents : GrabContents(h, i).mem \subseteq h.mem \cup {x}
<1> DEFINE c == h.con[i]
           r == h.rel[i]
           b == [h EXCEPT !.reg[c][r] = Nil, !.con[i] = Nil]
           f == NewContent(b)
           g == Register(b, i, f)
<1>1. /\ c \in Contents /\ r # Nil /\ h.reg[c][r] = i /\ i # Nil
      /\ RefsLoose(h, Nil, Nil)
  BY PointerAssumption, LooseIsAgree, SMTT(30) DEF RefsLoose, Heap
<1>2. c \in h.mem
  BY <1>1, PointerAssumption DEF RefsLoose, NoRef
<1>3. /\ b \in Heap /\ SameLinks(b, h) /\ b.mem = h.mem
      /\ b.con = [h.con EXCEPT ![i] = Nil]
      /\ b.reg = [h.reg EXCEPT ![c][r] = Nil]
  BY <1>1 DEF Heap, SameLinks, Ptr
<1>4. /\ \A a \in Contents, q \in Rels :
           b.reg[a][q] = IF a = c /\ q = r THEN Nil ELSE h.reg[a][q]
      /\ \A a \in Contents : a # c => b.reg[a] = h.reg[a]
  BY <1>1, <1>3, SMTT(30) DEF Heap
<1>5. RefsLoose(b, i, c)
  <2>1. ASSUME NEW j \in Items
        PROVE  IF b.rel[j] = Nil \/ j = i THEN b.con[j] = Nil
               ELSE b.con[j] # Nil /\ b.reg[b.con[j]][b.rel[j]] = j
    <3>1. CASE j = i \/ h.rel[j] = Nil
      BY <3>1, <1>1, <1>3, SMTT(30) DEF RefsLoose, SameLinks, Heap
    <3>2. CASE j # i /\ h.rel[j] # Nil
      <4>1. h.con[j] \in Contents /\ h.rel[j] \in Rels
            /\ h.reg[h.con[j]][h.rel[j]] = j
        BY <3>2, <1>1, PointerAssumption DEF Heap, RefsLoose
      <4>2. b.con[j] = h.con[j] /\ b.rel[j] = h.rel[j]
        BY <3>2, <1>3 DEF Heap, SameLinks
      <4>3. b.reg[h.con[j]][h.rel[j]] = j
        BY <4>1, <1>1, <1>4, <3>2
      <4> QED
        BY <4>1, <4>2, <4>3, <3>2, PointerAssumption
    <3> QED
      BY <3>1, <3>2
  <2>2. ASSUME NEW a \in Contents, NEW q \in Rels, b.reg[a][q] # Nil
        PROVE  b.con[b.reg[a][q]] = a /\ b.rel[b.reg[a][q]] = q
    <3>1. b.reg[a][q] = h.reg[a][q] /\ ~(a = c /\ q = r)
      BY <2>2, <1>4
    <3>2. h.con[h.reg[a][q]] = a /\ h.rel[h.reg[a][q]] = q
          /\ h.reg[a][q] \in Items
      BY <3>1, <2>2, <1>1 DEF RefsLoose, Heap, Ptr
    <3>3. h.reg[a][q] # i
      BY <3>1, <3>2
    <3> QED
      BY <3>1, <3>2, <3>3, <1>3 DEF Heap, SameLinks
  <2>3. \A a \in Contents \ {c} : a \in b.mem <=> b.reg[a] # NoRef
    BY <1>1, <1>3, <1>4, PointerAssumption DEF RefsLoose
  <2> HIDE DEF b
  <2> QED
    BY <1>2, <1>3, <2>1, <2>2, <2>3 DEF RefsLoose
<1>6. f \in Contents /\ f \notin b.mem
  <2>1. Spares(b, 1)
    BY <1>3 DEF Spares
  <2> HIDE DEF b
  <2> QED
    BY <2>1, <1>3, FreshContent
<1> HIDE DEF f
<1>7. GrabContents(h, i) = Register(b, i, NewContent(b))
  BY DEF GrabContents
<1> HIDE DEF b
<1>8. b.rel[i] \in Rels /\ f # c /\ b.reg[f] = NoRef
  BY <1>2, <1>3, <1>5, <1>6 DEF RefsLoose, SameLinks
<1>9. b.reg[f][b.rel[i]] = Nil
  BY <1>8 DEF NoRef
<1>10. /\ g \in Heap /\ SameLinks(g, b) /\ g.mem = b.mem \cup {f}
       /\ RefsLoose(g, Nil, c)
  <2>1. c \in Contents \cup {Nil} /\ i \in Items /\ b \in Heap
    BY <1>1, <1>3
  <2>2. c # f
    BY <1>8
  <2> HIDE DEF c
  <2> QED
    BY <1>5, <1>6, <1>8, <1>9, <2>1, <2>2, RegisterLoose
<1>11. GrabContents(h, i) = g
  BY <1>7 DEF f
<1> HIDE DEF g
<1>12. SameLinks(g, h)
  BY <1>3, <1>10 DEF SameLinks
<1> QED
  BY <1>1, <1>2, <1>3, <1>6, <1>10, <1>11, <1>12

(* A new item, not linked yet.                                             *)
Created(g, h, i, r) ==
  /\ g \in Heap /\ RefsAgree(g)
  /\ g.n = h.n /\ g.p = h.p /\ g.u = h.u /\ g.d = h.d
  /\ g.head = h.head /\ g.tail = h.tail
  /\ g.rel = [h.rel EXCEPT ![i] = r]
  /\ \E x \in Contents : g.mem \subseteq h.mem \cup {x}

LEMMA FreshSlot ==
  ASSUME NEW h, Live(h) # Items
  PROVE  NewSlot(h) \in Items /\ h.rel[NewSlot(h)] = Nil
BY DEF Live, NewSlot

LEMMA NewItemCreates ==
  ASSUME NEW h, h \in Heap, RefsAgree(h), Spares(h, 1), Live(h) # Items,
         NEW r \in Rels, NEW si \in Live(h) \cup {Nil}
  PROVE  Created(NewItem(h, r, si), h, NewSlot(h), r)
<1> DEFINE i == NewSlot(h)
           g == [h EXCEPT !.rel[i] = r]
<1>1. i \in Items /\ h.rel[i] = Nil
  BY FreshSlot
<1> HIDE DEF i
<1>2. /\ g \in Heap /\ g.rel = [h.rel EXCEPT ![i] = r]
      /\ g.n = h.n /\ g.p = h.p /\ g.u = h.u /\ g.d = h.d
      /\ g.head = h.head /\ g.tail = h.tail
      /\ g.con = h.con /\ g.reg = h.reg /\ g.mem = h.mem
  BY <1>1 DEF Heap
<1>3. g.rel[i] = r /\ \A j \in Items : j # i => g.rel[j] = h.rel[j]
  BY <1>1, <1>2 DEF Heap
<1> DEFINE res == IF si = Nil THEN SetEmpty(g, i) ELSE SetContents(g, i, h.con[si])
<1>4. NewItem(h, r, si) = res
  BY DEF NewItem, i
<1> HIDE DEF g
<1>5. RefsLoose(g, i, Nil)
  <2>1. RefsLoose(h, Nil, Nil)
    BY LooseIsAgree
  <2>2. ASSUME NEW j \in Items
        PROVE  IF g.rel[j] = Nil \/ j = i THEN g.con[j] = Nil
               ELSE g.con[j] # Nil /\ g.reg[g.con[j]][g.rel[j]] = j
    BY <2>1, <1>1, <1>2, <1>3, PointerAssumption DEF RefsLoose
  <2>3. ASSUME NEW a \in Contents, NEW q \in Rels, g.reg[a][q] # Nil
        PROVE  g.con[g.reg[a][q]] = a /\ g.rel[g.reg[a][q]] = q
    <3>1. g.reg[a][q] \in Items /\ h.rel[g.reg[a][q]] = q /\ q # Nil
          /\ h.con[g.reg[a][q]] = a
      BY <2>1, <2>3, <1>2, PointerAssumption DEF RefsLoose, Heap, Ptr
    <3> QED
      BY <3>1, <1>1, <1>2, <1>3
  <2> QED
    BY <2>1, <2>2, <2>3, <1>2 DEF RefsLoose
<1>6. Spares(g, 1)
  BY <1>2 DEF Spares
<1>7. Settled(res, g)
  <2>1. CASE si = Nil
    BY <2>1, <1>1, <1>2, <1>3, <1>5, <1>6, SetEmptySettles
  <2>2. CASE si # Nil
    <3>1. si \in Items /\ h.rel[si] # Nil
      BY <2>2 DEF Live
    <3>2. /\ h.con[si] \in Contents /\ h.rel[si] \in Rels
          /\ h.reg[h.con[si]][h.rel[si]] = si
      BY <3>1, PointerAssumption DEF RefsAgree, Heap
    <3>3. h.con[si] \in g.mem
      BY <3>1, <3>2, <1>2, PointerAssumption DEF RefsAgree, NoRef
    <3> DEFINE c == h.con[si]
    <3> HIDE DEF c
    <3>4. Settled(SetContents(g, i, c), g)
      BY <3>2, <3>3, <1>1, <1>2, <1>3, <1>5, <1>6, SetContentsSettles DEF c
    <3> QED
      BY <2>2, <3>4 DEF c
  <2> QED
    BY <2>1, <2>2
<1> HIDE DEF res
<1> QED
  BY <1>2, <1>4, <1>7 DEF Settled, SameLinks, Created, i

-----------------------------------------------------------------------------
(* Links, and what is reached along them.                                  *)

(* What the ends of a relation must be for insertion and deletion to leave *)
(* agreeing links: nothing lies beyond them.                               *)
EndsFree(h) ==
  \A r \in Rels :
    /\ h.head[r] # Nil => h.p[h.head[r]] = Nil /\ h.u[h.head[r]] = Nil
    /\ h.tail[r] # Nil => h.n[h.tail[r]] = Nil

(* LiveLinks, LinksAgree and EndsFree, one kind of pointer at a time.      *)
NextGood(h) ==
  \A i \in Items : h.n[i] # Nil =>
    /\ h.rel[i] # Nil /\ h.rel[h.n[i]] = h.rel[i]
    /\ h.p[h.n[i]] = i /\ h.u[h.n[i]] = Nil
PrevGood(h) ==
  \A i \in Items : h.p[i] # Nil =>
    h.rel[i] # Nil /\ h.rel[h.p[i]] = h.rel[i] /\ h.n[h.p[i]] = i
DownGood(h) ==
  \A i \in Items : h.d[i] # Nil =>
    /\ h.rel[i] # Nil /\ h.rel[h.d[i]] = h.rel[i]
    /\ h.u[h.d[i]] = i /\ h.p[h.d[i]] = Nil
UpGood(h) ==
  \A i \in Items : h.u[i] # Nil =>
    h.rel[i] # Nil /\ h.rel[h.u[i]] = h.rel[i] /\ h.d[h.u[i]] = i
EndsGood(h) ==
  \A r \in Rels :
    /\ h.head[r] # Nil => /\ h.rel[h.head[r]] = r
                          /\ h.p[h.head[r]] = Nil /\ h.u[h.head[r]] = Nil
    /\ h.tail[r] # Nil => h.rel[h.tail[r]] = r /\ h.n[h.tail[r]] = Nil

Links(h) == NextGood(h) /\ PrevGood(h) /\ DownGood(h) /\ UpGood(h) /\ EndsGood(h)

LEMMA LinksMeaning ==
  ASSUME NEW h, h \in Heap
  PROVE  Links(h) <=> LiveLinks(h) /\ LinksAgree(h) /\ EndsFree(h)
<1>1. Links(h) => LiveLinks(h) /\ LinksAgree(h) /\ EndsFree(h)
  BY DEF Links, NextGood, PrevGood, DownGood, UpGood, EndsGood, LiveLinks,
         LinksAgree, EndsFree
<1>2. LiveLinks(h) /\ LinksAgree(h) /\ EndsFree(h) => Links(h)
  BY DEF Links, NextGood, PrevGood, DownGood, UpGood, EndsGood, LiveLinks,
         LinksAgree, EndsFree
<1> QED
  BY <1>1, <1>2

(* What holds of the heap between two calls. *)
Good(h) == h \in Heap /\ Links(h) /\ RefsAgree(h)

(* A free slot links to nothing, and nothing links to it. *)
LEMMA FreeSlot ==
  ASSUME NEW h, Good(h), NEW i \in Items, h.rel[i] = Nil
  PROVE  /\ h.n[i] = Nil /\ h.p[i] = Nil /\ h.u[i] = Nil /\ h.d[i] = Nil
         /\ \A j \in Items : h.n[j] # i /\ h.p[j] # i /\ h.u[j] # i /\ h.d[j] # i
         /\ \A r \in Rels : h.head[r] # i /\ h.tail[r] # i
BY PointerAssumption
DEF Good, Links, NextGood, PrevGood, DownGood, UpGood, EndsGood, Heap, Ptr
-----------------------------------------------------------------------------
(* Inserting.                                                              *)

(* A call on h has made an item of relation r, and left the heap good. *)
Inserted(g, h, r) ==
  /\ Good(g) /\ g.rel = [h.rel EXCEPT ![NewSlot(h)] = r]
  /\ \E x \in Contents : g.mem \subseteq h.mem \cup {x}

(* Items that begin a list without a parent still do, but for x, and none  *)
(* of them becomes the head of a relation.                                 *)
KeepsStarts(g, h, x) ==
  /\ \A q \in Rels : g.head[q] = h.head[q] \/ g.head[q] = NewSlot(h)
  /\ \A j \in Items : j # x /\ h.rel[j] # Nil /\ h.p[j] = Nil /\ h.u[j] = Nil
                      => g.p[j] = Nil /\ g.u[j] = Nil

(* The two ways a pointer field changes. *)
Stored(g, f, k, v) ==
  /\ g \in [Items -> Ptr]
  /\ \A j \in Items : g[j] = IF j = k THEN v ELSE f[j]

Replaced(g, f, r, x, v) ==
  /\ g \in [Rels -> Ptr]
  /\ \A q \in Rels : g[q] = IF q = r /\ f[q] = x THEN v ELSE f[q]

LEMMA StoreValue ==
  ASSUME NEW f \in [Items -> Ptr], NEW k \in Ptr, NEW v \in Ptr
  PROVE  Stored(Store(f, k, v), f, k, v)
BY PointerAssumption DEF Store, Stored, Ptr

LEMMA InsteadValue ==
  ASSUME NEW f \in [Rels -> Ptr], NEW r \in Rels, NEW x, NEW v \in Ptr
  PROVE  Replaced(Instead(f, r, x, v), f, r, x, v)
BY DEF Instead, Replaced

Stored2(g, f, i, v, k, w) ==
  /\ g \in [Items -> Ptr]
  /\ \A j \in Items : g[j] = IF j = k THEN w ELSE IF j = i THEN v ELSE f[j]

LEMMA StoreTwice ==
  ASSUME NEW f \in [Items -> Ptr], NEW i \in Items, NEW v \in Ptr,
         NEW k \in Ptr, NEW w \in Ptr
  PROVE  Stored2(Store(Store(f, i, v), k, w), f, i, v, k, w)
<1> DEFINE e == Store(f, i, v)
<1>1. Stored(e, f, i, v)
  BY StoreValue DEF Ptr
<1> HIDE DEF e
<1>2. e \in [Items -> Ptr]
  BY <1>1 DEF Stored
<1>3. Stored(Store(e, k, w), e, k, w)
  BY <1>2, StoreValue
<1>4. Stored2(Store(e, k, w), f, i, v, k, w)
  BY <1>1, <1>3 DEF Stored, Stored2
<1> QED
  BY <1>4 DEF e

(* Agreement of items and contents does not depend on the links. *)
LEMMA RefsOnly ==
  ASSUME NEW g, NEW k, RefsAgree(k), g.rel = k.rel, g.con = k.con,
         g.reg = k.reg, g.mem = k.mem
  PROVE  RefsAgree(g)
BY DEF RefsAgree

(* The slot of a new item links to nothing and nothing links to it. *)
Fresh(h, i) ==
  /\ i \in Items /\ h.rel[i] = Nil
  /\ h.n[i] = Nil /\ h.p[i] = Nil /\ h.u[i] = Nil /\ h.d[i] = Nil
  /\ \A j \in Items : h.n[j] # i /\ h.p[j] # i /\ h.u[j] # i /\ h.d[j] # i
  /\ \A q \in Rels : h.head[q] # i /\ h.tail[q] # i

Pointers(h) ==
  /\ h.n \in [Items -> Ptr] /\ h.p \in [Items -> Ptr]
  /\ h.u \in [Items -> Ptr] /\ h.d \in [Items -> Ptr]
  /\ h.head \in [Rels -> Ptr] /\ h.tail \in [Rels -> Ptr]

(* A new item of relation r has got its slot and contents. *)
Placed(g, h, r) ==
  /\ g \in Heap /\ RefsAgree(g) /\ g.rel = [h.rel EXCEPT ![NewSlot(h)] = r]
  /\ \E x \in Contents : g.mem \subseteq h.mem \cup {x}

(* What every insertion at an item t starts from. *)
LEMMA Setting ==
  ASSUME NEW h, Good(h), Live(h) # Items, NEW t \in Live(h)
  PROVE  /\ h \in Heap /\ Links(h) /\ Pointers(h) /\ Fresh(h, NewSlot(h))
         /\ t \in Items /\ t # NewSlot(h) /\ h.rel[t] \in Rels
         /\ Nil \notin Items /\ Nil \notin Rels
<1> DEFINE i == NewSlot(h)
<1>1. i \in Items /\ h.rel[i] = Nil
  BY FreshSlot
<1>2. Fresh(h, i)
  BY <1>1, FreeSlot DEF Fresh
<1>3. Pointers(h)
  BY DEF Good, Heap, Pointers
<1> QED
  BY <1>1, <1>2, <1>3, PointerAssumption DEF Live, Good, Heap

(* The links of h with item i inserted after t. *)
LinkedAfter(g, h, t, i) ==
  /\ g.u = h.u /\ g.d = h.d /\ g.head = h.head
  /\ \A j \in Items : g.n[j] = IF j = t THEN i
                               ELSE IF j = i THEN h.n[t] ELSE h.n[j]
  /\ \A j \in Items : g.p[j] = IF j = h.n[t] THEN i
                               ELSE IF j = i THEN t ELSE h.p[j]
  /\ \A q \in Rels : g.tail[q] = IF q = h.rel[t] /\ h.tail[q] = t THEN i
                                 ELSE h.tail[q]
  /\ \A j \in Items : g.rel[j] = IF j = i THEN h.rel[t] ELSE h.rel[j]

LEMMA InsertAfterLinks ==
  ASSUME NEW h, Good(h), Spares(h, 1), Live(h) # Items,
         NEW t \in Live(h), NEW si \in Live(h) \cup {Nil}
  PROVE  /\ LinkedAfter(InsertAfter(h, t, si), h, t, NewSlot(h))
         /\ Placed(InsertAfter(h, t, si), h, h.rel[t])
<1> DEFINE i == NewSlot(h)
           r == h.rel[t]
           k == NewItem(h, r, si)
           g == InsertAfter(h, t, si)
<1>1. /\ h \in Heap /\ Links(h) /\ Pointers(h) /\ Fresh(h, i)
      /\ t \in Items /\ t # i /\ r = h.rel[t] /\ r \in Rels
      /\ Nil \notin Items /\ Nil \notin Rels
  BY Setting
<1>2. Created(k, h, i, r)
  BY <1>1, NewItemCreates DEF Good
<1>3. g = [k EXCEPT !.p = Store(Store(@, i, t), h.n[t], i),
                    !.n[i] = h.n[t], !.n[t] = i,
                    !.tail = Instead(@, r, t, i)]
  BY DEF InsertAfter
<1> HIDE DEF i, k, r, g
<1>4. /\ k \in Heap /\ i \in Items /\ t \in Ptr /\ i \in Ptr
      /\ h.n[t] \in Ptr /\ h.p[t] \in Ptr /\ h.u[t] \in Ptr /\ h.d[t] \in Ptr
  BY <1>1, <1>2 DEF Created, Fresh, Pointers, Ptr
<1> DEFINE P == Store(Store(h.p, i, t), h.n[t], i)
           T == Instead(h.tail, r, t, i)
<1>5. Stored2(P, h.p, i, t, h.n[t], i) /\ Replaced(T, h.tail, r, t, i)
  BY <1>1, <1>4, StoreValue, StoreTwice, InsteadValue DEF Pointers
<1> HIDE DEF P, T
<1>6. /\ g.n = [h.n EXCEPT ![i] = h.n[t], ![t] = i]
      /\ g.p = P /\ g.u = h.u /\ g.d = h.d /\ g.head = h.head /\ g.tail = T
      /\ g.rel = [h.rel EXCEPT ![i] = r]
      /\ g.con = k.con /\ g.reg = k.reg /\ g.mem = k.mem /\ k.rel = g.rel
  BY <1>2, <1>3 DEF Created, Heap, P, T
<1>7. g \in Heap
  BY <1>1, <1>3, <1>4, <1>5, <1>6 DEF Heap, Pointers, Stored, Stored2, Replaced
<1>8. /\ \A j \in Items : g.n[j] = IF j = t THEN i
                                  ELSE IF j = i THEN h.n[t] ELSE h.n[j]
      /\ \A j \in Items : g.p[j] = IF j = h.n[t] THEN i
                                  ELSE IF j = i THEN t ELSE h.p[j]
      /\ \A q \in Rels : g.tail[q] = IF q = r /\ h.tail[q] = t THEN i
                                    ELSE h.tail[q]
      /\ \A j \in Items : g.rel[j] = IF j = i THEN r ELSE h.rel[j]
  BY <1>1, <1>4, <1>5, <1>6
  DEF Heap, Pointers, Stored, Stored2, Replaced
<1>9. LinkedAfter(g, h, t, i)
  BY <1>1, <1>6, <1>8 DEF LinkedAfter
<1>10. Placed(g, h, r)
  <2>1. RefsAgree(g)
    BY <1>2, <1>6, RefsOnly DEF Created
  <2> QED
    BY <1>2, <1>6, <1>7, <2>1 DEF Placed, Created, i
<1> QED
  BY <1>9, <1>10 DEF g, i, r

LEMMA InsertAfterGood ==
  ASSUME NEW h, Good(h), Spares(h, 1), Live(h) # Items,
         NEW t \in Live(h), NEW si \in Live(h) \cup {Nil}
  PROVE  /\ Inserted(InsertAfter(h, t, si), h, h.rel[t])
         /\ InsertAfter(h, t, si).d[NewSlot(h)] = Nil
         /\ KeepsStarts(InsertAfter(h, t, si), h, Nil)
         /\ h.tail[h.rel[t]] = t
              => InsertAfter(h, t, si).tail[h.rel[t]] = NewSlot(h)
<1> DEFINE i == NewSlot(h)
           r == h.rel[t]
           g == InsertAfter(h, t, si)
<1>1. /\ h \in Heap /\ Links(h) /\ Pointers(h) /\ Fresh(h, i)
      /\ t \in Items /\ t # i /\ r = h.rel[t] /\ r \in Rels
      /\ Nil \notin Items /\ Nil \notin Rels
  BY Setting
<1>2. LinkedAfter(g, h, t, i) /\ Placed(g, h, r)
  BY InsertAfterLinks
<1> HIDE DEF i, r, g
<1>3. NextGood(g) /\ PrevGood(g) /\ DownGood(g) /\ UpGood(g) /\ EndsGood(g)
  <2>1. NextGood(g)
    BY <1>1, <1>2
    DEF Links, NextGood, PrevGood, Fresh, Pointers, Ptr, LinkedAfter
  <2>2. PrevGood(g)
    <3> SUFFICES ASSUME NEW j \in Items, g.p[j] # Nil
                 PROVE  g.rel[j] # Nil /\ g.rel[g.p[j]] = g.rel[j]
                        /\ g.n[g.p[j]] = j
      BY DEF PrevGood
    <3>1. CASE j = h.n[t] \/ j = i
      BY <3>1, <1>1, <1>2 DEF Links, NextGood, Fresh, Pointers, Ptr, LinkedAfter
    <3>2. CASE j # h.n[t] /\ j # i
      <4>1. /\ g.p[j] = h.p[j] /\ h.p[j] \in Items /\ h.p[j] \notin {i, t}
            /\ h.n[h.p[j]] = j /\ h.rel[h.p[j]] = h.rel[j] /\ h.rel[j] # Nil
        BY <3>2, <1>1, <1>2 DEF Links, PrevGood, Fresh, Pointers, Ptr, LinkedAfter
      <4> QED
        BY <4>1, <3>2, <1>2 DEF LinkedAfter
    <3> QED
      BY <3>1, <3>2
  <2>3. DownGood(g)
    BY <1>1, <1>2
    DEF Links, NextGood, DownGood, Fresh, Pointers, Ptr, LinkedAfter
  <2>4. UpGood(g)
    BY <1>1, <1>2
    DEF Links, UpGood, Fresh, Pointers, Ptr, LinkedAfter
  <2>5. EndsGood(g)
    BY <1>1, <1>2
    DEF Links, NextGood, PrevGood, EndsGood, Fresh, Pointers, Ptr, LinkedAfter
  <2> QED
    BY <2>1, <2>2, <2>3, <2>4, <2>5
<1>4. Inserted(g, h, r)
  BY <1>2, <1>3 DEF Inserted, Placed, Good, Links, i, LinkedAfter
<1>5. KeepsStarts(g, h, Nil)
  <2> SUFFICES ASSUME NEW j \in Items, h.rel[j] # Nil, h.p[j] = Nil, h.u[j] = Nil
               PROVE  g.p[j] = Nil /\ g.u[j] = Nil
    BY <1>2 DEF KeepsStarts, LinkedAfter
  <2>1. j # i /\ j # h.n[t]
    BY <1>1 DEF Links, NextGood, Fresh
  <2> QED
    BY <2>1, <1>2 DEF LinkedAfter
<1>6. g.d[i] = Nil /\ (h.tail[r] = t => g.tail[r] = i)
  BY <1>1, <1>2 DEF Fresh, LinkedAfter
<1> QED
  BY <1>4, <1>5, <1>6 DEF g, i, r

(* The links of h with item i inserted before t. *)
LinkedBefore(g, h, t, i) ==
  /\ g.tail = h.tail
  /\ \A j \in Items : g.p[j] = IF j = t THEN i
                               ELSE IF j = i THEN h.p[t] ELSE h.p[j]
  /\ \A j \in Items : g.n[j] = IF j = h.p[t] THEN i
                               ELSE IF j = i THEN t ELSE h.n[j]
  /\ \A j \in Items : g.u[j] = IF j = t THEN Nil
                               ELSE IF j = i THEN h.u[t] ELSE h.u[j]
  /\ \A j \in Items : g.d[j] = IF j = h.u[t] THEN i ELSE h.d[j]
  /\ \A q \in Rels : g.head[q] = IF q = h.rel[t] /\ h.head[q] = t THEN i
                                 ELSE h.head[q]
  /\ \A j \in Items : g.rel[j] = IF j = i THEN h.rel[t] ELSE h.rel[j]

LEMMA InsertBeforeLinks ==
  ASSUME NEW h, Good(h), Spares(h, 1), Live(h) # Items,
         NEW t \in Live(h), NEW si \in Live(h) \cup {Nil}
  PROVE  /\ LinkedBefore(InsertBefore(h, t, si), h, t, NewSlot(h))
         /\ Placed(InsertBefore(h, t, si), h, h.rel[t])
<1> DEFINE i == NewSlot(h)
           r == h.rel[t]
           k == NewItem(h, r, si)
           g == InsertBefore(h, t, si)
<1>1. /\ h \in Heap /\ Links(h) /\ Pointers(h) /\ Fresh(h, i)
      /\ t \in Items /\ t # i /\ r = h.rel[t] /\ r \in Rels
      /\ Nil \notin Items /\ Nil \notin Rels
  BY Setting
<1>2. Created(k, h, i, r)
  BY <1>1, NewItemCreates DEF Good
<1>3. g = [k EXCEPT !.n = Store(Store(@, i, t), h.p[t], i),
                    !.p[i] = h.p[t], !.p[t] = i,
                    !.u[i] = h.u[t], !.u[t] = Nil,
                    !.d = Store(@, h.u[t], i),
                    !.head = Instead(@, r, t, i)]
  BY DEF InsertBefore
<1> HIDE DEF i, k, r, g
<1>4. /\ k \in Heap /\ i \in Items /\ t \in Ptr /\ i \in Ptr
      /\ h.n[t] \in Ptr /\ h.p[t] \in Ptr /\ h.u[t] \in Ptr /\ h.d[t] \in Ptr
  BY <1>1, <1>2 DEF Created, Fresh, Pointers, Ptr
<1> DEFINE N == Store(Store(h.n, i, t), h.p[t], i)
           D == Store(h.d, h.u[t], i)
           H == Instead(h.head, r, t, i)
<1>5. /\ Stored2(N, h.n, i, t, h.p[t], i) /\ Stored(D, h.d, h.u[t], i)
      /\ Replaced(H, h.head, r, t, i)
  BY <1>1, <1>4, StoreValue, StoreTwice, InsteadValue DEF Pointers
<1> HIDE DEF N, D, H
<1>6. /\ g.p = [h.p EXCEPT ![i] = h.p[t], ![t] = i]
      /\ g.u = [h.u EXCEPT ![i] = h.u[t], ![t] = Nil]
      /\ g.n = N /\ g.d = D /\ g.head = H /\ g.tail = h.tail
      /\ g.rel = [h.rel EXCEPT ![i] = r]
      /\ g.con = k.con /\ g.reg = k.reg /\ g.mem = k.mem /\ k.rel = g.rel
  BY <1>2, <1>3 DEF Created, Heap, N, D, H
<1>7. g \in Heap
  <2>1. /\ g.n \in [Items -> Ptr] /\ g.d \in [Items -> Ptr]
        /\ g.head \in [Rels -> Ptr]
    BY <1>5, <1>6 DEF Stored, Stored2, Replaced
  <2>2. g.p \in [Items -> Ptr] /\ g.u \in [Items -> Ptr]
    BY <1>1, <1>4, <1>6 DEF Pointers, Ptr
  <2>3. g = [k EXCEPT !.n = g.n, !.p = g.p, !.u = g.u, !.d = g.d, !.head = g.head]
    BY <1>3, <1>4, ZenonT(60) DEF Heap
  <2> QED
    BY <2>1, <2>2, <2>3, <1>4 DEF Heap
<1>8. /\ \A j \in Items : g.p[j] = IF j = t THEN i
                                  ELSE IF j = i THEN h.p[t] ELSE h.p[j]
      /\ \A j \in Items : g.n[j] = IF j = h.p[t] THEN i
                                  ELSE IF j = i THEN t ELSE h.n[j]
      /\ \A j \in Items : g.u[j] = IF j = t THEN Nil
                                  ELSE IF j = i THEN h.u[t] ELSE h.u[j]
      /\ \A j \in Items : g.d[j] = IF j = h.u[t] THEN i ELSE h.d[j]
      /\ \A q \in Rels : g.head[q] = IF q = r /\ h.head[q] = t THEN i
                                    ELSE h.head[q]
      /\ \A j \in Items : g.rel[j] = IF j = i THEN r ELSE h.rel[j]
  BY <1>1, <1>4, <1>5, <1>6
  DEF Heap, Pointers, Stored, Stored2, Replaced
<1>9. LinkedBefore(g, h, t, i)
  BY <1>1, <1>6, <1>8 DEF LinkedBefore
<1>10. Placed(g, h, r)
  <2>1. RefsAgree(g)
    BY <1>2, <1>6, RefsOnly DEF Created
  <2> QED
    BY <1>2, <1>6, <1>7, <2>1 DEF Placed, Created, i
<1> QED
  BY <1>9, <1>10 DEF g, i, r

LEMMA InsertBeforeGood ==
  ASSUME NEW h, Good(h), Spares(h, 1), Live(h) # Items,
         NEW t \in Live(h), NEW si \in Live(h) \cup {Nil}
  PROVE  /\ Inserted(InsertBefore(h, t, si), h, h.rel[t])
         /\ InsertBefore(h, t, si).d[NewSlot(h)] = Nil
         /\ KeepsStarts(InsertBefore(h, t, si), h, t)
         /\ h.head[h.rel[t]] = t
              => InsertBefore(h, t, si).head[h.rel[t]] = NewSlot(h)
<1> DEFINE i == NewSlot(h)
           r == h.rel[t]
           g == InsertBefore(h, t, si)
<1>1. /\ h \in Heap /\ Links(h) /\ Pointers(h) /\ Fresh(h, i)
      /\ t \in Items /\ t # i /\ r = h.rel[t] /\ r \in Rels
      /\ Nil \notin Items /\ Nil \notin Rels
  BY Setting
<1>2. LinkedBefore(g, h, t, i) /\ Placed(g, h, r)
  BY InsertBeforeLinks
<1> HIDE DEF i, r, g
<1>3. NextGood(g) /\ PrevGood(g) /\ DownGood(g) /\ UpGood(g) /\ EndsGood(g)
  <2>1. NextGood(g)
    BY <1>1, <1>2
    DEF Links, NextGood, PrevGood, Fresh, Pointers, Ptr, LinkedBefore
  <2>2. PrevGood(g)
    BY <1>1, <1>2
    DEF Links, NextGood, PrevGood, Fresh, Pointers, Ptr, LinkedBefore
  <2>3. DownGood(g)
    BY <1>1, <1>2
    DEF Links, PrevGood, DownGood, UpGood, Fresh, Pointers, Ptr, LinkedBefore
  <2>4. UpGood(g)
    BY <1>1, <1>2
    DEF Links, DownGood, UpGood, Fresh, Pointers, Ptr, LinkedBefore
  <2>5. EndsGood(g)
    BY <1>1, <1>2
    DEF Links, NextGood, PrevGood, EndsGood, Fresh, Pointers, Ptr, LinkedBefore
  <2> QED
    BY <2>1, <2>2, <2>3, <2>4, <2>5
<1>4. Inserted(g, h, r)
  BY <1>2, <1>3 DEF Inserted, Placed, Good, Links, i, LinkedBefore
<1>5. KeepsStarts(g, h, t)
  BY <1>1, <1>2 DEF KeepsStarts, Fresh, i, LinkedBefore
<1>6. g.d[i] = Nil /\ (h.head[r] = t => g.head[r] = i)
  BY <1>1, <1>2 DEF Fresh, LinkedBefore
<1> QED
  BY <1>4, <1>5, <1>6 DEF g, i, r

(* The links of h with item i inserted below t. *)
LinkedBelow(g, h, t, i) ==
  /\ g.n = h.n /\ g.p = h.p /\ g.head = h.head /\ g.tail = h.tail
  /\ \A j \in Items : g.d[j] = IF j = t THEN i
                               ELSE IF j = i THEN h.d[t] ELSE h.d[j]
  /\ \A j \in Items : g.u[j] = IF j = h.d[t] THEN i
                               ELSE IF j = i THEN t ELSE h.u[j]
  /\ \A j \in Items : g.rel[j] = IF j = i THEN h.rel[t] ELSE h.rel[j]

LEMMA InsertBelowLinks ==
  ASSUME NEW h, Good(h), Spares(h, 1), Live(h) # Items,
         NEW t \in Live(h), NEW si \in Live(h) \cup {Nil}
  PROVE  /\ LinkedBelow(InsertBelow(h, t, si), h, t, NewSlot(h))
         /\ Placed(InsertBelow(h, t, si), h, h.rel[t])
<1> DEFINE i == NewSlot(h)
           r == h.rel[t]
           k == NewItem(h, r, si)
           g == InsertBelow(h, t, si)
<1>1. /\ h \in Heap /\ Links(h) /\ Pointers(h) /\ Fresh(h, i)
      /\ t \in Items /\ t # i /\ r = h.rel[t] /\ r \in Rels
      /\ Nil \notin Items /\ Nil \notin Rels
  BY Setting
<1>2. Created(k, h, i, r)
  BY <1>1, NewItemCreates DEF Good
<1>3. g = [k EXCEPT !.u = Store(Store(@, i, t), h.d[t], i),
                    !.d[i] = h.d[t], !.d[t] = i]
  BY DEF InsertBelow
<1> HIDE DEF i, k, r, g
<1>4. /\ k \in Heap /\ i \in Items /\ t \in Ptr /\ i \in Ptr
      /\ h.n[t] \in Ptr /\ h.p[t] \in Ptr /\ h.u[t] \in Ptr /\ h.d[t] \in Ptr
  BY <1>1, <1>2 DEF Created, Fresh, Pointers, Ptr
<1> DEFINE U == Store(Store(h.u, i, t), h.d[t], i)
<1>5. Stored2(U, h.u, i, t, h.d[t], i)
  BY <1>1, <1>4, StoreValue, StoreTwice, InsteadValue DEF Pointers
<1> HIDE DEF U
<1>6. /\ g.d = [h.d EXCEPT ![i] = h.d[t], ![t] = i] /\ g.u = U
      /\ g.n = h.n /\ g.p = h.p /\ g.head = h.head /\ g.tail = h.tail
      /\ g.rel = [h.rel EXCEPT ![i] = r]
      /\ g.con = k.con /\ g.reg = k.reg /\ g.mem = k.mem /\ k.rel = g.rel
  BY <1>2, <1>3 DEF Created, Heap, U
<1>7. g \in Heap
  BY <1>1, <1>3, <1>4, <1>5, <1>6 DEF Heap, Pointers, Stored, Stored2, Replaced
<1>8. /\ \A j \in Items : g.d[j] = IF j = t THEN i
                                  ELSE IF j = i THEN h.d[t] ELSE h.d[j]
      /\ \A j \in Items : g.u[j] = IF j = h.d[t] THEN i
                                  ELSE IF j = i THEN t ELSE h.u[j]
      /\ \A j \in Items : g.rel[j] = IF j = i THEN r ELSE h.rel[j]
  BY <1>1, <1>4, <1>5, <1>6
  DEF Heap, Pointers, Stored, Stored2, Replaced
<1>9. LinkedBelow(g, h, t, i)
  BY <1>1, <1>6, <1>8 DEF LinkedBelow
<1>10. Placed(g, h, r)
  <2>1. RefsAgree(g)
    BY <1>2, <1>6, RefsOnly DEF Created
  <2> QED
    BY <1>2, <1>6, <1>7, <2>1 DEF Placed, Created, i
<1> QED
  BY <1>9, <1>10 DEF g, i, r

LEMMA InsertBelowGood ==
  ASSUME NEW h, Good(h), Spares(h, 1), Live(h) # Items,
         NEW t \in Live(h), NEW si \in Live(h) \cup {Nil}
  PROVE  /\ Inserted(InsertBelow(h, t, si), h, h.rel[t])
         /\ InsertBelow(h, t, si).d[NewSlot(h)] = h.d[t]
         /\ InsertBelow(h, t, si).d[t] = NewSlot(h)
         /\ KeepsStarts(InsertBelow(h, t, si), h, Nil)
<1> DEFINE i == NewSlot(h)
           r == h.rel[t]
           g == InsertBelow(h, t, si)
<1>1. /\ h \in Heap /\ Links(h) /\ Pointers(h) /\ Fresh(h, i)
      /\ t \in Items /\ t # i /\ r = h.rel[t] /\ r \in Rels
      /\ Nil \notin Items /\ Nil \notin Rels
  BY Setting
<1>2. LinkedBelow(g, h, t, i) /\ Placed(g, h, r)
  BY InsertBelowLinks
<1> HIDE DEF i, r, g
<1>3. NextGood(g) /\ PrevGood(g) /\ DownGood(g) /\ UpGood(g) /\ EndsGood(g)
  <2>1. NextGood(g)
    BY <1>1, <1>2
    DEF Links, NextGood, DownGood, Fresh, Pointers, Ptr, LinkedBelow
  <2>2. PrevGood(g)
    BY <1>1, <1>2
    DEF Links, NextGood, PrevGood, Fresh, Pointers, Ptr, LinkedBelow
  <2>3. DownGood(g)
    BY <1>1, <1>2
    DEF Links, DownGood, UpGood, Fresh, Pointers, Ptr, LinkedBelow
  <2>4. UpGood(g)
    BY <1>1, <1>2
    DEF Links, DownGood, UpGood, Fresh, Pointers, Ptr, LinkedBelow
  <2>5. EndsGood(g)
    BY <1>1, <1>2
    DEF Links, EndsGood, DownGood, Fresh, Pointers, Ptr, LinkedBelow
  <2> QED
    BY <2>1, <2>2, <2>3, <2>4, <2>5
<1>4. Inserted(g, h, r)
  BY <1>2, <1>3 DEF Inserted, Placed, Good, Links, i, LinkedBelow
<1>5. KeepsStarts(g, h, Nil)
  <2> SUFFICES ASSUME NEW j \in Items, h.rel[j] # Nil, h.p[j] = Nil, h.u[j] = Nil
               PROVE  g.p[j] = Nil /\ g.u[j] = Nil
    BY <1>2 DEF KeepsStarts, LinkedBelow
  <2>1. j # i /\ j # h.d[t]
    BY <1>1 DEF Links, DownGood, Fresh
  <2> QED
    BY <2>1, <1>2 DEF LinkedBelow
<1>6. g.d[i] = h.d[t] /\ g.d[t] = i
  BY <1>1, <1>2 DEF Fresh, LinkedBelow
<1> QED
  BY <1>4, <1>5, <1>6 DEF g, i, r

(* The links of h with item i inserted above t. *)
LinkedAbove(g, h, t, i) ==
  /\ g.n = h.n /\ g.p = h.p
  /\ \A j \in Items : g.u[j] = IF j = t THEN i
                               ELSE IF j = i THEN h.u[t] ELSE h.u[j]
  /\ \A j \in Items : g.d[j] = IF j = h.u[t] THEN i
                               ELSE IF j = i THEN t ELSE h.d[j]
  /\ \A q \in Rels : g.head[q] = IF q = h.rel[t] /\ h.head[q] = t THEN i
                                 ELSE h.head[q]
  /\ \A q \in Rels : g.tail[q] = IF q = h.rel[t] /\ h.tail[q] = t THEN i
                                 ELSE h.tail[q]
  /\ \A j \in Items : g.rel[j] = IF j = i THEN h.rel[t] ELSE h.rel[j]

LEMMA InsertAboveLinks ==
  ASSUME NEW h, Good(h), Spares(h, 1), Live(h) # Items,
         NEW t \in Live(h), NEW si \in Live(h) \cup {Nil}
  PROVE  /\ LinkedAbove(InsertAbove(h, t, si), h, t, NewSlot(h))
         /\ Placed(InsertAbove(h, t, si), h, h.rel[t])
<1> DEFINE i == NewSlot(h)
           r == h.rel[t]
           k == NewItem(h, r, si)
           g == InsertAbove(h, t, si)
<1>1. /\ h \in Heap /\ Links(h) /\ Pointers(h) /\ Fresh(h, i)
      /\ t \in Items /\ t # i /\ r = h.rel[t] /\ r \in Rels
      /\ Nil \notin Items /\ Nil \notin Rels
  BY Setting
<1>2. Created(k, h, i, r)
  BY <1>1, NewItemCreates DEF Good
<1>3. g = [k EXCEPT !.d = Store(Store(@, i, t), h.u[t], i),
                    !.u[i] = h.u[t], !.u[t] = i,
                    !.head = Instead(@, r, t, i),
                    !.tail = Instead(@, r, t, i)]
  BY DEF InsertAbove
<1> HIDE DEF i, k, r, g
<1>4. /\ k \in Heap /\ i \in Items /\ t \in Ptr /\ i \in Ptr
      /\ h.n[t] \in Ptr /\ h.p[t] \in Ptr /\ h.u[t] \in Ptr /\ h.d[t] \in Ptr
  BY <1>1, <1>2 DEF Created, Fresh, Pointers, Ptr
<1> DEFINE D == Store(Store(h.d, i, t), h.u[t], i)
           H == Instead(h.head, r, t, i)
           T == Instead(h.tail, r, t, i)
<1>5. /\ Stored2(D, h.d, i, t, h.u[t], i)
      /\ Replaced(H, h.head, r, t, i) /\ Replaced(T, h.tail, r, t, i)
  BY <1>1, <1>4, StoreValue, StoreTwice, InsteadValue DEF Pointers
<1> HIDE DEF D, H, T
<1>6. /\ g.u = [h.u EXCEPT ![i] = h.u[t], ![t] = i] /\ g.d = D
      /\ g.n = h.n /\ g.p = h.p /\ g.head = H /\ g.tail = T
      /\ g.rel = [h.rel EXCEPT ![i] = r]
      /\ g.con = k.con /\ g.reg = k.reg /\ g.mem = k.mem /\ k.rel = g.rel
  BY <1>2, <1>3 DEF Created, Heap, D, H, T
<1>7. g \in Heap
  BY <1>1, <1>3, <1>4, <1>5, <1>6, ZenonT(60) DEF Heap, Pointers, Stored, Stored2, Replaced
<1>8. /\ \A j \in Items : g.u[j] = IF j = t THEN i
                                  ELSE IF j = i THEN h.u[t] ELSE h.u[j]
      /\ \A j \in Items : g.d[j] = IF j = h.u[t] THEN i
                                  ELSE IF j = i THEN t ELSE h.d[j]
      /\ \A q \in Rels : g.head[q] = IF q = r /\ h.head[q] = t THEN i
                                    ELSE h.head[q]
      /\ \A q \in Rels : g.tail[q] = IF q = r /\ h.tail[q] = t THEN i
                                    ELSE h.tail[q]
      /\ \A j \in Items : g.rel[j] = IF j = i THEN r ELSE h.rel[j]
  BY <1>1, <1>4, <1>5, <1>6
  DEF Heap, Pointers, Stored, Stored2, Replaced
<1>9. LinkedAbove(g, h, t, i)
  BY <1>1, <1>6, <1>8 DEF LinkedAbove
<1>10. Placed(g, h, r)
  <2>1. RefsAgree(g)
    BY <1>2, <1>6, RefsOnly DEF Created
  <2> QED
    BY <1>2, <1>6, <1>7, <2>1 DEF Placed, Created, i
<1> QED
  BY <1>9, <1>10 DEF g, i, r

LEMMA InsertAboveGood ==
  ASSUME NEW h, Good(h), Spares(h, 1), Live(h) # Items,
         NEW t \in Live(h), NEW si \in Live(h) \cup {Nil}, h.p[t] = Nil
  PROVE  Inserted(InsertAbove(h, t, si), h, h.rel[t])
<1> DEFINE i == NewSlot(h)
           r == h.rel[t]
           g == InsertAbove(h, t, si)
<1>1. /\ h \in Heap /\ Links(h) /\ Pointers(h) /\ Fresh(h, i)
      /\ t \in Items /\ t # i /\ r = h.rel[t] /\ r \in Rels
      /\ Nil \notin Items /\ Nil \notin Rels
  BY Setting
<1>2. LinkedAbove(g, h, t, i) /\ Placed(g, h, r)
  BY InsertAboveLinks
<1> HIDE DEF i, r, g
<1>3. NextGood(g) /\ PrevGood(g) /\ DownGood(g) /\ UpGood(g) /\ EndsGood(g)
  <2>1. NextGood(g)
    BY <1>1, <1>2
    DEF Links, NextGood, PrevGood, UpGood, Fresh, Pointers, Ptr, LinkedAbove
  <2>2. PrevGood(g)
    BY <1>1, <1>2
    DEF Links, NextGood, PrevGood, Fresh, Pointers, Ptr, LinkedAbove
  <2>3. DownGood(g)
    BY <1>1, <1>2
    DEF Links, DownGood, UpGood, Fresh, Pointers, Ptr, LinkedAbove
  <2>4. UpGood(g)
    BY <1>1, <1>2
    DEF Links, DownGood, UpGood, Fresh, Pointers, Ptr, LinkedAbove
  <2>5. EndsGood(g)
    BY <1>1, <1>2
    DEF Links, EndsGood, Fresh, Pointers, Ptr, LinkedAbove
  <2> QED
    BY <2>1, <2>2, <2>3, <2>4, <2>5
<1>4. Inserted(g, h, r)
  BY <1>2, <1>3 DEF Inserted, Placed, Good, Links, i, LinkedAbove
<1> QED
  BY <1>4 DEF g, r

(* The first item of an empty relation is both its ends. *)
(* The links of h with item i alone at the top of relation r. *)
LinkedAlone(g, h, r, i) ==
  /\ g.n = h.n /\ g.p = h.p /\ g.u = h.u /\ g.d = h.d
  /\ \A q \in Rels : g.head[q] = IF q = r THEN i ELSE h.head[q]
  /\ \A q \in Rels : g.tail[q] = IF q = r THEN i ELSE h.tail[q]
  /\ \A j \in Items : g.rel[j] = IF j = i THEN r ELSE h.rel[j]

OnlyItem(h, r, si) == [NewItem(h, r, si) EXCEPT !.head[r] = NewSlot(h),
                                                !.tail[r] = NewSlot(h)]

LEMMA OnlyItemGood ==
  ASSUME NEW h, Good(h), Spares(h, 1), Live(h) # Items, NEW r \in Rels,
         NEW si \in Live(h) \cup {Nil}
  PROVE  /\ Inserted(OnlyItem(h, r, si), h, r)
         /\ LinkedAlone(OnlyItem(h, r, si), h, r, NewSlot(h))
<1> DEFINE i == NewSlot(h)
           k == NewItem(h, r, si)
           g == [k EXCEPT !.head[r] = i, !.tail[r] = i]
<1>1. /\ h \in Heap /\ Links(h) /\ Pointers(h) /\ Fresh(h, i)
      /\ Nil \notin Items /\ Nil \notin Rels
  BY FreshSlot, FreeSlot, PointerAssumption, SMTT(30) DEF Good, Heap, Pointers, Fresh
<1>2. Created(k, h, i, r)
  BY <1>1, NewItemCreates DEF Good
<1> HIDE DEF k, i
<1>3. k \in Heap /\ i \in Items
  BY <1>1, <1>2 DEF Created, Fresh
<1>4. /\ g.head = [h.head EXCEPT ![r] = i] /\ g.tail = [h.tail EXCEPT ![r] = i]
      /\ g.n = h.n /\ g.p = h.p /\ g.u = h.u /\ g.d = h.d
      /\ g.rel = [h.rel EXCEPT ![i] = r]
      /\ g.con = k.con /\ g.reg = k.reg /\ g.mem = k.mem /\ k.rel = g.rel
  BY <1>2 DEF Created, Heap
<1>5. g \in Heap
  BY <1>3 DEF Heap, Ptr
<1> HIDE DEF g
<1>6. /\ \A q \in Rels : g.head[q] = IF q = r THEN i ELSE h.head[q]
      /\ \A q \in Rels : g.tail[q] = IF q = r THEN i ELSE h.tail[q]
      /\ \A j \in Items : g.rel[j] = IF j = i THEN r ELSE h.rel[j]
  BY <1>1, <1>3, <1>4 DEF Pointers, Heap
<1>7. NextGood(g) /\ PrevGood(g) /\ DownGood(g) /\ UpGood(g) /\ EndsGood(g)
  <2>1. NextGood(g)
    BY <1>1, <1>4, <1>6 DEF Links, NextGood, Fresh, Pointers, Ptr
  <2>2. PrevGood(g)
    BY <1>1, <1>4, <1>6 DEF Links, PrevGood, Fresh, Pointers, Ptr
  <2>3. DownGood(g)
    BY <1>1, <1>4, <1>6 DEF Links, DownGood, Fresh, Pointers, Ptr
  <2>4. UpGood(g)
    BY <1>1, <1>4, <1>6 DEF Links, UpGood, Fresh, Pointers, Ptr
  <2>5. EndsGood(g)
    BY <1>1, <1>4, <1>6 DEF Links, EndsGood, Fresh, Pointers, Ptr
  <2> QED
    BY <2>1, <2>2, <2>3, <2>4, <2>5
<1>8. RefsAgree(g)
  BY <1>2, <1>4, RefsOnly DEF Created
<1>9. Inserted(g, h, r)
  BY <1>2, <1>4, <1>5, <1>7, <1>8 DEF Inserted, Good, Links, Created, i
<1>10. LinkedAlone(g, h, r, i)
  BY <1>4, <1>6 DEF LinkedAlone
<1> QED
  BY <1>9, <1>10 DEF g, k, i, OnlyItem
-----------------------------------------------------------------------------
(* The last of a list.                                                     *)

(* A set next() does not leave. *)
NextClosed(h, S) == \A k \in S : h.n[k] \in S \cup {Nil}

LEMMA ListLeast ==
  ASSUME NEW h, Pointers(h), NEW x \in Items
  PROVE  /\ x \in List(h, x) /\ List(h, x) \subseteq Items
         /\ NextClosed(h, List(h, x))
         /\ \A S \in SUBSET Items : x \in S /\ NextClosed(h, S)
                                     => List(h, x) \subseteq S
<1> DEFINE Closed == {S \in SUBSET Items :
                        x \in S \cup {Nil} /\ \A k \in S : h.n[k] \in S \cup {Nil}}
<1>1. List(h, x) = {j \in Items : \A S \in Closed : j \in S}
  BY DEF List
<1>2. x # Nil
  BY PointerAssumption
<1>3. x \in List(h, x)
  BY <1>1, <1>2
<1>4. NextClosed(h, List(h, x))
  <2> SUFFICES ASSUME NEW k \in List(h, x), h.n[k] # Nil
               PROVE  h.n[k] \in List(h, x)
    BY DEF NextClosed
  <2>1. h.n[k] \in Items
    BY <1>1 DEF Pointers, Ptr
  <2>2. ASSUME NEW S \in Closed PROVE h.n[k] \in S
    BY <1>1, <2>2
  <2> QED
    BY <1>1, <2>1, <2>2
<1>5. ASSUME NEW S \in SUBSET Items, x \in S, NextClosed(h, S)
      PROVE  List(h, x) \subseteq S
  BY <1>1, <1>5 DEF NextClosed
<1> QED
  BY <1>1, <1>3, <1>4, <1>5

(* The siblings from x on are in x's relation, and one of them is the last *)
(* when nothing comes before x: no more items follow than there are.       *)
LEMMA LastExists ==
  ASSUME NEW h, Good(h), NEW x \in Items, h.p[x] = Nil, h.rel[x] # Nil
  PROVE  /\ Last(h, x) \in Items /\ h.n[Last(h, x)] = Nil
         /\ Last(h, x) \in List(h, x)
         /\ h.rel[Last(h, x)] = h.rel[x]
<1> DEFINE L == List(h, x)
<1>1. Pointers(h) /\ NextGood(h)
  BY DEF Good, Links, Heap, Pointers
<1>2. /\ x \in L /\ L \subseteq Items /\ NextClosed(h, L)
      /\ \A S \in SUBSET Items : x \in S /\ NextClosed(h, S) => L \subseteq S
  BY <1>1, ListLeast
<1> HIDE DEF L
<1>3. \A j \in L : h.rel[j] = h.rel[x]
  <2> DEFINE S == {j \in L : h.rel[j] = h.rel[x]}
  <2>1. NextClosed(h, S)
    BY <1>1, <1>2 DEF NextClosed, NextGood
  <2>2. x \in S /\ S \in SUBSET Items
    BY <1>2
  <2>3. L \subseteq S
    BY <1>2, <2>1, <2>2
  <2> QED
    BY <2>3
<1>4. \E j \in L : h.n[j] = Nil
  <2> SUFFICES ASSUME \A j \in L : h.n[j] # Nil PROVE FALSE
    OBVIOUS
  <2> DEFINE f == [j \in L |-> h.n[j]]
             T == L \ {x}
  <2>1. \A j \in L : f[j] \in L /\ f[j] # x /\ h.p[f[j]] = j
    BY <1>1, <1>2, PointerAssumption DEF NextClosed, NextGood
  <2>2. f \in Injection(L, T)
    BY <2>1 DEF Injection, IsInjective
  <2>3. IsFiniteSet(L) /\ IsFiniteSet(T) /\ Cardinality(L) \in Nat
        /\ Cardinality(T) = Cardinality(L) - 1
    BY <1>2, PointerAssumption, FS_Subset, FS_RemoveElement, FS_CardinalityType
  <2> HIDE DEF f, T
  <2>4. Cardinality(L) <= Cardinality(T)
    BY <2>2, <2>3, FS_Injection
  <2> QED
    BY <2>3, <2>4
<1>5. Last(h, x) \in L /\ h.n[Last(h, x)] = Nil
  BY <1>4 DEF Last, L
<1> QED
  BY <1>2, <1>3, <1>5 DEF L
-----------------------------------------------------------------------------
(* Hanging an item under another.                                          *)

(* A new item without daughters, hung where nothing else loses its start.  *)
Hung(g, h, r) ==
  Inserted(g, h, r) /\ g.d[NewSlot(h)] = Nil /\ KeepsStarts(g, h, Nil)

LEMMA HangLastGood ==
  ASSUME NEW h, Good(h), Spares(h, 1), Live(h) # Items,
         NEW t \in Live(h), NEW si \in Live(h) \cup {Nil}
  PROVE  Hung(HangLast(h, t, si), h, h.rel[t])
<1> DEFINE x == h.d[t]
           l == Last(h, x)
<1>1. CASE x = Nil
  BY <1>1, InsertBelowGood DEF HangLast, Hung
<1>2. CASE x # Nil
  <2>1. x \in Items /\ h.p[x] = Nil /\ h.rel[x] = h.rel[t] /\ h.rel[t] # Nil
    BY <1>2 DEF Good, Links, DownGood, Heap, Ptr, Live
  <2> HIDE DEF x
  <2>2. l \in Live(h) /\ h.rel[l] = h.rel[t]
    BY <2>1, LastExists DEF Live
  <2> HIDE DEF l
  <2>3. HangLast(h, t, si) = InsertAfter(h, l, si)
    BY <1>2 DEF HangLast, l, x
  <2>4. Hung(InsertAfter(h, l, si), h, h.rel[l])
    BY <2>2, InsertAfterGood DEF Hung
  <2> QED
    BY <2>2, <2>3, <2>4
<1> QED
  BY <1>1, <1>2

LEMMA HangFirstGood ==
  ASSUME NEW h, Good(h), Spares(h, 1), Live(h) # Items,
         NEW t \in Live(h), NEW si \in Live(h) \cup {Nil}
  PROVE  Hung(HangFirst(h, t, si), h, h.rel[t])
<1> DEFINE x == h.d[t]
           g == InsertBefore(h, x, si)
<1>1. CASE x = Nil
  BY <1>1, InsertBelowGood DEF HangFirst, Hung
<1>2. CASE x # Nil
  <2>1. /\ x \in Live(h) /\ h.rel[x] = h.rel[t] /\ h.rel[t] # Nil
        /\ h.u[x] = t /\ t # Nil
    BY <1>2, PointerAssumption DEF Good, Links, DownGood, Heap, Ptr, Live
  <2>2. HangFirst(h, t, si) = g
    BY <1>2 DEF HangFirst
  <2> HIDE DEF x
  <2>3. Inserted(g, h, h.rel[x]) /\ g.d[NewSlot(h)] = Nil /\ KeepsStarts(g, h, x)
    BY <2>1, InsertBeforeGood
  <2> HIDE DEF g
  <2>4. KeepsStarts(g, h, Nil)
    BY <2>1, <2>3 DEF KeepsStarts
  <2> QED
    BY <2>1, <2>2, <2>3, <2>4 DEF Hung
<1> QED
  BY <1>1, <1>2
-----------------------------------------------------------------------------
(* Moving the daughters of an item.                                        *)

(* y, if any, is the first of daughters that have lost their parent. *)
Orphan(h, y, r) ==
  y # Nil => /\ y \in Items /\ h.rel[y] = r /\ h.p[y] = Nil /\ h.u[y] = Nil
             /\ \A q \in Rels : h.head[q] # y

(* The links of h without the daughters y of c. *)
LinkedCut(g, h, c, y) ==
  /\ g.n = h.n /\ g.p = h.p /\ g.head = h.head /\ g.tail = h.tail
  /\ g.rel = h.rel
  /\ \A j \in Items : g.u[j] = IF j = y THEN Nil ELSE h.u[j]
  /\ \A j \in Items : g.d[j] = IF j = c THEN Nil ELSE h.d[j]

(* The links of h with the daughters y given to i. *)
LinkedGiven(g, h, i, y) ==
  /\ g.n = h.n /\ g.p = h.p /\ g.head = h.head /\ g.tail = h.tail
  /\ g.rel = h.rel
  /\ \A j \in Items : g.u[j] = IF j = y THEN i ELSE h.u[j]
  /\ \A j \in Items : g.d[j] = IF j = i THEN y ELSE h.d[j]

LEMMA CutDaughtersGood ==
  ASSUME NEW h, Good(h), NEW c \in Live(h)
  PROVE  /\ Good(CutDaughters(h, c)) /\ CutDaughters(h, c).rel = h.rel
         /\ CutDaughters(h, c).mem = h.mem
         /\ Orphan(CutDaughters(h, c), h.d[c], h.rel[c])
         /\ LinkedCut(CutDaughters(h, c), h, c, h.d[c])
<1> DEFINE g == CutDaughters(h, c)
           y == h.d[c]
<1>1. /\ Pointers(h) /\ Links(h) /\ c \in Items /\ h.rel[c] # Nil
      /\ h \in Heap /\ Nil \notin Items /\ Nil \notin Rels
  BY PointerAssumption DEF Good, Heap, Pointers, Live
<1>2. Stored(Store(h.u, y, Nil), h.u, y, Nil)
  BY <1>1, StoreValue DEF Pointers, Ptr
<1>3. g = [h EXCEPT !.d[c] = Nil, !.u = Store(@, h.d[c], Nil)]
  BY DEF CutDaughters
<1> HIDE DEF g
<1>4. /\ g.d = [h.d EXCEPT ![c] = Nil] /\ g.u = Store(h.u, y, Nil)
      /\ g.n = h.n /\ g.p = h.p /\ g.head = h.head /\ g.tail = h.tail
      /\ g.rel = h.rel /\ g.con = h.con /\ g.reg = h.reg /\ g.mem = h.mem
  BY <1>1, <1>3 DEF Heap
<1>5. g \in Heap
  BY <1>1, <1>2, <1>3, <1>4 DEF Heap, Pointers, Stored, Ptr
<1>6. /\ \A j \in Items : g.u[j] = IF j = y THEN Nil ELSE h.u[j]
      /\ \A j \in Items : g.d[j] = IF j = c THEN Nil ELSE h.d[j]
  BY <1>1, <1>2, <1>4 DEF Pointers, Stored
<1>7. NextGood(g) /\ PrevGood(g) /\ DownGood(g) /\ UpGood(g) /\ EndsGood(g)
  BY <1>1, <1>4, <1>6 DEF Links, NextGood, PrevGood, DownGood, UpGood, EndsGood,
                          Pointers, Ptr
<1>8. Orphan(g, y, h.rel[c])
  BY <1>1, <1>4, <1>6 DEF Links, DownGood, EndsGood, Pointers, Ptr, Orphan
<1>9. Good(g)
  BY <1>4, <1>5, <1>7, RefsOnly DEF Good, Links
<1>10. LinkedCut(g, h, c, y)
  BY <1>4, <1>6 DEF LinkedCut
<1> QED
  BY <1>4, <1>8, <1>9, <1>10 DEF g

LEMMA GiveDaughtersGood ==
  ASSUME NEW h, Good(h), NEW i \in Items, h.d[i] = Nil, h.rel[i] # Nil,
         NEW y \in Ptr, Orphan(h, y, h.rel[i])
  PROVE  /\ Good(GiveDaughters(h, i, y)) /\ GiveDaughters(h, i, y).rel = h.rel
         /\ GiveDaughters(h, i, y).mem = h.mem
         /\ LinkedGiven(GiveDaughters(h, i, y), h, i, y)
<1>1. CASE y = Nil
  BY <1>1, PointerAssumption DEF GiveDaughters, LinkedGiven
<1>2. CASE y # Nil
  <2> DEFINE g == GiveDaughters(h, i, y)
  <2>1. /\ Pointers(h) /\ Links(h) /\ y \in Items
        /\ h \in Heap /\ Nil \notin Items /\ Nil \notin Rels
    BY <1>2, PointerAssumption DEF Good, Heap, Pointers, Ptr
  <2>2. g = [h EXCEPT !.d[i] = y, !.u[y] = i]
    BY <1>2 DEF GiveDaughters
  <2> HIDE DEF g
  <2>3. /\ g.d = [h.d EXCEPT ![i] = y] /\ g.u = [h.u EXCEPT ![y] = i]
        /\ g.n = h.n /\ g.p = h.p /\ g.head = h.head /\ g.tail = h.tail
        /\ g.rel = h.rel /\ g.con = h.con /\ g.reg = h.reg /\ g.mem = h.mem
    BY <2>1, <2>2 DEF Heap
  <2>4. g \in Heap
    BY <2>1, <2>2 DEF Heap, Ptr
  <2>5. /\ \A j \in Items : g.u[j] = IF j = y THEN i ELSE h.u[j]
        /\ \A j \in Items : g.d[j] = IF j = i THEN y ELSE h.d[j]
    BY <2>1, <2>3 DEF Pointers
  <2>6. NextGood(g) /\ PrevGood(g) /\ DownGood(g) /\ UpGood(g) /\ EndsGood(g)
    BY <1>2, <2>1, <2>3, <2>5
    DEF Links, NextGood, PrevGood, DownGood, UpGood, EndsGood, Pointers, Ptr, Orphan
  <2>7. Good(g)
    BY <2>3, <2>4, <2>6, RefsOnly DEF Good, Links
  <2>8. LinkedGiven(g, h, i, y)
    BY <2>3, <2>5 DEF LinkedGiven
  <2> QED
    BY <2>3, <2>7, <2>8 DEF g
<1> QED
  BY <1>1, <1>2
-----------------------------------------------------------------------------
(* Deleting.                                                               *)

(* Links, of the items outside D, which do not lead into D. *)
LinksOutside(h, D) ==
  /\ \A i \in Items \ D : h.n[i] # Nil =>
       /\ h.rel[i] # Nil /\ h.rel[h.n[i]] = h.rel[i] /\ h.n[i] \notin D
       /\ h.p[h.n[i]] = i /\ h.u[h.n[i]] = Nil
  /\ \A i \in Items \ D : h.p[i] # Nil =>
       /\ h.rel[i] # Nil /\ h.rel[h.p[i]] = h.rel[i] /\ h.p[i] \notin D
       /\ h.n[h.p[i]] = i
  /\ \A i \in Items \ D : h.d[i] # Nil =>
       /\ h.rel[i] # Nil /\ h.rel[h.d[i]] = h.rel[i] /\ h.d[i] \notin D
       /\ h.u[h.d[i]] = i /\ h.p[h.d[i]] = Nil
  /\ \A i \in Items \ D : h.u[i] # Nil =>
       /\ h.rel[i] # Nil /\ h.rel[h.u[i]] = h.rel[i] /\ h.u[i] \notin D
       /\ h.d[h.u[i]] = i
  /\ \A r \in Rels :
       /\ h.head[r] \notin D \cup {Nil} =>
            h.rel[h.head[r]] = r /\ h.p[h.head[r]] = Nil /\ h.u[h.head[r]] = Nil
       /\ h.tail[r] \notin D \cup {Nil} =>
            h.rel[h.tail[r]] = r /\ h.n[h.tail[r]] = Nil

LEMMA FreeGood ==
  ASSUME NEW h, h \in Heap, RefsAgree(h), NEW D \in SUBSET Items,
         LinksOutside(h, D)
  PROVE  Good(Free(h, D)) /\ Free(h, D).mem \subseteq h.mem
<1> DEFINE g == Free(h, D)
<1>1. /\ \A j \in Items : /\ g.n[j] = IF j \in D THEN Nil ELSE h.n[j]
                          /\ g.p[j] = IF j \in D THEN Nil ELSE h.p[j]
                          /\ g.u[j] = IF j \in D THEN Nil ELSE h.u[j]
                          /\ g.d[j] = IF j \in D THEN Nil ELSE h.d[j]
                          /\ g.rel[j] = IF j \in D THEN Nil ELSE h.rel[j]
                          /\ g.con[j] = IF j \in D THEN Nil ELSE h.con[j]
      /\ \A r \in Rels : /\ g.head[r] = IF h.head[r] \in D THEN Nil ELSE h.head[r]
                         /\ g.tail[r] = IF h.tail[r] \in D THEN Nil ELSE h.tail[r]
      /\ \A c \in Contents, r \in Rels :
           g.reg[c][r] = IF \E j \in D : h.con[j] = c /\ h.rel[j] = r
                         THEN Nil ELSE h.reg[c][r]
      /\ g.mem = {c \in h.mem : g.reg[c] # NoRef}
  BY DEF Free
<1>2. g \in Heap
  BY DEF Free, Heap, Ptr
<1>3. \A c \in Contents : g.reg[c] \in [Rels -> Ptr] /\ h.reg[c] \in [Rels -> Ptr]
  BY <1>2 DEF Heap
<1>4. Pointers(h) /\ h.mem \subseteq Contents /\ Nil \notin Items /\ Nil \notin Rels
      /\ \A j \in Items : h.con[j] \in Contents \cup {Nil}
                          /\ h.rel[j] \in Rels \cup {Nil}
      /\ Nil \notin Contents
  BY PointerAssumption DEF Pointers, Heap
<1> HIDE DEF g
<1>5. NextGood(g) /\ PrevGood(g) /\ DownGood(g) /\ UpGood(g) /\ EndsGood(g)
  <2>1. NextGood(g)
    BY <1>1, <1>4 DEF LinksOutside, NextGood, Pointers, Ptr
  <2>2. PrevGood(g)
    BY <1>1, <1>4 DEF LinksOutside, PrevGood, Pointers, Ptr
  <2>3. DownGood(g)
    BY <1>1, <1>4 DEF LinksOutside, DownGood, Pointers, Ptr
  <2>4. UpGood(g)
    BY <1>1, <1>4 DEF LinksOutside, UpGood, Pointers, Ptr
  <2>5. EndsGood(g)
    BY <1>1, <1>4 DEF LinksOutside, EndsGood, Pointers, Ptr
  <2> QED
    BY <2>1, <2>2, <2>3, <2>4, <2>5
<1>6. ASSUME NEW i \in Items, g.rel[i] # Nil
      PROVE  g.con[i] # Nil /\ g.reg[g.con[i]][g.rel[i]] = i
  <2>1. /\ i \notin D /\ g.rel[i] = h.rel[i] /\ g.con[i] = h.con[i]
        /\ h.rel[i] \in Rels /\ h.con[i] \in Contents
        /\ h.reg[h.con[i]][h.rel[i]] = i
    BY <1>1, <1>4, <1>6 DEF RefsAgree
  <2>2. ~ \E j \in D : h.con[j] = h.con[i] /\ h.rel[j] = h.rel[i]
    BY <2>1, <1>4 DEF RefsAgree
  <2>3. g.reg[h.con[i]][h.rel[i]] = i
    BY <2>1, <2>2, <1>1
  <2> QED
    BY <2>1, <2>3, <1>4
<1>7. ASSUME NEW i \in Items, g.rel[i] = Nil PROVE g.con[i] = Nil
  BY <1>1, <1>7 DEF RefsAgree
<1>8. ASSUME NEW c \in Contents, NEW r \in Rels, g.reg[c][r] # Nil
      PROVE  g.con[g.reg[c][r]] = c /\ g.rel[g.reg[c][r]] = r
  <2>1. /\ g.reg[c][r] = h.reg[c][r] /\ h.reg[c][r] \in Items
        /\ ~ \E j \in D : h.con[j] = c /\ h.rel[j] = r
    BY <1>1, <1>3, <1>8 DEF Ptr
  <2>2. h.con[h.reg[c][r]] = c /\ h.rel[h.reg[c][r]] = r
    BY <2>1, <1>4 DEF RefsAgree
  <2>3. h.reg[c][r] \notin D
    BY <2>1, <2>2
  <2> QED
    BY <2>1, <2>2, <2>3, <1>1
<1>9. ASSUME NEW c \in Contents PROVE c \in g.mem <=> g.reg[c] # NoRef
  <2>1. g.reg[c] # NoRef => h.reg[c] # NoRef
    <3> SUFFICES ASSUME h.reg[c] = NoRef PROVE g.reg[c] = NoRef
      OBVIOUS
    <3>1. \A r \in Rels : g.reg[c][r] = Nil
      BY <1>1 DEF NoRef
    <3> QED
      BY <3>1, <1>3 DEF NoRef
  <2> QED
    BY <2>1, <1>1 DEF RefsAgree
<1>10. RefsAgree(g)
  BY <1>6, <1>7, <1>8, <1>9 DEF RefsAgree
<1>11. Good(g)
  BY <1>2, <1>5, <1>10 DEF Good, Links
<1> QED
  BY <1>1, <1>11 DEF g

(* A set that neither next() nor down() leaves. *)
TreeClosed(h, S) ==
  \A k \in S : h.n[k] \in S \cup {Nil} /\ h.d[k] \in S \cup {Nil}

LEMMA TreeLeast ==
  ASSUME NEW h, Pointers(h), NEW x \in Ptr
  PROVE  /\ x # Nil => x \in Tree(h, x)
         /\ Tree(h, x) \subseteq Items /\ TreeClosed(h, Tree(h, x))
         /\ \A S \in SUBSET Items : (x # Nil => x \in S) /\ TreeClosed(h, S)
                                     => Tree(h, x) \subseteq S
<1> DEFINE Closed == {S \in SUBSET Items :
                        /\ x \in S \cup {Nil}
                        /\ \A k \in S : /\ h.n[k] \in S \cup {Nil}
                                        /\ h.d[k] \in S \cup {Nil}}
<1>1. Tree(h, x) = {j \in Items : \A S \in Closed : j \in S}
  BY DEF Tree
<1>2. x # Nil => x \in Tree(h, x)
  BY <1>1 DEF Ptr
<1>3. TreeClosed(h, Tree(h, x))
  <2> SUFFICES ASSUME NEW k \in Tree(h, x)
               PROVE  /\ h.n[k] # Nil => h.n[k] \in Tree(h, x)
                      /\ h.d[k] # Nil => h.d[k] \in Tree(h, x)
    BY DEF TreeClosed
  <2>1. h.n[k] \in Ptr /\ h.d[k] \in Ptr
    BY <1>1 DEF Pointers
  <2>2. ASSUME NEW S \in Closed
        PROVE  /\ h.n[k] # Nil => h.n[k] \in S
               /\ h.d[k] # Nil => h.d[k] \in S
    BY <1>1, <2>2
  <2> QED
    BY <1>1, <2>1, <2>2 DEF Ptr
<1>4. ASSUME NEW S \in SUBSET Items, x # Nil => x \in S, TreeClosed(h, S)
      PROVE  Tree(h, x) \subseteq S
  BY <1>1, <1>4 DEF TreeClosed
<1> QED
  BY <1>1, <1>2, <1>3, <1>4

(* The tree of a first item is entered through that item only. *)
LEMMA TreeEntry ==
  ASSUME NEW h, Good(h), NEW x \in Ptr, x # Nil => h.p[x] = Nil
  PROVE  \A j \in Tree(h, x) :
           /\ h.p[j] # Nil => h.p[j] \in Tree(h, x)
           /\ h.u[j] # Nil /\ j # x => h.u[j] \in Tree(h, x)
<1> DEFINE S == Tree(h, x)
           T == {j \in S : /\ h.p[j] # Nil => h.p[j] \in S
                           /\ h.u[j] # Nil /\ j # x => h.u[j] \in S}
<1>1. Pointers(h) /\ NextGood(h) /\ DownGood(h) /\ Nil \notin Items
  BY PointerAssumption DEF Good, Links, Heap, Pointers
<1>2. /\ x # Nil => x \in S
      /\ S \subseteq Items /\ TreeClosed(h, S)
      /\ \A Q \in SUBSET Items : (x # Nil => x \in Q) /\ TreeClosed(h, Q)
                                  => S \subseteq Q
  BY <1>1, TreeLeast
<1> HIDE DEF S
<1>3. x # Nil => x \in T
  BY <1>2
<1>4. TreeClosed(h, T)
  <2> SUFFICES ASSUME NEW k \in T
               PROVE  /\ h.n[k] # Nil => h.n[k] \in T
                      /\ h.d[k] # Nil => h.d[k] \in T
    BY DEF TreeClosed
  <2>1. k \in S /\ k \in Items
    BY <1>2
  <2>2. h.n[k] # Nil => h.n[k] \in S /\ h.p[h.n[k]] = k /\ h.u[h.n[k]] = Nil
    BY <2>1, <1>1, <1>2 DEF TreeClosed, NextGood
  <2>3. h.d[k] # Nil => h.d[k] \in S /\ h.u[h.d[k]] = k /\ h.p[h.d[k]] = Nil
    BY <2>1, <1>1, <1>2 DEF TreeClosed, DownGood
  <2> QED
    BY <2>1, <2>2, <2>3
<1>5. T \in SUBSET Items
  BY <1>2
<1>6. S \subseteq T
  BY <1>2, <1>3, <1>4, <1>5
<1> QED
  BY <1>6 DEF S

LEMMA ClearGood ==
  ASSUME NEW h, Good(h), NEW r \in Rels
  PROVE  Good(Clear(h, r))
<1> DEFINE x == h.head[r]
           D == Tree(h, x)
           f == Free(h, D)
           g == [f EXCEPT !.head[r] = Nil, !.tail[r] = Nil]
<1>1. /\ Pointers(h) /\ Links(h) /\ h \in Heap /\ RefsAgree(h)
      /\ Nil \notin Items /\ Nil \notin Rels
  BY PointerAssumption DEF Good, Heap, Pointers
<1>2. x \in Ptr /\ (x # Nil => h.p[x] = Nil /\ h.u[x] = Nil)
  BY <1>1 DEF Links, EndsGood, Pointers
<1>3. D \subseteq Items /\ TreeClosed(h, D)
  BY <1>1, <1>2, TreeLeast
<1>4. \A j \in D : /\ h.p[j] # Nil => h.p[j] \in D
                   /\ h.u[j] # Nil => h.u[j] \in D
  <2> HIDE DEF x
  <2>1. \A j \in Tree(h, x) :
          /\ h.p[j] # Nil => h.p[j] \in Tree(h, x)
          /\ h.u[j] # Nil /\ j # x => h.u[j] \in Tree(h, x)
    BY <1>2, TreeEntry
  <2> QED
    BY <2>1, <1>1, <1>2, <1>3
<1>5. Clear(h, r) = g
  BY DEF Clear
<1> HIDE DEF D, x
<1>6. LinksOutside(h, D)
  BY <1>1, <1>3, <1>4
  DEF LinksOutside, Links, NextGood, PrevGood, DownGood, UpGood, EndsGood,
      TreeClosed, Pointers, Ptr
<1>7. Good(f)
  BY <1>1, <1>3, <1>6, FreeGood
<1> HIDE DEF f
<1>8. g \in Heap
  BY <1>7 DEF Good, Heap, Ptr
<1>9. /\ g.head = [f.head EXCEPT ![r] = Nil] /\ g.tail = [f.tail EXCEPT ![r] = Nil]
      /\ g.n = f.n /\ g.p = f.p /\ g.u = f.u /\ g.d = f.d /\ g.rel = f.rel
      /\ g.con = f.con /\ g.reg = f.reg /\ g.mem = f.mem
  BY <1>7 DEF Good, Heap
<1> HIDE DEF g
<1>10. Links(g)
  BY <1>7, <1>9 DEF Good, Heap, Links, NextGood, PrevGood, DownGood, UpGood, EndsGood
<1> QED
  BY <1>5, <1>7, <1>8, <1>9, <1>10, RefsOnly DEF Good

(* The pointers after the destructor has unlinked x. *)
LEMMA UnlinkValues ==
  ASSUME NEW h, Good(h), NEW x \in Live(h)
  PROVE  /\ Unlink(h, x) \in Heap /\ Unlink(h, x).rel = h.rel
         /\ Unlink(h, x).con = h.con /\ Unlink(h, x).reg = h.reg
         /\ Unlink(h, x).mem = h.mem
         /\ Stored(Unlink(h, x).p, h.p, h.n[x], h.p[x])
         /\ Stored(Unlink(h, x).u, h.u, h.n[x], h.u[x])
         /\ Stored(Unlink(h, x).n, h.n, h.p[x], h.n[x])
         /\ Stored(Unlink(h, x).d, h.d, h.u[x], h.n[x])
         /\ Replaced(Unlink(h, x).head, h.head, h.rel[x], x, h.n[x])
         /\ Replaced(Unlink(h, x).tail, h.tail, h.rel[x], x, h.p[x])
<1> DEFINE g == Unlink(h, x)
           r == h.rel[x]
<1>1. /\ h \in Heap /\ Pointers(h) /\ x \in Items /\ r \in Rels
      /\ h.n[x] \in Ptr /\ h.p[x] \in Ptr /\ h.u[x] \in Ptr
  BY DEF Good, Heap, Pointers, Live
<1>2. g = [h EXCEPT !.p = Store(@, h.n[x], h.p[x]),
                    !.u = Store(@, h.n[x], h.u[x]),
                    !.n = Store(@, h.p[x], h.n[x]),
                    !.d = Store(@, h.u[x], h.n[x]),
                    !.head = Instead(@, r, x, h.n[x]),
                    !.tail = Instead(@, r, x, h.p[x])]
  BY DEF Unlink
<1> HIDE DEF g
<1>3. /\ g.p = Store(h.p, h.n[x], h.p[x]) /\ g.u = Store(h.u, h.n[x], h.u[x])
      /\ g.n = Store(h.n, h.p[x], h.n[x]) /\ g.d = Store(h.d, h.u[x], h.n[x])
      /\ g.head = Instead(h.head, r, x, h.n[x])
      /\ g.tail = Instead(h.tail, r, x, h.p[x])
      /\ g.rel = h.rel /\ g.con = h.con /\ g.reg = h.reg /\ g.mem = h.mem
  BY <1>1, <1>2 DEF Heap
<1>4. Stored(g.p, h.p, h.n[x], h.p[x]) /\ Stored(g.u, h.u, h.n[x], h.u[x])
  BY <1>1, <1>3, StoreValue DEF Pointers
<1>5. Stored(g.n, h.n, h.p[x], h.n[x]) /\ Stored(g.d, h.d, h.u[x], h.n[x])
  BY <1>1, <1>3, StoreValue DEF Pointers
<1>6. /\ Replaced(g.head, h.head, r, x, h.n[x])
      /\ Replaced(g.tail, h.tail, r, x, h.p[x])
  BY <1>1, <1>3, InsteadValue DEF Pointers
<1>7. /\ g.n \in [Items -> Ptr] /\ g.p \in [Items -> Ptr]
      /\ g.u \in [Items -> Ptr] /\ g.d \in [Items -> Ptr]
      /\ g.head \in [Rels -> Ptr] /\ g.tail \in [Rels -> Ptr]
  BY <1>4, <1>5, <1>6 DEF Stored, Replaced
<1>8. g = [h EXCEPT !.p = g.p, !.u = g.u, !.n = g.n, !.d = g.d,
                    !.head = g.head, !.tail = g.tail]
  BY <1>1, <1>2 DEF Heap
<1>9. g \in Heap
  BY <1>1, <1>7, <1>8 DEF Heap
<1> QED
  BY <1>3, <1>4, <1>5, <1>6, <1>9 DEF g

LEMMA DeleteGood ==
  ASSUME NEW h, Good(h), NEW x \in Live(h)
  PROVE  Good(Delete(h, x)) /\ Delete(h, x).mem \subseteq h.mem
<1> DEFINE y == h.d[x]
           S == Tree(h, y)
           D == {x} \cup S
           g == Unlink(h, x)
           r == h.rel[x]
<1>1. /\ Pointers(h) /\ Links(h) /\ h \in Heap /\ RefsAgree(h)
      /\ x \in Items /\ r \in Rels /\ Nil \notin Items /\ Nil \notin Rels
  BY PointerAssumption DEF Good, Heap, Pointers, Live
<1>2. y \in Ptr /\ (y # Nil => h.p[y] = Nil /\ h.u[y] = x)
  BY <1>1 DEF Links, DownGood, Pointers
<1>3. /\ S \subseteq Items /\ TreeClosed(h, S)
      /\ y # Nil => y \in S
  BY <1>1, <1>2, TreeLeast
<1>4. \A j \in S : /\ h.p[j] # Nil => h.p[j] \in S
                   /\ h.u[j] # Nil => h.u[j] \in D
  <2> HIDE DEF y
  <2>1. \A j \in Tree(h, y) : /\ h.p[j] # Nil => h.p[j] \in Tree(h, y)
                              /\ h.u[j] # Nil /\ j # y => h.u[j] \in Tree(h, y)
    BY <1>2, TreeEntry
  <2> QED
    BY <2>1, <1>1, <1>2, <1>3
<1>5. Delete(h, x) = Free(g, D)
  BY DEF Delete, Under
<1>6. /\ g \in Heap /\ g.rel = h.rel
      /\ g.con = h.con /\ g.reg = h.reg /\ g.mem = h.mem
      /\ Stored(g.p, h.p, h.n[x], h.p[x]) /\ Stored(g.u, h.u, h.n[x], h.u[x])
      /\ Stored(g.n, h.n, h.p[x], h.n[x]) /\ Stored(g.d, h.d, h.u[x], h.n[x])
      /\ Replaced(g.head, h.head, r, x, h.n[x])
      /\ Replaced(g.tail, h.tail, r, x, h.p[x])
  BY UnlinkValues
<1> HIDE DEF S, y, g
<1>7. LinksOutside(g, D)
  <2>1. \A i \in Items \ D : /\ h.n[i] \notin S /\ h.p[i] \notin S
                           /\ h.u[i] \notin S /\ h.d[i] \notin S
    BY <1>1, <1>3, <1>4 DEF Links, NextGood, PrevGood, DownGood, UpGood,
                            TreeClosed, Pointers, Ptr
  <2> DEFINE a == h.p[x]
             b == h.n[x]
             v == h.u[x]
  <2>2. a \in Ptr /\ b \in Ptr /\ v \in Ptr
    BY <1>1 DEF Pointers
  <2>3. \/ {a, b, v} \subseteq D \cup {Nil}
        \/ a \notin S /\ b \notin S /\ v \notin D /\ (a = x <=> b = x)
    <3>1. CASE x \in S
      BY <3>1, <1>3, <1>4, <2>2 DEF TreeClosed
    <3>2. CASE x \notin S
      <4>1. a \notin S /\ b \notin S /\ v \notin S
        BY <3>2, <1>1, <1>3, <1>4 DEF Links, PrevGood, NextGood, UpGood, TreeClosed
      <4>2. (a = x <=> b = x) /\ v # x
        BY <3>2, <1>1, <1>3 DEF Links, PrevGood, NextGood, UpGood, y
      <4> QED
        BY <4>1, <4>2
    <3> QED
      BY <3>1, <3>2
  <2>4. /\ \A j \in Items : g.p[j] = IF j = b THEN a ELSE h.p[j]
        /\ \A j \in Items : g.u[j] = IF j = b THEN v ELSE h.u[j]
        /\ \A j \in Items : g.n[j] = IF j = a THEN b ELSE h.n[j]
        /\ \A j \in Items : g.d[j] = IF j = v THEN b ELSE h.d[j]
    BY <1>6 DEF Stored
  <2>5. /\ \A q \in Rels : g.head[q] = IF q = r /\ h.head[q] = x THEN b
                                      ELSE h.head[q]
        /\ \A q \in Rels : g.tail[q] = IF q = r /\ h.tail[q] = x THEN a
                                      ELSE h.tail[q]
    BY <1>6 DEF Replaced
  <2>6. /\ b # Nil => h.p[b] = x /\ h.u[b] = Nil /\ h.rel[b] = r
        /\ a # Nil => h.n[a] = x /\ v = Nil /\ h.rel[a] = r
        /\ v # Nil => h.d[v] = x /\ a = Nil /\ h.rel[v] = r
    BY <1>1, <2>2 DEF Links, NextGood, PrevGood, DownGood, UpGood, Ptr
  <2> HIDE DEF a, b, v
  <2>7. ASSUME NEW i \in Items \ D, g.n[i] # Nil
        PROVE  /\ h.rel[i] # Nil /\ h.rel[g.n[i]] = h.rel[i] /\ g.n[i] \notin D
               /\ g.p[g.n[i]] = i /\ g.u[g.n[i]] = Nil
    <3>1. CASE i = a
      BY <3>1, <2>7, <2>2, <2>3, <2>4, <2>6, <1>1 DEF Ptr
    <3>2. CASE i # a
      <4>1. /\ g.n[i] = h.n[i] /\ h.n[i] \in Items /\ h.n[i] \notin S
            /\ h.p[h.n[i]] = i /\ h.u[h.n[i]] = Nil
            /\ h.rel[i] # Nil /\ h.rel[h.n[i]] = h.rel[i]
        BY <3>2, <2>1, <2>4, <2>7, <1>1 DEF Links, NextGood, Pointers, Ptr
      <4>2. h.n[i] # x
        BY <4>1, <3>2 DEF a
      <4>3. h.n[i] # b
        BY <4>1, <2>6, <1>1
      <4> QED
        BY <4>1, <4>2, <4>3, <2>4
    <3> QED
      BY <3>1, <3>2
  <2>8. ASSUME NEW i \in Items \ D, g.p[i] # Nil
        PROVE  /\ h.rel[i] # Nil /\ h.rel[g.p[i]] = h.rel[i] /\ g.p[i] \notin D
               /\ g.n[g.p[i]] = i
    <3>1. CASE i = b
      BY <3>1, <2>8, <2>2, <2>3, <2>4, <2>6, <1>1 DEF Ptr
    <3>2. CASE i # b
      <4>1. /\ g.p[i] = h.p[i] /\ h.p[i] \in Items /\ h.p[i] \notin S
            /\ h.n[h.p[i]] = i /\ h.rel[i] # Nil /\ h.rel[h.p[i]] = h.rel[i]
        BY <3>2, <2>1, <2>4, <2>8, <1>1 DEF Links, PrevGood, Pointers, Ptr
      <4>2. h.p[i] # x
        BY <4>1, <3>2 DEF b
      <4>3. h.p[i] # a
        BY <4>1, <2>6, <1>1
      <4> QED
        BY <4>1, <4>2, <4>3, <2>4
    <3> QED
      BY <3>1, <3>2
  <2>9. ASSUME NEW i \in Items \ D, g.d[i] # Nil
        PROVE  /\ h.rel[i] # Nil /\ h.rel[g.d[i]] = h.rel[i] /\ g.d[i] \notin D
               /\ g.u[g.d[i]] = i /\ g.p[g.d[i]] = Nil
    <3>1. CASE i = v
      BY <3>1, <2>9, <2>2, <2>3, <2>4, <2>6, <1>1 DEF Ptr
    <3>2. CASE i # v
      <4>1. /\ g.d[i] = h.d[i] /\ h.d[i] \in Items /\ h.d[i] \notin S
            /\ h.u[h.d[i]] = i /\ h.p[h.d[i]] = Nil
            /\ h.rel[i] # Nil /\ h.rel[h.d[i]] = h.rel[i]
        BY <3>2, <2>1, <2>4, <2>9, <1>1 DEF Links, DownGood, Pointers, Ptr
      <4>2. h.d[i] # x
        BY <4>1, <3>2 DEF v
      <4>3. h.d[i] # b
        BY <4>1, <2>6, <1>1
      <4> QED
        BY <4>1, <4>2, <4>3, <2>4
    <3> QED
      BY <3>1, <3>2
  <2>10. ASSUME NEW i \in Items \ D, g.u[i] # Nil
         PROVE  /\ h.rel[i] # Nil /\ h.rel[g.u[i]] = h.rel[i] /\ g.u[i] \notin D
                /\ g.d[g.u[i]] = i
    <3>1. CASE i = b
      BY <3>1, <2>10, <2>2, <2>3, <2>4, <2>6, <1>1 DEF Ptr
    <3>2. CASE i # b
      <4>1. /\ g.u[i] = h.u[i] /\ h.u[i] \in Items /\ h.u[i] \notin S
            /\ h.d[h.u[i]] = i /\ h.rel[i] # Nil /\ h.rel[h.u[i]] = h.rel[i]
        BY <3>2, <2>1, <2>4, <2>10, <1>1 DEF Links, UpGood, Pointers, Ptr
      <4>2. h.u[i] # x
        BY <4>1, <1>3, <1>1 DEF y, Pointers, Ptr
      <4>3. h.u[i] # v
        BY <4>1, <2>6, <1>1
      <4> QED
        BY <4>1, <4>2, <4>3, <2>4
    <3> QED
      BY <3>1, <3>2
  <2>11. ASSUME NEW q \in Rels
         PROVE  /\ g.head[q] \notin D \cup {Nil} =>
                     /\ h.rel[g.head[q]] = q
                     /\ g.p[g.head[q]] = Nil /\ g.u[g.head[q]] = Nil
                /\ g.tail[q] \notin D \cup {Nil} =>
                     h.rel[g.tail[q]] = q /\ g.n[g.tail[q]] = Nil
    <3>1. /\ h.head[q] # Nil => /\ h.head[q] \in Items /\ h.rel[h.head[q]] = q
                                /\ h.p[h.head[q]] = Nil /\ h.u[h.head[q]] = Nil
          /\ h.tail[q] # Nil => /\ h.tail[q] \in Items /\ h.rel[h.tail[q]] = q
                                /\ h.n[h.tail[q]] = Nil
      BY <1>1 DEF Links, EndsGood, Pointers, Ptr
    <3>2. ASSUME g.head[q] \notin D \cup {Nil}
          PROVE  /\ h.rel[g.head[q]] = q
                 /\ g.p[g.head[q]] = Nil /\ g.u[g.head[q]] = Nil
      <4>1. CASE q = r /\ h.head[q] = x
        BY <4>1, <3>1, <3>2, <2>2, <2>4, <2>5, <2>6, <1>1 DEF a, v, Ptr
      <4>2. CASE ~(q = r /\ h.head[q] = x)
        <5>1. g.head[q] = h.head[q] /\ h.head[q] # b
          BY <4>2, <3>1, <3>2, <2>5, <2>6, <1>1
        <5> QED
          BY <5>1, <3>1, <3>2, <2>4
      <4> QED
        BY <4>1, <4>2
    <3>3. ASSUME g.tail[q] \notin D \cup {Nil}
          PROVE  h.rel[g.tail[q]] = q /\ g.n[g.tail[q]] = Nil
      <4>1. CASE q = r /\ h.tail[q] = x
        BY <4>1, <3>1, <3>3, <2>2, <2>4, <2>5, <2>6, <1>1 DEF b, Ptr
      <4>2. CASE ~(q = r /\ h.tail[q] = x)
        <5>1. g.tail[q] = h.tail[q] /\ h.tail[q] # a
          BY <4>2, <3>1, <3>3, <2>5, <2>6, <1>1
        <5> QED
          BY <5>1, <3>1, <3>3, <2>4
      <4> QED
        BY <4>1, <4>2
    <3> QED
      BY <3>2, <3>3
  <2> HIDE DEF D
  <2> QED
    BY <1>6, <2>7, <2>8, <2>9, <2>10, <2>11, SMTT(30) DEF LinksOutside
<1>8. RefsAgree(g)
  BY <1>1, <1>6, RefsOnly
<1>9. D \in SUBSET Items
  BY <1>1, <1>3
<1> HIDE DEF D
<1>10. Good(Free(g, D)) /\ Free(g, D).mem \subseteq g.mem
  BY <1>6, <1>7, <1>8, <1>9, FreeGood
<1> QED
  BY <1>5, <1>6, <1>10 
-----------------------------------------------------------------------------
(* The calls that are made of several operators.                           *)

LEMMA SparesDrop ==
  ASSUME NEW g, g \in Heap, NEW h, h \in Heap, NEW x \in Contents,
         g.mem \subseteq h.mem \cup {x}, NEW j \in Nat, NEW k \in Nat, j = k + 1,
         Spares(h, j)
  PROVE  Spares(g, k)
<1>1. g.mem \subseteq Contents /\ h.mem \subseteq Contents
  BY DEF Heap
<1>2. Cardinality(Contents \ h.mem) >= k + 1
  BY DEF Spares
<1> QED
  BY <1>1, <1>2, SpareStep DEF Spares

LEMMA SparesFewer ==
  ASSUME NEW h, NEW j \in Nat, NEW k \in Nat, k <= j, Spares(h, j)
  PROVE  Spares(h, k)
<1>1. Cardinality(Contents \ h.mem) \in Nat
  BY PointerAssumption, FS_Subset, FS_CardinalityType
<1> QED
  BY <1>1 DEF Spares

LEMMA SettledGood ==
  ASSUME NEW h, Links(h), NEW g, Settled(g, h)
  PROVE  Good(g)
BY DEF Settled, SameLinks, Good, Links, NextGood, PrevGood, DownGood, UpGood,
       EndsGood

-----------------------------------------------------------------------------
(* Items that share their contents with no other item.                     *)

Alone(h, j) == \A i \in Items : h.con[i] = h.con[j] => i = j

(* From h to g nothing has been done to j's contents, and no item has come *)
(* to share them.                                                          *)
Kept(g, h, j) ==
  /\ g.con[j] = h.con[j]
  /\ \A i \in Items : g.con[i] = h.con[j] => h.con[i] = h.con[j]
  /\ h.con[j] \in h.mem => h.con[j] \in g.mem

LEMMA KeptTwice ==
  ASSUME NEW f, NEW g, NEW h, NEW j, Kept(f, g, j), Kept(g, h, j)
  PROVE  Kept(f, h, j)
BY DEF Kept

LEMMA KeptAlone ==
  ASSUME NEW g, NEW h, NEW j, Kept(g, h, j), Alone(h, j)
  PROVE  Alone(g, j)
BY DEF Kept, Alone

LEMMA SameKept ==
  ASSUME NEW g, NEW h, NEW j, g.con = h.con, g.mem = h.mem
  PROVE  Kept(g, h, j)
BY DEF Kept

LEMMA UnrefKeeps ==
  ASSUME NEW h, h \in Heap, NEW i \in Items, NEW j \in Items,
         h.con[j] # Nil, h.con[i] # h.con[j]
  PROVE  Kept(Unref(h, i), h, j)
<1> DEFINE c == h.con[i]
           b == [h EXCEPT !.reg[c][h.rel[i]] = Nil, !.con[i] = Nil]
           g == Unref(h, i)
<1>1. CASE c = Nil
  <2>1. g = h
    BY <1>1 DEF Unref
  <2> QED
    BY <2>1 DEF Kept
<1>2. CASE c # Nil
  <2>1. /\ b.con = [h.con EXCEPT ![i] = Nil] /\ b.mem = h.mem /\ DOMAIN b = DOMAIN h
        /\ "mem" \in DOMAIN b /\ "con" \in DOMAIN b
    BY DEF Heap
  <2>2. g = [b EXCEPT !.mem = IF b.reg[c] = NoRef THEN @ \ {c} ELSE @]
    BY <1>2 DEF Unref
  <2> HIDE DEF b
  <2>3. g.con = b.con /\ g.mem \in {b.mem, b.mem \ {c}}
    BY <2>1, <2>2
  <2> HIDE DEF g
  <2>4. \A k \in Items : g.con[k] = IF k = i THEN Nil ELSE h.con[k]
    BY <2>1, <2>3 DEF Heap
  <2>5. h.con[j] # c /\ i # j
    OBVIOUS
  <2> HIDE DEF c
  <2> QED
    BY <2>1, <2>3, <2>4, <2>5 DEF Kept, g
<1> QED
  BY <1>1, <1>2

LEMMA RegisterKeeps ==
  ASSUME NEW h, h \in Heap, NEW i \in Items, NEW j \in Items, i # j,
         NEW c \in Contents, c # h.con[j]
  PROVE  Kept(Register(h, i, c), h, j)
<1> DEFINE g == Register(h, i, c)
<1>1. g.con = [h.con EXCEPT ![i] = c] /\ g.mem = h.mem \cup {c}
  BY DEF Register, Heap
<1> HIDE DEF g
<1>2. Kept(g, h, j)
  BY <1>1 DEF Kept, Heap
<1> QED
  BY <1>2 DEF g

LEMMA SetContentsKeeps ==
  ASSUME NEW h, h \in Heap, Spares(h, 1),
         NEW i \in Items, h.rel[i] \in Rels,
         NEW c \in Contents, c \in h.mem,
         NEW x \in {Nil, i}, NEW k \in {Nil, c}, RefsLoose(h, x, k),
         NEW j \in Items, h.con[j] \in h.mem,
         h.con[i] # h.con[j], c # h.con[j]
  PROVE  Kept(SetContents(h, i, c), h, j)
<1> DEFINE g  == Unref(h, i)
           r  == h.rel[i]
           nn == g.reg[c][g.rel[i]]
           f  == NewContent(g)
<1>0. h.con[j] # Nil
  BY PointerAssumption DEF Heap
<1>1. CASE h.con[i] = c
  <2>1. SetContents(h, i, c) = h
    BY <1>1 DEF SetContents
  <2> QED
    BY <2>1 DEF Kept
<1>2. CASE h.con[i] # c
  <2>1. /\ g \in Heap /\ SameLinks(g, h) /\ g.mem \subseteq h.mem
        /\ RefsLoose(g, i, k)
    BY <1>2, UnrefLoose
  <2>2. Kept(g, h, j)
    BY <1>0, UnrefKeeps
  <2>3. Spares(g, 1)
    <3>1. IsFiniteSet(Contents \ g.mem) /\ IsFiniteSet(Contents \ h.mem)
      BY PointerAssumption, FS_Subset
    <3>2. Contents \ h.mem \subseteq Contents \ g.mem
      BY <2>1
    <3>3. Cardinality(Contents \ h.mem) <= Cardinality(Contents \ g.mem)
          /\ Cardinality(Contents \ h.mem) \in Nat
          /\ Cardinality(Contents \ g.mem) \in Nat
      BY <3>1, <3>2, FS_Subset, FS_CardinalityType
    <3> QED
      BY <3>3 DEF Spares
  <2>4. i # j
    OBVIOUS
  <2> HIDE DEF g
  <2>5. g.con[j] = h.con[j] /\ g.rel[i] \in Rels
    BY <2>1, <2>2 DEF Kept, SameLinks
  <2>6. CASE nn = Nil
    <3>1. SetContents(h, i, c) = Register(g, i, c)
      BY <1>2, <2>6 DEF SetContents, g
    <3>2. Kept(Register(g, i, c), g, j)
      BY <2>1, <2>4, <2>5, RegisterKeeps
    <3> QED
      BY <2>2, <3>1, <3>2, KeptTwice
  <2>7. CASE nn # Nil
    <3>1. SetContents(h, i, c) = Register(Register(g, nn, f), i, c)
      BY <1>2, <2>7 DEF SetContents, g
    <3>2. f \in Contents /\ f \notin g.mem
      BY <2>1, <2>3, FreshContent
    <3>3. nn \in Items /\ g.con[nn] = c /\ g.rel[nn] = g.rel[i]
      BY <2>1, <2>5, <2>7 DEF Heap, Ptr, RefsLoose
    <3> HIDE DEF f, nn
    <3>4. f # g.con[j] /\ nn # j
      BY <2>2, <2>5, <3>2, <3>3 DEF Kept
    <3>5. Kept(Register(g, nn, f), g, j)
      BY <2>1, <3>2, <3>3, <3>4, RegisterKeeps
    <3>6. Register(g, nn, f) \in Heap
      BY <2>1, <2>5, <3>2, <3>3, RegisterHeap
    <3> DEFINE b == Register(g, nn, f)
    <3> HIDE DEF b
    <3>7. b.con[j] = h.con[j]
      BY <2>5, <3>5 DEF Kept, b
    <3>8. Kept(Register(b, i, c), b, j)
      BY <2>4, <3>6, <3>7, RegisterKeeps DEF b
    <3> QED
      BY <2>2, <3>1, <3>5, <3>8, KeptTwice DEF b
  <2> QED
    BY <2>6, <2>7
<1> QED
  BY <1>1, <1>2

LEMMA SetEmptyKeeps ==
  ASSUME NEW h, h \in Heap, Spares(h, 1),
         NEW i \in Items, h.rel[i] \in Rels,
         NEW x \in {Nil, i}, RefsLoose(h, x, Nil),
         NEW j \in Items, h.con[j] \in h.mem, h.con[i] # h.con[j]
  PROVE  Kept(SetEmpty(h, i), h, j)
<1> DEFINE g == Unref(h, i)
           f == NewContent(h)
<1>1. h.con[j] # Nil
  BY PointerAssumption DEF Heap
<1>2. g \in Heap /\ Kept(g, h, j)
  BY <1>1, UnrefLoose, UnrefKeeps
<1>3. f \in Contents /\ f # h.con[j] /\ i # j
  BY FreshContent
<1>4. SetEmpty(h, i) = Register(g, i, f)
  BY DEF SetEmpty
<1> HIDE DEF g, f
<1>5. Kept(Register(g, i, f), g, j)
  BY <1>2, <1>3, RegisterKeeps DEF Kept
<1> QED
  BY <1>2, <1>4, <1>5, KeptTwice

LEMMA GrabContentsKeeps ==
  ASSUME NEW h, h \in Heap, Spares(h, 1), NEW i \in Items,
         NEW j \in Items, h.con[j] \in h.mem, i # j,
         h.con[i] \in Contents, h.rel[i] \in Rels
  PROVE  Kept(GrabContents(h, i), h, j)
<1> DEFINE b == [h EXCEPT !.reg[h.con[i]][h.rel[i]] = Nil, !.con[i] = Nil]
           f == NewContent(b)
<1>0. h.con[j] # Nil
  BY PointerAssumption DEF Heap
<1>1. b \in Heap /\ b.con = [h.con EXCEPT ![i] = Nil] /\ b.mem = h.mem
  BY DEF Heap, Ptr
<1>2. GrabContents(h, i) = Register(b, i, f)
  BY DEF GrabContents
<1> HIDE DEF b
<1>3. Kept(b, h, j)
  BY <1>0, <1>1 DEF Kept, Heap
<1>4. f \in Contents /\ f # b.con[j]
  <2>1. Spares(b, 1)
    BY <1>1 DEF Spares
  <2>2. f \in Contents /\ f \notin b.mem
    BY <1>1, <2>1, FreshContent
  <2> QED
    BY <1>1, <1>3, <2>2 DEF Kept
<1> HIDE DEF f
<1>5. Kept(Register(b, i, f), b, j)
  BY <1>1, <1>4, RegisterKeeps
<1> QED
  BY <1>2, <1>3, <1>5, KeptTwice

(* The contents that a live item shows are allocated. *)
LEMMA ShownAllocated ==
  ASSUME NEW h, h \in Heap, NEW x \in Items \cup {Nil}, NEW f \in Contents \cup {Nil},
         RefsLoose(h, x, f), NEW j \in Items, h.con[j] # Nil
  PROVE  h.con[j] \in h.mem
<1>1. h.rel[j] # Nil /\ j # x /\ h.con[j] \in Contents
      /\ h.reg[h.con[j]][h.rel[j]] = j /\ h.rel[j] \in Rels /\ j # Nil
  BY PointerAssumption DEF RefsLoose, Heap
<1>2. CASE h.con[j] = f
  BY <1>1, <1>2 DEF RefsLoose
<1>3. CASE h.con[j] # f
  <2>1. h.reg[h.con[j]] # NoRef
    BY <1>1 DEF NoRef
  <2> QED
    BY <1>1, <1>3, <2>1 DEF RefsLoose
<1> QED
  BY <1>2, <1>3

LEMMA LiveContents ==
  ASSUME NEW h, h \in Heap, RefsAgree(h), NEW j \in Live(h)
  PROVE  /\ j \in Items /\ h.rel[j] \in Rels /\ h.con[j] \in Contents
         /\ h.con[j] \in h.mem /\ h.reg[h.con[j]][h.rel[j]] = j
<1>1. /\ j \in Items /\ h.rel[j] \in Rels /\ h.con[j] \in Contents
      /\ h.reg[h.con[j]][h.rel[j]] = j
  BY DEF Live, RefsAgree, Heap
<1>2. h.con[j] \in h.mem
  BY <1>1, LooseIsAgree, ShownAllocated, PointerAssumption
<1> QED
  BY <1>1, <1>2

(* An item that is given contents its relation has shown in another item   *)
(* leaves that one new contents of its own.                                *)
LEMMA SetContentsSteals ==
  ASSUME NEW h, h \in Heap, Spares(h, 1),
         NEW i \in Items, h.rel[i] \in Rels,
         NEW c \in Contents, c \in h.mem, h.con[i] # c,
         NEW x \in {Nil, i}, NEW k \in {Nil, c}, RefsLoose(h, x, k),
         h.reg[c][h.rel[i]] # Nil
  PROVE  Alone(SetContents(h, i, c), h.reg[c][h.rel[i]])
<1> DEFINE g  == Unref(h, i)
           nn == h.reg[c][h.rel[i]]
           f  == NewContent(g)
<1>1. /\ g \in Heap /\ SameLinks(g, h) /\ g.mem \subseteq h.mem
      /\ RefsLoose(g, i, k)
  BY UnrefLoose
<1>2. Spares(g, 1)
  <2>1. IsFiniteSet(Contents \ g.mem) /\ IsFiniteSet(Contents \ h.mem)
    BY PointerAssumption, FS_Subset
  <2>2. Contents \ h.mem \subseteq Contents \ g.mem
    BY <1>1
  <2>3. Cardinality(Contents \ h.mem) <= Cardinality(Contents \ g.mem)
        /\ Cardinality(Contents \ h.mem) \in Nat
        /\ Cardinality(Contents \ g.mem) \in Nat
    BY <2>1, <2>2, FS_Subset, FS_CardinalityType
  <2> QED
    BY <2>3 DEF Spares
<1>3. g.reg[c] = h.reg[c]
  <2>1. CASE h.con[i] = Nil
    BY <2>1 DEF Unref
  <2>2. CASE h.con[i] # Nil
    <3> DEFINE b == [h EXCEPT !.reg[h.con[i]][h.rel[i]] = Nil, !.con[i] = Nil]
    <3>1. b.reg[c] = h.reg[c] /\ "reg" \in DOMAIN b
      BY DEF Heap
    <3>2. g = [b EXCEPT !.mem = IF b.reg[h.con[i]] = NoRef
                                THEN @ \ {h.con[i]} ELSE @]
      BY <2>2 DEF Unref
    <3> HIDE DEF b
    <3> QED
      BY <3>1, <3>2
  <2> QED
    BY <2>1, <2>2
<1> HIDE DEF g
<1>4. g.rel[i] = h.rel[i] /\ g.reg[c][h.rel[i]] = nn /\ nn \in Items
      /\ g.con[nn] = c /\ g.con[i] = Nil /\ g.rel[nn] = h.rel[i]
  BY <1>1, <1>3 DEF SameLinks, Heap, Ptr, RefsLoose
<1>5. f \in Contents /\ f \notin g.mem
  BY <1>1, <1>2, FreshContent
<1>6. SetContents(h, i, c) = Register(Register(g, nn, f), i, c)
  BY <1>4 DEF SetContents, g
<1>7. c # Nil /\ i # Nil
  BY PointerAssumption
<1> HIDE DEF f, nn
<1> DEFINE b == Register(g, nn, f)
           e == Register(b, i, c)
<1>8. b.con = [g.con EXCEPT ![nn] = f] /\ b \in Heap
  <2>1. b \in Heap
    BY <1>1, <1>4, <1>5, RegisterHeap
  <2>2. b.con = [g.con EXCEPT ![nn] = f]
    BY <1>1 DEF Register, Heap
  <2> QED
    BY <2>1, <2>2
<1> HIDE DEF b
<1>9. e.con = [b.con EXCEPT ![i] = c]
  BY <1>8 DEF Register, Heap
<1>10. \A a \in Items : e.con[a] = IF a = i THEN c ELSE IF a = nn THEN f ELSE g.con[a]
  BY <1>1, <1>8, <1>9 DEF Heap
<1>11. \A a \in Items : g.con[a] # Nil => g.con[a] \in g.mem
  BY <1>1, ShownAllocated
<1>12. f # c /\ f # Nil /\ nn # i
  BY <1>4, <1>5, <1>7, <1>11, PointerAssumption
<1> HIDE DEF e
<1>13. e.con[nn] = f
  BY <1>4, <1>10, <1>12
<1>14. ASSUME NEW a \in Items, e.con[a] = f PROVE a = nn
  BY <1>5, <1>10, <1>11, <1>12, <1>14
<1>15. Alone(e, nn)
  BY <1>13, <1>14 DEF Alone
<1> QED
  BY <1>6, <1>15 DEF e, b, nn

LEMMA NewItemKeeps ==
  ASSUME NEW h, h \in Heap, RefsAgree(h), Spares(h, 1), Live(h) # Items,
         NEW r \in Rels, NEW si \in Live(h) \cup {Nil}, NEW j \in Live(h)
  PROVE  /\ si = Nil \/ h.con[si] # h.con[j] => Kept(NewItem(h, r, si), h, j)
         /\ si # Nil /\ h.rel[si] = r => Alone(NewItem(h, r, si), si)
<1> DEFINE i == NewSlot(h)
           g == [h EXCEPT !.rel[i] = r]
           c == h.con[si]
<1>1. /\ i \in Items /\ h.rel[i] = Nil /\ h.con[i] = Nil
      /\ j \in Items /\ h.con[j] \in h.mem /\ h.con[j] # Nil
  BY FreshSlot, LiveContents, PointerAssumption DEF RefsAgree
<1>2. NewItem(h, r, si) = IF si = Nil THEN SetEmpty(g, i) ELSE SetContents(g, i, c)
  BY DEF NewItem
<1> HIDE DEF i
<1>3. /\ g \in Heap /\ g.rel = [h.rel EXCEPT ![i] = r]
      /\ g.con = h.con /\ g.reg = h.reg /\ g.mem = h.mem
  BY <1>1 DEF Heap
<1>4. g.rel[i] = r /\ \A a \in Items : a # i => g.rel[a] = h.rel[a]
  BY <1>1, <1>3 DEF Heap
<1> HIDE DEF g
<1>5. RefsLoose(g, i, Nil)
  <2>1. RefsLoose(h, Nil, Nil)
    BY LooseIsAgree
  <2>2. ASSUME NEW a \in Items
        PROVE  IF g.rel[a] = Nil \/ a = i THEN g.con[a] = Nil
               ELSE g.con[a] # Nil /\ g.reg[g.con[a]][g.rel[a]] = a
    BY <2>1, <1>1, <1>3, <1>4, PointerAssumption DEF RefsLoose
  <2>3. ASSUME NEW a \in Contents, NEW q \in Rels, g.reg[a][q] # Nil
        PROVE  g.con[g.reg[a][q]] = a /\ g.rel[g.reg[a][q]] = q
    <3>1. g.reg[a][q] \in Items /\ h.rel[g.reg[a][q]] = q /\ q # Nil
          /\ h.con[g.reg[a][q]] = a
      BY <2>1, <2>3, <1>3, PointerAssumption DEF RefsLoose, Heap, Ptr
    <3> QED
      BY <3>1, <1>1, <1>3, <1>4
  <2> QED
    BY <2>1, <2>2, <2>3, <1>3 DEF RefsLoose
<1>6. Spares(g, 1)
  BY <1>3 DEF Spares
<1>7. Kept(g, h, j)
  BY <1>3, SameKept
<1>8. CASE si = Nil
  <2>1. Kept(SetEmpty(g, i), g, j)
    BY <1>1, <1>3, <1>4, <1>5, <1>6, SetEmptyKeeps
  <2> QED
    BY <1>2, <1>7, <1>8, <2>1, KeptTwice
<1>9. CASE si # Nil
  <2>1. si \in Live(h)
    BY <1>9
  <2>2. c \in Contents /\ c \in h.mem /\ h.reg[c][h.rel[si]] = si /\ si # Nil /\ c # Nil
    BY <2>1, <1>9, LiveContents, PointerAssumption
  <2> HIDE DEF c
  <2>3. ASSUME c # h.con[j] PROVE Kept(NewItem(h, r, si), h, j)
    <3>1. Kept(SetContents(g, i, c), g, j)
      BY <1>1, <1>3, <1>4, <1>5, <1>6, <2>2, <2>3, SetContentsKeeps
    <3> QED
      BY <1>2, <1>7, <1>9, <3>1, KeptTwice
  <2>4. ASSUME h.rel[si] = r PROVE Alone(NewItem(h, r, si), si)
    <3>1. g.reg[c][g.rel[i]] = si
      BY <1>3, <1>4, <2>2, <2>4
    <3>2. Alone(SetContents(g, i, c), si)
      BY <1>1, <1>3, <1>4, <1>5, <1>6, <2>2, <3>1, SetContentsSteals
    <3> QED
      BY <1>2, <1>9, <3>2
  <2> QED
    BY <1>9, <2>3, <2>4 DEF c
<1> QED
  BY <1>8, <1>9

(* Inserting an item links it, and leaves the contents as its making has.  *)
Entered(g, h, r, si) ==
  LET k == NewItem(h, r, si) IN g.con = k.con /\ g.mem = k.mem

LEMMA InsertsEnter ==
  ASSUME NEW h, Good(h), Spares(h, 1), Live(h) # Items,
         NEW r \in Rels, NEW si \in Live(h) \cup {Nil}, NEW t
  PROVE  /\ Entered(OnlyItem(h, r, si), h, r, si)
         /\ h.rel[t] = r => /\ Entered(InsertAfter(h, t, si), h, r, si)
                            /\ Entered(InsertBefore(h, t, si), h, r, si)
                            /\ Entered(InsertBelow(h, t, si), h, r, si)
                            /\ Entered(InsertAbove(h, t, si), h, r, si)
<1> DEFINE k == NewItem(h, r, si)
<1>1. k \in Heap
  BY NewItemCreates DEF Good, Created
<1> HIDE DEF k
<1>2. Entered(OnlyItem(h, r, si), h, r, si)
  BY <1>1 DEF Heap, Entered, OnlyItem, k
<1>3. ASSUME h.rel[t] = r
      PROVE  /\ Entered(InsertAfter(h, t, si), h, r, si)
             /\ Entered(InsertBefore(h, t, si), h, r, si)
             /\ Entered(InsertBelow(h, t, si), h, r, si)
             /\ Entered(InsertAbove(h, t, si), h, r, si)
  <2>1. Entered(InsertAfter(h, t, si), h, r, si)
    BY <1>1, <1>3 DEF Heap, Entered, InsertAfter, k
  <2>2. Entered(InsertBefore(h, t, si), h, r, si)
    BY <1>1, <1>3 DEF Heap, Entered, InsertBefore, k
  <2>3. Entered(InsertBelow(h, t, si), h, r, si)
    BY <1>1, <1>3 DEF Heap, Entered, InsertBelow, k
  <2>4. Entered(InsertAbove(h, t, si), h, r, si)
    BY <1>1, <1>3 DEF Heap, Entered, InsertAbove, k
  <2> QED
    BY <2>1, <2>2, <2>3, <2>4
<1> QED
  BY <1>2, <1>3

LEMMA EnteredKeeps ==
  ASSUME NEW h, Good(h), Spares(h, 1), Live(h) # Items,
         NEW r \in Rels, NEW si \in Live(h) \cup {Nil}, NEW j \in Live(h),
         NEW g, Entered(g, h, r, si)
  PROVE  /\ si = Nil \/ h.con[si] # h.con[j] => Kept(g, h, j)
         /\ si # Nil /\ h.rel[si] = r => Alone(g, si)
BY NewItemKeeps DEF Good, Entered, Kept, Alone
-----------------------------------------------------------------------------
(* Calls that are made of several operators.                               *)

LEMMA InsertParentGood ==
  ASSUME NEW h, Good(h), Spares(h, 5), Live(h) # Items,
         NEW t \in Live(h), NEW si \in Live(h) \cup {Nil}
  PROVE  /\ Good(InsertParent(h, t, si))
         /\ SameLinks(InsertParent(h, t, si), InsertBelow(h, t, Nil))
         /\ \A j \in Live(h) :
              h.con[t] # h.con[j] /\ (si = Nil \/ h.con[si] # h.con[j])
                => Kept(InsertParent(h, t, si), h, j)
<1> DEFINE r  == h.rel[t]
           i  == NewSlot(h)
           a  == InsertBelow(h, t, Nil)
           c  == a.con[t]
           a1 == GrabContents(a, t)
           b  == SetContents(a1, i, c)
           f  == b.con[si]
           b1 == GrabContents(b, si)
<1>1. /\ t \in Items /\ r \in Rels /\ i \in Items /\ t # i
      /\ Nil \notin Items /\ Nil \notin Rels
  BY Setting DEF Fresh
<1>2. Inserted(a, h, r) /\ a.d[t] = i
  BY SparesFewer, InsertBelowGood
<1>3. InsertParent(h, t, si) = IF si = Nil THEN SetEmpty(b, t)
                               ELSE SetContents(b1, t, f)
  BY <1>2 DEF InsertParent
<1> DEFINE Other(j) == /\ j \in Live(h) /\ h.con[t] # h.con[j]
                       /\ si = Nil \/ h.con[si] # h.con[j]
<1>4. ASSUME NEW j, Other(j)
       PROVE  /\ Kept(a, h, j) /\ h.con[i] # h.con[j] /\ j \in Items /\ j # t
              /\ h.con[j] \in h.mem /\ a.con[t] # h.con[j] /\ (si # Nil => si # j)
  <2>1. /\ j \in Items /\ h.con[j] \in h.mem /\ h.con[j] # Nil /\ h.con[i] = Nil
    BY <1>4, FreshSlot, LiveContents, PointerAssumption DEF Good, RefsAgree
  <2>2. Kept(a, h, j)
    <3>1. Spares(h, 1) /\ r \in Rels /\ h.rel[t] = r
      BY <1>1, SparesFewer
    <3> HIDE DEF r
    <3>2. Entered(a, h, r, Nil)
      BY <3>1, InsertsEnter
    <3> QED
      BY <1>4, <3>1, <3>2, EnteredKeeps
  <2>3. a.con[t] # h.con[j]
    BY <1>1, <1>4, <2>2 DEF Kept
  <2> QED
    BY <1>4, <2>1, <2>2, <2>3
<1> HIDE DEF a, i, r, Other
<1>5. Good(a) /\ a.rel[t] = r /\ a.rel[i] = r /\ Spares(a, 4)
  <2>1. Good(a) /\ a.rel = [h.rel EXCEPT ![i] = r]
    BY <1>2 DEF Inserted, i
  <2>2. Spares(a, 4)
    BY <1>2, <2>1, SparesDrop DEF Inserted, Good
  <2> QED
    BY <1>1, <2>1, <2>2 DEF Good, Heap, r
<1>6. /\ a1 \in Heap /\ SameLinks(a1, a) /\ RefsLoose(a1, Nil, c)
      /\ c \in Contents /\ c \in a1.mem /\ Spares(a1, 3)
  <2>1. /\ a1 \in Heap /\ SameLinks(a1, a) /\ RefsLoose(a1, Nil, a.con[t])
        /\ a.con[t] \in Contents /\ a.con[t] \in a1.mem
        /\ \E x \in Contents : a1.mem \subseteq a.mem \cup {x}
    BY <1>1, <1>5, SparesFewer, GrabContentsFloats DEF Good
  <2> HIDE DEF a1
  <2>2. Spares(a1, 3)
    BY <1>5, <2>1, SparesDrop DEF Good
  <2> QED
    BY <2>1, <2>2
<1>7. ASSUME NEW j, Other(j) PROVE Kept(a1, h, j) /\ c # h.con[j]
  <2>1. Kept(a, h, j) /\ a.con[j] = h.con[j] /\ a.con[j] \in a.mem
    BY <1>4, <1>7 DEF Kept
  <2>2. Kept(a1, a, j)
    BY <1>1, <1>5, <1>6, <1>4, <1>7, <2>1, SparesFewer, GrabContentsKeeps DEF Good
  <2> QED
    BY <1>4, <1>7, <2>1, <2>2, KeptTwice
<1> HIDE DEF a1, c
<1>8. Settled(b, a1)
  <2>1. a1.rel[i] \in Rels /\ Spares(a1, 1)
    BY <1>1, <1>5, <1>6, SparesFewer DEF SameLinks
  <2> QED
    BY <1>1, <1>6, <2>1, SetContentsSettles
<1>9. ASSUME NEW j, Other(j) PROVE Kept(b, h, j)
  <2>1. a1.con[i] # h.con[j] /\ a1.con[j] = h.con[j] /\ a1.con[j] \in a1.mem
    BY <1>1, <1>4, <1>7, <1>9 DEF Kept
  <2>2. a1.rel[i] \in Rels /\ Spares(a1, 1)
    BY <1>1, <1>5, <1>6, SparesFewer DEF SameLinks
  <2>3. Kept(b, a1, j)
    BY <1>1, <1>6, <1>4, <1>7, <1>9, <2>1, <2>2, SetContentsKeeps
  <2> QED
    BY <1>7, <1>9, <2>3, KeptTwice
<1> HIDE DEF b
<1>10. ASSUME NEW j, Other(j)
       PROVE  /\ b.con[j] = h.con[j] /\ b.con[j] \in b.mem
              /\ b.con[t] # b.con[j] /\ (si # Nil => b.con[si] # b.con[j])
  <2>1. si # Nil => si \in Items
    BY DEF Live
  <2> QED
    BY <1>1, <1>4, <1>9, <1>10, <2>1 DEF Kept, Other
<1>11. Good(b) /\ SameLinks(b, a) /\ b.rel = a.rel /\ Spares(b, 2)
  <2>1. Links(a1)
    BY <1>5, <1>6 DEF SameLinks, Good, Links, NextGood, PrevGood, DownGood,
                      UpGood, EndsGood
  <2>2. Good(b)
    BY <1>8, <2>1, SettledGood
  <2>3. Spares(b, 2)
    BY <1>6, <1>8, SparesDrop DEF Settled
  <2> QED
    BY <1>6, <1>8, <2>2, <2>3 DEF Settled, SameLinks
<1>12. CASE si = Nil
  <2>1. RefsLoose(b, Nil, Nil) /\ b \in Heap /\ Spares(b, 1) /\ Links(b)
    BY <1>11, LooseIsAgree, SparesFewer DEF Good
  <2>2. b.rel[t] \in Rels
    BY <1>1, <1>5, <1>11
  <2>3. Settled(SetEmpty(b, t), b)
    BY <1>1, <2>1, <2>2, SetEmptySettles
  <2>4. ASSUME NEW j, Other(j) PROVE Kept(SetEmpty(b, t), h, j)
    <3>1. Kept(SetEmpty(b, t), b, j)
      BY <1>1, <1>4, <1>10, <2>1, <2>2, <2>4, SetEmptyKeeps
    <3> QED
      BY <1>9, <2>4, <3>1, KeptTwice
  <2> QED
    BY <1>3, <1>11, <1>12, <2>1, <2>3, <2>4, SettledGood
    DEF Settled, SameLinks, a, Other
<1>13. CASE si # Nil
  <2>1. si \in Items /\ b.rel[si] \in Rels /\ b.rel[t] \in Rels
    <3>1. si \in Items /\ h.rel[si] \in Rels
      BY <1>13 DEF Live, Good, Heap
    <3>2. a.rel = [h.rel EXCEPT ![i] = r]
      BY <1>2 DEF Inserted, i
    <3> QED
      BY <1>1, <1>5, <1>11, <3>1, <3>2 DEF Good, Heap
  <2>2. /\ b1 \in Heap /\ SameLinks(b1, b) /\ RefsLoose(b1, Nil, f)
        /\ f \in Contents /\ f \in b1.mem /\ Spares(b1, 1)
    <3>1. /\ b1 \in Heap /\ SameLinks(b1, b) /\ RefsLoose(b1, Nil, b.con[si])
          /\ b.con[si] \in Contents /\ b.con[si] \in b1.mem
          /\ \E x \in Contents : b1.mem \subseteq b.mem \cup {x}
      BY <1>11, <2>1, SparesFewer, GrabContentsFloats DEF Good
    <3> HIDE DEF b1
    <3>2. Spares(b1, 1)
      BY <1>11, <3>1, SparesDrop DEF Good
    <3> QED
      BY <3>1, <3>2
  <2>5. ASSUME NEW j, Other(j)
        PROVE  /\ Kept(b1, h, j) /\ b1.con[j] = h.con[j] /\ b1.con[j] \in b1.mem
               /\ b1.con[t] # b1.con[j] /\ f # b1.con[j]
    <3>1. Kept(b1, b, j)
      BY <1>11, <1>13, <1>4, <1>10, <2>1, <2>2, <2>5, SparesFewer, GrabContentsKeeps
      DEF Good
    <3> HIDE DEF b1
    <3>2. Kept(b1, h, j)
      BY <1>9, <2>5, <3>1, KeptTwice
    <3> QED
      BY <1>1, <1>13, <1>10, <2>5, <3>1, <3>2 DEF Kept
  <2> HIDE DEF b1, f
  <2>3. Links(b1)
    BY <1>11, <2>2 DEF SameLinks, Good, Links, NextGood, PrevGood, DownGood,
                      UpGood, EndsGood
  <2>4. Settled(SetContents(b1, t, f), b1)
    <3>1. b1.rel[t] \in Rels
      BY <2>1, <2>2 DEF SameLinks
    <3> QED
      BY <1>1, <2>2, <3>1, SetContentsSettles
  <2>6. ASSUME NEW j, Other(j) PROVE Kept(SetContents(b1, t, f), h, j)
    <3>1. b1.rel[t] \in Rels
      BY <2>1, <2>2 DEF SameLinks
    <3>2. Kept(SetContents(b1, t, f), b1, j)
      BY <1>1, <1>4, <2>2, <2>5, <2>6, <3>1, SetContentsKeeps
    <3> QED
      BY <2>5, <2>6, <3>2, KeptTwice
  <2> QED
    BY <1>3, <1>11, <1>13, <2>2, <2>3, <2>4, <2>6, SettledGood
    DEF Settled, SameLinks, a, Other
<1> QED
  BY <1>12, <1>13

LEMMA TopFormLive ==
  ASSUME NEW h, Good(h), NEW t \in Live(h), NEW si \in Live(h) \cup {Nil},
         TopForm(h, t, si) # Nil
  PROVE  TopForm(h, t, si) \in Live(h) /\ h.rel[TopForm(h, t, si)] = h.rel[t]
<1> DEFINE r == h.rel[t]
           c == h.reg[h.con[si]][r]
<1>1. /\ h \in Heap /\ RefsAgree(h) /\ r \in Rels /\ r # Nil /\ Nil \notin Contents
  BY PointerAssumption DEF Good, Live, Heap
<1>2. si # Nil /\ TopForm(h, t, si) = c /\ c # Nil
  BY DEF TopForm, AsRelation
<1>3. h.con[si] \in Contents
  BY <1>1, <1>2 DEF RefsAgree, Live, Heap
<1>4. c \in Items
  BY <1>1, <1>2, <1>3 DEF Heap, Ptr
<1>5. h.rel[c] = r
  BY <1>1, <1>2, <1>3, SMTT(30) DEF RefsAgree
<1> HIDE DEF c
<1> QED
  BY <1>1, <1>2, <1>4, <1>5 DEF Live

(* The daughters of the old form c are cut off and given to the new item;  *)
(* g is the heap with the new item hung.                                   *)
LEMMA RehangGood ==
  ASSUME NEW h, Good(h), Live(h) # Items, NEW t \in Live(h), NEW c \in Live(h),
         h.rel[c] = h.rel[t],
         NEW g, Hung(g, CutDaughters(h, c), h.rel[t])
  PROVE  /\ Good(GiveDaughters(g, NewSlot(h), h.d[c]))
         /\ LinkedGiven(GiveDaughters(g, NewSlot(h), h.d[c]), g, NewSlot(h), h.d[c])
         /\ c \in Live(GiveDaughters(g, NewSlot(h), h.d[c]))
         /\ GiveDaughters(g, NewSlot(h), h.d[c]).rel[c] = h.rel[t]
<1> DEFINE r  == h.rel[t]
           i  == NewSlot(h)
           y  == h.d[c]
           g0 == CutDaughters(h, c)
           k  == GiveDaughters(g, i, y)
<1>1. /\ i \in Items /\ h.rel[i] = Nil /\ r # Nil /\ c \in Items /\ y \in Ptr
      /\ Nil \notin Items
  BY FreshSlot, PointerAssumption DEF Live, Good, Heap
<1>2. Good(g0) /\ g0.rel = h.rel /\ Orphan(g0, y, r)
  BY CutDaughtersGood
<1> HIDE DEF g0, y
<1>3. NewSlot(g0) = i
  BY <1>2 DEF NewSlot
<1> HIDE DEF i
<1>4. /\ Good(g) /\ g.rel = [h.rel EXCEPT ![i] = r] /\ g.d[i] = Nil
      /\ KeepsStarts(g, g0, Nil)
  BY <1>2, <1>3 DEF Hung, Inserted, g0
<1>5. g.rel[i] = r /\ \A j \in Items : j # i => g.rel[j] = h.rel[j]
  BY <1>1, <1>4 DEF Good, Heap
<1>6. Orphan(g, y, r)
  <2> SUFFICES ASSUME y # Nil
               PROVE  /\ y \in Items /\ g.rel[y] = r /\ g.p[y] = Nil /\ g.u[y] = Nil
                      /\ \A q \in Rels : g.head[q] # y
    BY DEF Orphan
  <2>1. /\ y \in Items /\ h.rel[y] = r /\ g0.p[y] = Nil /\ g0.u[y] = Nil
        /\ \A q \in Rels : g0.head[q] # y
    BY <1>2 DEF Orphan
  <2>2. y # i
    BY <2>1, <1>1
  <2> QED
    BY <2>1, <2>2, <1>1, <1>2, <1>3, <1>4, <1>5 DEF KeepsStarts
<1>7. Good(k) /\ k.rel = g.rel /\ LinkedGiven(k, g, i, y)
  BY <1>1, <1>4, <1>5, <1>6, GiveDaughtersGood
<1> HIDE DEF k
<1>8. c \in Live(k) /\ k.rel[c] = r
  BY <1>1, <1>5, <1>7 DEF Live
<1> QED
  BY <1>7, <1>8 DEF k, y, i
-----------------------------------------------------------------------------
(* What is reached from the ends of a relation.                            *)

(* The top-level list of each relation leads from its head to its tail. *)
EndsJoined(h) ==
  \A r \in Rels : /\ h.head[r] = Nil <=> h.tail[r] = Nil
                  /\ h.head[r] # Nil => h.tail[r] \in List(h, h.head[r])

(* No item but those of L is lost: each is in its relation's tree. *)
AllInUse(h, L) ==
  \A j \in Items \ L : h.rel[j] # Nil => j \in Tree(h, h.head[h.rel[j]])

(* g differs from h in relation r at most. *)
Elsewhere(g, h, r) ==
  \A q \in Rels \ {r} :
    /\ g.head[q] = h.head[q] /\ g.tail[q] = h.tail[q]
    /\ \A j \in Items : g.rel[j] = q <=> h.rel[j] = q
    /\ \A j \in Items : h.rel[j] = q =>
         g.n[j] = h.n[j] /\ g.p[j] = h.p[j] /\ g.u[j] = h.u[j] /\ g.d[j] = h.d[j]

(* What was reached in h from a set's members still is in g. *)
Extends(g, h) ==
  /\ \A S \in SUBSET Items : NextClosed(g, S) => NextClosed(h, S)
  /\ \A S \in SUBSET Items : TreeClosed(g, S) => TreeClosed(h, S)

LEMMA ListExtends ==
  ASSUME NEW h, Pointers(h), NEW g, Pointers(g), Extends(g, h),
         NEW x \in Items, NEW y \in Items, x \in List(g, y)
  PROVE  List(h, x) \subseteq List(g, y)
<1>1. List(g, y) \in SUBSET Items /\ NextClosed(g, List(g, y))
  BY ListLeast
<1>2. NextClosed(h, List(g, y))
  BY <1>1 DEF Extends
<1> QED
  BY <1>1, <1>2, ListLeast

LEMMA TreeExtends ==
  ASSUME NEW h, Pointers(h), NEW g, Pointers(g), Extends(g, h),
         NEW x \in Ptr, NEW y \in Ptr, x # Nil => x \in Tree(g, y)
  PROVE  Tree(h, x) \subseteq Tree(g, y)
<1>1. Tree(g, y) \in SUBSET Items /\ TreeClosed(g, Tree(g, y))
  BY TreeLeast
<1>2. TreeClosed(h, Tree(g, y))
  BY <1>1 DEF Extends
<1> QED
  BY <1>1, <1>2, TreeLeast

(* The items of a tree are of one relation. *)
LEMMA TreeWithin ==
  ASSUME NEW h, Good(h), NEW x \in Ptr
  PROVE  \A j \in Tree(h, x) : h.rel[j] = h.rel[x]
<1> DEFINE T == {j \in Tree(h, x) : h.rel[j] = h.rel[x]}
<1>1. Pointers(h) /\ NextGood(h) /\ DownGood(h)
  BY DEF Good, Links, Heap, Pointers
<1>2. /\ x # Nil => x \in Tree(h, x)
      /\ Tree(h, x) \subseteq Items /\ TreeClosed(h, Tree(h, x))
      /\ \A S \in SUBSET Items : (x # Nil => x \in S) /\ TreeClosed(h, S)
                                  => Tree(h, x) \subseteq S
  BY <1>1, TreeLeast
<1>3. TreeClosed(h, T)
  BY <1>1, <1>2 DEF TreeClosed, NextGood, DownGood
<1>4. (x # Nil => x \in T) /\ T \in SUBSET Items
  BY <1>2
<1>5. Tree(h, x) \subseteq T
  BY <1>2, <1>3, <1>4
<1> QED
  BY <1>5

(* Nothing leads to the head of a relation, so no other tree has it. *)
LEMMA HeadOnTop ==
  ASSUME NEW h, Good(h), NEW x \in Ptr, NEW t \in Items, t # x,
         h.p[t] = Nil, h.u[t] = Nil
  PROVE  t \notin Tree(h, x)
<1> DEFINE S == Items \ {t}
<1>1. Pointers(h) /\ NextGood(h) /\ DownGood(h) /\ Nil \notin Items
  BY PointerAssumption DEF Good, Links, Heap, Pointers
<1>2. TreeClosed(h, S)
  BY <1>1 DEF TreeClosed, NextGood, DownGood, Pointers, Ptr
<1>3. x # Nil => x \in S
  BY DEF Ptr
<1>4. Tree(h, x) \subseteq S
  BY <1>1, <1>2, <1>3, TreeLeast
<1> QED
  BY <1>4

(* Of the items that are in use only the heads have nothing before them. *)
LEMMA OnlyHeads ==
  ASSUME NEW h, Good(h), NEW t \in InUse(h), h.p[t] = Nil, h.u[t] = Nil
  PROVE  t = h.head[h.rel[t]]
<1>1. t \in Items /\ h.rel[t] \in Rels /\ h.head[h.rel[t]] \in Ptr
  BY DEF Good, Heap, InUse, Live
<1>2. t \in Tree(h, h.head[h.rel[t]])
  BY DEF InUse
<1> QED
  BY <1>1, <1>2, HeadOnTop

(* A member of the top-level list is reached from the one before it. *)
LEMMA ListEntry ==
  ASSUME NEW h, Good(h), NEW x \in Items, h.p[x] = Nil
  PROVE  \A j \in List(h, x) : j # x => h.p[j] \in List(h, x)
<1> DEFINE L == List(h, x)
           T == {j \in L : j # x => h.p[j] \in L}
<1>1. Pointers(h) /\ NextGood(h)
  BY DEF Good, Links, Heap, Pointers
<1>2. /\ x \in L /\ L \subseteq Items /\ NextClosed(h, L)
      /\ \A S \in SUBSET Items : x \in S /\ NextClosed(h, S) => L \subseteq S
  BY <1>1, ListLeast
<1> HIDE DEF L
<1>3. NextClosed(h, T)
  BY <1>1, <1>2 DEF NextClosed, NextGood
<1>4. L \subseteq T
  BY <1>2, <1>3
<1> QED
  BY <1>4 DEF L

(* The list from a head is not below any item. *)
LEMMA TopNotBelow ==
  ASSUME NEW h, Good(h), NEW r \in Rels, h.head[r] # Nil, NEW x \in Live(h)
  PROVE  \A j \in List(h, h.head[r]) : j \notin Tree(h, h.d[x])
<1> DEFINE y == h.d[x]
           a == h.head[r]
           L == List(h, a)
           S == Items \ L
<1>1. /\ Pointers(h) /\ NextGood(h) /\ DownGood(h) /\ Nil \notin Items
      /\ x \in Items /\ y \in Ptr
  BY PointerAssumption DEF Good, Links, Heap, Pointers, Live
<1>2. a \in Items /\ h.p[a] = Nil /\ h.u[a] = Nil
  BY DEF Good, Links, EndsGood, Heap, Ptr
<1> HIDE DEF a
<1>3. \A j \in L : /\ j # a => h.p[j] \in L
                   /\ j \in Items
  BY <1>1, <1>2, ListEntry, ListLeast
<1> HIDE DEF L
<1>4. \A k \in Items : h.d[k] \notin L
  <2> SUFFICES ASSUME NEW k \in Items, h.d[k] \in L PROVE FALSE
    OBVIOUS
  <2>1. h.d[k] # Nil /\ h.u[h.d[k]] = k /\ h.p[h.d[k]] = Nil
    BY <1>1, <1>3 DEF DownGood
  <2> QED
    BY <2>1, <1>1, <1>2, <1>3
<1>5. \A k \in S : h.n[k] \notin L
  <2> SUFFICES ASSUME NEW k \in S, h.n[k] \in L PROVE FALSE
    OBVIOUS
  <2>1. h.n[k] # Nil /\ h.p[h.n[k]] = k
    BY <1>1, <1>3 DEF NextGood
  <2> QED
    BY <2>1, <1>1, <1>2, <1>3
<1>6. TreeClosed(h, S)
  BY <1>1, <1>4, <1>5 DEF TreeClosed, Pointers, Ptr
<1>7. y # Nil => y \in S
  BY <1>1, <1>4 DEF Ptr
<1> HIDE DEF y, S
<1>8. Tree(h, y) \subseteq S
  BY <1>1, <1>6, <1>7, TreeLeast DEF S
<1> QED
  BY <1>8 DEF S, L, a, y
-----------------------------------------------------------------------------
(* Insertions join the new item to what is there.                          *)

LEMMA AfterJoins ==
  ASSUME NEW h, Good(h), NEW i, Fresh(h, i), NEW t \in Live(h),
         NEW g, Good(g), LinkedAfter(g, h, t, i)
  PROVE  /\ Extends(g, h) /\ Elsewhere(g, h, h.rel[t])
         /\ \A S \in SUBSET Items : TreeClosed(g, S) /\ t \in S => i \in S
         /\ EndsJoined(h) => EndsJoined(g)
<1>1. /\ Pointers(h) /\ Pointers(g) /\ Links(h) /\ Nil \notin Items /\ i \in Items
      /\ t \in Items /\ t # i /\ Nil \notin Rels
  BY PointerAssumption DEF Good, Heap, Pointers, Fresh, Live
<1>2. Extends(g, h)
  <2>1. ASSUME NEW S \in SUBSET Items, NextClosed(g, S) PROVE NextClosed(h, S)
    BY <2>1, <1>1 DEF NextClosed, LinkedAfter, Fresh
  <2>2. ASSUME NEW S \in SUBSET Items, TreeClosed(g, S) PROVE TreeClosed(h, S)
    BY <2>2, <1>1 DEF TreeClosed, LinkedAfter, Fresh
  <2> QED
    BY <2>1, <2>2 DEF Extends
<1>3. Elsewhere(g, h, h.rel[t])
  BY <1>1 DEF Elsewhere, LinkedAfter, Fresh, Links, NextGood, Live
<1>4. ASSUME NEW S \in SUBSET Items, TreeClosed(g, S), t \in S PROVE i \in S
  BY <1>1, <1>4 DEF TreeClosed, LinkedAfter
<1>5. ASSUME EndsJoined(h) PROVE EndsJoined(g)
  <2> SUFFICES ASSUME NEW r \in Rels
               PROVE  /\ g.head[r] = Nil <=> g.tail[r] = Nil
                      /\ g.head[r] # Nil => g.tail[r] \in List(g, g.head[r])
    BY DEF EndsJoined
  <2>1. g.head[r] = Nil <=> g.tail[r] = Nil
    BY <1>1, <1>5 DEF EndsJoined, LinkedAfter
  <2>2. ASSUME g.head[r] # Nil PROVE g.tail[r] \in List(g, g.head[r])
    <3> DEFINE a == h.head[r]
               L == List(g, a)
    <3>1. g.head[r] = a /\ a \in Items /\ h.tail[r] \in List(h, a)
      BY <1>1, <1>5, <2>2 DEF EndsJoined, LinkedAfter, Pointers, Ptr
    <3> HIDE DEF a
    <3>2. a \in L /\ L \subseteq Items /\ NextClosed(g, L)
      BY <1>1, <3>1, ListLeast
    <3>3. h.tail[r] \in L
      BY <1>1, <1>2, <3>1, <3>2, ListExtends
    <3> HIDE DEF L
    <3>4. CASE h.tail[r] = t
      BY <1>1, <3>1, <3>2, <3>3, <3>4 DEF LinkedAfter, NextClosed, L
    <3>5. CASE h.tail[r] # t
      BY <3>1, <3>3, <3>5 DEF LinkedAfter, L
    <3> QED
      BY <3>4, <3>5
  <2> QED
    BY <2>1, <2>2
<1> QED
  BY <1>2, <1>3, <1>4, <1>5

LEMMA BeforeJoins ==
  ASSUME NEW h, Good(h), NEW i, Fresh(h, i), NEW t \in Live(h),
         NEW g, Good(g), LinkedBefore(g, h, t, i)
  PROVE  /\ Extends(g, h) /\ Elsewhere(g, h, h.rel[t])
         /\ EndsJoined(h) => EndsJoined(g)
<1>1. /\ Pointers(h) /\ Pointers(g) /\ Links(h) /\ Nil \notin Items /\ i \in Items
      /\ t \in Items /\ t # i /\ Nil \notin Rels
  BY PointerAssumption DEF Good, Heap, Pointers, Fresh, Live
<1>2. Extends(g, h)
  <2>1. ASSUME NEW S \in SUBSET Items, NextClosed(g, S) PROVE NextClosed(h, S)
    BY <2>1, <1>1 DEF NextClosed, LinkedBefore, Fresh, Links, PrevGood
  <2>2. ASSUME NEW S \in SUBSET Items, TreeClosed(g, S) PROVE TreeClosed(h, S)
    BY <2>2, <1>1 DEF TreeClosed, LinkedBefore, Fresh, Links, PrevGood, UpGood
  <2> QED
    BY <2>1, <2>2 DEF Extends
<1>3. Elsewhere(g, h, h.rel[t])
  BY <1>1 DEF Elsewhere, LinkedBefore, Fresh, Links, PrevGood, UpGood, Live
<1>4. ASSUME EndsJoined(h) PROVE EndsJoined(g)
  <2> SUFFICES ASSUME NEW r \in Rels
               PROVE  /\ g.head[r] = Nil <=> g.tail[r] = Nil
                      /\ g.head[r] # Nil => g.tail[r] \in List(g, g.head[r])
    BY DEF EndsJoined
  <2>1. g.head[r] = Nil <=> g.tail[r] = Nil
    BY <1>1, <1>4 DEF EndsJoined, LinkedBefore
  <2>2. ASSUME g.head[r] # Nil PROVE g.tail[r] \in List(g, g.head[r])
    <3> DEFINE a == h.head[r]
               b == g.head[r]
               L == List(g, b)
    <3>1. a \in Items /\ b \in Items /\ h.tail[r] \in List(h, a)
      BY <1>1, <1>4, <2>2 DEF EndsJoined, LinkedBefore, Pointers, Ptr
    <3>2. b = a \/ (b = i /\ a = t)
      BY DEF LinkedBefore
    <3> HIDE DEF a, b
    <3>3. b \in L /\ L \subseteq Items /\ NextClosed(g, L)
      BY <1>1, <3>1, ListLeast
    <3>4. a \in L
      <4>1. g.n[i] = t \/ h.p[t] = i
        BY <1>1 DEF LinkedBefore
      <4>2. h.p[t] # i
        BY <1>1 DEF Fresh
      <4> QED
        BY <1>1, <3>2, <3>3, <4>1, <4>2 DEF NextClosed
    <3>5. h.tail[r] \in L
      BY <1>1, <1>2, <3>1, <3>4, ListExtends
    <3> QED
      BY <3>5 DEF LinkedBefore, L, b
  <2> QED
    BY <2>1, <2>2
<1> QED
  BY <1>2, <1>3, <1>4

LEMMA BelowJoins ==
  ASSUME NEW h, Good(h), NEW i, Fresh(h, i), NEW t \in Live(h),
         NEW g, Good(g), LinkedBelow(g, h, t, i)
  PROVE  /\ Extends(g, h) /\ Elsewhere(g, h, h.rel[t])
         /\ \A S \in SUBSET Items : TreeClosed(g, S) /\ t \in S => i \in S
         /\ EndsJoined(h) => EndsJoined(g)
<1>1. /\ Pointers(h) /\ Pointers(g) /\ Links(h) /\ Nil \notin Items /\ i \in Items
      /\ t \in Items /\ t # i /\ Nil \notin Rels
  BY PointerAssumption DEF Good, Heap, Pointers, Fresh, Live
<1>2. Extends(g, h)
  BY <1>1 DEF Extends, NextClosed, TreeClosed, LinkedBelow, Fresh
<1>3. Elsewhere(g, h, h.rel[t])
  BY <1>1 DEF Elsewhere, LinkedBelow, Fresh, Links, DownGood, Live
<1>4. ASSUME NEW S \in SUBSET Items, TreeClosed(g, S), t \in S PROVE i \in S
  BY <1>1, <1>4 DEF TreeClosed, LinkedBelow
<1>5. ASSUME EndsJoined(h) PROVE EndsJoined(g)
  BY <1>5 DEF EndsJoined, LinkedBelow, List
<1> QED
  BY <1>2, <1>3, <1>4, <1>5

LEMMA AboveJoins ==
  ASSUME NEW h, Good(h), NEW i, Fresh(h, i), NEW t \in Live(h),
         h.p[t] = Nil, h.n[t] = Nil \/ h.u[t] # Nil,
         NEW g, Good(g), LinkedAbove(g, h, t, i)
  PROVE  /\ Extends(g, h) /\ Elsewhere(g, h, h.rel[t])
         /\ EndsJoined(h) => EndsJoined(g)
<1>1. /\ Pointers(h) /\ Pointers(g) /\ Links(h) /\ Nil \notin Items /\ i \in Items
      /\ t \in Items /\ t # i /\ Nil \notin Rels
  BY PointerAssumption DEF Good, Heap, Pointers, Fresh, Live
<1>2. Extends(g, h)
  <2>1. ASSUME NEW S \in SUBSET Items, TreeClosed(g, S) PROVE TreeClosed(h, S)
    BY <2>1, <1>1 DEF TreeClosed, LinkedAbove, Fresh, Links, UpGood
  <2> QED
    BY <2>1 DEF Extends, NextClosed, LinkedAbove
<1>3. Elsewhere(g, h, h.rel[t])
  BY <1>1 DEF Elsewhere, LinkedAbove, Fresh, Links, UpGood, Live
<1>4. ASSUME EndsJoined(h) PROVE EndsJoined(g)
  <2> SUFFICES ASSUME NEW r \in Rels
               PROVE  /\ g.head[r] = Nil <=> g.tail[r] = Nil
                      /\ g.head[r] # Nil => g.tail[r] \in List(g, g.head[r])
    BY DEF EndsJoined
  <2>1. g.head[r] = Nil <=> g.tail[r] = Nil
    BY <1>1, <1>4 DEF EndsJoined, LinkedAbove
  <2>2. ASSUME g.head[r] # Nil PROVE g.tail[r] \in List(g, g.head[r])
    <3> DEFINE a == h.head[r]
    <3>1. /\ a \in Items /\ h.tail[r] \in List(h, a) /\ h.rel[a] = r
          /\ h.p[a] = Nil /\ h.u[a] = Nil
      BY <1>1, <1>4, <2>2 DEF EndsJoined, LinkedAbove, Pointers, Ptr, Links, EndsGood
    <3> HIDE DEF a
    <3>2. CASE a = t
      <4>1. List(h, t) \subseteq {t}
        <5>1. NextClosed(h, {t})
          BY <3>1, <3>2 DEF NextClosed
        <5> QED
          BY <1>1, <5>1, ListLeast
      <4>2. g.tail[r] = i /\ g.head[r] = i
        BY <3>1, <3>2, <4>1 DEF LinkedAbove, a
      <4> QED
        BY <1>1, <4>2, ListLeast
    <3>3. CASE a # t
      <4>1. t \notin List(h, a)
        <5> SUFFICES ASSUME t \in List(h, a) PROVE FALSE
          OBVIOUS
        <5>1. h.p[t] \in List(h, a)
          BY <3>1, <3>3, ListEntry
        <5>2. List(h, a) \subseteq Items
          BY <1>1, <3>1, ListLeast
        <5> QED
          BY <1>1, <5>1, <5>2
      <4>2. g.tail[r] = h.tail[r] /\ g.head[r] = a
        BY <3>1, <3>3, <4>1 DEF LinkedAbove, a
      <4> QED
        BY <3>1, <4>2 DEF LinkedAbove, List
    <3> QED
      BY <3>2, <3>3
  <2> QED
    BY <2>1, <2>2
<1> QED
  BY <1>2, <1>3, <1>4

(* The new item is in use, and what was in use still is. *)
LEMMA InsertedInUse ==
  ASSUME NEW L, NEW h, Good(h), AllInUse(h, L), NEW g, Good(g), Extends(g, h),
         NEW i \in Items, NEW r \in Rels, g.rel = [h.rel EXCEPT ![i] = r],
         \A q \in Rels : h.head[q] # Nil => h.head[q] \in Tree(g, g.head[q]),
         i \in Tree(g, g.head[r])
  PROVE  AllInUse(g, L)
<1> SUFFICES ASSUME NEW j \in Items \ L, j # i, g.rel[j] # Nil
             PROVE  j \in Tree(g, g.head[g.rel[j]])
  BY DEF AllInUse, Good, Heap
<1> DEFINE q == h.rel[j]
           a == h.head[q]
           b == g.head[q]
<1>1. /\ Pointers(h) /\ Pointers(g) /\ q \in Rels /\ g.rel[j] = q
      /\ a \in Ptr /\ b \in Ptr
  BY DEF Good, Heap, Pointers
<1>2. j \in Tree(h, a)
  BY <1>1, PointerAssumption DEF AllInUse
<1>3. Tree(h, a) \subseteq Tree(g, b)
  <2>1. a # Nil => a \in Tree(g, b)
    BY <1>1
  <2> HIDE DEF a, b
  <2> QED
    BY <1>1, <2>1, TreeExtends
<1> QED
  BY <1>1, <1>2, <1>3
-----------------------------------------------------------------------------
(* What holds of the heap between two calls, with the ends of the          *)
(* relations joined and no item lost.                                      *)
Whole(h, L) == Good(h) /\ EndsJoined(h) /\ AllInUse(h, L)

(* A call on relation r has left the heap whole, and other relations alone. *)
Changed(g, h, r, L) == Whole(g, L) /\ Elsewhere(g, h, r)

LEMMA InUseReached ==
  ASSUME NEW h, Good(h), NEW g, Good(g), Extends(g, h), NEW j \in InUse(h),
         h.head[h.rel[j]] # Nil
            => h.head[h.rel[j]] \in Tree(g, g.head[h.rel[j]])
  PROVE  j \in Tree(g, g.head[h.rel[j]])
<1> DEFINE q == h.rel[j]
           a == h.head[q]
           b == g.head[q]
<1>1. /\ Pointers(h) /\ Pointers(g) /\ q \in Rels
      /\ a \in Ptr /\ b \in Ptr
  BY DEF Good, Heap, Pointers, InUse, Live
<1>2. j \in Tree(h, a)
  BY DEF InUse
<1>3. Tree(h, a) \subseteq Tree(g, b)
  <2>1. a # Nil => a \in Tree(g, b)
    OBVIOUS
  <2> HIDE DEF a, b
  <2> QED
    BY <1>1, <2>1, TreeExtends
<1> QED
  BY <1>2, <1>3

(* What leads to an item in use is in use. *)
LEMMA EntryInUse ==
  ASSUME NEW h, Good(h), NEW t \in InUse(h)
  PROVE  /\ h.p[t] # Nil => h.p[t] \in InUse(h)
         /\ h.u[t] # Nil => h.u[t] \in InUse(h)
<1> DEFINE r == h.rel[t]
           x == h.head[r]
<1>1. /\ Links(h) /\ Pointers(h) /\ t \in Items /\ r \in Rels /\ r # Nil
      /\ t \in Tree(h, x) /\ x \in Ptr
  BY PointerAssumption DEF Good, Heap, Pointers, InUse, Live
<1>2. x # Nil => h.p[x] = Nil /\ h.u[x] = Nil
  BY <1>1 DEF Links, EndsGood
<1> HIDE DEF x
<1>3. /\ h.p[t] # Nil => h.p[t] \in Tree(h, x)
      /\ h.u[t] # Nil /\ t # x => h.u[t] \in Tree(h, x)
  BY <1>1, <1>2, TreeEntry
<1>4. h.u[t] # Nil => t # x
  BY <1>1, <1>2, PointerAssumption DEF Ptr
<1>5. /\ h.p[t] # Nil => h.p[t] \in Items /\ h.rel[h.p[t]] = r
      /\ h.u[t] # Nil => h.u[t] \in Items /\ h.rel[h.u[t]] = r
  BY <1>1 DEF Links, PrevGood, UpGood, Pointers, Ptr
<1> QED
  BY <1>1, <1>3, <1>4, <1>5 DEF InUse, Live, x

LEMMA AfterWhole ==
  ASSUME NEW L, NEW h, Whole(h, L), Spares(h, 1), Live(h) # Items,
         NEW t \in InUse(h), NEW si \in Live(h) \cup {Nil}
  PROVE  Changed(InsertAfter(h, t, si), h, h.rel[t], L)
<1> DEFINE i == NewSlot(h)
           r == h.rel[t]
           g == InsertAfter(h, t, si)
<1>1. Good(h) /\ Fresh(h, i) /\ i \in Items /\ r \in Rels /\ t \in Live(h)
  BY Setting DEF Whole, Fresh, InUse
<1>2. LinkedAfter(g, h, t, i) /\ Placed(g, h, r) /\ Good(g)
  BY <1>1, InsertAfterLinks, InsertAfterGood DEF Inserted
<1> HIDE DEF g, i, r
<1>3. /\ Extends(g, h) /\ Elsewhere(g, h, r) /\ EndsJoined(g)
      /\ \A S \in SUBSET Items : TreeClosed(g, S) /\ t \in S => i \in S
  BY <1>1, <1>2, AfterJoins DEF Whole, r
<1>4. /\ Pointers(g)
      /\ \A q \in Rels : g.head[q] = h.head[q]
      /\ \A q \in Rels : g.head[q] \in Ptr
      /\ g.rel = [h.rel EXCEPT ![i] = r]
  BY <1>2 DEF Good, Heap, Pointers, LinkedAfter, Placed, i
<1>5. \A q \in Rels : h.head[q] # Nil => h.head[q] \in Tree(g, g.head[q])
  BY <1>4, TreeLeast
<1>6. t \in Tree(g, g.head[r])
  BY <1>1, <1>2, <1>3, <1>5, InUseReached DEF r
<1>7. i \in Tree(g, g.head[r])
  BY <1>1, <1>3, <1>4, <1>6, TreeLeast
<1>8. AllInUse(g, L)
  BY <1>1, <1>2, <1>3, <1>4, <1>5, <1>7, InsertedInUse DEF Whole
<1> QED
  BY <1>2, <1>3, <1>8 DEF Changed, Whole, g, r

LEMMA BelowWhole ==
  ASSUME NEW L, NEW h, Whole(h, L), Spares(h, 1), Live(h) # Items,
         NEW t \in InUse(h), NEW si \in Live(h) \cup {Nil}
  PROVE  Changed(InsertBelow(h, t, si), h, h.rel[t], L)
<1> DEFINE i == NewSlot(h)
           r == h.rel[t]
           g == InsertBelow(h, t, si)
<1>1. Good(h) /\ Fresh(h, i) /\ i \in Items /\ r \in Rels /\ t \in Live(h)
  BY Setting DEF Whole, Fresh, InUse
<1>2. LinkedBelow(g, h, t, i) /\ Placed(g, h, r) /\ Good(g)
  BY <1>1, InsertBelowLinks, InsertBelowGood DEF Inserted
<1> HIDE DEF g, i, r
<1>3. /\ Extends(g, h) /\ Elsewhere(g, h, r) /\ EndsJoined(g)
      /\ \A S \in SUBSET Items : TreeClosed(g, S) /\ t \in S => i \in S
  BY <1>1, <1>2, BelowJoins DEF Whole, r
<1>4. /\ Pointers(g)
      /\ \A q \in Rels : g.head[q] = h.head[q]
      /\ \A q \in Rels : g.head[q] \in Ptr
      /\ g.rel = [h.rel EXCEPT ![i] = r]
  BY <1>2 DEF Good, Heap, Pointers, LinkedBelow, Placed, i
<1>5. \A q \in Rels : h.head[q] # Nil => h.head[q] \in Tree(g, g.head[q])
  BY <1>4, TreeLeast
<1>6. t \in Tree(g, g.head[r])
  BY <1>1, <1>2, <1>3, <1>5, InUseReached DEF r
<1>7. i \in Tree(g, g.head[r])
  BY <1>1, <1>3, <1>4, <1>6, TreeLeast
<1>8. AllInUse(g, L)
  BY <1>1, <1>2, <1>3, <1>4, <1>5, <1>7, InsertedInUse DEF Whole
<1> QED
  BY <1>2, <1>3, <1>8 DEF Changed, Whole, g, r

LEMMA BeforeWhole ==
  ASSUME NEW L, NEW h, Whole(h, L), Spares(h, 1), Live(h) # Items,
         NEW t \in InUse(h), NEW si \in Live(h) \cup {Nil}
  PROVE  Changed(InsertBefore(h, t, si), h, h.rel[t], L)
<1> DEFINE i == NewSlot(h)
           r == h.rel[t]
           g == InsertBefore(h, t, si)
<1>1. /\ Good(h) /\ Links(h) /\ Fresh(h, i) /\ i \in Items /\ r \in Rels
      /\ t \in Items /\ h.p[t] # i /\ r # Nil /\ t \in Live(h)
  BY Setting DEF Whole, Fresh, InUse
<1>2. LinkedBefore(g, h, t, i) /\ Placed(g, h, r) /\ Good(g)
  BY <1>1, InsertBeforeLinks, InsertBeforeGood DEF Inserted
<1> HIDE DEF g, i
<1>3. Extends(g, h) /\ Elsewhere(g, h, r) /\ EndsJoined(g)
  BY <1>1, <1>2, BeforeJoins DEF Whole
<1>4. /\ Pointers(g) /\ Pointers(h) /\ Nil \notin Items
      /\ \A q \in Rels : g.head[q] \in Ptr
      /\ g.rel = [h.rel EXCEPT ![i] = r]
      /\ g.n[i] = t
  BY <1>1, <1>2, PointerAssumption
  DEF Good, Heap, Pointers, LinkedBefore, Placed, i
<1>5. \A q \in Rels : h.head[q] # Nil => h.head[q] \in Tree(g, g.head[q])
  <2> SUFFICES ASSUME NEW q \in Rels, h.head[q] # Nil
               PROVE  h.head[q] \in Tree(g, g.head[q])
    OBVIOUS
  <2>1. g.head[q] # Nil => g.head[q] \in Tree(g, g.head[q])
    BY <1>4, TreeLeast
  <2>2. TreeClosed(g, Tree(g, g.head[q]))
    BY <1>4, TreeLeast
  <2> QED
    BY <1>1, <1>2, <1>4, <2>1, <2>2 DEF LinkedBefore, TreeClosed
<1> DEFINE T == Tree(g, g.head[r])
<1>6. /\ TreeClosed(g, T)
      /\ \A a \in InUse(h) : h.rel[a] = r => a \in T
  BY <1>1, <1>2, <1>3, <1>4, <1>5, InUseReached, TreeLeast
<1>7. i \in T
  <2>1. CASE h.p[t] # Nil
    <3>1. h.p[t] \in InUse(h) /\ h.rel[h.p[t]] = r /\ g.n[h.p[t]] = i
      BY <2>1, <1>1, <1>2, <1>4, EntryInUse
      DEF Links, PrevGood, Pointers, Ptr, Live, LinkedBefore
    <3> QED
      BY <3>1, <1>1, <1>4, <1>6 DEF TreeClosed
  <2>2. CASE h.u[t] # Nil
    <3>1. h.u[t] \in InUse(h) /\ h.rel[h.u[t]] = r /\ g.d[h.u[t]] = i
      BY <2>2, <1>1, <1>2, <1>4, EntryInUse
      DEF Links, UpGood, Pointers, Ptr, Live, LinkedBefore
    <3> QED
      BY <3>1, <1>1, <1>4, <1>6 DEF TreeClosed
  <2>3. CASE h.p[t] = Nil /\ h.u[t] = Nil
    <3>1. h.head[r] = t
      BY <2>3, <1>1, OnlyHeads DEF Whole
    <3>2. g.head[r] = i
      BY <3>1, <1>1, <1>2 DEF LinkedBefore
    <3> QED
      BY <3>2, <1>1, <1>4, TreeLeast
  <2> QED
    BY <2>1, <2>2, <2>3
<1>8. AllInUse(g, L)
  BY <1>1, <1>2, <1>3, <1>4, <1>5, <1>7, InsertedInUse DEF Whole
<1> QED
  BY <1>2, <1>3, <1>8 DEF Changed, Whole, g

LEMMA AboveWhole ==
  ASSUME NEW L, NEW h, Whole(h, L), Spares(h, 1), Live(h) # Items,
         NEW t \in InUse(h), NEW si \in Live(h) \cup {Nil},
         h.p[t] = Nil, h.n[t] = Nil \/ h.u[t] # Nil
  PROVE  Changed(InsertAbove(h, t, si), h, h.rel[t], L)
<1> DEFINE i == NewSlot(h)
           r == h.rel[t]
           g == InsertAbove(h, t, si)
<1>1. /\ Good(h) /\ Links(h) /\ Fresh(h, i) /\ i \in Items /\ r \in Rels
      /\ t \in Items /\ h.u[t] # i /\ r # Nil /\ t \in Live(h)
  BY Setting DEF Whole, Fresh, InUse
<1>2. LinkedAbove(g, h, t, i) /\ Placed(g, h, r) /\ Good(g)
  BY <1>1, InsertAboveLinks, InsertAboveGood DEF Inserted
<1> HIDE DEF g, i
<1>3. Extends(g, h) /\ Elsewhere(g, h, r) /\ EndsJoined(g)
  BY <1>1, <1>2, AboveJoins DEF Whole
<1>4. /\ Pointers(g) /\ Pointers(h) /\ Nil \notin Items
      /\ \A q \in Rels : g.head[q] \in Ptr
      /\ g.rel = [h.rel EXCEPT ![i] = r]
      /\ g.d[i] = t
  BY <1>1, <1>2, PointerAssumption
  DEF Good, Heap, Pointers, LinkedAbove, Placed, i
<1>5. \A q \in Rels : h.head[q] # Nil => h.head[q] \in Tree(g, g.head[q])
  <2> SUFFICES ASSUME NEW q \in Rels, h.head[q] # Nil
               PROVE  h.head[q] \in Tree(g, g.head[q])
    OBVIOUS
  <2>1. g.head[q] # Nil => g.head[q] \in Tree(g, g.head[q])
    BY <1>4, TreeLeast
  <2>2. TreeClosed(g, Tree(g, g.head[q]))
    BY <1>4, TreeLeast
  <2> QED
    BY <1>1, <1>2, <1>4, <2>1, <2>2 DEF LinkedAbove, TreeClosed
<1> DEFINE T == Tree(g, g.head[r])
<1>6. /\ TreeClosed(g, T)
      /\ \A a \in InUse(h) : h.rel[a] = r => a \in T
  BY <1>1, <1>2, <1>3, <1>4, <1>5, InUseReached, TreeLeast
<1>7. i \in T
  <2>1. CASE h.u[t] # Nil
    <3>1. h.u[t] \in InUse(h) /\ h.rel[h.u[t]] = r /\ g.d[h.u[t]] = i
      BY <2>1, <1>1, <1>2, <1>4, EntryInUse
      DEF Links, UpGood, Pointers, Ptr, Live, LinkedAbove
    <3> QED
      BY <3>1, <1>1, <1>4, <1>6 DEF TreeClosed
  <2>2. CASE h.u[t] = Nil
    <3>1. h.head[r] = t
      BY <2>2, <1>1, OnlyHeads DEF Whole
    <3>2. g.head[r] = i
      BY <3>1, <1>1, <1>2 DEF LinkedAbove
    <3> QED
      BY <3>2, <1>1, <1>4, TreeLeast
  <2> QED
    BY <2>1, <2>2
<1>8. AllInUse(g, L)
  BY <1>1, <1>2, <1>3, <1>4, <1>5, <1>7, InsertedInUse DEF Whole
<1> QED
  BY <1>2, <1>3, <1>8 DEF Changed, Whole, g

LEMMA OnlyItemWhole ==
  ASSUME NEW L, NEW h, Whole(h, L), Spares(h, 1), Live(h) # Items, NEW r \in Rels,
         h.head[r] = Nil, NEW si \in Live(h) \cup {Nil}
  PROVE  Changed(OnlyItem(h, r, si), h, r, L)
<1> DEFINE i == NewSlot(h)
           g == OnlyItem(h, r, si)
<1>1. Good(h) /\ Links(h) /\ i \in Items /\ h.rel[i] = Nil /\ r # Nil
  BY FreshSlot, PointerAssumption DEF Whole, Good
<1>2. Good(g) /\ g.rel = [h.rel EXCEPT ![i] = r] /\ LinkedAlone(g, h, r, i)
  BY <1>1, OnlyItemGood DEF Inserted
<1> HIDE DEF g, i
<1>3. Pointers(g) /\ Pointers(h)
  BY <1>1, <1>2 DEF Good, Heap, Pointers
<1>4. Extends(g, h)
  BY <1>2 DEF Extends, NextClosed, TreeClosed, LinkedAlone
<1>5. EndsJoined(g)
  <2>1. i \in List(g, i)
    BY <1>1, <1>3, ListLeast
  <2>2. \A x : List(g, x) = List(h, x)
    BY <1>2 DEF List, LinkedAlone
  <2> QED
    BY <1>1, <1>2, <2>1, <2>2, PointerAssumption
    DEF EndsJoined, LinkedAlone, Whole
<1>6. Elsewhere(g, h, r)
  BY <1>1, <1>2, PointerAssumption DEF Elsewhere, LinkedAlone
<1>7. AllInUse(g, L)
  <2>1. i \in Tree(g, g.head[r])
    BY <1>1, <1>2, <1>3, TreeLeast, PointerAssumption DEF LinkedAlone, Ptr
  <2>2. \A q \in Rels : h.head[q] # Nil => h.head[q] \in Tree(g, g.head[q])
    BY <1>1, <1>2, <1>3, TreeLeast DEF LinkedAlone, Pointers
  <2> QED
    BY <1>1, <1>2, <1>4, <2>1, <2>2, InsertedInUse DEF Whole
<1> QED
  BY <1>2, <1>5, <1>6, <1>7 DEF Changed, Whole, g

(* The ends of a relation are in use. *)
LEMMA EndsInUse ==
  ASSUME NEW h, Good(h), EndsJoined(h), NEW r \in Rels
  PROVE  /\ h.head[r] # Nil => h.head[r] \in InUse(h) /\ h.rel[h.head[r]] = r
         /\ h.tail[r] # Nil => h.tail[r] \in InUse(h) /\ h.rel[h.tail[r]] = r
<1> DEFINE x == h.head[r]
           y == h.tail[r]
<1>1. /\ Links(h) /\ Pointers(h) /\ x \in Ptr /\ y \in Ptr /\ r # Nil
      /\ y # Nil => x # Nil /\ y \in List(h, x)
      /\ x # Nil => h.rel[x] = r
      /\ y # Nil => h.rel[y] = r
  BY PointerAssumption DEF Good, Heap, Pointers, EndsJoined, Links, EndsGood
<1>2. x # Nil => x \in Tree(h, x) /\ TreeClosed(h, Tree(h, x)) /\ Tree(h, x) \subseteq Items
  BY <1>1, TreeLeast
<1> HIDE DEF x, y
<1>3. y # Nil => y \in Tree(h, x)
  <2> SUFFICES ASSUME y # Nil PROVE y \in Tree(h, x)
    OBVIOUS
  <2>1. NextClosed(h, Tree(h, x)) /\ x \in Items
    BY <1>1, <1>2 DEF TreeClosed, NextClosed, Ptr
  <2> QED
    BY <1>1, <1>2, <2>1, ListLeast
<1>4. /\ x # Nil => x \in Items /\ h.rel[x] = r
      /\ y # Nil => y \in Items /\ h.rel[y] = r
  BY <1>1 DEF Ptr
<1> QED
  BY <1>1, <1>2, <1>3, <1>4 DEF InUse, Live, x, y

LEMMA AppendTopWhole ==
  ASSUME NEW L, NEW h, Whole(h, L), Spares(h, 1), Live(h) # Items, NEW r \in Rels,
         NEW si \in Live(h) \cup {Nil}
  PROVE  Changed(AppendTop(h, r, si), h, r, L)
<1> DEFINE i == NewSlot(h)
           t == h.tail[r]
           g == InsertAfter(h, t, si)
<1>1. CASE t = Nil
  <2>1. h.head[r] = Nil
    BY <1>1 DEF Whole, EndsJoined
  <2> QED
    BY <1>1, <2>1, OnlyItemWhole DEF AppendTop, OnlyItem
<1>2. CASE t # Nil
  <2>1. t \in Live(h) /\ h.rel[t] = r /\ t \in InUse(h)
    BY <1>2, EndsInUse DEF Whole, InUse
  <2> HIDE DEF t
  <2>2. g.tail[r] = i /\ Changed(g, h, r, L)
    BY <2>1, InsertAfterGood, AfterWhole DEF t, Whole
  <2>3. AppendTop(h, r, si) = [g EXCEPT !.tail[r] = i]
    BY <1>2 DEF AppendTop, t
  <2> HIDE DEF g
  <2>4. [g EXCEPT !.tail[r] = i] = g
    BY <2>2 DEF Changed, Whole, Good, Heap
  <2> QED
    BY <2>2, <2>3, <2>4
<1> QED
  BY <1>1, <1>2

LEMMA PrependTopWhole ==
  ASSUME NEW L, NEW h, Whole(h, L), Spares(h, 1), Live(h) # Items, NEW r \in Rels,
         NEW si \in Live(h) \cup {Nil}
  PROVE  Changed(PrependTop(h, r, si), h, r, L)
<1> DEFINE i == NewSlot(h)
           t == h.head[r]
           g == InsertBefore(h, t, si)
<1>1. CASE t = Nil
  BY <1>1, OnlyItemWhole DEF PrependTop, OnlyItem
<1>2. CASE t # Nil
  <2>1. t \in Live(h) /\ h.rel[t] = r /\ t \in InUse(h)
    BY <1>2, EndsInUse DEF Whole, InUse
  <2> HIDE DEF t
  <2>2. g.head[r] = i /\ Changed(g, h, r, L)
    BY <2>1, InsertBeforeGood, BeforeWhole DEF t, Whole
  <2>3. PrependTop(h, r, si) = [g EXCEPT !.head[r] = i]
    BY <1>2 DEF PrependTop, t
  <2> HIDE DEF g
  <2>4. [g EXCEPT !.head[r] = i] = g
    BY <2>2 DEF Changed, Whole, Good, Heap
  <2> QED
    BY <2>2, <2>3, <2>4
<1> QED
  BY <1>1, <1>2
-----------------------------------------------------------------------------
(* Deletions.                                                              *)

(* A change to one relation leaves what is reached in the others. *)
LEMMA ElsewhereReached ==
  ASSUME NEW h, Good(h), NEW g, Good(g), NEW r, Elsewhere(g, h, r),
         NEW q \in Rels \ {r}
  PROVE  /\ Tree(h, h.head[q]) \subseteq Tree(g, g.head[q])
         /\ h.head[q] # Nil => List(h, h.head[q]) \subseteq List(g, g.head[q])
<1> DEFINE a == h.head[q]
           S == {j \in Tree(g, a) : h.rel[j] = q}
           L == {j \in List(g, a) : h.rel[j] = q}
<1>1. /\ Pointers(h) /\ Pointers(g) /\ Links(h) /\ a \in Ptr /\ g.head[q] = a
      /\ a # Nil => h.rel[a] = q
  BY DEF Good, Heap, Pointers, Elsewhere, Links, EndsGood
<1> HIDE DEF a
<1>2. TreeClosed(h, S) /\ S \in SUBSET Items /\ (a # Nil => a \in S)
  <2>1. /\ Tree(g, a) \subseteq Items /\ TreeClosed(g, Tree(g, a))
        /\ a # Nil => a \in Tree(g, a)
    BY <1>1, TreeLeast
  <2> HIDE DEF S
  <2>2. \A j \in S : j \in Tree(g, a) /\ h.rel[j] = q
    BY DEF S
  <2>3. \A j \in S : /\ h.n[j] # Nil => h.n[j] \in S
                     /\ h.d[j] # Nil => h.d[j] \in S
    BY <1>1, <2>1, <2>2 DEF TreeClosed, Elsewhere, Links, NextGood, DownGood, S
  <2> QED
    BY <1>1, <2>1, <2>3 DEF TreeClosed, S
<1>3. Tree(h, a) \subseteq S
  BY <1>1, <1>2, TreeLeast
<1>4. ASSUME a # Nil PROVE List(h, a) \subseteq L
  <2>1. a \in Items /\ List(g, a) \subseteq Items
        /\ NextClosed(g, List(g, a)) /\ a \in List(g, a)
    BY <1>1, <1>4, ListLeast DEF Ptr
  <2>2. \A j \in L : h.n[j] # Nil => h.n[j] \in L
    BY <1>1, <2>1 DEF NextClosed, Elsewhere, Links, NextGood
  <2>3. NextClosed(h, L) /\ L \in SUBSET Items /\ a \in L
    BY <1>1, <1>4, <2>1, <2>2 DEF NextClosed
  <2> QED
    BY <1>1, <2>1, <2>3, ListLeast
<1> QED
  BY <1>1, <1>3, <1>4 DEF a

(* A change to relation r is to be looked at in r only. *)
LEMMA ChangedThere ==
  ASSUME NEW L, NEW h, Whole(h, L), NEW g, Good(g), NEW r \in Rels, Elsewhere(g, h, r),
         g.head[r] = Nil <=> g.tail[r] = Nil,
         g.head[r] # Nil => g.tail[r] \in List(g, g.head[r]),
         \A j \in Items \ L : g.rel[j] = r => j \in Tree(g, g.head[r])
  PROVE  Changed(g, h, r, L)
<1>1. Good(h)
  BY DEF Whole
<1>2. EndsJoined(g)
  <2> SUFFICES ASSUME NEW q \in Rels \ {r}
               PROVE  /\ g.head[q] = Nil <=> g.tail[q] = Nil
                      /\ g.head[q] # Nil => g.tail[q] \in List(g, g.head[q])
    BY DEF EndsJoined
  <2>1. /\ h.head[q] = Nil <=> h.tail[q] = Nil
        /\ h.head[q] # Nil => h.tail[q] \in List(h, h.head[q])
    BY DEF Whole, EndsJoined
  <2>2. g.head[q] = h.head[q] /\ g.tail[q] = h.tail[q]
    BY DEF Elsewhere
  <2> QED
    BY <1>1, <2>1, <2>2, ElsewhereReached
<1>3. AllInUse(g, L)
  <2> SUFFICES ASSUME NEW j \in Items \ L, g.rel[j] # Nil, g.rel[j] # r
               PROVE  j \in Tree(g, g.head[g.rel[j]])
    BY DEF AllInUse
  <2> DEFINE q == g.rel[j]
  <2>1. q \in Rels \ {r}
    BY DEF Good, Heap
  <2> HIDE DEF q
  <2>2. h.rel[j] = q
    BY <2>1 DEF Elsewhere, q
  <2>3. j \in Tree(h, h.head[q])
    BY <2>1, <2>2, PointerAssumption DEF Whole, AllInUse
  <2> QED
    BY <1>1, <2>1, <2>3, ElsewhereReached DEF q
<1> QED
  BY <1>2, <1>3 DEF Changed, Whole

LEMMA FreeValues ==
  ASSUME NEW h, h \in Heap, NEW D \in SUBSET Items
  PROVE  /\ \A j \in Items :
              /\ Free(h, D).n[j] = IF j \in D THEN Nil ELSE h.n[j]
              /\ Free(h, D).p[j] = IF j \in D THEN Nil ELSE h.p[j]
              /\ Free(h, D).u[j] = IF j \in D THEN Nil ELSE h.u[j]
              /\ Free(h, D).d[j] = IF j \in D THEN Nil ELSE h.d[j]
              /\ Free(h, D).rel[j] = IF j \in D THEN Nil ELSE h.rel[j]
         /\ \A r \in Rels :
              /\ Free(h, D).head[r] = IF h.head[r] \in D THEN Nil ELSE h.head[r]
              /\ Free(h, D).tail[r] = IF h.tail[r] \in D THEN Nil ELSE h.tail[r]
BY DEF Free

LEMMA ClearWhole ==
  ASSUME NEW L, NEW h, Whole(h, L), NEW r \in Rels
  PROVE  Changed(Clear(h, r), h, r, L)
<1> DEFINE x == h.head[r]
           D == Tree(h, x)
           f == Free(h, D)
           g == Clear(h, r)
<1>1. /\ Good(h) /\ h \in Heap /\ Pointers(h) /\ Links(h)
      /\ Nil \notin Items /\ Nil \notin Rels
  BY PointerAssumption DEF Whole, Good, Heap, Pointers
<1>2. Good(g)
  BY <1>1, ClearGood
<1>3. D \in SUBSET Items /\ \A j \in D : h.rel[j] = r
  <2>1. x \in Ptr /\ (x # Nil => h.rel[x] = r)
    BY <1>1 DEF Pointers, Links, EndsGood
  <2> HIDE DEF x
  <2>2. CASE x = Nil
    <3>1. TreeClosed(h, {}) /\ {} \in SUBSET Items
      BY DEF TreeClosed
    <3>2. D \subseteq {}
      BY <1>1, <2>1, <2>2, <3>1, TreeLeast
    <3> QED
      BY <3>2
  <2>3. CASE x # Nil
    BY <1>1, <2>1, <2>3, TreeLeast, TreeWithin
  <2> QED
    BY <2>2, <2>3
<1>4. \A j \in Items \ L : h.rel[j] = r => j \in D
  BY <1>1 DEF Whole, AllInUse
<1> HIDE DEF D, x
<1>5. /\ \A j \in Items : /\ f.n[j] = IF j \in D THEN Nil ELSE h.n[j]
                          /\ f.p[j] = IF j \in D THEN Nil ELSE h.p[j]
                          /\ f.u[j] = IF j \in D THEN Nil ELSE h.u[j]
                          /\ f.d[j] = IF j \in D THEN Nil ELSE h.d[j]
                          /\ f.rel[j] = IF j \in D THEN Nil ELSE h.rel[j]
      /\ \A q \in Rels : /\ f.head[q] = IF h.head[q] \in D THEN Nil ELSE h.head[q]
                         /\ f.tail[q] = IF h.tail[q] \in D THEN Nil ELSE h.tail[q]
  BY <1>1, <1>3, FreeValues
<1>6. /\ g.n = f.n /\ g.p = f.p /\ g.u = f.u /\ g.d = f.d /\ g.rel = f.rel
      /\ g.head = [f.head EXCEPT ![r] = Nil] /\ g.tail = [f.tail EXCEPT ![r] = Nil]
      /\ f.head \in [Rels -> Ptr] /\ f.tail \in [Rels -> Ptr]
  <2>1. g = [f EXCEPT !.head[r] = Nil, !.tail[r] = Nil]
    BY DEF Clear, D, x
  <2>2. f \in Heap
    BY <1>1, <1>3 DEF Free, Heap, Ptr
  <2> HIDE DEF f, g
  <2> QED
    BY <2>1, <2>2 DEF Heap
<1> HIDE DEF f, g
<1>7. g.head[r] = Nil /\ g.tail[r] = Nil
  BY <1>6
<1>8. \A j \in Items \ L : g.rel[j] # r
  BY <1>1, <1>4, <1>5, <1>6
<1>9. Elsewhere(g, h, r)
  BY <1>1, <1>3, <1>5, <1>6 DEF Elsewhere, Links, EndsGood, Pointers, Ptr
<1> QED
  BY <1>2, <1>7, <1>8, <1>9, ChangedThere DEF g

(* Deletion takes x and what is below it out of the list and the tree of   *)
(* the relation.                                                           *)
LEMMA DeleteWhole ==
  ASSUME NEW L, NEW h, Whole(h, L), NEW x \in Live(h)
  PROVE  Changed(Delete(h, x), h, h.rel[x], L)
<1> DEFINE y == h.d[x]
           B == Tree(h, y)
           D == {x} \cup B
           k == Unlink(h, x)
           g == Delete(h, x)
           r == h.rel[x]
           a == h.p[x]
           b == h.n[x]
           v == h.u[x]
           hd == h.head[r]
           tl == h.tail[r]
<1>1. /\ Good(h) /\ Pointers(h) /\ Links(h) /\ x \in Items /\ r \in Rels
      /\ Nil \notin Items /\ Nil \notin Rels
      /\ a \in Ptr /\ b \in Ptr /\ v \in Ptr /\ y \in Ptr
      /\ hd \in Ptr /\ tl \in Ptr
  BY PointerAssumption DEF Whole, Good, Heap, Pointers, Live
<1>2. Good(g)
  BY <1>1, DeleteGood
<1>3. /\ B \subseteq Items /\ TreeClosed(h, B) /\ (y # Nil => y \in B)
      /\ \A j \in D : h.rel[j] = r
  <2>1. /\ B \subseteq Items /\ TreeClosed(h, B) /\ (y # Nil => y \in B)
        /\ \A S \in SUBSET Items : (y # Nil => y \in S) /\ TreeClosed(h, S)
                                    => B \subseteq S
    BY <1>1, TreeLeast
  <2> HIDE DEF B
  <2>2. CASE y = Nil
    <3>1. TreeClosed(h, {}) /\ {} \in SUBSET Items
      BY DEF TreeClosed
    <3> QED
      BY <2>1, <2>2, <3>1
  <2>3. CASE y # Nil
    <3>1. h.rel[y] = r
      BY <1>1, <2>3 DEF Links, DownGood
    <3> HIDE DEF y
    <3>2. \A j \in Tree(h, y) : h.rel[j] = h.rel[y]
      BY <1>1, TreeWithin
    <3> QED
      BY <2>1, <3>1, <3>2 DEF B
  <2> QED
    BY <2>1, <2>2, <2>3
<1>4. D \in SUBSET Items
  BY <1>1, <1>3
<1>5. /\ k \in Heap /\ k.rel = h.rel
      /\ Stored(k.p, h.p, b, a) /\ Stored(k.u, h.u, b, v)
      /\ Stored(k.n, h.n, a, b) /\ Stored(k.d, h.d, v, b)
      /\ Replaced(k.head, h.head, r, x, b) /\ Replaced(k.tail, h.tail, r, x, a)
  BY <1>1, UnlinkValues
<1>6. g = Free(k, D)
  BY DEF Delete, Under
<1>7. \A j \in List(h, hd) : hd # Nil => j \notin B
  BY <1>1, TopNotBelow
<1>8. hd # Nil => /\ hd \in List(h, hd) /\ List(h, hd) \subseteq Items
                  /\ \A j \in List(h, hd) : j # hd => h.p[j] \in List(h, hd)
                  /\ h.p[hd] = Nil /\ h.u[hd] = Nil /\ h.rel[hd] = r
                  /\ NextClosed(h, List(h, hd))
                  /\ \A S \in SUBSET Items : hd \in S /\ NextClosed(h, S)
                       => List(h, hd) \subseteq S
  <2> SUFFICES ASSUME hd # Nil
               PROVE  /\ hd \in List(h, hd) /\ List(h, hd) \subseteq Items
                      /\ \A j \in List(h, hd) : j # hd => h.p[j] \in List(h, hd)
                      /\ h.p[hd] = Nil /\ h.u[hd] = Nil /\ h.rel[hd] = r
                      /\ NextClosed(h, List(h, hd))
                      /\ \A S \in SUBSET Items : hd \in S /\ NextClosed(h, S)
                           => List(h, hd) \subseteq S
    OBVIOUS
  <2>1. /\ hd \in Items /\ h.p[hd] = Nil /\ h.u[hd] = Nil /\ h.rel[hd] = r
    BY <1>1 DEF Links, EndsGood, Ptr
  <2> HIDE DEF hd
  <2> QED
    BY <1>1, <2>1, ListEntry, ListLeast
<1>9. /\ hd = Nil <=> tl = Nil
      /\ hd # Nil => tl \in List(h, hd)
      /\ tl # Nil => h.n[tl] = Nil
  BY <1>1 DEF Whole, EndsJoined, Links, EndsGood
<1>10. \A j \in Items \ L : h.rel[j] = r => j \in Tree(h, hd)
  BY <1>1 DEF Whole, AllInUse
<1>11. /\ b # Nil => h.p[b] = x /\ h.u[b] = Nil /\ h.rel[b] = r
       /\ a # Nil => h.n[a] = x /\ v = Nil /\ h.rel[a] = r
       /\ v # Nil => h.d[v] = x /\ a = Nil /\ h.rel[v] = r
  BY <1>1 DEF Links, NextGood, PrevGood, DownGood, UpGood, Ptr
<1> HIDE DEF B, k, g
<1>12. /\ \A j \in Items :
             IF j \in D
             THEN /\ g.n[j] = Nil /\ g.p[j] = Nil /\ g.u[j] = Nil
                  /\ g.d[j] = Nil /\ g.rel[j] = Nil
             ELSE /\ g.p[j] = IF j = b THEN a ELSE h.p[j]
                  /\ g.u[j] = IF j = b THEN v ELSE h.u[j]
                  /\ g.n[j] = IF j = a THEN b ELSE h.n[j]
                  /\ g.d[j] = IF j = v THEN b ELSE h.d[j]
                  /\ g.rel[j] = h.rel[j]
       /\ \A q \in Rels :
             /\ g.head[q] = IF k.head[q] \in D THEN Nil ELSE k.head[q]
             /\ g.tail[q] = IF k.tail[q] \in D THEN Nil ELSE k.tail[q]
             /\ k.head[q] = IF q = r /\ h.head[q] = x THEN b ELSE h.head[q]
             /\ k.tail[q] = IF q = r /\ h.tail[q] = x THEN a ELSE h.tail[q]
  <2> HIDE DEF D, a, b, v, r
  <2>1. /\ \A j \in Items : /\ k.p[j] = IF j = b THEN a ELSE h.p[j]
                            /\ k.u[j] = IF j = b THEN v ELSE h.u[j]
                            /\ k.n[j] = IF j = a THEN b ELSE h.n[j]
                            /\ k.d[j] = IF j = v THEN b ELSE h.d[j]
        /\ \A q \in Rels :
             /\ k.head[q] = IF q = r /\ h.head[q] = x THEN b ELSE h.head[q]
             /\ k.tail[q] = IF q = r /\ h.tail[q] = x THEN a ELSE h.tail[q]
    BY <1>5 DEF Stored, Replaced
  <2> QED
    BY <1>4, <1>5, <1>6, <2>1, FreeValues
<1>13. Elsewhere(g, h, r)
  <2> SUFFICES ASSUME NEW q \in Rels \ {r}
               PROVE  /\ g.head[q] = h.head[q] /\ g.tail[q] = h.tail[q]
                      /\ \A j \in Items : g.rel[j] = q <=> h.rel[j] = q
                      /\ \A j \in Items : h.rel[j] = q =>
                           /\ g.n[j] = h.n[j] /\ g.p[j] = h.p[j]
                           /\ g.u[j] = h.u[j] /\ g.d[j] = h.d[j]
    BY DEF Elsewhere
  <2>1. h.head[q] \notin D /\ h.tail[q] \notin D
    BY <1>1, <1>3, <1>4 DEF Links, EndsGood
  <2> HIDE DEF D, a, b, v, r
  <2>2. \A j \in Items : h.rel[j] = q => j \notin D /\ j \notin {a, b, v}
    BY <1>1, <1>3, <1>11
  <2>3. q # Nil
    BY <1>1
  <2> QED
    BY <1>12, <2>1, <2>2, <2>3
<1>14. \A q \in Rels : g.head[q] \in Ptr /\ g.tail[q] \in Ptr
  BY <1>2 DEF Good, Heap
<1>15. Pointers(g)
  BY <1>2 DEF Good, Heap, Pointers
<1>16. ASSUME hd # Nil
       PROVE  \/ hd = x /\ g.head[r] = Nil /\ g.tail[r] = Nil
              \/ /\ g.head[r] # Nil /\ g.head[r] \notin D
                 /\ g.head[r] = IF hd = x THEN b ELSE hd
                 /\ g.tail[r] \in List(h, hd) \ D
  <2>1. tl # Nil /\ tl \in List(h, hd) /\ tl \in Items /\ h.n[tl] = Nil
    BY <1>1, <1>8, <1>9, <1>16
  <2>2. CASE hd = x
    <3>1. a = Nil
      BY <1>8, <1>16, <2>2
    <3>2. CASE b = Nil
      <4>1. NextClosed(h, {x})
        BY <3>2 DEF NextClosed
      <4>2. tl = x
        BY <1>1, <1>8, <1>16, <2>1, <2>2, <4>1
      <4> QED
        BY <1>1, <1>4, <1>12, <2>2, <3>1, <3>2, <4>2
    <3>3. CASE b # Nil
      <4>1. b \in List(h, hd) /\ b # x
        BY <1>1, <1>8, <1>11, <1>16, <2>2, <3>1, <3>3 DEF NextClosed
      <4>2. b \notin D
        BY <1>7, <1>16, <4>1
      <4>3. tl # x
        BY <2>1, <3>3
      <4>4. tl \notin D
        BY <1>7, <1>16, <2>1, <4>3
      <4> HIDE DEF D, a, b, v, hd, tl
      <4>5. k.head[r] = b /\ k.tail[r] = tl
        BY <1>1, <1>12, <2>2, <4>3 DEF hd, tl
      <4> QED
        BY <1>1, <1>12, <2>1, <2>2, <3>3, <4>2, <4>4, <4>5
    <3> QED
      BY <3>2, <3>3
  <2>3. CASE hd # x
    <3>1. hd \notin D
      BY <1>7, <1>8, <1>16, <2>3
    <3>2. CASE tl = x
      <4>1. a \in List(h, hd) /\ a \in Items
        BY <1>8, <1>16, <2>1, <2>3, <3>2
      <4>2. a # x
        BY <1>1, <1>11, <2>1, <3>2
      <4>3. a \notin D
        BY <1>7, <1>16, <4>1, <4>2
      <4> HIDE DEF D, a, b, v, hd, tl
      <4>4. k.head[r] = hd /\ k.tail[r] = a
        BY <1>1, <1>12, <2>3, <3>2 DEF hd, tl
      <4> QED
        BY <1>1, <1>12, <1>16, <2>3, <3>1, <4>1, <4>3, <4>4
    <3>3. CASE tl # x
      <4>1. tl \notin D
        BY <1>7, <1>16, <2>1, <3>3
      <4> HIDE DEF D, a, b, v, hd, tl
      <4>2. k.head[r] = hd /\ k.tail[r] = tl
        BY <1>1, <1>12, <2>3, <3>3 DEF hd, tl
      <4> QED
        BY <1>1, <1>12, <1>16, <2>1, <2>3, <3>1, <4>1, <4>2
    <3> QED
      BY <3>2, <3>3
  <2> QED
    BY <2>2, <2>3
<1>17. hd = Nil => g.head[r] = Nil /\ g.tail[r] = Nil
  BY <1>1, <1>4, <1>9, <1>12
<1>18. ASSUME NEW S, S \subseteq Items,
              g.head[r] # Nil => g.head[r] \in S, NEW V,
              V = (S \ D) \cup B \cup (IF b \in S \cup D \cup {Nil} THEN {x} ELSE {})
       PROVE  /\ V \subseteq Items /\ V \ D \subseteq S
              /\ hd # Nil => hd \in V
              /\ NextClosed(g, S) => NextClosed(h, V)
              /\ TreeClosed(g, S) => TreeClosed(h, V)
  <2>1. V \subseteq Items /\ V \ D \subseteq S /\ S \cup D \cup {x} = V \cup {x}
    BY <1>1, <1>3, <1>18
  <2>2. ASSUME hd # Nil PROVE hd \in V
    <3>1. CASE hd # x
      BY <1>7, <1>8, <1>12, <1>16, <1>17, <1>18, <2>2, <3>1
    <3>2. CASE hd = x /\ g.head[r] # Nil
      BY <1>16, <1>18, <2>2, <3>2
    <3>3. CASE hd = x /\ g.head[r] = Nil
      <4> HIDE DEF D, b
      <4>1. k.head[r] = b
        BY <1>1, <1>12, <3>3
      <4>2. b \in D \cup {Nil}
        BY <1>1, <1>12, <3>3, <4>1
      <4> QED
        BY <1>18, <3>3, <4>2
    <3> QED
      BY <3>1, <3>2, <3>3
  <2>3. ASSUME NextClosed(g, S), NEW j \in V, h.n[j] # Nil PROVE h.n[j] \in V
    <3>1. CASE j \in B
      BY <1>3, <1>18, <2>3, <3>1 DEF TreeClosed
    <3>2. CASE j = x /\ j \notin B
      BY <1>18, <2>1, <2>3, <3>2
    <3>3. CASE j \in S \ D
      <4>1. g.n[j] \in S \cup {Nil} /\ j \in Items
        BY <1>18, <2>3, <3>3 DEF NextClosed
      <4>2. CASE j = a
        <5>1. h.n[j] = x
          BY <1>1, <1>11, <4>1, <4>2
        <5>2. g.n[j] = b
          BY <1>12, <3>3, <4>1, <4>2
        <5> QED
          BY <1>18, <4>1, <5>1, <5>2
      <4>3. CASE j # a
        <5>1. h.n[j] # x
          BY <1>1, <2>3, <4>1, <4>3 DEF Links, NextGood
        <5>2. g.n[j] = h.n[j]
          BY <1>12, <3>3, <4>1, <4>3
        <5> QED
          BY <1>18, <2>3, <4>1, <5>1, <5>2
      <4> QED
        BY <4>2, <4>3
    <3> QED
      BY <1>18, <2>3, <3>1, <3>2, <3>3
  <2>4. ASSUME TreeClosed(g, S), NEW j \in V, h.d[j] # Nil PROVE h.d[j] \in V
    <3>1. CASE j \in B
      BY <1>3, <1>18, <2>4, <3>1 DEF TreeClosed
    <3>2. CASE j = x
      BY <1>3, <1>18, <2>4, <3>2
    <3>3. CASE j \in S \ D
      <4>1. g.d[j] \in S \cup {Nil} /\ j \in Items
        BY <1>18, <2>4, <3>3 DEF TreeClosed
      <4>2. CASE j = v
        <5>1. h.d[j] = x
          BY <1>1, <1>11, <4>1, <4>2
        <5>2. g.d[j] = b
          BY <1>12, <3>3, <4>1, <4>2
        <5> QED
          BY <1>18, <4>1, <5>1, <5>2
      <4>3. CASE j # v
        <5>1. h.d[j] # x
          BY <1>1, <2>4, <4>1, <4>3 DEF Links, DownGood
        <5>2. g.d[j] = h.d[j]
          BY <1>12, <3>3, <4>1, <4>3
        <5> QED
          BY <1>18, <2>4, <4>1, <5>1, <5>2
      <4> QED
        BY <4>2, <4>3
    <3> QED
      BY <1>18, <2>4, <3>1, <3>2, <3>3
  <2>5. TreeClosed(g, S) => NextClosed(g, S)
    BY DEF TreeClosed, NextClosed
  <2> QED
    BY <2>1, <2>2, <2>3, <2>4, <2>5 DEF NextClosed, TreeClosed
<1> DEFINE V(S) == (S \ D) \cup B \cup
                   (IF b \in S \cup D \cup {Nil} THEN {x} ELSE {})
<1>19. ASSUME NEW j \in Items \ L, g.rel[j] = r PROVE j \in Tree(g, g.head[r])
  <2> DEFINE S == Tree(g, g.head[r])
  <2>1. S \subseteq Items /\ TreeClosed(g, S) /\ (g.head[r] # Nil => g.head[r] \in S)
    BY <1>1, <1>14, <1>15, TreeLeast
  <2>2. j \notin D /\ h.rel[j] = r
    BY <1>1, <1>12, <1>19
  <2> HIDE DEF S, D, B, b, hd
  <2>3. /\ V(S) \subseteq Items /\ V(S) \ D \subseteq S
        /\ hd # Nil => hd \in V(S)
        /\ TreeClosed(h, V(S))
    BY <1>18, <2>1
  <2> HIDE DEF V
  <2>4. Tree(h, hd) \subseteq V(S)
    BY <1>1, <2>3, TreeLeast
  <2> QED
    BY <1>10, <2>2, <2>3, <2>4 DEF S
<1>20. ASSUME g.head[r] # Nil PROVE g.tail[r] \in List(g, g.head[r])
  <2> DEFINE S == List(g, g.head[r])
  <2>1. S \subseteq Items /\ NextClosed(g, S) /\ g.head[r] \in S
    BY <1>1, <1>14, <1>15, <1>20, ListLeast DEF Ptr
  <2>2. hd # Nil /\ g.tail[r] \in List(h, hd) \ D
    BY <1>16, <1>17, <1>20
  <2> HIDE DEF S, D, B, b, hd
  <2>3. /\ V(S) \subseteq Items /\ V(S) \ D \subseteq S
        /\ hd # Nil => hd \in V(S)
        /\ NextClosed(h, V(S))
    BY <1>18, <2>1
  <2> HIDE DEF V
  <2>4. List(h, hd) \subseteq V(S)
    BY <1>8, <2>2, <2>3
  <2> QED
    BY <2>2, <2>3, <2>4 DEF S
<1>21. g.head[r] = Nil <=> g.tail[r] = Nil
  <2>1. hd # Nil => Nil \notin List(h, hd)
    BY <1>1, <1>8
  <2> QED
    BY <1>16, <1>17, <2>1
<1> HIDE DEF r, hd, tl, a, b, v, D
<1>22. Changed(g, h, r, L)
  BY <1>1, <1>2, <1>13, <1>19, <1>20, <1>21, ChangedThere
<1> QED
  BY <1>22 DEF g, r
-----------------------------------------------------------------------------
(* Calls that are made of several operators.                               *)

(* i has been hung below t: it is reached from t, and nothing else moved. *)
HungBelow(g, h, t, i) ==
  /\ Good(g) /\ Extends(g, h) /\ Elsewhere(g, h, h.rel[t])
  /\ EndsJoined(h) => EndsJoined(g)
  /\ g.rel = [h.rel EXCEPT ![i] = h.rel[t]] /\ g.d[i] = Nil
  /\ \A q \in Rels : g.head[q] = h.head[q]
  /\ \A S \in SUBSET Items : TreeClosed(g, S) /\ t \in S => i \in S

LEMMA HangLastJoins ==
  ASSUME NEW h, Good(h), Spares(h, 1), Live(h) # Items,
         NEW t \in Live(h), NEW si \in Live(h) \cup {Nil}
  PROVE  HungBelow(HangLast(h, t, si), h, t, NewSlot(h))
<1> DEFINE x == h.d[t]
           l == Last(h, x)
           i == NewSlot(h)
<1>1. CASE x = Nil
  <2> DEFINE g == InsertBelow(h, t, si)
  <2>1. /\ LinkedBelow(g, h, t, i) /\ Inserted(g, h, h.rel[t]) /\ Fresh(h, i)
        /\ g.d[i] = Nil
    BY <1>1, InsertBelowLinks, InsertBelowGood, Setting
  <2>2. HangLast(h, t, si) = g
    BY <1>1 DEF HangLast
  <2> HIDE DEF g
  <2>3. /\ Extends(g, h) /\ Elsewhere(g, h, h.rel[t])
        /\ \A S \in SUBSET Items : TreeClosed(g, S) /\ t \in S => i \in S
        /\ EndsJoined(h) => EndsJoined(g)
    BY <2>1, BelowJoins DEF Inserted
  <2> QED
    BY <2>1, <2>2, <2>3 DEF HungBelow, Inserted, LinkedBelow
<1>2. CASE x # Nil
  <2> DEFINE g == InsertAfter(h, l, si)
  <2>1. /\ x \in Items /\ h.p[x] = Nil /\ h.rel[x] = h.rel[t] /\ h.rel[t] # Nil
        /\ Pointers(h) /\ t \in Items
    BY <1>2 DEF Good, Links, DownGood, Heap, Ptr, Live, Pointers
  <2>3. HangLast(h, t, si) = g
    BY <1>2 DEF HangLast
  <2> HIDE DEF x
  <2>4. l \in Live(h) /\ h.rel[l] = h.rel[t] /\ l \in List(h, x)
    BY <2>1, LastExists DEF Live
  <2> HIDE DEF l
  <2>5. /\ LinkedAfter(g, h, l, i) /\ Inserted(g, h, h.rel[l]) /\ Fresh(h, i)
        /\ g.d[i] = Nil
    BY <2>4, InsertAfterLinks, InsertAfterGood, Setting
  <2> HIDE DEF g
  <2>6. /\ Extends(g, h) /\ Elsewhere(g, h, h.rel[t])
        /\ \A S \in SUBSET Items : TreeClosed(g, S) /\ l \in S => i \in S
        /\ EndsJoined(h) => EndsJoined(g)
    BY <2>4, <2>5, AfterJoins DEF Inserted
  <2>7. ASSUME NEW S \in SUBSET Items, TreeClosed(g, S), t \in S PROVE i \in S
    <3>1. TreeClosed(h, S)
      BY <2>6, <2>7 DEF Extends
    <3>2. x \in S /\ NextClosed(h, S)
      BY <1>2, <2>7, <3>1 DEF TreeClosed, NextClosed, x
    <3>3. l \in S
      BY <2>1, <2>4, <3>2, ListLeast
    <3> QED
      BY <2>6, <2>7, <3>3
  <2> QED
    BY <2>3, <2>4, <2>5, <2>6, <2>7 DEF HungBelow, Inserted, LinkedAfter
<1> QED
  BY <1>1, <1>2

LEMMA HangFirstJoins ==
  ASSUME NEW h, Good(h), Spares(h, 1), Live(h) # Items,
         NEW t \in Live(h), NEW si \in Live(h) \cup {Nil}
  PROVE  HungBelow(HangFirst(h, t, si), h, t, NewSlot(h))
<1> DEFINE x == h.d[t]
           i == NewSlot(h)
<1>1. CASE x = Nil
  <2>1. HangFirst(h, t, si) = HangLast(h, t, si)
    BY <1>1 DEF HangFirst, HangLast
  <2> QED
    BY <2>1, HangLastJoins
<1>2. CASE x # Nil
  <2> DEFINE g == InsertBefore(h, x, si)
  <2>1. /\ x \in Live(h) /\ h.rel[x] = h.rel[t] /\ h.u[x] = t /\ t # Nil
        /\ t \in Items /\ i \in Items /\ i # Nil
    BY <1>2, PointerAssumption, FreshSlot
    DEF Good, Links, DownGood, Heap, Ptr, Live
  <2>2. HangFirst(h, t, si) = g
    BY <1>2 DEF HangFirst
  <2>0. x # Nil
    BY <1>2
  <2> HIDE DEF x
  <2>3. /\ LinkedBefore(g, h, x, i) /\ Inserted(g, h, h.rel[x]) /\ Fresh(h, i)
        /\ g.d[i] = Nil
    BY <2>1, InsertBeforeLinks, InsertBeforeGood, Setting
  <2> HIDE DEF g
  <2>4. /\ Extends(g, h) /\ Elsewhere(g, h, h.rel[t])
        /\ EndsJoined(h) => EndsJoined(g)
    BY <2>1, <2>3, BeforeJoins DEF Inserted
  <2>5. \A q \in Rels : g.head[q] = h.head[q]
    BY <2>0, <2>1, <2>3 DEF LinkedBefore, Good, Links, EndsGood
  <2>6. ASSUME NEW S \in SUBSET Items, TreeClosed(g, S), t \in S PROVE i \in S
    BY <2>1, <2>3, <2>6 DEF LinkedBefore, TreeClosed
  <2> QED
    BY <2>1, <2>2, <2>3, <2>4, <2>5, <2>6 DEF HungBelow, Inserted
<1> QED
  BY <1>1, <1>2

LEMMA HangWhole ==
  ASSUME NEW L, NEW h, Whole(h, L), Spares(h, 1), Live(h) # Items,
         NEW t \in InUse(h), NEW g, HungBelow(g, h, t, NewSlot(h))
  PROVE  Changed(g, h, h.rel[t], L)
<1> DEFINE i == NewSlot(h)
           r == h.rel[t]
<1>1. Good(h) /\ Good(g) /\ i \in Items /\ r \in Rels /\ r # Nil
  BY FreshSlot, PointerAssumption DEF Whole, HungBelow, InUse, Live, Good, Heap
<1> HIDE DEF i
<1>2. /\ Extends(g, h) /\ Elsewhere(g, h, r) /\ EndsJoined(g)
      /\ g.rel = [h.rel EXCEPT ![i] = r]
      /\ \A q \in Rels : g.head[q] = h.head[q]
      /\ \A S \in SUBSET Items : TreeClosed(g, S) /\ t \in S => i \in S
  BY DEF HungBelow, Whole, i
<1>3. Pointers(g) /\ \A q \in Rels : g.head[q] \in Ptr
  BY <1>1 DEF Good, Heap, Pointers
<1>4. \A q \in Rels : h.head[q] # Nil => h.head[q] \in Tree(g, g.head[q])
  BY <1>2, <1>3, TreeLeast
<1>5. t \in Tree(g, g.head[r])
  BY <1>1, <1>2, <1>4, InUseReached
<1>6. i \in Tree(g, g.head[r])
  BY <1>1, <1>2, <1>3, <1>5, TreeLeast
<1>7. AllInUse(g, L)
  BY <1>1, <1>2, <1>4, <1>6, InsertedInUse DEF Whole
<1> QED
  BY <1>1, <1>2, <1>7 DEF Changed, Whole

(* Changes to one relation, one after another. *)
LEMMA ElsewhereTwice ==
  ASSUME NEW f, NEW g, NEW h, NEW r, Elsewhere(f, g, r), Elsewhere(g, h, r)
  PROVE  Elsewhere(f, h, r)
BY DEF Elsewhere

(* The daughters of the old form c are cut off, and given to the new item  *)
(* hung below t: all that was in use still is, c included.                 *)
LEMMA RehangJoins ==
  ASSUME NEW L, NEW h, Whole(h, L), Live(h) # Items, NEW t \in InUse(h), NEW c \in Live(h),
         h.rel[c] = h.rel[t], t \notin {c} \cup Under(h, c),
         NEW g0, Good(g0), LinkedCut(g0, h, c, h.d[c]),
         NEW g, HungBelow(g, g0, t, NewSlot(h)),
         NEW k, Good(k), LinkedGiven(k, g, NewSlot(h), h.d[c])
  PROVE  Changed(k, h, h.rel[t], L)
<1> DEFINE i == NewSlot(h)
           r == h.rel[t]
           y == h.d[c]
           a == h.head[r]
           S == Tree(k, a)
           B == Tree(h, y)
<1>1. /\ Good(h) /\ Links(h) /\ Pointers(h) /\ Pointers(g0) /\ Pointers(g)
      /\ Pointers(k) /\ Good(g)
      /\ i \in Items /\ h.rel[i] = Nil /\ h.d[i] = Nil
      /\ r \in Rels /\ r # Nil /\ Nil \notin Items
      /\ t \in Items /\ c \in Items /\ t # c /\ i # c /\ y \in Ptr
  <2>1. Good(h) /\ Good(g) /\ Links(h)
    BY DEF Whole, HungBelow, Good
  <2>2. /\ Pointers(h) /\ Pointers(g0) /\ Pointers(g) /\ Pointers(k)
        /\ y \in Ptr /\ r \in Rels /\ r # Nil /\ Nil \notin Items
        /\ t \in Items /\ c \in Items /\ t # c /\ h.rel[c] # Nil
    BY <2>1, PointerAssumption DEF InUse, Live, Good, Heap, Pointers
  <2>3. i \in Items /\ h.rel[i] = Nil
    BY FreshSlot
  <2> HIDE DEF i
  <2>4. h.d[i] = Nil
    BY <2>1, <2>3, FreeSlot
  <2> QED
    BY <2>1, <2>2, <2>3, <2>4
<1>2. /\ g0.n = h.n /\ g0.head = h.head /\ g0.tail = h.tail /\ g0.rel = h.rel
      /\ \A j \in Items : g0.u[j] = IF j = y THEN Nil ELSE h.u[j]
      /\ \A j \in Items : g0.d[j] = IF j = c THEN Nil ELSE h.d[j]
  BY DEF LinkedCut
<1>3. /\ Extends(g, g0) /\ Elsewhere(g, g0, r)
      /\ EndsJoined(g0) => EndsJoined(g)
      /\ g.rel = [h.rel EXCEPT ![i] = r] /\ g.d[i] = Nil
      /\ \A q \in Rels : g.head[q] = h.head[q]
      /\ \A Q \in SUBSET Items : TreeClosed(g, Q) /\ t \in Q => i \in Q
  BY <1>2 DEF HungBelow
<1> HIDE DEF i, y
<1>4. /\ k.n = g.n /\ k.head = g.head /\ k.tail = g.tail /\ k.rel = g.rel
      /\ \A j \in Items : k.d[j] = IF j = i THEN y ELSE g.d[j]
  BY DEF LinkedGiven, i, y
<1>5. EndsJoined(k)
  BY <1>2, <1>3, <1>4 DEF EndsJoined, List, Whole
<1>6. Elsewhere(k, h, r)
  <2>1. y # Nil => h.rel[y] = r /\ y \in Items
    BY <1>1 DEF Links, DownGood, y, Ptr
  <2>2. Elsewhere(g0, h, r)
    BY <1>1, <2>1 DEF Elsewhere, LinkedCut, y
  <2>3. Elsewhere(k, g, r)
    BY <1>1, <1>3, <2>1 DEF Elsewhere, LinkedGiven, y, i, Good, Heap
  <2> QED
    BY <1>3, <2>2, <2>3, ElsewhereTwice
<1>7. /\ S \in SUBSET Items /\ TreeClosed(k, S) /\ a \in Ptr /\ k.head[r] = a
      /\ a # Nil => a \in S
  BY <1>1, <1>3, <1>4, TreeLeast DEF Pointers
<1>8. B \in SUBSET Items /\ TreeClosed(h, B) /\ (y # Nil => y \in B)
  BY <1>1, TreeLeast
<1>9. t \in Tree(h, a) /\ t \notin B
  BY <1>1 DEF InUse, Under, y
<1> HIDE DEF S, B, a, r
<1>10. TreeClosed(g, S)
  BY <1>1, <1>3, <1>4, <1>7 DEF TreeClosed
<1>11. TreeClosed(g0, S)
  BY <1>3, <1>7, <1>10 DEF Extends
<1>12. t \in S
  <2> DEFINE T == S \cup B
  <2>1. TreeClosed(h, T)
    BY <1>1, <1>2, <1>7, <1>8, <1>11 DEF TreeClosed, y
  <2>2. T \in SUBSET Items /\ (a # Nil => a \in T)
    BY <1>7, <1>8
  <2> HIDE DEF T
  <2>3. Tree(h, a) \subseteq T
    BY <1>1, <1>7, <2>1, <2>2, TreeLeast
  <2> QED
    BY <1>9, <2>3 DEF T
<1>13. i \in S /\ (y # Nil => y \in S)
  <2>1. i \in S
    BY <1>3, <1>7, <1>10, <1>12
  <2> QED
    BY <2>1, <1>1, <1>4, <1>7 DEF TreeClosed
<1>14. TreeClosed(h, S)
  BY <1>1, <1>2, <1>7, <1>11, <1>13 DEF TreeClosed, y
<1>15. Tree(h, a) \subseteq S
  BY <1>1, <1>7, <1>14, TreeLeast
<1>16. ASSUME NEW j \in Items \ L, k.rel[j] = r PROVE j \in Tree(k, k.head[r])
  <2>1. CASE j = i
    BY <2>1, <1>7, <1>13 DEF S
  <2>2. CASE j # i
    <3>1. h.rel[j] = r
      BY <2>2, <1>1, <1>3, <1>4, <1>16 DEF Good, Heap
    <3>2. j \in Tree(h, a)
      BY <3>1, <1>1 DEF Whole, AllInUse, a
    <3> QED
      BY <3>2, <1>7, <1>15 DEF S
  <2> QED
    BY <2>1, <2>2
<1>17. Changed(k, h, r, L)
  BY <1>1, <1>5, <1>6, <1>16, ChangedThere DEF EndsJoined
<1> QED
  BY <1>17 DEF r

(* The calls on a daughter: c = Nil hangs si below t, otherwise the form   *)
(* that si has at the top of the relation goes.                            *)
LEMMA DaughterWhole ==
  ASSUME NEW L, NEW h, Whole(h, L), Spares(h, 1), Live(h) # Items,
         NEW t \in InUse(h), NEW c \in Live(h), h.rel[c] = h.rel[t],
         t \notin {c} \cup Under(h, c),
         NEW g, Hung(g, CutDaughters(h, c), h.rel[t]),
         HungBelow(g, CutDaughters(h, c), t, NewSlot(h))
  PROVE  Changed(Delete(GiveDaughters(g, NewSlot(h), h.d[c]), c), h, h.rel[t], L)
<1> DEFINE r  == h.rel[t]
           g0 == CutDaughters(h, c)
           k  == GiveDaughters(g, NewSlot(h), h.d[c])
<1>1. Good(h) /\ t \in Live(h)
  BY DEF Whole, InUse
<1>2. Good(g0) /\ LinkedCut(g0, h, c, h.d[c])
  BY <1>1, CutDaughtersGood
<1>3. /\ Good(k) /\ LinkedGiven(k, g, NewSlot(h), h.d[c])
      /\ c \in Live(k) /\ k.rel[c] = r
  BY <1>1, RehangGood
<1> HIDE DEF k, g0
<1>4. Changed(k, h, r, L)
  BY <1>2, <1>3, RehangJoins DEF g0
<1>5. Changed(Delete(k, c), k, r, L)
  BY <1>3, <1>4, DeleteWhole DEF Changed
<1> QED
  BY <1>4, <1>5, ElsewhereTwice DEF Changed, k

LEMMA DaughtersWhole ==
  ASSUME NEW L, NEW h, Whole(h, L), Spares(h, 1), Live(h) # Items,
         NEW t \in InUse(h), NEW si \in Live(h) \cup {Nil},
         TopForm(h, t, si) # Nil
           => t \notin {TopForm(h, t, si)} \cup Under(h, TopForm(h, t, si))
  PROVE  /\ Changed(AppendDaughter(h, t, si), h, h.rel[t], L)
         /\ Changed(PrependDaughter(h, t, si), h, h.rel[t], L)
<1> DEFINE c == TopForm(h, t, si)
           g0 == CutDaughters(h, c)
<1>1. Good(h) /\ t \in Live(h)
  BY DEF Whole, InUse
<1>2. CASE c = Nil
  <2>1. /\ AppendDaughter(h, t, si) = HangLast(h, t, si)
        /\ PrependDaughter(h, t, si) = HangFirst(h, t, si)
    BY <1>2 DEF AppendDaughter, PrependDaughter
  <2> QED
    BY <1>1, <2>1, HangLastJoins, HangFirstJoins, HangWhole
<1>3. CASE c # Nil
  <2>1. c \in Live(h) /\ h.rel[c] = h.rel[t] /\ t \notin {c} \cup Under(h, c)
    BY <1>1, <1>3, TopFormLive
  <2>2. /\ AppendDaughter(h, t, si) =
             Delete(GiveDaughters(HangLast(g0, t, si), NewSlot(h), h.d[c]), c)
        /\ PrependDaughter(h, t, si) =
             Delete(GiveDaughters(HangFirst(g0, t, si), NewSlot(h), h.d[c]), c)
    BY <1>3 DEF AppendDaughter, PrependDaughter
  <2> HIDE DEF c
  <2>3. Good(g0) /\ g0.rel = h.rel /\ g0.mem = h.mem
    BY <1>1, <2>1, CutDaughtersGood
  <2>4. Live(g0) = Live(h) /\ Spares(g0, 1) /\ g0.rel[t] = h.rel[t]
        /\ NewSlot(g0) = NewSlot(h) /\ t \in Live(g0)
    BY <1>1, <2>3 DEF Live, Spares, NewSlot
  <2>5. /\ Hung(HangLast(g0, t, si), g0, h.rel[t])
        /\ Hung(HangFirst(g0, t, si), g0, h.rel[t])
        /\ HungBelow(HangLast(g0, t, si), g0, t, NewSlot(h))
        /\ HungBelow(HangFirst(g0, t, si), g0, t, NewSlot(h))
    <3> HIDE DEF g0
    <3> QED
      BY <2>3, <2>4, HangLastGood, HangFirstGood, HangLastJoins, HangFirstJoins
  <2>6. Changed(Delete(GiveDaughters(HangLast(g0, t, si), NewSlot(h), h.d[c]), c),
                h, h.rel[t], L)
    BY <2>1, <2>5, DaughterWhole
  <2>7. Changed(Delete(GiveDaughters(HangFirst(g0, t, si), NewSlot(h), h.d[c]), c),
                h, h.rel[t], L)
    BY <2>1, <2>5, DaughterWhole
  <2> QED
    BY <2>2, <2>6, <2>7
<1> QED
  BY <1>2, <1>3

LEMMA ParentWhole ==
  ASSUME NEW L, NEW h, Whole(h, L), Spares(h, 5), Live(h) # Items,
         NEW t \in InUse(h), NEW si \in Live(h) \cup {Nil}
  PROVE  Changed(InsertParent(h, t, si), h, h.rel[t], L)
<1> DEFINE g == InsertParent(h, t, si)
           a == InsertBelow(h, t, Nil)
<1>1. Good(g) /\ SameLinks(g, a)
  BY InsertParentGood DEF Whole, InUse
<1>2. Changed(a, h, h.rel[t], L)
  BY SparesFewer, BelowWhole
<1> HIDE DEF g, a
<1>3. EndsJoined(g) /\ AllInUse(g, L) /\ Elsewhere(g, h, h.rel[t])
  BY <1>1, <1>2
  DEF SameLinks, Changed, Whole, EndsJoined, AllInUse, Elsewhere, List, Tree
<1> QED
  BY <1>1, <1>3 DEF Changed, Whole, g
-----------------------------------------------------------------------------
(* Whose contents a call leaves alone.                                     *)

LEMMA FreeKeeps ==
  ASSUME NEW h, h \in Heap, RefsAgree(h), NEW D \in SUBSET Items,
         NEW j \in Live(h), j \notin D
  PROVE  Kept(Free(h, D), h, j)
<1> DEFINE g == Free(h, D)
           c == h.con[j]
           r == h.rel[j]
<1>1. /\ j \in Items /\ r \in Rels /\ c \in Contents /\ c \in h.mem
      /\ h.reg[c][r] = j /\ c # Nil /\ j # Nil
  BY LiveContents, PointerAssumption
<1>2. /\ \A i \in Items : g.con[i] = IF i \in D THEN Nil ELSE h.con[i]
      /\ g.mem = {a \in h.mem : g.reg[a] # NoRef}
      /\ \A a \in Contents : \A q \in Rels :
           g.reg[a][q] = IF \E i \in D : h.con[i] = a /\ h.rel[i] = q
                         THEN Nil ELSE h.reg[a][q]
  BY DEF Free
<1> HIDE DEF g
<1>3. ~ \E i \in D : h.con[i] = c /\ h.rel[i] = r
  <2> SUFFICES ASSUME NEW i \in D, h.con[i] = c, h.rel[i] = r PROVE FALSE
    OBVIOUS
  <2>1. i \in Live(h)
    BY <1>1, PointerAssumption DEF Live
  <2>2. h.reg[h.con[i]][h.rel[i]] = i
    BY <2>1, LiveContents
  <2> QED
    BY <1>1, <2>2
<1>4. g.reg[c][r] = j
  BY <1>1, <1>2, <1>3
<1>5. g.reg[c] # NoRef
  BY <1>1, <1>4 DEF NoRef
<1>6. Kept(g, h, j)
  BY <1>1, <1>2, <1>5 DEF Kept
<1> QED
  BY <1>6 DEF g

LEMMA DeleteKeeps ==
  ASSUME NEW h, Good(h), NEW x \in Live(h), NEW j \in Live(h),
         j \in Live(Delete(h, x))
  PROVE  Kept(Delete(h, x), h, j)
<1> DEFINE k == Unlink(h, x)
           D == {x} \cup Under(h, x)
<1>1. k \in Heap /\ k.rel = h.rel /\ k.con = h.con /\ k.reg = h.reg /\ k.mem = h.mem
  BY UnlinkValues
<1>2. RefsAgree(k) /\ j \in Live(k)
  BY <1>1, RefsOnly DEF Good, Live
<1>3. D \in SUBSET Items
  <2>1. Pointers(h) /\ h.d[x] \in Ptr /\ x \in Items
    BY DEF Good, Heap, Pointers, Live
  <2> QED
    BY <2>1, TreeLeast DEF Under
<1>4. Delete(h, x) = Free(k, D)
  BY DEF Delete
<1> HIDE DEF k, D
<1>5. j \notin D
  BY <1>1, <1>3, <1>4, FreeValues DEF Live
<1>6. Kept(Free(k, D), k, j)
  BY <1>1, <1>2, <1>3, <1>5, FreeKeeps
<1> QED
  BY <1>1, <1>4, <1>6, SameKept, KeptTwice

LEMMA ClearKeeps ==
  ASSUME NEW h, Good(h), NEW r \in Rels, NEW j \in Live(h), j \in Live(Clear(h, r))
  PROVE  Kept(Clear(h, r), h, j)
<1> DEFINE D == Tree(h, h.head[r])
           f == Free(h, D)
           g == Clear(h, r)
<1>1. D \in SUBSET Items /\ h \in Heap /\ RefsAgree(h)
  <2>1. Pointers(h) /\ h.head[r] \in Ptr
    BY DEF Good, Heap, Pointers
  <2> QED
    BY <2>1, TreeLeast DEF Good
<1>2. g.con = f.con /\ g.mem = f.mem /\ g.rel = f.rel
  <2>1. g = [f EXCEPT !.head[r] = Nil, !.tail[r] = Nil]
    BY DEF Clear
  <2>2. DOMAIN f = {"n", "p", "u", "d", "rel", "con", "head", "tail", "reg", "mem"}
    BY DEF Free
  <2> HIDE DEF f
  <2> QED
    BY <2>1, <2>2
<1> HIDE DEF D, g
<1>3. j \notin D
  BY <1>1, <1>2, FreeValues DEF Live, g
<1>4. Kept(f, h, j)
  BY <1>1, <1>3, FreeKeeps
<1> QED
  BY <1>2, <1>4 DEF Kept, g

LEMMA TopsEnter ==
  ASSUME NEW h, Good(h), EndsJoined(h), Spares(h, 1), Live(h) # Items,
         NEW r \in Rels, NEW si \in Live(h) \cup {Nil}
  PROVE  /\ Entered(AppendTop(h, r, si), h, r, si)
         /\ Entered(PrependTop(h, r, si), h, r, si)
<1> DEFINE a == h.tail[r]
           b == h.head[r]
<1>1. /\ a # Nil => a \in Live(h) /\ h.rel[a] = r
      /\ b # Nil => b \in Live(h) /\ h.rel[b] = r
  BY EndsInUse DEF InUse
<1>2. Entered(AppendTop(h, r, si), h, r, si)
  <2>1. CASE a = Nil
    BY <2>1, InsertsEnter DEF AppendTop, OnlyItem
  <2>2. CASE a # Nil
    <3> DEFINE g == InsertAfter(h, a, si)
    <3>1. g \in Heap /\ Entered(g, h, r, si)
      BY <1>1, <2>2, InsertsEnter, InsertAfterGood DEF Inserted, Good
    <3>2. AppendTop(h, r, si) = [g EXCEPT !.tail[r] = NewSlot(h)]
      BY <2>2 DEF AppendTop
    <3> HIDE DEF g
    <3> QED
      BY <3>1, <3>2 DEF Entered, Heap
  <2> QED
    BY <2>1, <2>2
<1>3. Entered(PrependTop(h, r, si), h, r, si)
  <2>1. CASE b = Nil
    BY <2>1, InsertsEnter DEF PrependTop, OnlyItem
  <2>2. CASE b # Nil
    <3> DEFINE g == InsertBefore(h, b, si)
    <3>1. g \in Heap /\ Entered(g, h, r, si)
      BY <1>1, <2>2, InsertsEnter, InsertBeforeGood DEF Inserted, Good
    <3>2. PrependTop(h, r, si) = [g EXCEPT !.head[r] = NewSlot(h)]
      BY <2>2 DEF PrependTop
    <3> HIDE DEF g
    <3> QED
      BY <3>1, <3>2 DEF Entered, Heap
  <2> QED
    BY <2>1, <2>2
<1> QED
  BY <1>2, <1>3

LEMMA HangsEnter ==
  ASSUME NEW h, Good(h), Spares(h, 1), Live(h) # Items,
         NEW t \in Live(h), NEW si \in Live(h) \cup {Nil}
  PROVE  /\ Entered(HangLast(h, t, si), h, h.rel[t], si)
         /\ Entered(HangFirst(h, t, si), h, h.rel[t], si)
<1> DEFINE x == h.d[t]
           l == Last(h, x)
           r == h.rel[t]
<1>1. r \in Rels
  BY DEF Good, Live, Heap
<1>2. CASE x = Nil
  BY <1>1, <1>2, InsertsEnter DEF HangLast, HangFirst
<1>3. CASE x # Nil
  <2>1. x \in Items /\ h.p[x] = Nil /\ h.rel[x] = r /\ r # Nil
    BY <1>3 DEF Good, Links, DownGood, Heap, Ptr, Live
  <2>2. /\ HangLast(h, t, si) = InsertAfter(h, l, si)
        /\ HangFirst(h, t, si) = InsertBefore(h, x, si)
    BY <1>3 DEF HangLast, HangFirst
  <2> HIDE DEF x, r
  <2>3. l \in Live(h) /\ h.rel[l] = r
    BY <2>1, LastExists DEF Live
  <2> QED
    BY <1>1, <2>1, <2>2, <2>3, InsertsEnter DEF r
<1> QED
  BY <1>2, <1>3

(* Daughters: of the contents, only those of si change hands. *)
LEMMA DaughtersKeep ==
  ASSUME NEW h, Good(h), Spares(h, 1), Live(h) # Items,
         NEW t \in Live(h), NEW si \in Live(h) \cup {Nil},
         NEW j \in Live(h), si = Nil \/ h.con[si] # h.con[j]
  PROVE  /\ j \in Live(AppendDaughter(h, t, si))
              => Kept(AppendDaughter(h, t, si), h, j)
         /\ j \in Live(PrependDaughter(h, t, si))
              => Kept(PrependDaughter(h, t, si), h, j)
<1> DEFINE c  == TopForm(h, t, si)
           r  == h.rel[t]
           g0 == CutDaughters(h, c)
           y  == h.d[c]
<1>1. r \in Rels /\ r # Nil
  BY PointerAssumption DEF Good, Live, Heap
<1>2. CASE c = Nil
  <2>1. /\ AppendDaughter(h, t, si) = HangLast(h, t, si)
        /\ PrependDaughter(h, t, si) = HangFirst(h, t, si)
    BY <1>2 DEF AppendDaughter, PrependDaughter
  <2>2. /\ Entered(HangLast(h, t, si), h, r, si)
        /\ Entered(HangFirst(h, t, si), h, r, si)
    BY HangsEnter
  <2> HIDE DEF r
  <2> QED
    BY <1>1, <2>1, <2>2, EnteredKeeps
<1>3. CASE c # Nil
  <2>1. c \in Live(h) /\ h.rel[c] = r
    BY <1>3, TopFormLive
  <2>2. /\ AppendDaughter(h, t, si) =
             Delete(GiveDaughters(HangLast(g0, t, si), NewSlot(h), y), c)
        /\ PrependDaughter(h, t, si) =
             Delete(GiveDaughters(HangFirst(g0, t, si), NewSlot(h), y), c)
    BY <1>3 DEF AppendDaughter, PrependDaughter
  <2> HIDE DEF c
  <2>3. Good(g0) /\ g0.rel = h.rel /\ g0.mem = h.mem
    BY <2>1, CutDaughtersGood
  <2>4. g0.con = h.con
    BY DEF CutDaughters, Good, Heap
  <2>5. Live(g0) = Live(h) /\ Spares(g0, 1) /\ g0.rel[t] = r
    BY <2>3 DEF Live, Spares
  <2>6. ASSUME NEW g, Hung(g, g0, r), Entered(g, g0, r, si),
               j \in Live(Delete(GiveDaughters(g, NewSlot(h), y), c))
        PROVE  Kept(Delete(GiveDaughters(g, NewSlot(h), y), c), h, j)
    <3> DEFINE k == GiveDaughters(g, NewSlot(h), y)
    <3>1. Good(k) /\ c \in Live(k)
      BY <2>1, <2>6, RehangGood
    <3>2. Good(g) /\ g.rel = [g0.rel EXCEPT ![NewSlot(g0)] = r]
      BY <2>6 DEF Hung, Inserted
    <3>3. k.con = g.con /\ k.mem = g.mem /\ k.rel = g.rel
      BY <3>2 DEF GiveDaughters, Good, Heap
    <3> HIDE DEF k, g0, r
    <3>4. Kept(g, g0, j)
      BY <1>1, <2>3, <2>4, <2>5, <2>6, EnteredKeeps
    <3>5. Kept(k, g0, j)
      BY <3>3, <3>4 DEF Kept
    <3>6. j \in Live(k)
      BY <1>1, <2>3, <3>2, <3>3 DEF Live, Good, Heap
    <3>7. Kept(Delete(k, c), k, j)
      BY <2>6, <3>1, <3>6, DeleteKeeps DEF k
    <3>8. Kept(g0, h, j)
      BY <2>3, <2>4, SameKept
    <3> QED
      BY <3>5, <3>7, <3>8, KeptTwice DEF k
  <2>7. /\ Hung(HangLast(g0, t, si), g0, r) /\ Hung(HangFirst(g0, t, si), g0, r)
        /\ Entered(HangLast(g0, t, si), g0, r, si)
        /\ Entered(HangFirst(g0, t, si), g0, r, si)
    <3>1. t \in Live(g0) /\ si \in Live(g0) \cup {Nil} /\ Live(g0) # Items
      BY <2>5
    <3> HIDE DEF g0, r
    <3> QED
      BY <2>3, <2>5, <3>1, HangLastGood, HangFirstGood, HangsEnter
  <2> QED
    BY <2>2, <2>6, <2>7
<1> QED
  BY <1>2, <1>3
-----------------------------------------------------------------------------
(* Copying a tree: the recursion.                                          *)

(* A set of numbers up to N has a least one. *)
LEMMA LeastNumber ==
  ASSUME NEW N \in Nat, NEW B, B \subseteq 0 .. N, B # {}
  PROVE  \E m \in B : \A k \in B : m <= k
<1> DEFINE T == {0 .. k : k \in B}
<1>1. T \subseteq FiniteSubsetsOf(0 .. N) /\ T # {}
  <2>1. ASSUME NEW k \in B PROVE 0 .. k \in FiniteSubsetsOf(0 .. N)
    <3>1. k \in 0 .. N /\ IsFiniteSet(0 .. k)
      BY FS_Interval
    <3> QED
      BY <3>1 DEF FiniteSubsetsOf
  <2> QED
    BY <2>1
<1> HIDE DEF T
<1>2. PICK x \in T : \A y \in T : ~(<<y, x>> \in StrictSubsetOrdering(0 .. N))
  BY <1>1, WFMin, FS_StrictSubsetOrderingWellFounded
<1>3. PICK m \in B : x = 0 .. m
  BY <1>2 DEF T
<1>4. ASSUME NEW k \in B, ~(m <= k) PROVE FALSE
  <2>1. k \in 0 .. N /\ m \in 0 .. N /\ 0 .. k \in T /\ k < m
    BY <1>4 DEF T
  <2>2. 0 .. k \subseteq 0 .. m /\ m \in 0 .. m /\ m \notin 0 .. k
    BY <2>1
  <2>3. <<0 .. k, 0 .. m>> \in StrictSubsetOrdering(0 .. N)
    BY <2>1, <2>2 DEF StrictSubsetOrdering
  <2> QED
    BY <1>2, <1>3, <2>1, <2>3
<1> QED
  BY <1>4

LEMMA ItemCount == Cardinality(Items) \in Nat
BY PointerAssumption, FS_CardinalityType

(* One level of the copying, on top of copy. *)
Level(copy) ==
  [c \in Copying |->
     CopyDown(copy, CopyNext(copy, c.heap, c.from, c.to), c.from, c.to)]

Level0 == [c \in Copying |-> c.heap]

Levels(f, m) ==
  /\ f = [k \in 0 .. m |-> f[k]] /\ f[0] = Level0
  /\ \A k \in 1 .. m : f[k] = Level(f[k - 1])

LEMMA LevelsExist == \E f : Levels(f, Cardinality(Items))
<1> DEFINE N == Cardinality(Items)
           B == {m \in 0 .. N : ~ \E f : Levels(f, m)}
<1>1. N \in Nat
  BY ItemCount
<1> SUFFICES ASSUME ~ \E f : Levels(f, N) PROVE FALSE
  OBVIOUS
<1> HIDE DEF N
<1>2. B \subseteq 0 .. N /\ B # {}
  <2>1. N \in 0 .. N
    BY <1>1
  <2> QED
    BY <2>1
<1>3. PICK m \in B : \A k \in B : m <= k
  BY <1>1, <1>2, LeastNumber
<1>4. m \in 0 .. N /\ ~ \E f : Levels(f, m)
  BY <1>3
<1>5. CASE m = 0
  <2> DEFINE f == [k \in 0 .. 0 |-> Level0]
  <2>1. f = [k \in 0 .. 0 |-> f[k]] /\ f[0] = Level0
    OBVIOUS
  <2> HIDE DEF f
  <2>2. Levels(f, 0)
    BY <2>1 DEF Levels
  <2> QED
    BY <1>4, <1>5, <2>2
<1>6. CASE m # 0
  <2>1. m - 1 \in 0 .. N /\ m \in 1 .. N /\ ~(m <= m - 1)
    BY <1>1, <1>4, <1>6
  <2>2. m - 1 \notin B
    BY <1>3, <2>1
  <2>3. PICK f : Levels(f, m - 1)
    BY <2>1, <2>2
  <2> DEFINE w == Level(f[m - 1])
             g == [k \in 0 .. m |-> IF k = m THEN w ELSE f[k]]
  <2>4. w = Level(f[m - 1])
    OBVIOUS
  <2> HIDE DEF w
  <2>5. \A k \in 0 .. m : g[k] = IF k = m THEN w ELSE f[k]
    OBVIOUS
  <2>6. g = [k \in 0 .. m |-> g[k]]
    OBVIOUS
  <2> HIDE DEF g
  <2>7. g[0] = Level0
    <3>1. m \in Nat /\ 0 \in 0 .. m /\ 0 # m
      BY <1>4, <1>6
    <3>2. f[0] = Level0
      BY <2>3 DEF Levels
    <3> QED
      BY <2>5, <3>1, <3>2
  <2>8. ASSUME NEW k \in 1 .. m PROVE g[k] = Level(g[k - 1])
    <3>1. CASE k = m
      BY <2>1, <2>4, <2>5, <3>1
    <3>2. CASE k # m
      <4>1. k \in 1 .. m - 1 /\ k \in 0 .. m /\ k - 1 \in 0 .. m /\ k - 1 # m
        BY <2>1, <3>2
      <4>2. f[k] = Level(f[k - 1])
        BY <2>3, <4>1 DEF Levels
      <4> QED
        BY <2>5, <3>2, <4>1, <4>2
    <3> QED
      BY <3>1, <3>2
  <2>9. Levels(g, m)
    BY <2>6, <2>7, <2>8 DEF Levels
  <2> QED
    BY <1>4, <2>9
<1> QED
  BY <1>5, <1>6

(* So CopyNodeTree is what its definition says. *)
LEMMA CopyNodeTreeLevels ==
  \A k \in 0 .. Cardinality(Items) :
    CopyNodeTree[k] = IF k = 0 THEN Level0 ELSE Level(CopyNodeTree[k - 1])
<1> DEFINE N == Cardinality(Items)
           Body(f, k) == [c \in Copying |->
              IF k = 0 THEN c.heap
              ELSE CopyDown(f[k - 1], CopyNext(f[k - 1], c.heap, c.from, c.to),
                            c.from, c.to)]
           Def(f) == f = [k \in 0 .. N |-> Body(f, k)]
<1>1. N \in Nat
  BY ItemCount
<1> HIDE DEF N
<1>2. \A f, k : Body(f, k) = IF k = 0 THEN Level0 ELSE Level(f[k - 1])
  BY DEF Level0, Level
<1>3. PICK f : Levels(f, N)
  BY LevelsExist DEF N
<1> HIDE DEF Body
<1>4. ASSUME NEW k \in 0 .. N PROVE f[k] = Body(f, k)
  <2>1. CASE k = 0
    BY <1>2, <1>3, <2>1 DEF Levels
  <2>2. CASE k # 0
    <3>1. k \in 1 .. N
      BY <1>1, <2>2
    <3>2. f[k] = Level(f[k - 1])
      BY <1>3, <3>1 DEF Levels
    <3> QED
      BY <1>2, <2>2, <3>2
  <2> QED
    BY <2>1, <2>2
<1>5. Def(f)
  BY <1>3, <1>4 DEF Levels
<1>6. CopyNodeTree = CHOOSE g : Def(g)
  BY DEF CopyNodeTree, N, Body
<1>7. Def(CopyNodeTree)
  BY <1>5, <1>6
<1>8. \A k \in 0 .. N : CopyNodeTree[k] = Body(CopyNodeTree, k)
  BY <1>7
<1> QED
  BY <1>2, <1>8 DEF N

(* Nothing in the tree that starts at a leads to a. *)
Root(h, a) == h.p[a] \notin Tree(h, a) /\ h.u[a] \notin Tree(h, a)

(* All of a tree but its first item is entered from the tree. *)
LEMMA TreeBefore ==
  ASSUME NEW h, Good(h), NEW x \in Ptr, NEW j \in Tree(h, x), j # x
  PROVE  h.p[j] \in Tree(h, x) \/ h.u[j] \in Tree(h, x)
<1>1. Pointers(h) /\ Links(h) /\ Nil \notin Items
  BY PointerAssumption DEF Good, Heap, Pointers
<1>2. /\ x # Nil => x \in Tree(h, x)
      /\ Tree(h, x) \subseteq Items /\ TreeClosed(h, Tree(h, x))
      /\ \A S \in SUBSET Items : (x # Nil => x \in S) /\ TreeClosed(h, S)
                                  => Tree(h, x) \subseteq S
  BY <1>1, TreeLeast
<1> SUFFICES ASSUME h.p[j] \notin Tree(h, x), h.u[j] \notin Tree(h, x) PROVE FALSE
  OBVIOUS
<1> DEFINE S == Tree(h, x) \ {j}
<1>3. S \in SUBSET Items /\ (x # Nil => x \in S)
  BY <1>2
<1>4. ASSUME NEW k \in S PROVE h.n[k] \in S \cup {Nil} /\ h.d[k] \in S \cup {Nil}
  <2>1. k \in Items /\ k \in Tree(h, x) /\ j \in Items /\ j # Nil
    BY <1>1, <1>2
  <2>2. h.n[k] # j /\ h.d[k] # j
    BY <1>1, <2>1 DEF Links, NextGood, DownGood
  <2> QED
    BY <1>2, <2>1, <2>2 DEF TreeClosed
<1>5. TreeClosed(h, S)
  BY <1>4 DEF TreeClosed
<1>6. Tree(h, x) \subseteq S
  BY <1>2, <1>3, <1>5
<1> QED
  BY <1>6

(* Such a tree is its first item, the tree of the next and that of the     *)
(* daughters, apart from each other.                                       *)
LEMMA RootParts ==
  ASSUME NEW h, Good(h), NEW a \in Items, Root(h, a)
  PROVE  /\ h.n[a] \in Ptr /\ h.d[a] \in Ptr
         /\ Tree(h, a) = {a} \cup Tree(h, h.n[a]) \cup Tree(h, h.d[a])
         /\ a \notin Tree(h, h.n[a]) /\ a \notin Tree(h, h.d[a])
         /\ Tree(h, h.n[a]) \cap Tree(h, h.d[a]) = {}
         /\ h.n[a] # Nil => Root(h, h.n[a])
         /\ h.d[a] # Nil => Root(h, h.d[a])
<1> DEFINE x == h.n[a]
           y == h.d[a]
           A == Tree(h, a)
           X == Tree(h, x)
           Y == Tree(h, y)
<1>1. Pointers(h) /\ Links(h) /\ Nil \notin Items
  BY PointerAssumption DEF Good, Heap, Pointers
<1>2. x \in Ptr /\ y \in Ptr /\ a \in Ptr /\ a # Nil
  BY <1>1 DEF Pointers, Ptr
<1>3. a \in A /\ A \subseteq Items /\ TreeClosed(h, A)
  BY <1>1, <1>2, TreeLeast
<1>4. /\ x # Nil => x \in X
      /\ X \subseteq Items /\ TreeClosed(h, X)
      /\ \A S \in SUBSET Items : (x # Nil => x \in S) /\ TreeClosed(h, S)
                                  => X \subseteq S
  BY <1>1, <1>2, TreeLeast
<1>5. /\ y # Nil => y \in Y
      /\ Y \subseteq Items /\ TreeClosed(h, Y)
      /\ \A S \in SUBSET Items : (y # Nil => y \in S) /\ TreeClosed(h, S)
                                  => Y \subseteq S
  BY <1>1, <1>2, TreeLeast
<1>6. X \subseteq A /\ Y \subseteq A
  <2>1. x \in A \cup {Nil} /\ y \in A \cup {Nil}
    BY <1>3 DEF TreeClosed
  <2> HIDE DEF A, X, Y, x, y
  <2> QED
    BY <1>3, <1>4, <1>5, <2>1
<1>7. \A j \in X : j # x => h.p[j] \in X \/ h.u[j] \in X
  BY <1>2, TreeBefore
<1>8. \A j \in Y : j # y => h.p[j] \in Y \/ h.u[j] \in Y
  BY <1>2, TreeBefore
<1>9. h.p[a] \notin A /\ h.u[a] \notin A
  BY DEF Root
<1>10. /\ x # Nil => h.p[x] = a /\ h.u[x] = Nil
       /\ y # Nil => h.u[y] = a /\ h.p[y] = Nil
  BY <1>1 DEF Links, NextGood, DownGood
<1>11. A \subseteq {a} \cup X \cup Y
  <2> DEFINE S == {a} \cup X \cup Y
  <2>1. S \in SUBSET Items /\ a \in S
    BY <1>4, <1>5
  <2>2. ASSUME NEW k \in S PROVE h.n[k] \in S \cup {Nil} /\ h.d[k] \in S \cup {Nil}
    <3>1. CASE k = a
      <4>1. x \in X \cup {Nil} /\ y \in Y \cup {Nil}
        BY <1>4, <1>5
      <4> QED
        BY <3>1, <4>1
    <3>2. CASE k \in X
      BY <1>4, <3>2 DEF TreeClosed
    <3>3. CASE k \in Y
      BY <1>5, <3>3 DEF TreeClosed
    <3> QED
      BY <3>1, <3>2, <3>3
  <2>3. TreeClosed(h, S)
    BY <2>2 DEF TreeClosed
  <2> HIDE DEF S
  <2>4. Tree(h, a) \subseteq S
    BY <1>1, <1>2, <2>1, <2>3, TreeLeast
  <2> QED
    BY <2>4 DEF S
<1> HIDE DEF x, y, A, X, Y
<1>12. a \notin X /\ a \notin Y
  BY <1>1, <1>3, <1>4, <1>5, <1>6, <1>7, <1>8, <1>9, <1>10
<1>13. X \cap Y = {}
  <2> DEFINE S == X \ Y
  <2>1. x # Nil => x \in S
    BY <1>1, <1>2, <1>4, <1>5, <1>8, <1>10, <1>12 DEF Ptr
  <2>2. ASSUME NEW k \in S PROVE h.n[k] \in S \cup {Nil} /\ h.d[k] \in S \cup {Nil}
    <3>1. k \in Items /\ k \in X /\ k \notin Y /\ k # a
      BY <1>4, <1>12
    <3>2. h.n[k] \in X \cup {Nil} /\ h.d[k] \in X \cup {Nil}
      BY <1>4, <3>1 DEF TreeClosed
    <3>3. h.n[k] # Nil => h.p[h.n[k]] = k /\ h.u[h.n[k]] = Nil
      BY <1>1, <3>1 DEF Links, NextGood
    <3>4. h.d[k] # Nil => h.u[h.d[k]] = k /\ h.p[h.d[k]] = Nil
      BY <1>1, <3>1 DEF Links, DownGood
    <3>5. h.n[k] \notin Y \/ h.n[k] = Nil
      BY <1>1, <1>5, <1>8, <1>10, <3>1, <3>3
    <3>6. h.d[k] \notin Y \/ h.d[k] = Nil
      BY <1>1, <1>5, <1>8, <1>10, <3>1, <3>4
    <3> QED
      BY <3>2, <3>5, <3>6
  <2>3. TreeClosed(h, S)
    BY <2>2 DEF TreeClosed
  <2>4. S \in SUBSET Items
    BY <1>4
  <2>5. X \subseteq S
    BY <1>4, <2>1, <2>3, <2>4
  <2> QED
    BY <2>5
<1>14. /\ x # Nil => h.p[x] \notin X /\ h.u[x] \notin X
       /\ y # Nil => h.p[y] \notin Y /\ h.u[y] \notin Y
  BY <1>1, <1>4, <1>5, <1>10, <1>12
<1> QED
  BY <1>2, <1>3, <1>6, <1>11, <1>12, <1>13, <1>14 DEF Root, x, y, A, X, Y

(* A tree depends on the next() and down() of its items only. *)
LEMMA TreeSame ==
  ASSUME NEW h, Pointers(h), NEW g, Pointers(g), NEW x \in Ptr,
         \A k \in Tree(h, x) : g.n[k] = h.n[k] /\ g.d[k] = h.d[k]
  PROVE  Tree(g, x) = Tree(h, x)
<1>1. /\ x # Nil => x \in Tree(h, x)
      /\ Tree(h, x) \subseteq Items /\ TreeClosed(h, Tree(h, x))
      /\ \A S \in SUBSET Items : (x # Nil => x \in S) /\ TreeClosed(h, S)
                                  => Tree(h, x) \subseteq S
  BY TreeLeast
<1>2. /\ x # Nil => x \in Tree(g, x)
      /\ Tree(g, x) \subseteq Items /\ TreeClosed(g, Tree(g, x))
      /\ \A S \in SUBSET Items : (x # Nil => x \in S) /\ TreeClosed(g, S)
                                  => Tree(g, x) \subseteq S
  BY TreeLeast
<1>3. TreeClosed(g, Tree(h, x))
  BY <1>1 DEF TreeClosed
<1>4. Tree(g, x) \subseteq Tree(h, x)
  BY <1>1, <1>2, <1>3
<1>5. TreeClosed(h, Tree(g, x))
  BY <1>2, <1>4 DEF TreeClosed
<1> QED
  BY <1>1, <1>2, <1>4, <1>5
-----------------------------------------------------------------------------
(* Copying a tree: what has grown at an item.                              *)

(* At least k items are free. *)
Slots(h, k) == Cardinality(Items \ Live(h)) >= k

(* From h to g at most k items and k contents have come into use. *)
Costs(g, h, k) ==
  \A m \in Nat : /\ Spares(h, m + k) => Spares(g, m)
                 /\ Slots(h, m + k) => Slots(g, m)

(* g is h with new items reached from b, copies of those in M: but for     *)
(* these, which have lost their contents, and b, which leads to the new    *)
(* ones, what was there is as it was.                                      *)
Grown(g, h, b, M) ==
  /\ Good(g) /\ Extends(g, h) /\ Elsewhere(g, h, h.rel[b])
  /\ EndsJoined(h) => EndsJoined(g)
  /\ g.head = h.head
  /\ \A j \in Live(h) :
       /\ g.rel[j] = h.rel[j] /\ g.p[j] = h.p[j] /\ g.u[j] = h.u[j]
       /\ j # b => g.n[j] = h.n[j] /\ g.d[j] = h.d[j]
       /\ Alone(h, j) \/ j \in M => Alone(g, j)
  /\ \A j \in Live(g) \ Live(h) :
       /\ g.rel[j] = h.rel[b]
       /\ \A S \in SUBSET Items : TreeClosed(g, S) /\ b \in S => j \in S
  /\ Costs(g, h, Cardinality(M))

(* The first of them, i, a copy of x, has nothing behind or below it. *)
Sprout(g, h, b, x, i) ==
  /\ Grown(g, h, b, {x})
  /\ i \in Items /\ h.rel[i] = Nil /\ g.rel[i] = h.rel[b]
  /\ g.n[i] = Nil /\ g.d[i] = Nil
  /\ \A S \in SUBSET Items : TreeClosed(g, S) /\ b \in S => i \in S

LEMMA SlotStep ==
  ASSUME NEW h, h \in Heap, NEW g, g \in Heap, NEW i \in Items, NEW r \in Rels,
         h.rel[i] = Nil, g.rel = [h.rel EXCEPT ![i] = r], NEW m \in Nat,
         Slots(h, m + 1)
  PROVE  Slots(g, m)
<1> DEFINE F == Items \ Live(h)
<1>1. IsFiniteSet(F) /\ i \in F
  BY PointerAssumption, FS_Subset DEF Live
<1>2. Items \ Live(g) = F \ {i}
  BY PointerAssumption DEF Live, Heap
<1>3. Cardinality(F) \in Nat /\ Cardinality(F \ {i}) = Cardinality(F) - 1
  BY <1>1, FS_RemoveElement, FS_CardinalityType
<1>4. Cardinality(F) >= m + 1
  BY DEF Slots
<1> HIDE DEF F
<1>5. Cardinality(F \ {i}) >= m
  BY <1>3, <1>4
<1> QED
  BY <1>2, <1>5 DEF Slots

(* One new item has been made, and entered in contents of x. *)
LEMMA InsertedCosts ==
  ASSUME NEW h, Good(h), NEW g, Live(h) # Items, NEW r \in Rels, Inserted(g, h, r)
  PROVE  \A x : Costs(g, h, Cardinality({x}))
<1> SUFFICES ASSUME NEW x PROVE Costs(g, h, Cardinality({x}))
  OBVIOUS
<1>1. h \in Heap /\ g \in Heap /\ NewSlot(h) \in Items /\ h.rel[NewSlot(h)] = Nil
  BY FreshSlot DEF Good, Inserted
<1>2. PICK y \in Contents : g.mem \subseteq h.mem \cup {y}
  BY DEF Inserted
<1>3. Cardinality({x}) = 1
  BY FS_Singleton
<1>4. ASSUME NEW m \in Nat, Spares(h, m + 1) PROVE Spares(g, m)
  BY <1>1, <1>2, <1>4, SparesDrop
<1>5. ASSUME NEW m \in Nat, Slots(h, m + 1) PROVE Slots(g, m)
  BY <1>1, <1>5, SlotStep DEF Inserted
<1> QED
  BY <1>3, <1>4, <1>5 DEF Costs

(* What stays alone when si has been copied: all that were, and si. *)
LEMMA CopiedAlone ==
  ASSUME NEW h, Good(h), Spares(h, 1), Live(h) # Items, NEW x \in Live(h),
         NEW g, Entered(g, h, h.rel[x], x)
  PROVE  \A j \in Live(h) : Alone(h, j) \/ j \in {x} => Alone(g, j)
<1>1. h.rel[x] \in Rels
  BY DEF Live, Good, Heap
<1> SUFFICES ASSUME NEW j \in Live(h), Alone(h, j) \/ j = x PROVE Alone(g, j)
  OBVIOUS
<1>2. CASE j = x
  BY <1>1, <1>2, PointerAssumption, EnteredKeeps DEF Live
<1>3. CASE j # x /\ Alone(h, j)
  <2>1. h.con[x] # h.con[j]
    BY <1>3 DEF Alone, Live
  <2>2. Kept(g, h, j)
    BY <1>1, <2>1, EnteredKeeps
  <2> QED
    BY <1>3, <2>2, KeptAlone
<1> QED
  BY <1>2, <1>3

LEMMA AfterSprouts ==
  ASSUME NEW h, Good(h), Spares(h, 1), Live(h) # Items,
         NEW b \in Live(h), h.n[b] = Nil, NEW x \in Live(h), h.rel[x] = h.rel[b]
  PROVE  /\ Sprout(InsertAfter(h, b, x), h, b, x, NewSlot(h))
         /\ InsertAfter(h, b, x).d[b] = h.d[b]
<1> DEFINE g == InsertAfter(h, b, x)
           i == NewSlot(h)
<1>1. /\ h \in Heap /\ Links(h) /\ Pointers(h) /\ Fresh(h, i)
      /\ b \in Items /\ b # i /\ h.rel[b] \in Rels
      /\ Nil \notin Items /\ Nil \notin Rels
  BY Setting
<1>2. /\ LinkedAfter(g, h, b, i) /\ Inserted(g, h, h.rel[b])
  BY InsertAfterLinks, InsertAfterGood
<1>3. Entered(g, h, h.rel[b], x)
  BY <1>1, InsertsEnter
<1> HIDE DEF g, i
<1>4. Good(g)
  BY <1>2 DEF Inserted
<1>5. /\ Extends(g, h) /\ Elsewhere(g, h, h.rel[b])
      /\ \A S \in SUBSET Items : TreeClosed(g, S) /\ b \in S => i \in S
      /\ EndsJoined(h) => EndsJoined(g)
  BY <1>1, <1>2, <1>4, AfterJoins
<1>6. \A j \in Live(h) : Alone(h, j) \/ j \in {x} => Alone(g, j)
  BY <1>3, CopiedAlone
<1>7. Costs(g, h, Cardinality({x}))
  BY <1>1, <1>2, InsertedCosts
<1>8. ASSUME NEW j \in Live(h)
      PROVE  /\ g.rel[j] = h.rel[j] /\ g.p[j] = h.p[j] /\ g.u[j] = h.u[j]
             /\ j # b => g.n[j] = h.n[j] /\ g.d[j] = h.d[j]
  BY <1>1, <1>2 DEF LinkedAfter, Fresh, Live
<1>9. Live(g) \ Live(h) = {i} /\ g.rel[i] = h.rel[b] /\ h.rel[i] = Nil /\ i \in Items
  BY <1>1, <1>2 DEF LinkedAfter, Fresh, Live
<1>10. g.n[i] = Nil /\ g.d[i] = Nil /\ g.d[b] = h.d[b] /\ g.head = h.head
  BY <1>1, <1>2 DEF LinkedAfter, Fresh
<1>11. Grown(g, h, b, {x})
  BY <1>4, <1>5, <1>6, <1>7, <1>8, <1>9, <1>10 DEF Grown
<1> QED
  BY <1>5, <1>9, <1>10, <1>11 DEF Sprout, g, i

LEMMA BelowSprouts ==
  ASSUME NEW h, Good(h), Spares(h, 1), Live(h) # Items,
         NEW b \in Live(h), h.d[b] = Nil, NEW x \in Live(h), h.rel[x] = h.rel[b]
  PROVE  Sprout(InsertBelow(h, b, x), h, b, x, NewSlot(h))
<1> DEFINE g == InsertBelow(h, b, x)
           i == NewSlot(h)
<1>1. /\ h \in Heap /\ Links(h) /\ Pointers(h) /\ Fresh(h, i)
      /\ b \in Items /\ b # i /\ h.rel[b] \in Rels
      /\ Nil \notin Items /\ Nil \notin Rels
  BY Setting
<1>2. /\ LinkedBelow(g, h, b, i) /\ Inserted(g, h, h.rel[b])
  BY InsertBelowLinks, InsertBelowGood
<1>3. Entered(g, h, h.rel[b], x)
  BY <1>1, InsertsEnter
<1> HIDE DEF g, i
<1>4. Good(g)
  BY <1>2 DEF Inserted
<1>5. /\ Extends(g, h) /\ Elsewhere(g, h, h.rel[b])
      /\ \A S \in SUBSET Items : TreeClosed(g, S) /\ b \in S => i \in S
      /\ EndsJoined(h) => EndsJoined(g)
  BY <1>1, <1>2, <1>4, BelowJoins
<1>6. \A j \in Live(h) : Alone(h, j) \/ j \in {x} => Alone(g, j)
  BY <1>3, CopiedAlone
<1>7. Costs(g, h, Cardinality({x}))
  BY <1>1, <1>2, InsertedCosts
<1>8. ASSUME NEW j \in Live(h)
      PROVE  /\ g.rel[j] = h.rel[j] /\ g.p[j] = h.p[j] /\ g.u[j] = h.u[j]
             /\ j # b => g.n[j] = h.n[j] /\ g.d[j] = h.d[j]
  BY <1>1, <1>2 DEF LinkedBelow, Fresh, Live
<1>9. Live(g) \ Live(h) = {i} /\ g.rel[i] = h.rel[b] /\ h.rel[i] = Nil /\ i \in Items
  BY <1>1, <1>2 DEF LinkedBelow, Fresh, Live
<1>10. g.n[i] = Nil /\ g.d[i] = Nil /\ g.head = h.head
  BY <1>1, <1>2 DEF LinkedBelow, Fresh
<1>11. Grown(g, h, b, {x})
  BY <1>4, <1>5, <1>6, <1>7, <1>8, <1>9, <1>10 DEF Grown
<1> QED
  BY <1>5, <1>9, <1>10, <1>11 DEF Sprout, g, i

LEMMA CostsTwice ==
  ASSUME NEW f, NEW g, NEW h, NEW k \in Nat, NEW l \in Nat,
         Costs(f, g, l), Costs(g, h, k)
  PROVE  Costs(f, h, k + l)
<1> SUFFICES ASSUME NEW m \in Nat
             PROVE  /\ Spares(h, m + (k + l)) => Spares(f, m)
                    /\ Slots(h, m + (k + l)) => Slots(f, m)
  BY DEF Costs
<1>1. m + l \in Nat /\ (m + l) + k = m + (k + l)
  OBVIOUS
<1> QED
  BY <1>1 DEF Costs

(* More has grown, at b or at something that has grown there. *)
LEMMA GrownTwice ==
  ASSUME NEW f, NEW g, NEW h, NEW b \in Live(h), NEW i \in Items,
         NEW M \in SUBSET Items, NEW N \in SUBSET Items, M \cap N = {},
         Grown(g, h, b, M), Grown(f, g, i, N),
         g.rel[i] = h.rel[b], i = b \/ h.rel[i] = Nil,
         \A S \in SUBSET Items : TreeClosed(g, S) /\ b \in S => i \in S
  PROVE  Grown(f, h, b, M \cup N)
<1>1. Good(f) /\ Extends(f, h)
  BY DEF Grown, Extends
<1>2. Elsewhere(f, h, h.rel[b])
  BY ElsewhereTwice DEF Grown
<1>3. (EndsJoined(h) => EndsJoined(f)) /\ f.head = h.head
  BY DEF Grown
<1>4. ASSUME NEW j \in Live(h)
      PROVE  /\ f.rel[j] = h.rel[j] /\ f.p[j] = h.p[j] /\ f.u[j] = h.u[j]
             /\ j # b => f.n[j] = h.n[j] /\ f.d[j] = h.d[j]
             /\ Alone(h, j) \/ j \in M \cup N => Alone(f, j)
  <2>1. /\ g.rel[j] = h.rel[j] /\ g.p[j] = h.p[j] /\ g.u[j] = h.u[j]
        /\ j # b => g.n[j] = h.n[j] /\ g.d[j] = h.d[j]
        /\ Alone(h, j) \/ j \in M => Alone(g, j)
    BY DEF Grown
  <2>2. j \in Live(g) /\ (j = i => j = b)
    BY <2>1 DEF Live
  <2>3. /\ f.rel[j] = g.rel[j] /\ f.p[j] = g.p[j] /\ f.u[j] = g.u[j]
        /\ j # i => f.n[j] = g.n[j] /\ f.d[j] = g.d[j]
        /\ Alone(g, j) \/ j \in N => Alone(f, j)
    BY <2>2 DEF Grown
  <2> QED
    BY <2>1, <2>2, <2>3
<1>5. ASSUME NEW j \in Live(f) \ Live(h)
      PROVE  /\ f.rel[j] = h.rel[b]
             /\ \A S \in SUBSET Items : TreeClosed(f, S) /\ b \in S => j \in S
  <2>1. CASE j \in Live(g)
    <3>1. /\ g.rel[j] = h.rel[b] /\ f.rel[j] = g.rel[j]
          /\ \A S \in SUBSET Items : TreeClosed(g, S) /\ b \in S => j \in S
      BY <2>1 DEF Grown
    <3> QED
      BY <3>1 DEF Grown, Extends
  <2>2. CASE j \notin Live(g)
    <3>1. /\ f.rel[j] = g.rel[i]
          /\ \A S \in SUBSET Items : TreeClosed(f, S) /\ i \in S => j \in S
      BY <2>2 DEF Grown
    <3> QED
      BY <3>1 DEF Grown, Extends
  <2> QED
    BY <2>1, <2>2
<1>6. Costs(f, h, Cardinality(M \cup N))
  <2>1. IsFiniteSet(M) /\ IsFiniteSet(N)
    BY PointerAssumption, FS_Subset
  <2>2. Cardinality(M) \in Nat /\ Cardinality(N) \in Nat
    BY <2>1, FS_CardinalityType
  <2>3. Cardinality(M \cup N) = Cardinality(M) + Cardinality(N)
    <3>1. /\ Cardinality(M \cup N) = Cardinality(M) + Cardinality(N)
                                       - Cardinality(M \cap N)
          /\ Cardinality({}) = 0
      BY <2>1, FS_Union, FS_EmptySet
    <3>2. Cardinality(M \cap N) = 0
      BY <3>1
    <3> QED
      BY <2>2, <3>1, <3>2
  <2>4. Costs(f, h, Cardinality(M) + Cardinality(N))
    BY <2>2, CostsTwice DEF Grown
  <2> QED
    BY <2>3, <2>4
<1> QED
  BY <1>1, <1>2, <1>3, <1>4, <1>5, <1>6 DEF Grown

(* There is room for copies of M. *)
Enough(h, M) == Spares(h, Cardinality(M)) /\ Slots(h, Cardinality(M))

(* Behind and below b there is nothing, and b is not in the tree of a.     *)
Copyable(h, a, b) ==
  /\ Good(h) /\ a \in Live(h) /\ b \in Live(h) /\ h.rel[a] = h.rel[b]
  /\ h.n[b] = Nil /\ h.d[b] = Nil /\ b \notin Tree(h, a) /\ Root(h, a)
  /\ Enough(h, Tree(h, a) \ {a})

(* What k levels of copying do to a tree of at most k items. *)
Copies(k) ==
  \A h, a, b :
    Copyable(h, a, b) /\ Cardinality(Tree(h, a)) <= k =>
      Grown(CopyNodeTree[k][[heap |-> h, from |-> a, to |-> b]], h, b,
            Tree(h, a) \ {a})

LEMMA TreeCount ==
  ASSUME NEW h, Pointers(h), NEW x \in Ptr
  PROVE  /\ IsFiniteSet(Tree(h, x)) /\ Cardinality(Tree(h, x)) \in Nat
         /\ Cardinality(Tree(h, x)) <= Cardinality(Items)
         /\ x # Nil => /\ Cardinality(Tree(h, x)) >= 1
                       /\ Cardinality(Tree(h, x) \ {x}) = Cardinality(Tree(h, x)) - 1
<1>1. Tree(h, x) \subseteq Items /\ (x # Nil => x \in Tree(h, x))
  BY TreeLeast
<1>2. IsFiniteSet(Items)
  BY PointerAssumption
<1>3. IsFiniteSet(Tree(h, x)) /\ Cardinality(Tree(h, x)) <= Cardinality(Items)
  BY <1>1, <1>2, FS_Subset
<1>4. Cardinality(Tree(h, x)) \in Nat
  BY <1>3, FS_CardinalityType
<1>5. ASSUME x # Nil
      PROVE  /\ Cardinality(Tree(h, x)) >= 1
             /\ Cardinality(Tree(h, x) \ {x}) = Cardinality(Tree(h, x)) - 1
  <2>1. /\ IsFiniteSet(Tree(h, x) \ {x})
        /\ Cardinality(Tree(h, x) \ {x}) = Cardinality(Tree(h, x)) - 1
    BY <1>1, <1>3, <1>5, FS_RemoveElement
  <2>2. Cardinality(Tree(h, x) \ {x}) \in Nat
    BY <2>1, FS_CardinalityType
  <2> QED
    BY <1>4, <2>1, <2>2
<1> QED
  BY <1>3, <1>4, <1>5

(* What has grown at b leaves the trees without b as they were. *)
LEMMA GrownTree ==
  ASSUME NEW h, Good(h), NEW b, NEW M, NEW g, Grown(g, h, b, M),
         NEW x \in Live(h), b \notin Tree(h, x)
  PROVE  /\ Tree(g, x) = Tree(h, x) /\ Tree(h, x) \subseteq Live(h)
         /\ Root(h, x) => Root(g, x)
<1>1. Pointers(h) /\ Pointers(g) /\ Good(g) /\ x \in Ptr /\ x \in Items
  BY DEF Good, Heap, Pointers, Grown, Live, Ptr
<1>2. Tree(h, x) \subseteq Items /\ \A j \in Tree(h, x) : h.rel[j] = h.rel[x]
  BY <1>1, TreeLeast, TreeWithin
<1>3. Tree(h, x) \subseteq Live(h)
  BY <1>2 DEF Live
<1>4. \A j \in Tree(h, x) : g.n[j] = h.n[j] /\ g.d[j] = h.d[j]
  BY <1>3 DEF Grown
<1>5. Tree(g, x) = Tree(h, x)
  BY <1>1, <1>4, TreeSame
<1>6. g.p[x] = h.p[x] /\ g.u[x] = h.u[x]
  BY DEF Grown
<1> QED
  BY <1>3, <1>5, <1>6 DEF Root

(* The copying goes on from the sprout: the whole tree of x is copied.     *)
LEMMA SproutCopies ==
  ASSUME NEW k \in Nat, Copies(k), NEW h, Good(h),
         NEW b \in Live(h), NEW x \in Live(h),
         b \notin Tree(h, x), Root(h, x), Cardinality(Tree(h, x)) <= k,
         Enough(h, Tree(h, x)), NEW g, NEW i, Sprout(g, h, b, x, i),
         h.rel[x] = h.rel[b], i # b,
         NEW f, f = CopyNodeTree[k][[heap |-> g, from |-> x, to |-> i]]
  PROVE  /\ Grown(f, h, b, Tree(h, x))
         /\ f.n[b] = g.n[b] /\ f.d[b] = g.d[b]
<1>1. /\ Pointers(h) /\ Good(g) /\ Nil \notin Items /\ x \in Ptr /\ x # Nil /\ x \in Items
      /\ b \in Items /\ i \in Items /\ Nil \notin Rels /\ h.rel[b] \in Rels
  BY PointerAssumption DEF Good, Heap, Pointers, Live, Sprout, Grown, Ptr
<1>2. Grown(g, h, b, {x})
  BY DEF Sprout
<1>3. /\ Tree(g, x) = Tree(h, x) /\ Tree(h, x) \subseteq Live(h) /\ Root(g, x)
  BY <1>2, GrownTree
<1>4. x \in Live(g) /\ b \in Live(g) /\ i \in Live(g) /\ g.rel[x] = g.rel[i]
  BY <1>1, <1>2 DEF Grown, Sprout, Live
<1>5. i \notin Tree(h, x) /\ g.n[i] = Nil /\ g.d[i] = Nil
  BY <1>3 DEF Sprout, Live
<1> DEFINE M == Tree(h, x) \ {x}
<1>6. /\ IsFiniteSet(Tree(h, x)) /\ Cardinality(Tree(h, x)) \in Nat
      /\ Cardinality(Tree(h, x)) >= 1 /\ Cardinality(M) = Cardinality(Tree(h, x)) - 1
      /\ x \in Tree(h, x) /\ Tree(h, x) \subseteq Items
  BY <1>1, TreeCount, TreeLeast
<1>7. Enough(g, M)
  <2>1. Cardinality({x}) = 1 /\ Costs(g, h, Cardinality({x}))
    BY <1>2, FS_Singleton DEF Grown
  <2>2. Cardinality(M) \in Nat /\ Cardinality(M) + 1 = Cardinality(Tree(h, x))
    BY <1>6
  <2>3. Spares(h, Cardinality(M) + 1) /\ Slots(h, Cardinality(M) + 1)
    BY <2>2 DEF Enough
  <2> HIDE DEF M
  <2> QED
    BY <2>1, <2>2, <2>3 DEF Enough, Costs
<1>8. Copyable(g, x, i)
  BY <1>1, <1>3, <1>4, <1>5, <1>7 DEF Copyable
<1>9. Grown(f, g, i, M)
  BY <1>3, <1>8 DEF Copies
<1> HIDE DEF M
<1>10. M \in SUBSET Items /\ {x} \in SUBSET Items /\ {x} \cap M = {}
       /\ {x} \cup M = Tree(h, x)
  BY <1>6 DEF M
<1>11. Grown(f, h, b, {x} \cup M)
  BY <1>1, <1>2, <1>9, <1>10, GrownTwice DEF Sprout
<1>12. f.n[b] = g.n[b] /\ f.d[b] = g.d[b]
  BY <1>4, <1>9 DEF Grown
<1> QED
  BY <1>10, <1>11, <1>12

LEMMA NothingGrown ==
  ASSUME NEW h, Good(h), NEW b
  PROVE  Grown(h, h, b, {})
<1>1. Cardinality({}) = 0 /\ \A m \in Nat : m + 0 = m
  BY FS_EmptySet
<1>2. Costs(h, h, Cardinality({}))
  BY <1>1 DEF Costs
<1> QED
  BY <1>2 DEF Grown, Extends, Elsewhere

LEMMA NoTree ==
  ASSUME NEW h, Pointers(h)
  PROVE  Tree(h, Nil) = {}
<1>1. Nil \in Ptr /\ TreeClosed(h, {})
  BY DEF Ptr, TreeClosed
<1> QED
  BY <1>1, TreeLeast

(* Room for copies of M is room for a copy, and for those of a part of M.  *)
LEMMA EnoughOfPart ==
  ASSUME NEW h, NEW M \in SUBSET Items, Enough(h, M), NEW T \in SUBSET M
  PROVE  /\ Enough(h, T)
         /\ T # {} => Spares(h, 1) /\ Live(h) # Items
<1>1. IsFiniteSet(M) /\ IsFiniteSet(T) /\ Cardinality(T) <= Cardinality(M)
  BY PointerAssumption, FS_Subset
<1>2. Cardinality(M) \in Nat /\ Cardinality(T) \in Nat
  BY <1>1, FS_CardinalityType
<1>3. IsFiniteSet(Contents \ h.mem) /\ IsFiniteSet(Items \ Live(h))
  BY PointerAssumption, FS_Subset
<1>4. Cardinality(Contents \ h.mem) \in Nat /\ Cardinality(Items \ Live(h)) \in Nat
  BY <1>3, FS_CardinalityType
<1>5. Enough(h, T)
  BY <1>1, <1>2, <1>4 DEF Enough, Spares, Slots
<1>6. ASSUME T # {} PROVE Spares(h, 1) /\ Live(h) # Items
  <2>1. Cardinality(T) # 0
    BY <1>1, <1>6, FS_EmptySet
  <2>2. Cardinality(Contents \ h.mem) >= 1 /\ Cardinality(Items \ Live(h)) >= 1
    BY <1>2, <1>4, <1>5, <2>1 DEF Enough, Spares, Slots
  <2>3. Items \ Live(h) # {}
    <3>1. Cardinality({}) = 0 /\ ~(0 >= 1)
      BY FS_EmptySet
    <3> QED
      BY <2>2, <3>1
  <2> QED
    BY <2>2, <2>3 DEF Spares
<1> QED
  BY <1>5, <1>6

(* Copying what has grown leaves room for the rest.                        *)
LEMMA EnoughLeft ==
  ASSUME NEW h, NEW g, NEW X \in SUBSET Items, NEW Y \in SUBSET Items,
         X \cap Y = {}, Enough(h, X \cup Y), Costs(g, h, Cardinality(X))
  PROVE  Enough(g, Y)
<1>1. IsFiniteSet(X) /\ IsFiniteSet(Y)
  BY PointerAssumption, FS_Subset
<1>2. Cardinality(X) \in Nat /\ Cardinality(Y) \in Nat
  BY <1>1, FS_CardinalityType
<1>3. Cardinality(X \cup Y) = Cardinality(Y) + Cardinality(X)
  <2>1. /\ Cardinality(X \cup Y) = Cardinality(X) + Cardinality(Y)
                                     - Cardinality(X \cap Y)
        /\ Cardinality({}) = 0
    BY <1>1, FS_Union, FS_EmptySet
  <2>2. Cardinality(X \cap Y) = 0
    BY <2>1
  <2> QED
    BY <1>2, <2>1, <2>2
<1> QED
  BY <1>2, <1>3 DEF Enough, Costs

(* First the later siblings, then the daughters are copied. *)
LEMMA CopyNextGrows ==
  ASSUME NEW k \in Nat, Copies(k), NEW h, NEW a, NEW b, Copyable(h, a, b),
         Cardinality(Tree(h, h.n[a])) <= k
  PROVE  LET f == CopyNext(CopyNodeTree[k], h, a, b)
         IN  /\ Grown(f, h, b, Tree(h, h.n[a]))
             /\ f.d[b] = Nil
<1> DEFINE f == CopyNext(CopyNodeTree[k], h, a, b)
           x == h.n[a]
           X == Tree(h, x)
           i == NewSlot(h)
           g == InsertAfter(h, b, x)
<1>1. /\ Good(h) /\ Pointers(h) /\ a \in Live(h) /\ b \in Live(h) /\ a \in Items
      /\ b \in Items /\ h.rel[a] = h.rel[b] /\ h.rel[a] # Nil
      /\ h.n[b] = Nil /\ h.d[b] = Nil /\ b \notin Tree(h, a) /\ Root(h, a)
      /\ Links(h)
  BY DEF Copyable, Good, Heap, Pointers, Live
<1>2. /\ x \in Ptr /\ Tree(h, a) = {a} \cup X \cup Tree(h, h.d[a])
      /\ a \notin X /\ (x # Nil => Root(h, x))
  BY <1>1, RootParts
<1>3. Tree(h, a) \subseteq Items /\ X \subseteq Tree(h, a) \ {a}
  BY <1>1, <1>2, TreeLeast DEF Ptr
<1>4. Enough(h, X) /\ (X # {} => Spares(h, 1) /\ Live(h) # Items)
  BY <1>3, EnoughOfPart DEF Copyable
<1>5. CASE x = Nil
  <2>1. f = h
    BY <1>5 DEF CopyNext
  <2>2. X = {}
    BY <1>1, <1>5, NoTree
  <2> HIDE DEF f, X
  <2>3. Grown(f, h, b, X)
    BY <1>1, <2>1, <2>2, NothingGrown
  <2> QED
    BY <1>1, <2>1, <2>3 DEF f, X
<1>6. CASE x # Nil
  <2>1. x \in Live(h) /\ h.rel[x] = h.rel[b] /\ x \in X
    BY <1>1, <1>2, <1>6, TreeLeast DEF Links, NextGood, Live, Ptr
  <2>2. Spares(h, 1) /\ Live(h) # Items
    BY <1>4, <2>1
  <2>3. Sprout(g, h, b, x, i) /\ g.d[b] = h.d[b]
    BY <1>1, <2>1, <2>2, AfterSprouts
  <2>4. f = CopyNodeTree[k][[heap |-> g, from |-> x, to |-> i]]
    BY <1>6 DEF CopyNext
  <2>5. b \notin X /\ i # b /\ Cardinality(X) <= k
    BY <1>1, <1>3, <2>2, <2>3, FreshSlot
  <2> HIDE DEF f, x, X, g, i
  <2>6. Grown(f, h, b, Tree(h, x)) /\ f.d[b] = g.d[b]
    BY <1>1, <1>2, <1>4, <1>6, <2>1, <2>3, <2>4, <2>5, SproutCopies DEF X
  <2> QED
    BY <1>1, <2>3, <2>6 DEF f, x
<1> QED
  BY <1>5, <1>6

LEMMA CopyDownGrows ==
  ASSUME NEW k \in Nat, Copies(k), NEW h, Good(h), NEW a \in Live(h),
         NEW b \in Live(h), h.rel[a] = h.rel[b], h.d[b] = Nil,
         b \notin Tree(h, a), h.d[a] # Nil => Root(h, h.d[a]),
         Enough(h, Tree(h, h.d[a])), Cardinality(Tree(h, h.d[a])) <= k
  PROVE  Grown(CopyDown(CopyNodeTree[k], h, a, b), h, b, Tree(h, h.d[a]))
<1> DEFINE f == CopyDown(CopyNodeTree[k], h, a, b)
           x == h.d[a]
           X == Tree(h, x)
           i == NewSlot(h)
           g == InsertBelow(h, b, x)
<1>1. /\ Pointers(h) /\ a \in Items /\ h.rel[a] # Nil /\ Links(h) /\ x \in Ptr
      /\ a \in Ptr /\ a # Nil /\ b \in Items
  BY PointerAssumption DEF Good, Heap, Pointers, Live, Ptr
<1>2. X \subseteq Tree(h, a) /\ X \subseteq Items /\ (x # Nil => x \in X)
  <2>1. a \in Tree(h, a) /\ TreeClosed(h, Tree(h, a)) /\ Tree(h, a) \subseteq Items
    BY <1>1, TreeLeast
  <2>2. x # Nil => x \in Tree(h, a)
    BY <2>1 DEF TreeClosed
  <2> QED
    BY <1>1, <2>1, <2>2, TreeLeast
<1>3. Enough(h, X) /\ (X # {} => Spares(h, 1) /\ Live(h) # Items)
  BY <1>2, EnoughOfPart
<1>4. CASE x = Nil
  <2>1. f = h
    BY <1>4 DEF CopyDown
  <2>2. X = {}
    BY <1>1, <1>4, NoTree
  <2> HIDE DEF f, X
  <2>3. Grown(f, h, b, X)
    BY <1>1, <2>1, <2>2, NothingGrown
  <2> QED
    BY <2>3 DEF f, X
<1>5. CASE x # Nil
  <2>1. x \in Live(h) /\ h.rel[x] = h.rel[b] /\ x \in X
    BY <1>1, <1>2, <1>5 DEF Links, DownGood, Live, Ptr
  <2>2. Spares(h, 1) /\ Live(h) # Items
    BY <1>3, <2>1
  <2>3. Sprout(g, h, b, x, i)
    BY <1>1, <2>1, <2>2, BelowSprouts
  <2>4. f = CopyNodeTree[k][[heap |-> g, from |-> x, to |-> i]]
    BY <1>5 DEF CopyDown
  <2>5. b \notin X /\ i # b
    BY <1>1, <1>2, <2>2, FreshSlot DEF Live
  <2>6. Root(h, x) /\ Cardinality(X) <= k
    BY <1>5
  <2> HIDE DEF f, x, X, g, i
  <2>7. Grown(f, h, b, Tree(h, x))
    BY <1>1, <1>3, <2>1, <2>3, <2>4, <2>5, <2>6, SproutCopies DEF X
  <2> QED
    BY <2>7 DEF f, x
<1> QED
  BY <1>4, <1>5

LEMMA CopyLevel ==
  ASSUME NEW k \in 0 .. Cardinality(Items), k # 0, Copies(k - 1)
  PROVE  Copies(k)
<1> SUFFICES ASSUME NEW h, NEW a, NEW b, Copyable(h, a, b),
                    Cardinality(Tree(h, a)) <= k
             PROVE  Grown(CopyNodeTree[k][[heap |-> h, from |-> a, to |-> b]], h, b,
                          Tree(h, a) \ {a})
  BY DEF Copies
<1> DEFINE f == CopyNodeTree[k][[heap |-> h, from |-> a, to |-> b]]
           copy == CopyNodeTree[k - 1]
           g == CopyNext(copy, h, a, b)
           x == h.n[a]
           y == h.d[a]
           X == Tree(h, x)
           Y == Tree(h, y)
           A == Tree(h, a)
<1>1. /\ Good(h) /\ Pointers(h) /\ a \in Live(h) /\ b \in Live(h) /\ a \in Items
      /\ b \in Items /\ h.rel[a] = h.rel[b] /\ h.rel[a] # Nil
      /\ h.n[b] = Nil /\ h.d[b] = Nil /\ b \notin A /\ Root(h, a)
      /\ a \in Ptr /\ a # Nil /\ h \in Heap /\ Links(h)
  BY PointerAssumption DEF Copyable, Good, Heap, Pointers, Live, Ptr
<1>2. /\ x \in Ptr /\ y \in Ptr /\ A = {a} \cup X \cup Y
      /\ a \notin X /\ a \notin Y /\ X \cap Y = {}
      /\ y # Nil => Root(h, y)
  BY <1>1, RootParts
<1>3. /\ a \in A /\ A \subseteq Items /\ IsFiniteSet(A)
      /\ Cardinality(A \ {a}) = Cardinality(A) - 1 /\ Cardinality(A) \in Nat
      /\ Cardinality(X) \in Nat /\ Cardinality(Y) \in Nat
  BY <1>1, <1>2, TreeCount, TreeLeast
<1>4. A \ {a} = X \cup Y
  BY <1>2
<1>5. k \in Nat /\ k - 1 \in Nat /\ k - 1 \in 0 .. Cardinality(Items)
  BY ItemCount
<1>6. Cardinality(X) <= k - 1 /\ Cardinality(Y) <= k - 1
  <2>1. IsFiniteSet(A \ {a}) /\ X \subseteq A \ {a} /\ Y \subseteq A \ {a}
    BY <1>2, <1>3, FS_Subset
  <2>2. Cardinality(X) <= Cardinality(A \ {a}) /\ Cardinality(Y) <= Cardinality(A \ {a})
    BY <2>1, FS_Subset
  <2>3. Cardinality(A) <= k
    OBVIOUS
  <2> HIDE DEF X, Y, A
  <2> QED
    BY <1>3, <1>5, <2>2, <2>3
<1>7. Grown(g, h, b, X) /\ g.d[b] = Nil
  BY <1>5, <1>6, CopyNextGrows
<1>8. f = CopyDown(copy, g, a, b)
  <2>1. [heap |-> h, from |-> a, to |-> b] \in Copying
    BY <1>1 DEF Copying
  <2>2. CopyNodeTree[k] = Level(copy)
    BY CopyNodeTreeLevels
  <2> QED
    BY <2>1, <2>2 DEF Level
<1> HIDE DEF f, copy
<1>9. a # b /\ g.d[a] = y /\ g.rel[a] = g.rel[b] /\ a \in Live(g) /\ b \in Live(g) /\ Good(g)
      /\ g.rel[b] = h.rel[b]
  BY <1>1, <1>3, <1>7 DEF Grown, Live
<1>10. Tree(g, a) = A
  BY <1>1, <1>7, GrownTree
<1>11. y # Nil => y \in Live(h) /\ b \notin Y
  BY <1>1, <1>2 DEF Links, DownGood, Live, Ptr
<1>12. Tree(g, y) = Y /\ (y # Nil => Root(g, y))
  <2>1. CASE y = Nil
    <3>1. Pointers(g)
      BY <1>9 DEF Good, Heap, Pointers
    <3> QED
      BY <1>1, <2>1, <3>1, NoTree
  <2>2. CASE y # Nil
    BY <1>1, <1>2, <1>7, <1>11, <2>2, GrownTree
  <2> QED
    BY <2>1, <2>2
<1>13. Enough(g, Y)
  <2>1. Enough(h, X \cup Y)
    BY <1>4 DEF Copyable
  <2>2. Costs(g, h, Cardinality(X))
    BY <1>7 DEF Grown
  <2>3. X \in SUBSET Items /\ Y \in SUBSET Items
    BY <1>3, <1>4
  <2> HIDE DEF X, Y, g
  <2> QED
    BY <1>2, <2>1, <2>2, <2>3, EnoughLeft
<1> HIDE DEF g, x, y, X, Y, A
<1>14. Grown(f, g, b, Y)
  BY <1>1, <1>5, <1>6, <1>7, <1>8, <1>9, <1>10, <1>12, <1>13, CopyDownGrows DEF copy
<1>15. Grown(f, h, b, X \cup Y)
  <2>1. X \in SUBSET Items /\ Y \in SUBSET Items
    BY <1>3, <1>4
  <2> QED
    BY <1>1, <1>2, <1>7, <1>9, <1>14, <2>1, GrownTwice
<1> QED
  BY <1>4, <1>15 DEF f, A

LEMMA AllLevelsCopy == Copies(Cardinality(Items))
<1> DEFINE N == Cardinality(Items)
           B == {k \in 0 .. N : ~Copies(k)}
<1>1. N \in Nat
  BY ItemCount
<1> SUFFICES ASSUME ~Copies(N) PROVE FALSE
  OBVIOUS
<1>2. B \subseteq 0 .. N /\ B # {}
  BY <1>1
<1> HIDE DEF N
<1>3. PICK m \in B : \A k \in B : m <= k
  BY <1>1, <1>2, LeastNumber
<1>4. m \in 0 .. N /\ ~Copies(m)
  BY <1>3
<1>5. Copies(0)
  <2> SUFFICES ASSUME NEW h, NEW a, NEW b, Copyable(h, a, b),
                      Cardinality(Tree(h, a)) <= 0
               PROVE  FALSE
    BY DEF Copies
  <2>1. Pointers(h) /\ a \in Ptr /\ a # Nil
    BY PointerAssumption DEF Copyable, Good, Heap, Pointers, Live, Ptr
  <2>2. Cardinality(Tree(h, a)) \in Nat /\ Cardinality(Tree(h, a)) >= 1
    BY <2>1, TreeCount
  <2> QED
    BY <2>2
<1>6. CASE m # 0
  <2>1. m - 1 \in 0 .. N /\ ~(m <= m - 1)
    BY <1>1, <1>4, <1>6
  <2>2. Copies(m - 1)
    BY <1>3, <2>1
  <2> QED
    BY <1>4, <1>6, <2>2, CopyLevel DEF N
<1> QED
  BY <1>4, <1>5, <1>6

(* The list that starts at x is copied below b, which has no daughters. *)
LEMMA CopyBelowGrows ==
  ASSUME NEW h, Good(h), NEW b \in Live(h), h.d[b] = Nil,
         NEW x \in Ptr, x # Nil => /\ x \in Live(h) /\ h.rel[x] = h.rel[b]
                                   /\ b \notin Tree(h, x) /\ Root(h, x),
         Enough(h, Tree(h, x))
  PROVE  Grown(CopyBelow(h, x, b), h, b, Tree(h, x))
<1> DEFINE f == CopyBelow(h, x, b)
           i == NewSlot(h)
           g == InsertBelow(h, b, x)
           N == Cardinality(Items)
<1>1. Pointers(h) /\ b \in Items
  BY DEF Good, Heap, Pointers, Live
<1>2. CASE x = Nil
  <2>1. f = h /\ Tree(h, x) = {}
    BY <1>1, <1>2, NoTree DEF CopyBelow
  <2> HIDE DEF f
  <2>2. Grown(f, h, b, Tree(h, x))
    BY <2>1, NothingGrown
  <2> QED
    BY <2>2 DEF f
<1>3. CASE x # Nil
  <2>1. f = CopyNodeTree[N][[heap |-> g, from |-> x, to |-> i]]
    BY <1>3 DEF CopyBelow
  <2>2. x \in Tree(h, x) /\ Tree(h, x) \subseteq Items
    BY <1>1, <1>3, TreeLeast
  <2>3. Spares(h, 1) /\ Live(h) # Items
    BY <2>2, EnoughOfPart
  <2>4. Sprout(g, h, b, x, i) /\ i # b
    BY <1>3, <2>3, BelowSprouts, FreshSlot DEF Live
  <2>5. N \in Nat /\ Copies(N) /\ Cardinality(Tree(h, x)) <= N
    BY <1>1, ItemCount, AllLevelsCopy, TreeCount
  <2> HIDE DEF f, N, i, g
  <2>6. Grown(f, h, b, Tree(h, x))
    BY <1>3, <2>1, <2>4, <2>5, SproutCopies
  <2> QED
    BY <2>6 DEF f
<1> QED
  BY <1>2, <1>3

(* What has grown at an item in use is in use. *)
LEMMA GrownWhole ==
  ASSUME NEW L, NEW h, Whole(h, L), NEW b \in InUse(h), NEW M, NEW g, Grown(g, h, b, M)
  PROVE  /\ Changed(g, h, h.rel[b], L)
         /\ InUse(h) \subseteq InUse(g)
<1>1. Good(h) /\ Good(g) /\ Extends(g, h) /\ Pointers(h) /\ Pointers(g)
      /\ g.head = h.head /\ Nil \notin Items /\ h.rel \in [Items -> Rels \cup {Nil}]
      /\ g.rel \in [Items -> Rels \cup {Nil}]
  BY PointerAssumption DEF Whole, Grown, Good, Heap, Pointers
<1>2. ASSUME NEW q \in Rels, h.head[q] # Nil
      PROVE  h.head[q] \in Tree(g, g.head[q])
  <2>1. h.head[q] \in Ptr
    BY <1>1 DEF Pointers
  <2> QED
    BY <1>1, <1>2, <2>1, TreeLeast
<1>3. ASSUME NEW j \in InUse(h) PROVE j \in Tree(g, g.head[h.rel[j]]) /\ j \in InUse(g)
  <2>1. j \in Live(h) /\ h.rel[j] \in Rels /\ g.rel[j] = h.rel[j] /\ j \in Items
    BY <1>1 DEF InUse, Live, Grown
  <2>2. j \in Tree(g, g.head[h.rel[j]])
    BY <1>1, <1>2, <2>1, InUseReached
  <2> QED
    BY <2>1, <2>2 DEF InUse, Live
<1>4. ASSUME NEW j \in Items \ L, g.rel[j] # Nil
      PROVE  j \in Tree(g, g.head[g.rel[j]])
  <2>1. CASE j \in Live(h)
    <3>1. j \in InUse(h) /\ g.rel[j] = h.rel[j]
      BY <2>1 DEF InUse, Whole, AllInUse, Live, Grown
    <3> QED
      BY <1>3, <3>1
  <2>2. CASE j \notin Live(h)
    <3>1. /\ g.rel[j] = h.rel[b] /\ h.rel[b] \in Rels
          /\ \A S \in SUBSET Items : TreeClosed(g, S) /\ b \in S => j \in S
      BY <1>1, <1>4, <2>2 DEF Grown, Live, InUse
    <3>2. b \in Tree(g, g.head[h.rel[b]])
      BY <1>3
    <3>3. g.head[h.rel[b]] \in Ptr
      BY <1>1, <3>1 DEF Pointers
    <3> QED
      BY <1>1, <3>1, <3>2, <3>3, TreeLeast
  <2> QED
    BY <2>1, <2>2
<1> QED
  BY <1>1, <1>3, <1>4 DEF Changed, Whole, AllInUse, Grown
-----------------------------------------------------------------------------
(* Calls that move contents.                                               *)

(* The contents and their index as they were, but for relation r. *)
Beside(g, h, r) ==
  /\ \A c \in Contents, q \in Rels : q # r => g.reg[c][q] = h.reg[c][q]
  /\ \A j \in Items : h.rel[j] # r => g.con[j] = h.con[j]

LEMMA UnrefBeside ==
  ASSUME NEW h, h \in Heap, NEW i \in Items, h.rel[i] \in Rels
  PROVE  Beside(Unref(h, i), h, h.rel[i])
<1>1. CASE h.con[i] = Nil
  <2>1. Unref(h, i) = h
    BY <1>1 DEF Unref
  <2> QED
    BY <2>1 DEF Beside
<1>2. CASE h.con[i] # Nil
  <2> DEFINE c == h.con[i]
             R == [h.reg EXCEPT ![c] = [h.reg[c] EXCEPT ![h.rel[i]] = Nil]]
  <2>1. /\ Unref(h, i).reg = R
        /\ Unref(h, i).con = [h.con EXCEPT ![i] = Nil]
    BY <1>2 DEF Unref, Heap
  <2>2. h.reg \in [Contents -> [Rels -> Ptr]] /\ h.con \in [Items -> Contents \cup {Nil}]
    BY DEF Heap
  <2>3. \A d \in Contents, q \in Rels : q # h.rel[i] => R[d][q] = h.reg[d][q]
    BY <2>2
  <2> HIDE DEF R
  <2> QED
    BY <2>1, <2>2, <2>3 DEF Beside
<1> QED
  BY <1>1, <1>2

LEMMA RegisterBeside ==
  ASSUME NEW h, h \in Heap, NEW i \in Items, h.rel[i] \in Rels, NEW c \in Contents
  PROVE  Beside(Register(h, i, c), h, h.rel[i])
<1> DEFINE R == [h.reg EXCEPT ![c] = [h.reg[c] EXCEPT ![h.rel[i]] = i]]
<1>1. /\ Register(h, i, c).reg = R
      /\ Register(h, i, c).con = [h.con EXCEPT ![i] = c]
  BY DEF Register, Heap
<1>2. h.reg \in [Contents -> [Rels -> Ptr]] /\ h.con \in [Items -> Contents \cup {Nil}]
  BY DEF Heap
<1>3. \A d \in Contents, q \in Rels : q # h.rel[i] => R[d][q] = h.reg[d][q]
  BY <1>2
<1> HIDE DEF R
<1> QED
  BY <1>1, <1>2, <1>3 DEF Beside

LEMMA BesideTwice ==
  ASSUME NEW f, NEW g, NEW h, NEW r, Beside(f, g, r), Beside(g, h, r), g.rel = h.rel
  PROVE  Beside(f, h, r)
BY DEF Beside

(* Only items of i's relation change hands when i is given contents. *)
LEMMA SetContentsBeside ==
  ASSUME NEW h, h \in Heap, RefsAgree(h), Spares(h, 1),
         NEW i \in Items, h.rel[i] \in Rels, NEW c \in Contents, c \in h.mem
  PROVE  Beside(SetContents(h, i, c), h, h.rel[i])
<1> DEFINE g  == Unref(h, i)
           r  == h.rel[i]
           nn == g.reg[c][g.rel[i]]
           f  == NewContent(g)
<1>1. CASE h.con[i] = c
  <2>1. SetContents(h, i, c) = h
    BY <1>1 DEF SetContents
  <2> QED
    BY <2>1 DEF Beside
<1>2. CASE h.con[i] # c
  <2>1. /\ g \in Heap /\ SameLinks(g, h) /\ g.mem \subseteq h.mem
        /\ RefsLoose(g, i, Nil)
    BY <1>2, LooseIsAgree, UnrefLoose
  <2>2. Beside(g, h, r)
    BY UnrefBeside
  <2>3. Spares(g, 1)
    <3>1. IsFiniteSet(Contents \ g.mem) /\ IsFiniteSet(Contents \ h.mem)
      BY PointerAssumption, FS_Subset
    <3>2. Contents \ h.mem \subseteq Contents \ g.mem
      BY <2>1
    <3>3. Cardinality(Contents \ h.mem) <= Cardinality(Contents \ g.mem)
          /\ Cardinality(Contents \ h.mem) \in Nat
          /\ Cardinality(Contents \ g.mem) \in Nat
      BY <3>1, <3>2, FS_Subset, FS_CardinalityType
    <3> QED
      BY <3>3 DEF Spares
  <2> HIDE DEF g
  <2>4. g.rel[i] = r /\ g.rel = h.rel
    BY <2>1 DEF SameLinks
  <2>5. CASE nn = Nil
    <3>1. SetContents(h, i, c) = Register(g, i, c)
      BY <1>2, <2>5 DEF SetContents, g
    <3>2. Beside(Register(g, i, c), g, r)
      BY <2>1, <2>4, RegisterBeside
    <3> QED
      BY <2>2, <2>4, <3>1, <3>2, BesideTwice
  <2>6. CASE nn # Nil
    <3>1. SetContents(h, i, c) = Register(Register(g, nn, f), i, c)
      BY <1>2, <2>6 DEF SetContents, g
    <3>2. f \in Contents
      BY <2>1, <2>3, FreshContent
    <3>3. nn \in Items /\ g.rel[nn] = r
      BY <2>1, <2>4, <2>6 DEF Heap, Ptr, RefsLoose
    <3> HIDE DEF f, nn
    <3> DEFINE b == Register(g, nn, f)
    <3>4. b \in Heap /\ Beside(b, g, r) /\ b.rel = g.rel
      <4>1. b \in Heap /\ Beside(b, g, r)
        BY <2>1, <3>2, <3>3, RegisterHeap, RegisterBeside
      <4>2. b.rel = g.rel
        BY <2>1 DEF Register, Heap
      <4> QED
        BY <4>1, <4>2
    <3> HIDE DEF b
    <3>5. Beside(Register(b, i, c), b, r)
      BY <2>4, <3>4, RegisterBeside
    <3> QED
      BY <2>2, <2>4, <3>1, <3>4, <3>5, BesideTwice DEF b
  <2> QED
    BY <2>5, <2>6
<1> QED
  BY <1>1, <1>2

(* Operations on contents leave what is reached as it is. *)
LEMMA SameLinksReach ==
  ASSUME NEW g, NEW h, SameLinks(g, h)
  PROVE  /\ Live(g) = Live(h) /\ InUse(g) = InUse(h)
         /\ \A x : Tree(g, x) = Tree(h, x) /\ List(g, x) = List(h, x)
         /\ \A r : Elsewhere(g, h, r)
         /\ EndsJoined(h) => EndsJoined(g)
         /\ \A L : AllInUse(h, L) => AllInUse(g, L)
BY DEF SameLinks, Live, InUse, Elsewhere, EndsJoined, AllInUse, List, Tree

(* In no relation's tree: copying leaves such originals behind. *)
Lost(h) == Live(h) \ InUse(h)

(* What holds of the heap between two calls: they have contents of their   *)
(* own, so that nothing in use leads to them.                              *)
Sane(h) == Good(h) /\ EndsJoined(h) /\ \A j \in Lost(h) : Alone(h, j)

(* A call on relation r has left the heap sane, and other relations alone. *)
Became(g, h, r) == Sane(g) /\ Elsewhere(g, h, r)

LEMMA SaneWhole ==
  ASSUME NEW h, Sane(h)
  PROVE  Whole(h, Lost(h))
BY DEF Sane, Whole, AllInUse, Lost, Live, InUse

(* No item that was in use has got lost, and the lost are still alone.     *)
LEMMA ChangedSane ==
  ASSUME NEW h, NEW g, NEW r, NEW L, Changed(g, h, r, L),
         \A j \in L : j \in Live(g) => Alone(g, j)
  PROVE  Became(g, h, r)
<1>1. ASSUME NEW j \in Lost(g) PROVE Alone(g, j)
  <2>1. j \in Items /\ g.rel[j] # Nil /\ j \notin Tree(g, g.head[g.rel[j]])
    BY DEF Lost, Live, InUse
  <2>2. j \in L
    BY <2>1 DEF Changed, Whole, AllInUse
  <2> QED
    BY <2>1, <2>2 DEF Live
<1> QED
  BY <1>1 DEF Became, Sane, Changed, Whole

(* The other views of an item in use are in use. *)
LEMMA ViewInUse ==
  ASSUME NEW h, Sane(h), NEW f \in InUse(h), NEW q \in Rels,
         AsRelation(h, f, q) # Nil
  PROVE  /\ AsRelation(h, f, q) \in InUse(h)
         /\ h.rel[AsRelation(h, f, q)] = q /\ h.con[AsRelation(h, f, q)] = h.con[f]
<1> DEFINE v == AsRelation(h, f, q)
<1>1. h \in Heap /\ RefsAgree(h) /\ f \in Live(h) /\ f \in Items
  BY DEF Sane, Good, InUse, Live
<1>2. h.con[f] \in Contents
  BY <1>1, LiveContents
<1>3. v \in Items /\ h.rel[v] = q /\ h.con[v] = h.con[f]
  BY <1>1, <1>2 DEF AsRelation, RefsAgree, Heap, Ptr
<1> HIDE DEF v
<1>4. v \in Live(h)
  BY <1>3, PointerAssumption DEF Live
<1>5. v \notin Lost(h)
  <2> SUFFICES ASSUME v \in Lost(h) PROVE FALSE
    OBVIOUS
  <2>1. v = f
    BY <1>1, <1>3 DEF Sane, Alone
  <2> QED
    BY <2>1 DEF Lost
<1> QED
  BY <1>3, <1>4, <1>5 DEF Lost, v

(* An item in use is given the contents of another. *)
LEMMA ShareSane ==
  ASSUME NEW h, Sane(h), Spares(h, 1), NEW i \in InUse(h), NEW t \in InUse(h)
  PROVE  LET g == SetContents(h, i, h.con[t])
         IN  /\ Sane(g) /\ SameLinks(g, h) /\ Beside(g, h, h.rel[i])
             /\ \E x \in Contents : g.mem \subseteq h.mem \cup {x}
<1> DEFINE c == h.con[t]
           g == SetContents(h, i, c)
<1>1. /\ Good(h) /\ h \in Heap /\ RefsAgree(h) /\ Links(h)
      /\ RefsLoose(h, Nil, Nil) /\ i \in Live(h) /\ t \in Live(h)
  BY LooseIsAgree DEF Sane, Good, InUse
<1>2. c \in Contents /\ c \in h.mem /\ h.rel[i] \in Rels /\ i \in Items /\ t \in Items
  BY <1>1, LiveContents
<1>3. Settled(g, h)
  BY <1>1, <1>2, SetContentsSettles
<1>4. Beside(g, h, h.rel[i])
  BY <1>1, <1>2, SetContentsBeside
<1>5. ASSUME NEW j \in Lost(h) PROVE Alone(g, j)
  <2>1. j \in Live(h) /\ Alone(h, j) /\ j # i /\ j # t
    BY DEF Lost, Sane
  <2>2. h.con[i] # h.con[j] /\ c # h.con[j]
    BY <1>2, <2>1 DEF Alone
  <2>3. h.con[j] \in h.mem /\ j \in Items
    BY <1>1, <2>1, LiveContents
  <2> HIDE DEF g
  <2>4. Kept(g, h, j)
    BY <1>1, <1>2, <2>2, <2>3, SetContentsKeeps DEF g
  <2> QED
    BY <2>1, <2>4, KeptAlone
<1> HIDE DEF g, c
<1>6. SameLinks(g, h) /\ Good(g) /\ \E x \in Contents : g.mem \subseteq h.mem \cup {x}
  BY <1>1, <1>3, SettledGood DEF Settled
<1>7. Lost(g) = Lost(h) /\ EndsJoined(g)
  BY <1>6, SameLinksReach DEF Lost, Sane
<1>8. Sane(g)
  BY <1>5, <1>6, <1>7 DEF Sane
<1> QED
  BY <1>4, <1>6, <1>8 DEF g, c

(* Deleting an item, of whatever views. *)
LEMMA DeleteSane ==
  ASSUME NEW h, Sane(h), NEW x \in Live(h)
  PROVE  Became(Delete(h, x), h, h.rel[x])
<1>1. Changed(Delete(h, x), h, h.rel[x], Lost(h))
  BY SaneWhole, DeleteWhole
<1>2. ASSUME NEW j \in Lost(h), j \in Live(Delete(h, x)) PROVE Alone(Delete(h, x), j)
  BY <1>2, DeleteKeeps, KeptAlone DEF Sane, Lost
<1> QED
  BY <1>1, <1>2, ChangedSane

LEMMA MoveItemSane ==
  ASSUME NEW h, Sane(h), Spares(h, 1), NEW from \in InUse(h), NEW to \in InUse(h)
  PROVE  Became(MoveItem(h, from, to), h, h.rel[to])
<1> DEFINE rfrom == AsRelation(h, from, h.rel[to])
           g == SetContents(h, to, h.con[from])
<1>1. Sane(g) /\ SameLinks(g, h)
  BY ShareSane
<1>2. h.rel[to] \in Rels
  BY DEF Sane, Good, Heap, InUse, Live
<1>3. rfrom # Nil => rfrom \in Live(h) /\ h.rel[rfrom] = h.rel[to]
  BY <1>2, ViewInUse DEF InUse
<1>4. MoveItem(h, from, to) = IF rfrom = Nil THEN g ELSE Delete(g, rfrom)
  BY DEF MoveItem
<1> HIDE DEF g, rfrom
<1>5. Live(g) = Live(h) /\ g.rel = h.rel /\ Elsewhere(g, h, h.rel[to])
  BY <1>1, SameLinksReach DEF SameLinks
<1>6. CASE rfrom = Nil
  BY <1>1, <1>4, <1>5, <1>6 DEF Became
<1>7. CASE rfrom # Nil
  <2>1. Became(Delete(g, rfrom), g, h.rel[to])
    BY <1>1, <1>3, <1>5, <1>7, DeleteSane
  <2> QED
    BY <1>4, <1>5, <1>7, <2>1, ElsewhereTwice DEF Became
<1> QED
  BY <1>6, <1>7

(* merge_item, one relation at a time: its view of from is given to's      *)
(* contents.                                                               *)
Give(h, from, to, q) == SetContents(h, AsRelation(h, from, q), h.con[to])

Given(f, h, from, to, s, m) ==
  /\ f = [k \in 0 .. m |-> f[k]] /\ f[0] = h
  /\ \A k \in 1 .. m : f[k] = Give(f[k - 1], from, to, s[k])

LEMMA GivenExists ==
  ASSUME NEW h, NEW from, NEW to, NEW s, NEW N \in Nat
  PROVE  \E f : Given(f, h, from, to, s, N)
<1> DEFINE B == {m \in 0 .. N : ~ \E f : Given(f, h, from, to, s, m)}
<1> SUFFICES ASSUME ~ \E f : Given(f, h, from, to, s, N) PROVE FALSE
  OBVIOUS
<1>1. N \in 0 .. N
  OBVIOUS
<1>2. B \subseteq 0 .. N /\ B # {}
  BY <1>1
<1>3. PICK m \in B : \A k \in B : m <= k
  BY <1>2, LeastNumber
<1>4. m \in 0 .. N /\ ~ \E f : Given(f, h, from, to, s, m)
  BY <1>3
<1>5. CASE m = 0
  <2> DEFINE f == [k \in 0 .. 0 |-> h]
  <2>1. f = [k \in 0 .. 0 |-> f[k]] /\ f[0] = h
    OBVIOUS
  <2> HIDE DEF f
  <2>2. Given(f, h, from, to, s, 0)
    BY <2>1 DEF Given
  <2> QED
    BY <1>4, <1>5, <2>2
<1>6. CASE m # 0
  <2>1. m - 1 \in 0 .. N /\ m \in 1 .. N /\ ~(m <= m - 1)
    BY <1>4, <1>6
  <2>2. m - 1 \notin B
    BY <1>3, <2>1
  <2>3. PICK f : Given(f, h, from, to, s, m - 1)
    BY <2>1, <2>2
  <2> DEFINE w == Give(f[m - 1], from, to, s[m])
             g == [k \in 0 .. m |-> IF k = m THEN w ELSE f[k]]
  <2>4. w = Give(f[m - 1], from, to, s[m])
    OBVIOUS
  <2> HIDE DEF w
  <2>5. \A k \in 0 .. m : g[k] = IF k = m THEN w ELSE f[k]
    OBVIOUS
  <2>6. g = [k \in 0 .. m |-> g[k]]
    OBVIOUS
  <2> HIDE DEF g
  <2>7. g[0] = h
    <3>1. m \in Nat /\ 0 \in 0 .. m /\ 0 # m
      BY <1>4, <1>6
    <3>2. f[0] = h
      BY <2>3 DEF Given
    <3> QED
      BY <2>5, <3>1, <3>2
  <2>8. ASSUME NEW k \in 1 .. m PROVE g[k] = Give(g[k - 1], from, to, s[k])
    <3>1. CASE k = m
      BY <2>1, <2>4, <2>5, <3>1
    <3>2. CASE k # m
      <4>1. k \in 1 .. m - 1 /\ k \in 0 .. m /\ k - 1 \in 0 .. m /\ k - 1 # m
        BY <2>1, <3>2
      <4>2. f[k] = Give(f[k - 1], from, to, s[k])
        BY <2>3, <4>1 DEF Given
      <4> QED
        BY <2>5, <3>2, <4>1, <4>2
    <3> QED
      BY <3>1, <3>2
  <2>9. Given(g, h, from, to, s, m)
    BY <2>6, <2>7, <2>8 DEF Given
  <2> QED
    BY <1>4, <2>9
<1> QED
  BY <1>5, <1>6

LEMMA GiveContentsValue ==
  ASSUME NEW h, NEW from, NEW to, NEW s, Len(s) \in Nat
  PROVE  \E f : /\ Given(f, h, from, to, s, Len(s))
                /\ GiveContents(h, from, to, s) = f[Len(s)]
<1> DEFINE N == Len(s)
           Body(f, k) == IF k = 0 THEN h
                         ELSE SetContents(f[k - 1], AsRelation(f[k - 1], from, s[k]),
                                          f[k - 1].con[to])
           Def(f) == f = [k \in 0 .. N |-> Body(f, k)]
           given == CHOOSE g : Def(g)
<1>1. \A f, k : Body(f, k) = IF k = 0 THEN h ELSE Give(f[k - 1], from, to, s[k])
  BY DEF Give
<1>2. GiveContents(h, from, to, s) = given[N]
  BY DEF GiveContents
<1> HIDE DEF N
<1>3. PICK f : Given(f, h, from, to, s, N)
  BY GivenExists DEF N
<1> HIDE DEF Body
<1>4. ASSUME NEW k \in 0 .. N PROVE f[k] = Body(f, k)
  <2>1. CASE k = 0
    BY <1>1, <1>3, <2>1 DEF Given
  <2>2. CASE k # 0
    <3>1. k \in 1 .. N
      BY <2>2 DEF N
    <3>2. f[k] = Give(f[k - 1], from, to, s[k])
      BY <1>3, <3>1 DEF Given
    <3> QED
      BY <1>1, <2>2, <3>2
  <2> QED
    BY <2>1, <2>2
<1>5. Def(f)
  BY <1>3, <1>4 DEF Given
<1>6. Def(given)
  BY <1>5
<1> HIDE DEF given
<1>7. \A k \in 0 .. N : given[k] = Body(given, k)
  BY <1>6
<1>8. given = [k \in 0 .. N |-> given[k]]
  BY <1>6
<1>9. given[0] = h /\ \A k \in 1 .. N : given[k] = Give(given[k - 1], from, to, s[k])
  <2>1. N \in Nat /\ 0 \in 0 .. N
    BY DEF N
  <2>2. \A k \in 1 .. N : k \in 0 .. N /\ k # 0
    BY <2>1
  <2> QED
    BY <1>1, <1>7, <2>1, <2>2
<1>10. Given(given, h, from, to, s, N)
  BY <1>8, <1>9 DEF Given
<1> QED
  BY <1>2, <1>10 DEF N

(* Of the relations that s lists, the first k have been visited. *)
Visited(s, k) == {s[a] : a \in 1 .. k}

(* The heap then: the views of from in the others are what they were.      *)
Merging(g, h, from, s, k) ==
  /\ Sane(g) /\ SameLinks(g, h) /\ Spares(g, Len(s) - k + 1)
  /\ \A c \in Contents, q \in Rels \ Visited(s, k) : g.reg[c][q] = h.reg[c][q]
  /\ \A j \in Items : h.rel[j] \notin Visited(s, k) => g.con[j] = h.con[j]

LEMMA MergeStep ==
  ASSUME NEW h, Sane(h), NEW from \in InUse(h), NEW to \in InUse(h),
         NEW s \in Seq(Rels),
         \A a, b \in DOMAIN s : s[a] = s[b] => a = b,
         \A a \in DOMAIN s : AsRelation(h, from, s[a]) \notin {Nil, from},
         NEW k \in 1 .. Len(s), NEW g, Merging(g, h, from, s, k - 1)
  PROVE  Merging(Give(g, from, to, s[k]), h, from, s, k)
<1> DEFINE q == s[k]
           v == AsRelation(g, from, q)
           f == SetContents(g, v, g.con[to])
           m == Len(s) - k + 1
<1>1. /\ Len(s) \in Nat /\ DOMAIN s = 1 .. Len(s) /\ k \in DOMAIN s /\ k - 1 \in Nat
      /\ q \in Rels /\ \A a \in 1 .. k - 1 : a \in DOMAIN s /\ a # k
      /\ m \in Nat /\ m >= 1 /\ Len(s) - (k - 1) + 1 = m + 1
  OBVIOUS
<1>2. q \notin Visited(s, k - 1) /\ Visited(s, k) = Visited(s, k - 1) \cup {q}
  <2>1. q \notin Visited(s, k - 1)
    BY <1>1 DEF Visited
  <2>2. \A a : a \in 1 .. k <=> a \in 1 .. k - 1 \/ a = k
    OBVIOUS
  <2> QED
    BY <2>1, <2>2 DEF Visited
<1>3. /\ h \in Heap /\ RefsAgree(h) /\ from \in Live(h) /\ from \in Items
      /\ h.con[from] \in Contents /\ h.rel[from] \in Rels
      /\ AsRelation(h, from, h.rel[from]) = from
  BY LiveContents DEF Sane, Good, InUse, AsRelation
<1>4. h.rel[from] \notin Visited(s, k - 1)
  BY <1>1, <1>3 DEF Visited
<1>5. /\ Sane(g) /\ SameLinks(g, h) /\ Spares(g, m + 1)
      /\ \A c \in Contents, r \in Rels \ Visited(s, k - 1) : g.reg[c][r] = h.reg[c][r]
      /\ \A j \in Items : h.rel[j] \notin Visited(s, k - 1) => g.con[j] = h.con[j]
  BY <1>1 DEF Merging
<1>6. InUse(g) = InUse(h) /\ g.rel = h.rel
  BY <1>5, SameLinksReach DEF SameLinks
<1>7. v = AsRelation(h, from, q) /\ v # Nil
  BY <1>1, <1>2, <1>3, <1>4, <1>5 DEF AsRelation
<1>8. v \in InUse(g) /\ g.rel[v] = q
  BY <1>1, <1>5, <1>6, <1>7, ViewInUse
<1> HIDE DEF v
<1>9. Spares(g, 1)
  BY <1>1, <1>5, SparesFewer
<1>10. /\ Sane(f) /\ SameLinks(f, g) /\ Beside(f, g, q)
       /\ \E x \in Contents : f.mem \subseteq g.mem \cup {x}
  BY <1>5, <1>6, <1>8, <1>9, ShareSane
<1> HIDE DEF f
<1>11. Spares(f, m)
  <2>1. f \in Heap /\ g \in Heap
    BY <1>5, <1>10 DEF Sane, Good
  <2>2. PICK x \in Contents : f.mem \subseteq g.mem \cup {x}
    BY <1>10
  <2> HIDE DEF m
  <2> QED
    BY <1>1, <1>5, <2>1, <2>2, SparesDrop
<1>12. SameLinks(f, h)
  BY <1>5, <1>10 DEF SameLinks
<1>13. \A c \in Contents, r \in Rels \ Visited(s, k) : f.reg[c][r] = h.reg[c][r]
  BY <1>2, <1>5, <1>10 DEF Beside
<1>14. \A j \in Items : h.rel[j] \notin Visited(s, k) => f.con[j] = h.con[j]
  BY <1>2, <1>5, <1>6, <1>10 DEF Beside
<1>15. f = Give(g, from, to, s[k])
  BY DEF Give, f, v
<1> QED
  BY <1>10, <1>11, <1>12, <1>13, <1>14, <1>15 DEF Merging

LEMMA MergeItemSane ==
  ASSUME NEW h, Sane(h), NEW from \in InUse(h), NEW to \in InUse(h),
         NEW s \in Seq(Rels),
         \A a, b \in DOMAIN s : s[a] = s[b] => a = b,
         \A a \in DOMAIN s : AsRelation(h, from, s[a]) \notin {Nil, from},
         Spares(h, Len(s) + 1)
  PROVE  Sane(MergeItem(h, from, to, s)) /\ SameLinks(MergeItem(h, from, to, s), h)
<1> DEFINE N == Len(s)
           G == GiveContents(h, from, to, s)
<1>1. N \in Nat /\ 0 \in 0 .. N /\ N \in 0 .. N
  OBVIOUS
<1>2. PICK f : Given(f, h, from, to, s, N) /\ G = f[N]
  BY <1>1, GiveContentsValue
<1> HIDE DEF G
<1> DEFINE B == {k \in 0 .. N : ~Merging(f[k], h, from, s, k)}
<1>3. B = {}
  <2> SUFFICES ASSUME B # {} PROVE FALSE
    OBVIOUS
  <2>1. B \subseteq 0 .. N
    OBVIOUS
  <2>2. PICK m \in B : \A k \in B : m <= k
    BY <1>1, <2>1, LeastNumber
  <2>3. m \in 0 .. N /\ ~Merging(f[m], h, from, s, m)
    BY <2>2
  <2>4. CASE m = 0
    <3>1. f[0] = h /\ N - 0 + 1 = N + 1
      BY <1>1, <1>2 DEF Given
    <3>2. SameLinks(h, h)
      BY DEF SameLinks
    <3>3. Merging(h, h, from, s, 0)
      BY <3>1, <3>2 DEF Merging
    <3> QED
      BY <2>3, <2>4, <3>1, <3>3
  <2>5. CASE m # 0
    <3>1. m \in 1 .. N /\ m - 1 \in 0 .. N /\ ~(m <= m - 1)
      BY <1>1, <2>3, <2>5
    <3>2. Merging(f[m - 1], h, from, s, m - 1)
      BY <2>2, <3>1
    <3>3. f[m] = Give(f[m - 1], from, to, s[m])
      BY <1>2, <3>1 DEF Given
    <3>4. Merging(f[m], h, from, s, m)
      BY <3>1, <3>2, <3>3, MergeStep
    <3> QED
      BY <2>3, <3>4
  <2> QED
    BY <2>4, <2>5
<1>4. Sane(G) /\ SameLinks(G, h) /\ Spares(G, 1)
  <2>1. Merging(G, h, from, s, N) /\ N - N + 1 = 1
    BY <1>1, <1>2, <1>3
  <2> HIDE DEF N
  <2> QED
    BY <2>1 DEF Merging, N
<1>5. InUse(G) = InUse(h)
  BY <1>4, SameLinksReach
<1>6. Sane(SetContents(G, from, G.con[to])) /\ SameLinks(SetContents(G, from, G.con[to]), G)
  BY <1>4, <1>5, ShareSane
<1>7. MergeItem(h, from, to, s) = SetContents(G, from, G.con[to])
  BY DEF MergeItem, G
<1> QED
  BY <1>4, <1>6, <1>7 DEF SameLinks
-----------------------------------------------------------------------------
(* Cutting off a tree.                                                     *)

(* Nothing leads into a set that is closed backwards. *)
LEMMA TreeApart ==
  ASSUME NEW h, Good(h), NEW D \in SUBSET Items,
         \A j \in D : h.p[j] \in D \cup {Nil} /\ h.u[j] \in D \cup {Nil},
         NEW y \in Ptr, y \notin D
  PROVE  D \cap Tree(h, y) = {}
<1>1. Pointers(h) /\ Links(h) /\ Nil \notin Items
  BY PointerAssumption DEF Good, Heap, Pointers
<1>2. /\ y # Nil => y \in Tree(h, y)
      /\ Tree(h, y) \subseteq Items /\ TreeClosed(h, Tree(h, y))
      /\ \A S \in SUBSET Items : (y # Nil => y \in S) /\ TreeClosed(h, S)
                                  => Tree(h, y) \subseteq S
  BY <1>1, TreeLeast
<1> DEFINE S == Tree(h, y) \ D
<1>3. S \in SUBSET Items /\ (y # Nil => y \in S)
  BY <1>2
<1>4. ASSUME NEW k \in S PROVE h.n[k] \in S \cup {Nil} /\ h.d[k] \in S \cup {Nil}
  <2>1. k \in Items /\ k \in Tree(h, y) /\ k \notin D /\ k # Nil
    BY <1>1, <1>2
  <2>2. h.n[k] # Nil => h.p[h.n[k]] = k
    BY <1>1, <2>1 DEF Links, NextGood
  <2>3. h.d[k] # Nil => h.u[h.d[k]] = k
    BY <1>1, <2>1 DEF Links, DownGood
  <2> QED
    BY <1>2, <2>1, <2>2, <2>3 DEF TreeClosed
<1>5. TreeClosed(h, S)
  BY <1>4 DEF TreeClosed
<1>6. Tree(h, y) \subseteq S
  BY <1>2, <1>3, <1>5
<1> QED
  BY <1>6

(* An item in use is not in the tree that follows it, nor in the one below *)
(* it, and nothing in its tree leads to it.                                *)
LEMMA InUseRoot ==
  ASSUME NEW h, Good(h), NEW x \in InUse(h)
  PROVE  x \notin Tree(h, h.n[x]) /\ x \notin Tree(h, h.d[x]) /\ Root(h, x)
<1>1. /\ Pointers(h) /\ Links(h) /\ Nil \notin Items /\ x \in Items /\ x # Nil
      /\ h.rel[x] \in Rels
  BY PointerAssumption DEF Good, Heap, Pointers, InUse, Live
<1>2. ASSUME NEW k \in InUse(h) PROVE k \notin Tree(h, h.n[k]) /\ k \notin Tree(h, h.d[k])
  <2>1. k \in Items /\ h.rel[k] \in Rels /\ k \in Tree(h, h.head[h.rel[k]])
    BY DEF Good, Heap, InUse, Live
  <2>2. h.head[h.rel[k]] \in Ptr
    BY <1>1, <2>1 DEF Pointers
  <2>3. h.head[h.rel[k]] # Nil
    BY <1>1, <2>1, NoTree
  <2> DEFINE y == h.head[h.rel[k]]
  <2>4. h.p[y] = Nil /\ h.u[y] = Nil
    BY <1>1, <2>1, <2>3 DEF Links, EndsGood
  <2>5. ASSUME NEW z \in {h.n[k], h.d[k]}, k \in Tree(h, z) PROVE FALSE
    <3>1. z \in Ptr
      BY <1>1, <2>1 DEF Pointers
    <3>2. z # Nil
      BY <1>1, <2>5, NoTree
    <3>3. h.p[z] \in {k, Nil} /\ h.u[z] \in {k, Nil} /\ (h.p[z] = k \/ h.u[z] = k)
      BY <1>1, <2>1, <3>2 DEF Links, NextGood, DownGood
    <3> DEFINE D == Tree(h, z)
    <3>4. D \subseteq Items
      BY <1>1, <3>1, TreeLeast
    <3>5. \A j \in D : j # z => h.p[j] \in D \/ h.u[j] \in D
      BY <3>1, TreeBefore
    <3>6. ASSUME NEW j \in D
          PROVE  h.p[j] \in D \cup {Nil} /\ h.u[j] \in D \cup {Nil}
      <4>1. CASE j = z
        BY <2>5, <3>3, <4>1
      <4>2. CASE j # z
        <5>1. j \in Items
          BY <3>4
        <5>2. /\ h.p[j] # Nil => h.n[h.p[j]] = j
              /\ h.u[j] # Nil => h.d[h.u[j]] = j
          BY <1>1, <5>1 DEF Links, PrevGood, UpGood
        <5>3. h.p[j] \in Ptr /\ h.u[j] \in Ptr
          BY <1>1, <5>1 DEF Pointers
        <5>4. h.p[j] = Nil \/ h.u[j] = Nil
          <6> SUFFICES ASSUME h.p[j] # Nil PROVE h.u[j] = Nil
            OBVIOUS
          <6>1. h.p[j] \in Items /\ h.n[h.p[j]] = j /\ j # Nil
            BY <1>1, <5>1, <5>2, <5>3 DEF Ptr
          <6>2. h.u[h.n[h.p[j]]] = Nil
            BY <1>1, <6>1 DEF Links, NextGood
          <6> QED
            BY <6>1, <6>2
        <5> HIDE DEF D
        <5> QED
          BY <1>1, <3>4, <3>5, <4>2, <5>4
      <4> QED
        BY <4>1, <4>2
    <3>7. y \notin D
      <4>1. y # z
        BY <1>1, <2>1, <2>4, <3>3
      <4> HIDE DEF D, y
      <4> QED
        BY <1>1, <2>4, <3>4, <3>5, <4>1
    <3>8. D \cap Tree(h, y) = {}
      <4> HIDE DEF D, y
      <4> QED
        BY <2>2, <3>4, <3>6, <3>7, TreeApart DEF y
    <3> QED
      BY <2>1, <2>5, <3>8
  <2> QED
    BY <2>5
<1>3. ASSUME NEW k \in {h.p[x], h.u[x]}, k \in Tree(h, x) PROVE FALSE
  <2>1. x \in Ptr
    BY <1>1 DEF Ptr
  <2>2. k \in Items /\ k # Nil
    BY <1>1, <1>3, <2>1, TreeLeast
  <2>3. k \in InUse(h)
    BY <2>2, EntryInUse
  <2>4. x = h.n[k] \/ x = h.d[k]
    BY <1>1, <2>2 DEF Links, PrevGood, UpGood
  <2> QED
    BY <1>2, <1>3, <2>3, <2>4
<1> QED
  BY <1>2, <1>3 DEF Root

(* A set that no link leaves, or enters from outside, and no relation      *)
(* begins with: what has been cut off.                                     *)
Island(h, D) ==
  /\ D \subseteq Items /\ TreeClosed(h, D)
  /\ \A j \in D : h.p[j] \in D \cup {Nil} /\ h.u[j] \in D \cup {Nil}
  /\ \A r \in Rels : h.head[r] \notin D

LEMMA IslandApart ==
  ASSUME NEW h, Good(h), NEW D, Island(h, D)
  PROVE  /\ \A r \in Rels : D \cap Tree(h, h.head[r]) = {}
         /\ D \cap InUse(h) = {}
<1>1. ASSUME NEW r \in Rels PROVE D \cap Tree(h, h.head[r]) = {}
  <2>1. h.head[r] \in Ptr
    BY DEF Good, Heap
  <2> QED
    BY <2>1, TreeApart DEF Island
<1> QED
  BY <1>1, PointerAssumption DEF InUse, Live, Good, Heap

(* The daughters of an item in use, with what is below them, once they are *)
(* cut off: nothing else is lost.                                          *)
LEMMA CutIsland ==
  ASSUME NEW L, NEW h, Whole(h, L), NEW c \in InUse(h)
  PROVE  LET g == CutDaughters(h, c)
             D == Tree(h, h.d[c])
         IN  /\ Whole(g, L \cup D) /\ Elsewhere(g, h, h.rel[c])
             /\ Island(g, D) /\ c \notin D
             /\ LinkedCut(g, h, c, h.d[c])
             /\ h.d[c] # Nil => h.d[c] \in Live(h) /\ h.rel[h.d[c]] = h.rel[c]
<1> DEFINE g == CutDaughters(h, c)
           y == h.d[c]
           D == Tree(h, y)
<1>1. /\ Good(h) /\ Pointers(h) /\ Links(h) /\ Nil \notin Items /\ c \in Items
      /\ c \in Live(h) /\ y \in Ptr /\ h.rel[c] \in Rels /\ Nil \notin Rels
  BY PointerAssumption DEF Whole, Good, Heap, Pointers, InUse, Live
<1>2. Good(g) /\ LinkedCut(g, h, c, y)
  BY <1>1, CutDaughtersGood
<1>3. /\ D \subseteq Items /\ TreeClosed(h, D) /\ (y # Nil => y \in D)
  BY <1>1, TreeLeast
<1>4. c \notin D
  BY <1>1, InUseRoot
<1>5. y # Nil => /\ h.p[y] = Nil /\ h.u[y] = c /\ h.rel[y] = h.rel[c]
                 /\ \A q \in Rels : h.head[q] # y
  BY <1>1 DEF Links, DownGood, EndsGood
<1>6. \A j \in D : /\ h.p[j] # Nil => h.p[j] \in D
                   /\ h.u[j] # Nil /\ j # y => h.u[j] \in D
  BY <1>1, <1>5, TreeEntry
<1> HIDE DEF g, D, y
<1>7. Pointers(g)
  BY <1>2 DEF Good, Heap, Pointers
<1>8. Island(g, D)
  <2>1. TreeClosed(g, D)
    BY <1>2, <1>3, <1>4 DEF TreeClosed, LinkedCut
  <2>2. \A j \in D : g.p[j] \in D \cup {Nil} /\ g.u[j] \in D \cup {Nil}
    BY <1>2, <1>3, <1>6 DEF LinkedCut
  <2>3. ASSUME NEW q \in Rels, h.head[q] \in D PROVE FALSE
    <3>1. h.head[q] # Nil /\ h.p[h.head[q]] = Nil /\ h.u[h.head[q]] = Nil
      BY <1>1, <1>3, <2>3 DEF Links, EndsGood
    <3>2. h.head[q] \in Tree(h, y) /\ h.head[q] # y /\ h.head[q] \in Items
      BY <1>3, <1>5, <2>3, <3>1 DEF D
    <3> QED
      BY <1>1, <3>1, <3>2, HeadOnTop
  <2> QED
    BY <1>2, <1>3, <2>1, <2>2, <2>3 DEF Island, LinkedCut
<1>9. EndsJoined(g)
  <2>1. g.n = h.n /\ g.head = h.head /\ g.tail = h.tail
    BY <1>2 DEF LinkedCut
  <2> QED
    BY <2>1 DEF Whole, EndsJoined, List
<1>10. ASSUME NEW j \in Items \ (L \cup D), g.rel[j] # Nil
       PROVE  j \in Tree(g, g.head[g.rel[j]])
  <2> DEFINE q == h.rel[j]
             hd == h.head[q]
             S == Tree(g, hd) \cup D
  <2>1. g.rel[j] = q /\ q \in Rels /\ j \in Tree(h, hd) /\ g.head[q] = hd /\ hd \in Ptr
    BY <1>1, <1>2, <1>10 DEF LinkedCut, Whole, AllInUse, Good, Heap
  <2> HIDE DEF q, hd
  <2>2. /\ Tree(g, hd) \subseteq Items /\ TreeClosed(g, Tree(g, hd))
        /\ (hd # Nil => hd \in Tree(g, hd))
    BY <1>7, <2>1, TreeLeast
  <2>3. ASSUME NEW k \in S PROVE h.n[k] \in S \cup {Nil} /\ h.d[k] \in S \cup {Nil}
    <3>1. CASE k \in D
      BY <1>3, <3>1 DEF TreeClosed
    <3>2. CASE k \in Tree(g, hd)
      <4>1. g.n[k] \in Tree(g, hd) \cup {Nil} /\ g.d[k] \in Tree(g, hd) \cup {Nil}
            /\ k \in Items
        BY <2>2, <3>2 DEF TreeClosed
      <4>2. h.n[k] = g.n[k] /\ (k # c => h.d[k] = g.d[k]) /\ h.d[c] = y
        BY <1>2, <4>1 DEF LinkedCut, y
      <4> QED
        BY <1>3, <4>1, <4>2
    <3> QED
      BY <2>3, <3>1, <3>2
  <2>4. TreeClosed(h, S)
    BY <2>3 DEF TreeClosed
  <2>5. S \in SUBSET Items /\ (hd # Nil => hd \in S)
    BY <1>3, <2>2
  <2> HIDE DEF S
  <2>6. Tree(h, hd) \subseteq S
    BY <1>1, <2>1, <2>4, <2>5, TreeLeast
  <2> QED
    BY <1>10, <2>1, <2>6 DEF S
<1>11. Whole(g, L \cup D)
  BY <1>2, <1>9, <1>10 DEF Whole, AllInUse
<1>12. Elsewhere(g, h, h.rel[c])
  BY <1>1, <1>2, <1>5 DEF LinkedCut, Elsewhere
<1>13. y # Nil => y \in Live(h) /\ h.rel[y] = h.rel[c]
  BY <1>1, <1>5 DEF Live, Ptr
<1> QED
  BY <1>2, <1>4, <1>8, <1>11, <1>12, <1>13 DEF g, D, y

LEMMA GrownIsland ==
  ASSUME NEW h, NEW b, NEW M, NEW g, Grown(g, h, b, M),
         NEW D, Island(h, D), D \subseteq Live(h), b \notin D
  PROVE  Island(g, D) /\ D \subseteq Live(g)
<1>1. \A j \in D : /\ g.rel[j] = h.rel[j] /\ g.p[j] = h.p[j] /\ g.u[j] = h.u[j]
                   /\ g.n[j] = h.n[j] /\ g.d[j] = h.d[j]
  BY DEF Grown
<1> QED
  BY <1>1 DEF Island, TreeClosed, Grown, Live

LEMMA DeleteIsland ==
  ASSUME NEW h, Good(h), NEW x \in Live(h), NEW D, Island(h, D)
  PROVE  Island(Delete(h, x), D)
<1> DEFINE F == {x} \cup Under(h, x)
           k == Unlink(h, x)
           g == Delete(h, x)
           a == h.p[x]
           b == h.n[x]
           v == h.u[x]
           r == h.rel[x]
<1>1. /\ Pointers(h) /\ Links(h) /\ Nil \notin Items /\ x \in Items
      /\ a \in Ptr /\ b \in Ptr /\ v \in Ptr /\ r \in Rels /\ h.d[x] \in Ptr
  BY PointerAssumption DEF Good, Heap, Pointers, Live
<1>2. F \in SUBSET Items
  BY <1>1, TreeLeast DEF Under
<1>3. /\ k \in Heap
      /\ Stored(k.p, h.p, b, a) /\ Stored(k.u, h.u, b, v)
      /\ Stored(k.n, h.n, a, b) /\ Stored(k.d, h.d, v, b)
      /\ Replaced(k.head, h.head, r, x, b)
  BY UnlinkValues
<1>4. g = Free(k, F)
  BY DEF Delete
<1> HIDE DEF F, k, g
<1>5. /\ \A j \in Items :
           /\ g.n[j] = IF j \in F THEN Nil ELSE k.n[j]
           /\ g.p[j] = IF j \in F THEN Nil ELSE k.p[j]
           /\ g.u[j] = IF j \in F THEN Nil ELSE k.u[j]
           /\ g.d[j] = IF j \in F THEN Nil ELSE k.d[j]
      /\ \A q \in Rels : g.head[q] = IF k.head[q] \in F THEN Nil ELSE k.head[q]
  BY <1>2, <1>3, <1>4, FreeValues
<1>6. /\ D \subseteq Items
      /\ \A j \in D : /\ h.n[j] \in D \cup {Nil} /\ h.d[j] \in D \cup {Nil}
                      /\ h.p[j] \in D \cup {Nil} /\ h.u[j] \in D \cup {Nil}
      /\ \A q \in Rels : h.head[q] \notin D
  BY DEF Island, TreeClosed
<1>7. x \in D => a \in D \cup {Nil} /\ b \in D \cup {Nil} /\ v \in D \cup {Nil}
  BY <1>6
<1>8. a \in D \/ b \in D \/ v \in D => x \in D
  <2>1. /\ a # Nil => h.n[a] = x
        /\ b # Nil => h.p[b] = x
        /\ v # Nil => h.d[v] = x
    BY <1>1 DEF Links, NextGood, PrevGood, UpGood
  <2>2. x # Nil
    BY <1>1
  <2> HIDE DEF a, b, v
  <2>3. a \in D => x \in D
    BY <1>1, <1>6, <2>1, <2>2
  <2>4. b \in D => x \in D
    BY <1>1, <1>6, <2>1, <2>2
  <2>5. v \in D => x \in D
    BY <1>1, <1>6, <2>1, <2>2
  <2> QED
    BY <2>3, <2>4, <2>5
<1> HIDE DEF a, b, v
<1>9. \A j \in D : /\ g.n[j] \in D \cup {Nil} /\ g.d[j] \in D \cup {Nil}
                   /\ g.p[j] \in D \cup {Nil} /\ g.u[j] \in D \cup {Nil}
  BY <1>3, <1>5, <1>6, <1>7, <1>8 DEF Stored
<1>10. \A q \in Rels : g.head[q] \notin D
  BY <1>1, <1>3, <1>5, <1>6, <1>8 DEF Replaced
<1> QED
  BY <1>6, <1>9, <1>10 DEF Island, TreeClosed, g

(* What was reached from z still is, but for what is deleted; from the     *)
(* next item when z itself is.                                             *)
LEMMA DeleteReaches ==
  ASSUME NEW h, Good(h), NEW x \in Live(h), NEW z \in Ptr,
         NEW s, s = IF z = x THEN h.n[x] ELSE z, s \notin {x} \cup Under(h, x)
  PROVE  Tree(h, z) \ ({x} \cup Under(h, x)) \subseteq Tree(Delete(h, x), s)
<1> DEFINE F == {x} \cup Under(h, x)
           k == Unlink(h, x)
           g == Delete(h, x)
           a == h.p[x]
           b == h.n[x]
           v == h.u[x]
           T == Tree(g, s)
<1>1. /\ Pointers(h) /\ Links(h) /\ Nil \notin Items /\ x \in Items
      /\ a \in Ptr /\ b \in Ptr /\ v \in Ptr /\ h.d[x] \in Ptr /\ s \in Ptr
  BY PointerAssumption DEF Good, Heap, Pointers, Live
<1>2. /\ F \in SUBSET Items /\ TreeClosed(h, Under(h, x))
      /\ h.d[x] \in Under(h, x) \cup {Nil} /\ Under(h, x) \subseteq Items
  BY <1>1, TreeLeast DEF Under
<1>3. /\ k \in Heap /\ Stored(k.p, h.p, b, a)
      /\ Stored(k.n, h.n, a, b) /\ Stored(k.d, h.d, v, b)
  BY UnlinkValues
<1>4. g = Free(k, F) /\ Good(g)
  BY DeleteGood DEF Delete
<1> HIDE DEF F, k, g
<1>5. \A j \in Items :
           /\ g.n[j] = IF j \in F THEN Nil ELSE k.n[j]
           /\ g.p[j] = IF j \in F THEN Nil ELSE k.p[j]
           /\ g.u[j] = IF j \in F THEN Nil ELSE k.u[j]
           /\ g.d[j] = IF j \in F THEN Nil ELSE k.d[j]
  BY <1>2, <1>3, <1>4, FreeValues
<1>6. /\ T \subseteq Items /\ TreeClosed(g, T) /\ (s # Nil => s \in T)
  <2>1. Pointers(g)
    BY <1>4 DEF Good, Heap, Pointers
  <2> QED
    BY <1>1, <2>1, TreeLeast
<1>7. T \cap F = {}
  <2> SUFFICES ASSUME NEW j \in T, j \in F PROVE FALSE
    OBVIOUS
  <2>1. j # s
    BY DEF F
  <2>2. g.p[j] \in T \/ g.u[j] \in T
    BY <1>1, <1>4, <2>1, TreeBefore
  <2> HIDE DEF T
  <2> QED
    BY <1>1, <1>5, <1>6, <2>2
<1> HIDE DEF T
<1>8. /\ a # Nil => h.n[a] = x
      /\ v # Nil => h.d[v] = x
  BY <1>1 DEF Links, PrevGood, UpGood
<1>9. \A j \in T : /\ j # a => h.n[j] = g.n[j]
                   /\ j # v => h.d[j] = g.d[j]
                   /\ j = a => g.n[j] = b
                   /\ j = v => g.d[j] = b
                   /\ g.n[j] \in T \cup {Nil} /\ g.d[j] \in T \cup {Nil}
  BY <1>3, <1>5, <1>6, <1>7 DEF Stored, TreeClosed
<1>10. CASE b \in T \cup {Nil}
  <2> DEFINE S == T \cup F
  <2>1. ASSUME NEW j \in S PROVE h.n[j] \in S \cup {Nil} /\ h.d[j] \in S \cup {Nil}
    <3>1. CASE j \in T
      <4>1. j # Nil /\ x \in F
        BY <1>1, <1>6, <3>1 DEF F
      <4> QED
        BY <1>8, <1>9, <3>1, <4>1
    <3>2. CASE j = x
      BY <1>2, <1>10, <3>2 DEF F
    <3>3. CASE j \in Under(h, x)
      BY <1>2, <3>3 DEF F, TreeClosed
    <3> QED
      BY <3>1, <3>2, <3>3 DEF F
  <2>2. TreeClosed(h, S)
    BY <2>1 DEF TreeClosed
  <2>3. S \in SUBSET Items /\ (z # Nil => z \in S)
    BY <1>2, <1>6 DEF F
  <2> HIDE DEF S
  <2>4. Tree(h, z) \subseteq S
    BY <1>1, <2>2, <2>3, TreeLeast
  <2> QED
    BY <2>4 DEF S, F, T, g
<1>11. CASE b \notin T \cup {Nil}
  <2>1. TreeClosed(h, T)
    BY <1>9, <1>11 DEF TreeClosed
  <2>2. T \in SUBSET Items /\ (z # Nil => z \in T)
    BY <1>6, <1>11
  <2>3. Tree(h, z) \subseteq T
    BY <1>1, <2>1, <2>2, TreeLeast
  <2> QED
    BY <2>3 DEF T, g
<1> QED
  BY <1>10, <1>11

(* Deleting a list of an island: the rest of the heap is as it was. *)
LEMMA DeleteListWhole ==
  ASSUME NEW L, NEW h, Whole(h, L), NEW D, Island(h, D), NEW x \in Ptr,
         NEW r \in Rels, x # Nil => x \in D /\ h.rel[x] = r /\ h.u[x] = Nil
  PROVE  LET g == DeleteList(h, x)
         IN  /\ Changed(g, h, r, L) /\ Live(g) = Live(h) \ Tree(h, x)
             /\ \A j \in Live(g) : Kept(g, h, j)
<1> DEFINE g == DeleteList(h, x)
           T == Tree(h, x)
           k == [h EXCEPT !.n = Store(@, h.p[x], Nil)]
           hd == h.head[r]
<1>1. /\ Good(h) /\ Pointers(h) /\ Links(h) /\ Nil \notin Items /\ Nil \notin Rels
      /\ h \in Heap /\ RefsAgree(h) /\ EndsJoined(h) /\ hd \in Ptr
  BY PointerAssumption DEF Whole, Good, Heap, Pointers
<1>2. CASE x = Nil
  <2>1. g = h /\ T = {}
    BY <1>1, <1>2, NoTree DEF DeleteList
  <2>2. Elsewhere(h, h, r)
    BY DEF Elsewhere
  <2>3. \A j \in Live(h) : Kept(h, h, j)
    BY SameKept
  <2> HIDE DEF g, T
  <2> QED
    BY <2>1, <2>2, <2>3 DEF Changed, g, T
<1>3. CASE x # Nil
  <2> DEFINE e == h.p[x]
  <2>1. /\ T \subseteq Items /\ TreeClosed(h, T) /\ x \in T /\ T \subseteq D
        /\ \A j \in T : h.rel[j] = r /\ (j # x => h.p[j] \in T \/ h.u[j] \in T)
    <3>1. \A j \in T : j # x => h.p[j] \in T \/ h.u[j] \in T
      BY <1>1, TreeBefore
    <3>2. \A j \in T : h.rel[j] = r
      BY <1>1, <1>3, TreeWithin
    <3>3. D \in SUBSET Items /\ x \in D /\ TreeClosed(h, D)
      BY <1>3 DEF Island
    <3> QED
      BY <1>1, <1>3, <3>1, <3>2, <3>3, TreeLeast
  <2>2. /\ x \in Items /\ h.u[x] = Nil /\ h.rel[x] = r
        /\ e \in Ptr /\ (e # Nil => h.n[e] = x /\ h.rel[e] = r)
    BY <1>1, <1>3, <2>1 DEF Pointers, Links, PrevGood
  <2>3. g = Free(k, T)
    BY <1>3 DEF DeleteList
  <2>4. /\ k \in Heap /\ k.p = h.p /\ k.u = h.u /\ k.d = h.d /\ k.rel = h.rel
        /\ k.head = h.head /\ k.tail = h.tail /\ k.con = h.con /\ k.reg = h.reg
        /\ k.mem = h.mem /\ \A j \in Items : k.n[j] = IF j = e THEN Nil ELSE h.n[j]
    <3>1. Stored(Store(h.n, e, Nil), h.n, e, Nil)
      BY <1>1, <2>2, StoreValue DEF Pointers, Ptr
    <3> QED
      BY <1>1, <3>1 DEF Heap, Stored
  <2> HIDE DEF k, T, e, g
  <2>5. RefsAgree(k)
    BY <1>1, <2>4, RefsOnly
  <2>6. \A j \in D : j \notin Tree(h, hd)
    BY <1>1, IslandApart
  <2>7. \A q \in Rels : h.head[q] \notin D /\ h.tail[q] \notin D
    <3> SUFFICES ASSUME NEW q \in Rels PROVE h.head[q] \notin D /\ h.tail[q] \notin D
      OBVIOUS
    <3>1. h.head[q] \notin D /\ D \subseteq Items
      BY DEF Island
    <3>2. D \cap InUse(h) = {}
      BY <1>1, IslandApart
    <3>3. h.tail[q] # Nil => h.tail[q] \in InUse(h)
      BY <1>1, EndsInUse
    <3> QED
      BY <1>1, <3>1, <3>2, <3>3
  <2>8. LinksOutside(k, T)
    <3>1. ASSUME NEW i \in Items \ T, k.n[i] # Nil
          PROVE  /\ k.rel[i] # Nil /\ k.rel[k.n[i]] = k.rel[i] /\ k.n[i] \notin T
                 /\ k.p[k.n[i]] = i /\ k.u[k.n[i]] = Nil
      <4>1. i # e /\ k.n[i] = h.n[i] /\ h.n[i] # Nil
        BY <2>4, <3>1
      <4>2. /\ h.rel[i] # Nil /\ h.rel[h.n[i]] = h.rel[i]
            /\ h.p[h.n[i]] = i /\ h.u[h.n[i]] = Nil
        BY <1>1, <4>1 DEF Links, NextGood
      <4>3. h.n[i] # x
        BY <4>1, <4>2 DEF e
      <4>4. h.n[i] \notin T
        BY <1>1, <2>1, <4>2, <4>3
      <4> QED
        BY <2>4, <4>1, <4>2, <4>4
    <3>2. ASSUME NEW i \in Items \ T, k.p[i] # Nil
          PROVE  /\ k.rel[i] # Nil /\ k.rel[k.p[i]] = k.rel[i] /\ k.p[i] \notin T
                 /\ k.n[k.p[i]] = i
      <4>1. /\ h.rel[i] # Nil /\ h.rel[h.p[i]] = h.rel[i] /\ h.n[h.p[i]] = i
            /\ h.p[i] \in Items
        BY <1>1, <2>4, <3>2 DEF Links, PrevGood, Pointers, Ptr
      <4>2. h.p[i] \notin T
        BY <1>1, <2>1, <4>1 DEF TreeClosed
      <4>3. h.p[i] # e
        BY <1>1, <2>1, <2>2, <4>1
      <4> QED
        BY <2>4, <4>1, <4>2, <4>3
    <3>3. ASSUME NEW i \in Items \ T, k.d[i] # Nil
          PROVE  /\ k.rel[i] # Nil /\ k.rel[k.d[i]] = k.rel[i] /\ k.d[i] \notin T
                 /\ k.u[k.d[i]] = i /\ k.p[k.d[i]] = Nil
      <4>1. /\ h.rel[i] # Nil /\ h.rel[h.d[i]] = h.rel[i]
            /\ h.u[h.d[i]] = i /\ h.p[h.d[i]] = Nil
        BY <1>1, <2>4, <3>3 DEF Links, DownGood
      <4>2. h.d[i] # x
        BY <1>1, <2>2, <4>1
      <4>3. h.d[i] \notin T
        BY <1>1, <2>1, <4>1, <4>2
      <4> QED
        BY <2>4, <4>1, <4>3
    <3>4. ASSUME NEW i \in Items \ T, k.u[i] # Nil
          PROVE  /\ k.rel[i] # Nil /\ k.rel[k.u[i]] = k.rel[i] /\ k.u[i] \notin T
                 /\ k.d[k.u[i]] = i
      <4>1. /\ h.rel[i] # Nil /\ h.rel[h.u[i]] = h.rel[i] /\ h.d[h.u[i]] = i
        BY <1>1, <2>4, <3>4 DEF Links, UpGood
      <4>2. h.u[i] \notin T
        BY <1>1, <2>1, <4>1 DEF TreeClosed
      <4> QED
        BY <2>4, <4>1, <4>2
    <3>5. ASSUME NEW q \in Rels
          PROVE  /\ k.head[q] \notin T \cup {Nil} =>
                      k.rel[k.head[q]] = q /\ k.p[k.head[q]] = Nil /\ k.u[k.head[q]] = Nil
                 /\ k.tail[q] \notin T \cup {Nil} =>
                      k.rel[k.tail[q]] = q /\ k.n[k.tail[q]] = Nil
      <4>1. /\ h.head[q] # Nil => /\ h.rel[h.head[q]] = q
                                  /\ h.p[h.head[q]] = Nil /\ h.u[h.head[q]] = Nil
            /\ h.tail[q] # Nil => h.rel[h.tail[q]] = q /\ h.n[h.tail[q]] = Nil
            /\ h.tail[q] \in Ptr
        BY <1>1 DEF Links, EndsGood, Pointers
      <4> QED
        BY <2>4, <4>1 DEF Ptr
    <3> QED
      BY <3>1, <3>2, <3>3, <3>4, <3>5 DEF LinksOutside
  <2>9. Good(g)
    BY <2>1, <2>3, <2>4, <2>5, <2>8, FreeGood
  <2>10. /\ \A j \in Items :
              /\ g.n[j] = IF j \in T THEN Nil ELSE k.n[j]
              /\ g.p[j] = IF j \in T THEN Nil ELSE k.p[j]
              /\ g.u[j] = IF j \in T THEN Nil ELSE k.u[j]
              /\ g.d[j] = IF j \in T THEN Nil ELSE k.d[j]
              /\ g.rel[j] = IF j \in T THEN Nil ELSE k.rel[j]
         /\ \A q \in Rels :
              /\ g.head[q] = IF k.head[q] \in T THEN Nil ELSE k.head[q]
              /\ g.tail[q] = IF k.tail[q] \in T THEN Nil ELSE k.tail[q]
    BY <2>1, <2>3, <2>4, FreeValues
  <2>11. \A q \in Rels : g.head[q] = h.head[q] /\ g.tail[q] = h.tail[q]
    BY <2>1, <2>4, <2>7, <2>10
  <2>12. Elsewhere(g, h, r)
    BY <1>1, <2>1, <2>2, <2>4, <2>10, <2>11 DEF Elsewhere
  <2>13. \A j \in Items : j \notin D => g.n[j] = h.n[j] /\ g.d[j] = h.d[j]
    <3>1. e # Nil => e \in D
      <4>1. h.p[x] \in D \cup {Nil}
        BY <1>3 DEF Island
      <4> QED
        BY <4>1 DEF e
    <3> QED
      BY <1>1, <2>1, <2>4, <2>10, <3>1
  <2>14. Tree(g, hd) = Tree(h, hd)
    <3>1. Pointers(g) /\ Tree(h, hd) \subseteq Items
      BY <1>1, <2>9, TreeLeast DEF Good, Heap, Pointers
    <3> QED
      BY <1>1, <2>6, <2>13, <3>1, TreeSame
  <2>15. hd # Nil => h.tail[r] \in List(g, hd)
    <3> SUFFICES ASSUME hd # Nil PROVE h.tail[r] \in List(g, hd)
      OBVIOUS
    <3>1. /\ Pointers(g) /\ hd \in Items /\ hd \in Tree(h, hd)
          /\ TreeClosed(h, Tree(h, hd)) /\ Tree(h, hd) \subseteq Items
      BY <1>1, <2>9, TreeLeast DEF Good, Heap, Pointers, Ptr
    <3>2. h.tail[r] \in List(h, hd)
      BY <1>1 DEF EndsJoined
    <3> DEFINE S == List(g, hd) \cap Tree(h, hd)
    <3>3. /\ hd \in List(g, hd) /\ List(g, hd) \subseteq Items
          /\ NextClosed(g, List(g, hd))
      BY <3>1, ListLeast
    <3>4. ASSUME NEW j \in S PROVE h.n[j] \in S \cup {Nil}
      <4>1. g.n[j] = h.n[j]
        BY <2>6, <2>13, <3>1
      <4> QED
        BY <3>1, <3>3, <4>1 DEF NextClosed, TreeClosed
    <3>5. NextClosed(h, S)
      BY <3>4 DEF NextClosed
    <3>6. S \in SUBSET Items /\ hd \in S
      BY <3>1, <3>3
    <3> HIDE DEF S
    <3>7. List(h, hd) \subseteq S
      BY <1>1, <3>1, <3>5, <3>6, ListLeast
    <3> QED
      BY <3>2, <3>7 DEF S
  <2>16. Changed(g, h, r, L)
    <3>1. h.head[r] = Nil <=> h.tail[r] = Nil
      BY <1>1 DEF EndsJoined
    <3>2. \A j \in Items \ L : g.rel[j] = r => j \in Tree(h, hd)
      BY <1>1, <2>4, <2>10 DEF Whole, AllInUse
    <3> QED
      BY <2>9, <2>11, <2>12, <2>14, <2>15, <3>1, <3>2, ChangedThere
  <2>17. Live(g) = Live(h) \ T
    BY <2>4, <2>10 DEF Live
  <2>18. ASSUME NEW j \in Live(g) PROVE Kept(g, h, j)
    <3>1. j \in Live(k) /\ j \notin T
      BY <2>4, <2>17 DEF Live
    <3>2. Kept(g, k, j)
      BY <2>1, <2>3, <2>4, <2>5, <3>1, FreeKeeps
    <3> QED
      BY <2>4, <3>2 DEF Kept
  <2> QED
    BY <2>16, <2>17, <2>18 DEF g, T
<1> QED
  BY <1>2, <1>3
-----------------------------------------------------------------------------
(* move_sub_tree.                                                          *)

(* The daughters of x are copied below t and x is deleted, while the list  *)
(* of an island waits to be deleted: what is left of it is still reached   *)
(* from its first item.                                                    *)
LEMMA CopyForMove ==
  ASSUME NEW L, NEW h, Whole(h, L), NEW t \in InUse(h), h.d[t] = Nil,
         NEW x \in Live(h), h.rel[x] = h.rel[t], x # t, h.d[x] # Nil,
         t \notin Tree(h, h.d[x]), x \notin Tree(h, h.d[x]),
         Enough(h, Tree(h, h.d[x])),
         NEW z \in Ptr, NEW D, D = Tree(h, z), Island(h, D), t \notin D,
         z # Nil => h.p[z] = Nil /\ h.u[z] = Nil /\ h.rel[z] = h.rel[t],
         NEW s, s = IF x = z /\ z # Nil THEN h.n[z] ELSE z
  PROVE  LET g == Delete(CopyBelow(h, h.d[x], t), x)
         IN  /\ Changed(g, h, h.rel[t], L) /\ Island(g, D)
             /\ \A j \in Live(h) : j \in Live(g) /\ Alone(h, j) => Alone(g, j)
             /\ \A j \in D : j \in Live(g) => j \in Tree(g, s)
             /\ s # Nil => s \in D /\ g.rel[s] = h.rel[t] /\ g.u[s] = Nil
<1> DEFINE y == h.d[x]
           c == CopyBelow(h, y, t)
           g == Delete(c, x)
           F == {x} \cup Under(c, x)
           k == Unlink(c, x)
           r == h.rel[t]
<1>1. /\ Good(h) /\ Pointers(h) /\ Links(h) /\ Nil \notin Items /\ x \in Items
      /\ t \in Live(h) /\ t \in Items /\ h.rel[t] # Nil /\ y \in Items /\ r \in Rels
      /\ x # Nil
  BY PointerAssumption DEF Whole, Good, Heap, Pointers, InUse, Live, Ptr
<1>2. /\ y \in Live(h) /\ h.rel[y] = h.rel[t] /\ h.p[y] = Nil /\ h.u[y] = x
  BY <1>1 DEF Links, DownGood, Live
<1>3. Root(h, y)
  <2>1. Nil \notin Tree(h, y)
    BY <1>1, TreeLeast DEF Ptr
  <2> QED
    BY <1>2, <2>1 DEF Root
<1>4. Grown(c, h, t, Tree(h, y))
  BY <1>1, <1>2, <1>3, CopyBelowGrows DEF Ptr
<1>5. Changed(c, h, r, L)
  BY <1>4, GrownWhole
<1> HIDE DEF c
<1>6. /\ Good(c) /\ Pointers(c) /\ Links(c) /\ x \in Live(c) /\ c.rel[x] = r
      /\ c.p[x] = h.p[x] /\ c.u[x] = h.u[x] /\ c.n[x] = h.n[x] /\ c.d[x] = y
      /\ Whole(c, L) /\ Elsewhere(c, h, r)
  BY <1>1, <1>4, <1>5 DEF Grown, Live, Good, Heap, Pointers, Changed
<1>7. Changed(g, c, r, L)
  BY <1>6, DeleteWhole
<1>8. Changed(g, h, r, L)
  BY <1>6, <1>7, ElsewhereTwice DEF Changed
<1>9. D \subseteq Items /\ (z # Nil => z \in D) /\ \A j \in D : h.rel[j] = h.rel[z]
  BY <1>1, TreeLeast, TreeWithin
<1>10. D \subseteq Live(h)
  BY <1>1, <1>9, NoTree DEF Live
<1>11. Island(c, D) /\ D \subseteq Live(c)
  BY <1>1, <1>4, <1>10, GrownIsland
<1>12. Island(g, D)
  BY <1>6, <1>11, DeleteIsland
<1>13. ASSUME NEW j \in Live(h), j \in Live(g), Alone(h, j) PROVE Alone(g, j)
  <2>1. Alone(c, j) /\ j \in Live(c)
    BY <1>4, <1>13 DEF Grown, Live
  <2>2. Kept(g, c, j)
    BY <1>6, <1>13, <2>1, DeleteKeeps
  <2> QED
    BY <2>1, <2>2, KeptAlone
<1>14. CASE z = Nil
  <2>1. D = {} /\ s = Nil
    BY <1>1, <1>14, NoTree
  <2> HIDE DEF g
  <2> QED
    BY <1>8, <1>12, <1>13, <2>1 DEF c, g
<1>15. CASE z # Nil
  <2>1. /\ z \in Items /\ z \in Live(h) /\ z \in D /\ z # t
        /\ c.p[z] = Nil /\ c.u[z] = Nil /\ c.n[z] = h.n[z] /\ c.rel[z] = r
    BY <1>1, <1>4, <1>9, <1>10, <1>15 DEF Grown
  <2>2. Tree(c, z) = D
    BY <1>1, <1>4, <2>1, GrownTree
  <2>3. Root(c, z)
    BY <1>1, <1>9, <2>1, <2>2 DEF Root
  <2>4. s = IF z = x THEN c.n[x] ELSE z
    BY <1>15, <2>1
  <2>5. s \in D \cup {Nil}
    <3>1. c.n[z] \in D \cup {Nil}
      BY <1>11, <2>1 DEF Island, TreeClosed
    <3> QED
      BY <2>1, <2>4, <3>1
  <2>6. s \notin F
    <3>1. CASE z = x
      <4>1. /\ z \notin Tree(c, c.n[z]) /\ Tree(c, c.n[z]) \cap Tree(c, c.d[z]) = {}
            /\ c.n[z] \in Ptr /\ Tree(c, c.d[z]) \subseteq Items
        BY <1>6, <2>1, <2>3, RootParts, TreeLeast
      <4>2. c.n[z] # Nil => c.n[z] \in Tree(c, c.n[z])
        BY <1>6, <4>1, TreeLeast
      <4> QED
        BY <1>1, <2>4, <3>1, <4>1, <4>2 DEF Under
    <3>2. CASE z # x
      <4>1. c.d[x] \in Ptr /\ c.d[x] # z
        BY <1>1, <1>2, <1>6, <1>15 DEF Ptr
      <4>2. z \notin Tree(c, c.d[x])
        BY <1>6, <2>1, <4>1, HeadOnTop
      <4> QED
        BY <2>4, <3>2, <4>2 DEF Under
    <3> QED
      BY <3>1, <3>2
  <2>7. D \ F \subseteq Tree(g, s)
    <3>1. z \in Ptr
      OBVIOUS
    <3> QED
      BY <1>6, <2>2, <2>4, <2>6, <3>1, DeleteReaches
  <2>8. /\ k \in Heap /\ k.rel = c.rel /\ Stored(k.u, c.u, c.n[x], c.u[x])
        /\ F \in SUBSET Items
    <3>1. c.d[x] \in Ptr
      BY <1>1, <1>6 DEF Ptr
    <3> QED
      BY <1>1, <1>6, <3>1, UnlinkValues, TreeLeast DEF Under
  <2>9. g = Free(k, F)
    BY DEF Delete
  <2> HIDE DEF k, F, g
  <2>10. \A j \in Items : /\ g.u[j] = IF j \in F THEN Nil ELSE k.u[j]
                          /\ g.rel[j] = IF j \in F THEN Nil ELSE k.rel[j]
    BY <2>8, <2>9, FreeValues
  <2>11. ASSUME NEW j \in D, j \in Live(g) PROVE j \in Tree(g, s)
    <3>1. j \notin F
      BY <2>10, <2>11 DEF Live
    <3> QED
      BY <2>7, <3>1
  <2>12. ASSUME s # Nil PROVE s \in D /\ g.rel[s] = r /\ g.u[s] = Nil
    <3>1. s \in D /\ s \in Items
      BY <1>9, <2>5, <2>12
    <3>2. g.rel[s] = r
      BY <1>4, <1>9, <1>10, <1>15, <2>6, <2>8, <2>10, <3>1 DEF Grown
    <3>3. k.u[s] = Nil
      <4>1. CASE s = c.n[x]
        <5>1. c.p[s] = x
          BY <1>1, <1>6, <2>12, <4>1 DEF Links, NextGood
        <5>2. z = x
          BY <1>1, <2>1, <2>4, <5>1
        <5> QED
          BY <2>1, <2>8, <3>1, <4>1, <5>2 DEF Stored
      <4>2. CASE s # c.n[x]
        <5>1. s = z
          BY <2>4, <4>2
        <5> QED
          BY <2>1, <2>8, <3>1, <4>2, <5>1 DEF Stored
      <4> QED
        BY <4>1, <4>2
    <3> QED
      BY <2>6, <2>10, <3>1, <3>2, <3>3
  <2> QED
    BY <1>8, <1>12, <1>13, <2>11, <2>12 DEF c, g
<1> QED
  BY <1>14, <1>15

(* to has been given from's contents, and its daughters are cut off; from's *)
(* view in to's relation, if there is one, is left contents of its own.    *)
LEMMA CutForMove ==
  ASSUME NEW h, Sane(h), Spares(h, 1), NEW from \in InUse(h), NEW to \in InUse(h)
  PROVE  LET c == CutDaughters(SetContents(h, to, h.con[from]), to)
             D == Tree(h, h.d[to])
             v == AsRelation(h, from, h.rel[to])
         IN  /\ Whole(c, Lost(h) \cup D) /\ Elsewhere(c, h, h.rel[to])
             /\ Island(c, D) /\ to \notin D /\ to \in InUse(c)
             /\ LinkedCut(c, h, to, h.d[to])
             /\ \A j \in Lost(h) : Alone(c, j)
             /\ \E x \in Contents : c.mem \subseteq h.mem \cup {x}
             /\ v \notin {Nil, to} => Alone(c, v)
             /\ h.d[to] # Nil => h.rel[h.d[to]] = h.rel[to]
<1> DEFINE g == SetContents(h, to, h.con[from])
           c == CutDaughters(g, to)
           D == Tree(h, h.d[to])
           v == AsRelation(h, from, h.rel[to])
           L == Lost(h)
<1>1. /\ Sane(g) /\ SameLinks(g, h) /\ \E x \in Contents : g.mem \subseteq h.mem \cup {x}
  BY ShareSane
<1>2. /\ h \in Heap /\ Good(h) /\ RefsAgree(h) /\ RefsLoose(h, Nil, Nil) /\ from \in Live(h)
      /\ to \in Live(h) /\ from \in Items /\ to \in Items /\ h.rel[to] \in Rels
      /\ h.rel[to] # Nil
      /\ h.con[from] \in Contents /\ h.con[from] \in h.mem
      /\ h.reg[h.con[to]][h.rel[to]] = to
  BY LiveContents, LooseIsAgree, PointerAssumption DEF Sane, Good, InUse, Live
<1>3. v \notin {Nil, to} => Alone(g, v)
  BY <1>2, SetContentsSteals DEF AsRelation
<1>4. /\ Lost(g) = L /\ InUse(g) = InUse(h) /\ g.d = h.d /\ g.rel = h.rel
      /\ Tree(g, h.d[to]) = D /\ Elsewhere(g, h, h.rel[to])
      /\ LinkedCut(c, g, to, h.d[to]) => LinkedCut(c, h, to, h.d[to])
  BY <1>1, SameLinksReach DEF Lost, SameLinks, LinkedCut
<1>5. Whole(g, L)
  BY <1>1, <1>4, SaneWhole
<1>6. c.con = g.con /\ c.mem = g.mem
  <2>1. g \in Heap
    BY <1>1 DEF Sane, Good
  <2> QED
    BY <2>1 DEF CutDaughters, Heap
<1> HIDE DEF g
<1>7. /\ Whole(c, L \cup D) /\ Elsewhere(c, g, h.rel[to])
      /\ Island(c, D) /\ to \notin D /\ LinkedCut(c, g, to, h.d[to])
      /\ h.d[to] # Nil => h.rel[h.d[to]] = h.rel[to]
  BY <1>4, <1>5, CutIsland
<1> HIDE DEF c, D
<1>8. Elsewhere(c, h, h.rel[to])
  BY <1>4, <1>7, ElsewhereTwice
<1>9. \A j : Alone(g, j) => Alone(c, j)
  BY <1>6 DEF Alone
<1>10. \A j \in L : Alone(c, j)
  BY <1>1, <1>4, <1>9 DEF Sane
<1>11. to \in InUse(c)
  <2>1. to \notin L /\ c.rel[to] = h.rel[to]
    BY <1>4, <1>7 DEF Lost, LinkedCut
  <2> QED
    BY <1>2, <1>7, <2>1 DEF Whole, AllInUse, InUse, Live
<1> QED
  BY <1>1, <1>3, <1>4, <1>6, <1>7, <1>8, <1>9, <1>10, <1>11 DEF c, D, g

LEMMA MoveSubTreeSane ==
  ASSUME NEW h, Sane(h), NEW from \in InUse(h), NEW to \in InUse(h),
         NEW v, v = AsRelation(h, from, h.rel[to]),
         v # Nil /\ v # from => ~InTree(h, to, v),
         RoomFor(h, IF v = Nil THEN 0 ELSE Cardinality(Under(h, v)))
  PROVE  Became(MoveSubTree(h, from, to), h, h.rel[to])
<1> DEFINE r == h.rel[to]
           z == h.d[to]
           L == Lost(h)
           D == Tree(h, z)
           g == SetContents(h, to, h.con[from])
           c == CutDaughters(g, to)
           s == IF v = z /\ z # Nil THEN h.n[z] ELSE z
           k == Delete(CopyBelow(c, c.d[v], to), v)
           f == IF v # Nil /\ c.d[v] # Nil THEN k ELSE c
<1>1. MoveSubTree(h, from, to) = IF InTree(h, to, from) THEN h ELSE DeleteList(f, s)
  BY DEF MoveSubTree
<1>2. CASE InTree(h, to, from)
  <2>1. Elsewhere(h, h, r)
    BY DEF Elsewhere
  <2> QED
    BY <1>1, <1>2, <2>1 DEF Became
<1>3. CASE ~InTree(h, to, from)
  <2>1. /\ Good(h) /\ Pointers(h) /\ Links(h) /\ Nil \notin Items /\ to \in Items
        /\ r \in Rels /\ z \in Ptr /\ Nil \notin Rels /\ to # Nil
    BY PointerAssumption DEF Sane, Good, Heap, Pointers, InUse, Live, Ptr
  <2>2. v # Nil => /\ v \in InUse(h) /\ v \in Live(h) /\ v \in Items /\ h.rel[v] = r
                   /\ v # to /\ to \notin Tree(h, h.d[v]) /\ v \notin Tree(h, h.d[v])
                   /\ h.d[v] \in Ptr
    <3> SUFFICES ASSUME v # Nil
                 PROVE  /\ v \in InUse(h) /\ v \in Live(h) /\ v \in Items /\ h.rel[v] = r
                        /\ v # to /\ to \notin Tree(h, h.d[v]) /\ v \notin Tree(h, h.d[v])
                        /\ h.d[v] \in Ptr
      OBVIOUS
    <3>1. v \in InUse(h) /\ h.rel[v] = r
      BY <2>1, ViewInUse
    <3>2. ~InTree(h, to, v)
      BY <1>3
    <3> QED
      BY <2>1, <3>1, <3>2, InUseRoot DEF InTree, Under, InUse, Live, Pointers
  <2> DEFINE U == IF v = Nil THEN {} ELSE Tree(h, h.d[v])
  <2>3. U \in SUBSET Items /\ Cardinality(U) \in Nat
        /\ Spares(h, Cardinality(U) + 3) /\ Slots(h, Cardinality(U))
    <3>1. U \in SUBSET Items
      BY <2>1, <2>2, TreeLeast
    <3>2. Cardinality({}) = 0
      BY FS_EmptySet
    <3>3. RoomFor(h, Cardinality(U))
      BY <3>2 DEF Under
    <3>4. Cardinality(U) \in Nat
      BY <3>1, PointerAssumption, FS_Subset, FS_CardinalityType
    <3> QED
      BY <3>1, <3>3, <3>4 DEF RoomFor, Spares, Slots
  <2>4. Spares(h, 1)
    <3>1. Cardinality(U) + 3 \in Nat /\ 1 <= Cardinality(U) + 3
      BY <2>3
    <3> QED
      BY <2>3, <3>1, SparesFewer
  <2>5. /\ Whole(c, L \cup D) /\ Elsewhere(c, h, r)
        /\ Island(c, D) /\ to \notin D /\ to \in InUse(c)
        /\ LinkedCut(c, h, to, z)
        /\ \A j \in L : Alone(c, j)
        /\ \E x \in Contents : c.mem \subseteq h.mem \cup {x}
        /\ v \notin {Nil, to} => Alone(c, v)
        /\ z # Nil => h.rel[z] = r
    BY <2>4, CutForMove
  <2> HIDE DEF c
  <2>6. /\ Good(c) /\ Pointers(c) /\ Links(c) /\ c.d[to] = Nil /\ c.rel = h.rel
        /\ c.n = h.n /\ Live(c) = Live(h)
        /\ \A j \in Items : j # to => c.d[j] = h.d[j]
    BY <2>1, <2>5 DEF Whole, LinkedCut, Good, Heap, Pointers, Live
  <2>7. z # Nil => c.p[z] = Nil /\ c.u[z] = Nil /\ z \in D /\ z \in Items /\ c.rel[z] = r
    <3> SUFFICES ASSUME z # Nil
                 PROVE  c.p[z] = Nil /\ c.u[z] = Nil /\ z \in D /\ z \in Items /\ c.rel[z] = r
      OBVIOUS
    <3>1. h.p[z] = Nil
      BY <2>1 DEF Links, DownGood
    <3>2. z \in D /\ z \in Items
      BY <2>1, TreeLeast DEF Ptr
    <3> HIDE DEF z, D
    <3> QED
      BY <2>5, <2>6, <3>1, <3>2 DEF LinkedCut
  <2>8. Tree(c, z) = D
    <3>1. D \subseteq Items
      BY <2>5 DEF Island
    <3>2. \A j \in D : c.n[j] = h.n[j] /\ c.d[j] = h.d[j]
      BY <2>5, <2>6, <3>1
    <3> QED
      BY <2>1, <2>6, <3>2, TreeSame
  <2>9. /\ Whole(f, L \cup D) /\ Elsewhere(f, h, r) /\ Island(f, D)
        /\ \A j \in L : j \in Live(f) => Alone(f, j)
        /\ \A j \in D : j \in Live(f) => j \in Tree(f, s) \/ Alone(f, j)
        /\ s # Nil => s \in D /\ f.rel[s] = r /\ f.u[s] = Nil
    <3>1. CASE v # Nil /\ c.d[v] # Nil
      <4> DEFINE y == c.d[v]
      <4>1. f = k
        BY <3>1
      <4>2. y = h.d[v] /\ v \in Live(c) /\ c.rel[v] = c.rel[to]
        BY <2>2, <2>6, <3>1
      <4>3. Tree(c, y) = U
        <5>1. U = Tree(h, y) /\ U \subseteq Items /\ y \in Ptr
          BY <2>2, <2>3, <3>1, <4>2
        <5>2. \A j \in U : c.n[j] = h.n[j] /\ c.d[j] = h.d[j]
          BY <2>2, <2>6, <3>1, <4>2, <5>1
        <5> QED
          BY <2>1, <2>6, <5>1, <5>2, TreeSame
      <4>4. Enough(c, U)
        <5>1. PICK x \in Contents : c.mem \subseteq h.mem \cup {x}
          BY <2>5
        <5>2. c \in Heap /\ h \in Heap
          BY <2>1, <2>6 DEF Good
        <5> HIDE DEF U
        <5>3. Cardinality(U) + 2 \in Nat /\ Cardinality(U) + 3 \in Nat
              /\ Cardinality(U) + 3 = (Cardinality(U) + 2) + 1
              /\ Cardinality(U) <= Cardinality(U) + 2
          BY <2>3
        <5>4. Spares(c, Cardinality(U) + 2)
          BY <2>3, <5>1, <5>2, <5>3, SparesDrop
        <5>5. Spares(c, Cardinality(U))
          BY <2>3, <5>3, <5>4, SparesFewer
        <5> QED
          BY <2>3, <2>6, <5>5 DEF Enough, Slots
      <4>5. to \notin Tree(c, y) /\ v \notin Tree(c, y)
        BY <2>2, <3>1, <4>2, <4>3
      <4>6. s = IF v = z /\ z # Nil THEN c.n[z] ELSE z
        BY <2>6
      <4> HIDE DEF s, U, L, k
      <4>7. /\ Changed(k, c, c.rel[to], L \cup D) /\ Island(k, D)
            /\ \A j \in Live(c) : j \in Live(k) /\ Alone(c, j) => Alone(k, j)
            /\ \A j \in D : j \in Live(k) => j \in Tree(k, s)
            /\ s # Nil => s \in D /\ k.rel[s] = c.rel[to] /\ k.u[s] = Nil
        <5>1. /\ Whole(c, L \cup D) /\ to \in InUse(c) /\ v # to /\ c.d[v] # Nil
              /\ Enough(c, Tree(c, c.d[v])) /\ Island(c, D) /\ to \notin D /\ c.d[to] = Nil
          BY <2>2, <2>5, <2>6, <3>1, <4>3, <4>4
        <5>2. z # Nil => c.p[z] = Nil /\ c.u[z] = Nil /\ c.rel[z] = c.rel[to]
          BY <2>6, <2>7
        <5> HIDE DEF z, D
        <5> QED
          BY <2>1, <2>8, <4>2, <4>5, <4>6, <5>1, <5>2, CopyForMove DEF k
      <4>8. \A j \in L : j \in Live(c)
        BY <2>6 DEF L, Lost
      <4> QED
        BY <2>5, <2>6, <4>1, <4>7, <4>8, ElsewhereTwice DEF Changed
    <3>2. CASE ~(v # Nil /\ c.d[v] # Nil)
      <4>1. f = c
        BY <3>2
      <4> HIDE DEF f
      <4>2. CASE v = z /\ z # Nil
        <5>1. s = c.n[z] /\ c.d[z] = Nil
          BY <2>6, <3>2, <4>2
        <5>2. Root(c, z)
          BY <2>1, <2>5, <2>7, <2>8, <4>2 DEF Root, Island
        <5>3. D = {z} \cup Tree(c, s) \cup Tree(c, Nil) /\ c.n[z] \in Ptr
          BY <2>6, <2>7, <2>8, <4>2, <5>1, <5>2, RootParts
        <5>4. Tree(c, Nil) = {}
          BY <2>6, NoTree
        <5>5. Alone(c, z)
          BY <2>2, <2>5, <4>2
        <5>6. s # Nil => s \in D /\ c.rel[s] = r /\ c.u[s] = Nil
          <6> SUFFICES ASSUME s # Nil PROVE s \in D /\ c.rel[s] = r /\ c.u[s] = Nil
            OBVIOUS
          <6>1. c.n[z] # Nil /\ z \in Items /\ z \in D
            BY <2>7, <4>2, <5>1
          <6>2. c.rel[c.n[z]] = r /\ c.u[c.n[z]] = Nil
            BY <2>6, <2>7, <4>2, <6>1 DEF Links, NextGood
          <6>3. c.n[z] \in D
            BY <2>5, <6>1 DEF Island, TreeClosed
          <6> QED
            BY <5>1, <6>2, <6>3
        <5> HIDE DEF s, z, D, L
        <5> QED
          BY <2>5, <4>1, <5>3, <5>4, <5>5, <5>6
      <4>3. CASE ~(v = z /\ z # Nil)
        <5>1. s = z
          BY <4>3
        <5> HIDE DEF s, z, D, L
        <5> QED
          BY <2>5, <2>7, <2>8, <4>1, <5>1
      <4> QED
        BY <4>2, <4>3
    <3> QED
      BY <3>1, <3>2
  <2> HIDE DEF f, s, D, L, z
  <2> DEFINE w == DeleteList(f, s)
  <2>10. s \in Ptr
    <3>1. D \subseteq Items
      BY <2>5 DEF Island
    <3> QED
      BY <2>9, <3>1 DEF Ptr
  <2>11. /\ Changed(w, f, r, L \cup D) /\ Live(w) = Live(f) \ Tree(f, s)
         /\ \A j \in Live(w) : Kept(w, f, j)
    BY <2>1, <2>9, <2>10, DeleteListWhole
  <2> HIDE DEF w
  <2>12. ASSUME NEW j \in L \cup D, j \in Live(w) PROVE Alone(w, j)
    <3>1. j \in Live(f) /\ j \notin Tree(f, s) /\ Kept(w, f, j)
      BY <2>11, <2>12
    <3>2. Alone(f, j)
      BY <2>9, <2>12, <3>1
    <3> QED
      BY <3>1, <3>2, KeptAlone
  <2>13. Changed(w, h, r, L \cup D)
    BY <2>9, <2>11, ElsewhereTwice DEF Changed
  <2> QED
    BY <1>1, <1>3, <2>12, <2>13, ChangedSane DEF w
<1> QED
  BY <1>2, <1>3
-----------------------------------------------------------------------------
(* exchange_sub_trees.                                                     *)

(* i has gone from its contents to contents c, which showed no item in its *)
(* relation.                                                               *)
Moved(g, h, i, c) ==
  /\ g \in Heap /\ SameLinks(g, h)
  /\ \A j \in Items : g.con[j] = IF j = i THEN c ELSE h.con[j]
  /\ \A d \in Contents, q \in Rels :
       g.reg[d][q] = IF q = h.rel[i] /\ d = c THEN i
                     ELSE IF q = h.rel[i] /\ d = h.con[i] THEN Nil ELSE h.reg[d][q]

(* On the way there i is in the index of no contents. *)
Between(g, h, i) ==
  /\ g \in Heap /\ SameLinks(g, h)
  /\ \A j \in Items : j # i => g.con[j] = h.con[j]
  /\ \A d \in Contents, q \in Rels :
       g.reg[d][q] = IF q = h.rel[i] /\ d = h.con[i] THEN Nil ELSE h.reg[d][q]

LEMMA RegisterMoves ==
  ASSUME NEW h, h \in Heap, NEW i \in Items, h.rel[i] \in Rels,
         NEW g, Between(g, h, i), NEW c \in Contents
  PROVE  /\ Moved(Register(g, i, c), h, i, c)
         /\ Register(g, i, c).mem = g.mem \cup {c}
<1> DEFINE R == [g.reg EXCEPT ![c] = [g.reg[c] EXCEPT ![h.rel[i]] = i]]
           f == Register(g, i, c)
<1>1. g.rel[i] = h.rel[i] /\ g \in Heap
  BY DEF SameLinks, Between
<1>2. f \in Heap
  BY <1>1, RegisterHeap
<1>3. /\ f.con = [g.con EXCEPT ![i] = c] /\ f.mem = g.mem \cup {c} /\ f.reg = R
      /\ SameLinks(f, g)
  BY <1>1 DEF Register, Heap, SameLinks
<1>4. g.reg \in [Contents -> [Rels -> Ptr]] /\ g.con \in [Items -> Contents \cup {Nil}]
  BY <1>1 DEF Heap
<1>5. \A d \in Contents, q \in Rels :
        R[d][q] = IF q = h.rel[i] /\ d = c THEN i ELSE g.reg[d][q]
  BY <1>4
<1> HIDE DEF R, f
<1>6. SameLinks(f, h)
  BY <1>3 DEF SameLinks, Between
<1>7. \A d \in Contents, q \in Rels :
        f.reg[d][q] = IF q = h.rel[i] /\ d = c THEN i
                      ELSE IF q = h.rel[i] /\ d = h.con[i] THEN Nil ELSE h.reg[d][q]
  BY <1>3, <1>5 DEF Between
<1>8. \A j \in Items : f.con[j] = IF j = i THEN c ELSE h.con[j]
  BY <1>3, <1>4 DEF Between
<1> QED
  BY <1>2, <1>3, <1>6, <1>7, <1>8 DEF Moved, f

LEMMA GrabMoves ==
  ASSUME NEW h, h \in Heap, Spares(h, 1), NEW i \in Items, h.rel[i] \in Rels,
         h.con[i] \in Contents
  PROVE  \E c \in Contents \ h.mem :
            Moved(GrabContents(h, i), h, i, c) /\ GrabContents(h, i).mem = h.mem \cup {c}
<1> DEFINE R == [h.reg EXCEPT ![h.con[i]] = [h.reg[h.con[i]] EXCEPT ![h.rel[i]] = Nil]]
           g == [h EXCEPT !.reg[h.con[i]][h.rel[i]] = Nil, !.con[i] = Nil]
           c == NewContent(g)
<1>1. /\ h.reg \in [Contents -> [Rels -> Ptr]] /\ h.con \in [Items -> Contents \cup {Nil}]
  BY DEF Heap
<1>2. /\ g.reg = R /\ g.con = [h.con EXCEPT ![i] = Nil] /\ g.mem = h.mem
      /\ SameLinks(g, h)
  BY DEF Heap, SameLinks
<1>3. g \in Heap
  <2>1. R \in [Contents -> [Rels -> Ptr]]
    BY <1>1 DEF Ptr
  <2>2. [h.con EXCEPT ![i] = Nil] \in [Items -> Contents \cup {Nil}]
    BY <1>1
  <2> HIDE DEF R
  <2>3. g = [h EXCEPT !.reg = R, !.con = [h.con EXCEPT ![i] = Nil]]
    BY DEF Heap, R
  <2> QED
    BY <2>1, <2>2, <2>3 DEF Heap
<1>4. \A d \in Contents, q \in Rels :
        R[d][q] = IF q = h.rel[i] /\ d = h.con[i] THEN Nil ELSE h.reg[d][q]
  BY <1>1
<1>5. Register(g, i, c) = GrabContents(h, i)
  BY DEF GrabContents
<1> HIDE DEF g, R
<1>6. c \in Contents /\ c \notin h.mem
  <2>1. Spares(g, 1)
    BY <1>2 DEF Spares
  <2> QED
    BY <1>2, <1>3, <2>1, FreshContent
<1>7. \A j \in Items : j # i => g.con[j] = h.con[j]
  BY <1>1, <1>2
<1>8. \A d \in Contents, q \in Rels :
        g.reg[d][q] = IF q = h.rel[i] /\ d = h.con[i] THEN Nil ELSE h.reg[d][q]
  BY <1>2, <1>4
<1> HIDE DEF c
<1>9. /\ Moved(Register(g, i, c), h, i, c)
      /\ Register(g, i, c).mem = g.mem \cup {c}
  <2>1. Between(g, h, i)
    BY <1>2, <1>3, <1>7, <1>8 DEF Between
  <2> QED
    BY <1>6, <2>1, RegisterMoves
<1> QED
  BY <1>2, <1>5, <1>6, <1>9

(* Contents that show i only go when i leaves them. *)
LEMMA SetMoves ==
  ASSUME NEW h, h \in Heap, NEW i \in Items, h.rel[i] \in Rels, h.con[i] \in Contents,
         NEW c \in Contents, c \in h.mem, c # h.con[i], h.reg[c][h.rel[i]] = Nil,
         \A q \in Rels \ {h.rel[i]} : h.reg[h.con[i]][q] = Nil
  PROVE  /\ Moved(SetContents(h, i, c), h, i, c)
         /\ SetContents(h, i, c).mem = h.mem \ {h.con[i]}
<1> DEFINE n == h.con[i]
           R == [h.reg EXCEPT ![n] = [h.reg[n] EXCEPT ![h.rel[i]] = Nil]]
           g == Unref(h, i)
<1>1. /\ h.reg \in [Contents -> [Rels -> Ptr]] /\ h.con \in [Items -> Contents \cup {Nil}]
      /\ n # Nil /\ n \in Contents
  BY PointerAssumption DEF Heap
<1>2. \A d \in Contents, q \in Rels :
        R[d][q] = IF q = h.rel[i] /\ d = n THEN Nil ELSE h.reg[d][q]
  BY <1>1
<1>3. R[n] = NoRef /\ R \in [Contents -> [Rels -> Ptr]]
  <2>1. R[n] = [h.reg[n] EXCEPT ![h.rel[i]] = Nil] /\ h.reg[n] \in [Rels -> Ptr]
    BY <1>1
  <2> QED
    BY <1>1, <2>1 DEF NoRef, Ptr
<1>4. /\ g.reg = R /\ g.con = [h.con EXCEPT ![i] = Nil]
      /\ g.mem = IF R[n] = NoRef THEN h.mem \ {n} ELSE h.mem
      /\ SameLinks(g, h)
  BY <1>1 DEF Unref, Heap, SameLinks
<1>5. g \in Heap
  <2>1. [h.con EXCEPT ![i] = Nil] \in [Items -> Contents \cup {Nil}]
    BY <1>1
  <2> HIDE DEF R
  <2>2. g = [h EXCEPT !.reg = R, !.con = [h.con EXCEPT ![i] = Nil],
                      !.mem = h.mem \ {n}]
    BY <1>1, <1>3 DEF Unref, Heap, R
  <2> QED
    BY <1>3, <2>1, <2>2 DEF Heap
<1> HIDE DEF R, g
<1>6. \A j \in Items : j # i => g.con[j] = h.con[j]
  BY <1>1, <1>4
<1>7. \A d \in Contents, q \in Rels :
        g.reg[d][q] = IF q = h.rel[i] /\ d = h.con[i] THEN Nil ELSE h.reg[d][q]
  BY <1>2, <1>4
<1>8. g.reg[c][g.rel[i]] = Nil
  BY <1>4, <1>7 DEF SameLinks
<1>9. SetContents(h, i, c) = Register(g, i, c)
  BY <1>8 DEF SetContents, g
<1>10. /\ Moved(Register(g, i, c), h, i, c)
       /\ Register(g, i, c).mem = g.mem \cup {c}
  <2>1. Between(g, h, i)
    BY <1>4, <1>5, <1>6, <1>7 DEF Between
  <2> QED
    BY <2>1, RegisterMoves
<1>11. g.mem \cup {c} = h.mem \ {n}
  BY <1>3, <1>4
<1> QED
  BY <1>9, <1>10, <1>11

(* Two items of a relation have each other's contents. *)
Swapped(g, h, a, b) ==
  /\ g.mem = h.mem
  /\ \A j \in Items : g.con[j] = IF j = a THEN h.con[b]
                                 ELSE IF j = b THEN h.con[a] ELSE h.con[j]
  /\ \A d \in Contents, q \in Rels :
       g.reg[d][q] = IF q = h.rel[a] /\ d = h.con[b] THEN a
                     ELSE IF q = h.rel[a] /\ d = h.con[a] THEN b ELSE h.reg[d][q]

(* First each is given new contents, to let go of its own. *)
LEMMA SwapContents ==
  ASSUME NEW h, h \in Heap, RefsAgree(h), Spares(h, 2),
         NEW a \in Live(h), NEW b \in Live(h), a # b, h.rel[a] = h.rel[b],
         NEW t, t = GrabContents(GrabContents(h, b), a),
         NEW c, c \in Heap, c.con = t.con, c.reg = t.reg, c.mem = t.mem, c.rel = h.rel
  PROVE  LET g == SetContents(SetContents(c, b, h.con[a]), a, h.con[b])
         IN  g \in Heap /\ SameLinks(g, c) /\ Swapped(g, h, a, b)
<1> DEFINE r == h.rel[a]
           A == h.con[a]
           B == h.con[b]
           g1 == GrabContents(h, b)
           k == SetContents(c, b, A)
           g == SetContents(k, a, B)
<1>1. /\ a \in Items /\ b \in Items /\ r \in Rels /\ r = h.rel[b] /\ A \in Contents
      /\ B \in Contents /\ h.reg[A][r] = a /\ h.reg[B][r] = b /\ A # B
      /\ A \in h.mem /\ B \in h.mem
  <2>1. a \in Items /\ b \in Items /\ r \in Rels /\ h.rel[a] # Nil /\ h.rel[b] # Nil
    BY DEF Live, Heap
  <2>2. /\ A \in Contents /\ B \in Contents /\ h.reg[A][r] = a /\ h.reg[B][r] = b
    BY <2>1 DEF RefsAgree, Heap
  <2>3. \A x \in Contents : h.reg[x][r] # Nil => x \in h.mem
    <3> SUFFICES ASSUME NEW x \in Contents, h.reg[x][r] # Nil PROVE x \in h.mem
      OBVIOUS
    <3>1. h.reg[x] # NoRef
      BY <2>1 DEF NoRef
    <3> QED
      BY <3>1 DEF RefsAgree
  <2>4. a # Nil /\ b # Nil
    BY <2>1, PointerAssumption
  <2> QED
    BY <2>1, <2>2, <2>3, <2>4
<1>2. \A x \in Contents \ h.mem, q \in Rels : h.reg[x][q] = Nil
  BY DEF RefsAgree, NoRef
<1>3. PICK m \in Contents \ h.mem : Moved(g1, h, b, m) /\ g1.mem = h.mem \cup {m}
  <2>1. Spares(h, 1)
    BY SparesFewer
  <2> QED
    BY <1>1, <2>1, GrabMoves
<1> HIDE DEF g1
<1>4. g1 \in Heap /\ g1.rel = h.rel /\ g1.con[a] = A /\ Spares(g1, 1) /\ g1.con[b] = m
  <2>1. g1 \in Heap
    BY <1>3 DEF Moved
  <2>2. Spares(g1, 1)
    BY <1>3, <2>1, SparesDrop
  <2> QED
    BY <1>1, <1>3, <2>1, <2>2 DEF Moved, SameLinks
<1>5. PICK n \in Contents \ g1.mem : Moved(t, g1, a, n) /\ t.mem = g1.mem \cup {n}
  <2>1. t = GrabContents(g1, a)
    BY DEF g1
  <2> QED
    BY <1>1, <1>4, <2>1, GrabMoves
<1>6. m # n /\ m \notin {A, B} /\ n \notin {A, B} /\ n \in Contents \ h.mem
      /\ m \in Contents
  BY <1>1, <1>3, <1>5
<1>7. /\ \A j \in Items : c.con[j] = IF j = a THEN n ELSE IF j = b THEN m ELSE h.con[j]
      /\ c.mem = h.mem \cup {m, n}
  BY <1>3, <1>5 DEF Moved
<1>8. \A d \in Contents, q \in Rels :
        c.reg[d][q] = IF q = r /\ d = n THEN a ELSE IF q = r /\ d = A THEN Nil
                      ELSE IF q = r /\ d = m THEN b ELSE IF q = r /\ d = B THEN Nil
                      ELSE h.reg[d][q]
  <2> SUFFICES ASSUME NEW d \in Contents, NEW q \in Rels
               PROVE  c.reg[d][q] = IF q = r /\ d = n THEN a
                                    ELSE IF q = r /\ d = A THEN Nil
                      ELSE IF q = r /\ d = m THEN b ELSE IF q = r /\ d = B THEN Nil
                      ELSE h.reg[d][q]
    OBVIOUS
  <2>1. t.reg[d][q] = IF q = r /\ d = n THEN a
                      ELSE IF q = r /\ d = A THEN Nil ELSE g1.reg[d][q]
    BY <1>4, <1>5 DEF Moved
  <2>2. g1.reg[d][q] = IF q = r /\ d = m THEN b
                       ELSE IF q = r /\ d = B THEN Nil ELSE h.reg[d][q]
    BY <1>1, <1>3 DEF Moved
  <2> HIDE DEF r, A, B
  <2> QED
    BY <2>1, <2>2
<1> HIDE DEF k, g
<1>9. Moved(k, c, b, A) /\ k.mem = c.mem \ {m}
  <2>1. c.con[b] = m /\ c.rel[b] = r /\ A \in c.mem /\ A # c.con[b] /\ c.reg[A][r] = Nil
    BY <1>1, <1>6, <1>7, <1>8
  <2>2. \A q \in Rels \ {r} : c.reg[m][q] = Nil
    BY <1>2, <1>3, <1>6, <1>8
  <2> HIDE DEF r, A
  <2>3. b \in Items /\ A \in Contents /\ r \in Rels
    BY <1>1
  <2> QED
    BY <1>6, <2>1, <2>2, <2>3, SetMoves DEF k
<1>10. /\ k \in Heap /\ k.rel = h.rel /\ k.con[a] = n /\ B \in k.mem
       /\ k.reg[B][r] = Nil /\ \A q \in Rels \ {r} : k.reg[n][q] = Nil
  <2>1. k \in Heap /\ k.rel = h.rel
    BY <1>9 DEF Moved, SameLinks
  <2>2. k.con[a] = n /\ B \in k.mem
    BY <1>1, <1>6, <1>7, <1>9 DEF Moved
  <2>3. k.reg[B][r] = Nil
    BY <1>1, <1>6, <1>7, <1>8, <1>9 DEF Moved
  <2>4. \A q \in Rels \ {r} : k.reg[n][q] = Nil
    BY <1>1, <1>2, <1>6, <1>7, <1>8, <1>9 DEF Moved
  <2> QED
    BY <2>1, <2>2, <2>3, <2>4
<1>11. Moved(g, k, a, B) /\ g.mem = k.mem \ {n}
  BY <1>1, <1>6, <1>10, SetMoves DEF g
<1>12. g \in Heap /\ SameLinks(g, c)
  BY <1>9, <1>11 DEF Moved, SameLinks
<1>13. g.mem = h.mem
  BY <1>3, <1>6, <1>7, <1>9, <1>11
<1>14. \A j \in Items : g.con[j] = IF j = a THEN B ELSE IF j = b THEN A ELSE h.con[j]
  BY <1>7, <1>9, <1>11 DEF Moved
<1>15. ASSUME NEW d \in Contents, NEW q \in Rels
       PROVE  g.reg[d][q] = IF q = r /\ d = B THEN a
                            ELSE IF q = r /\ d = A THEN b ELSE h.reg[d][q]
  <2>1. g.reg[d][q] = IF q = r /\ d = B THEN a
                      ELSE IF q = r /\ d = n THEN Nil ELSE k.reg[d][q]
    BY <1>10, <1>11 DEF Moved
  <2>2. k.reg[d][q] = IF q = r /\ d = A THEN b
                      ELSE IF q = r /\ d = m THEN Nil ELSE c.reg[d][q]
    BY <1>1, <1>7, <1>9 DEF Moved
  <2>3. c.reg[d][q] = IF q = r /\ d = n THEN a ELSE IF q = r /\ d = A THEN Nil
                      ELSE IF q = r /\ d = m THEN b ELSE IF q = r /\ d = B THEN Nil
                      ELSE h.reg[d][q]
    BY <1>8
  <2>4. d \in {m, n} => h.reg[d][q] = Nil
    BY <1>2, <1>3, <1>6
  <2> HIDE DEF r, A, B
  <2> QED
    BY <1>6, <2>1, <2>2, <2>3, <2>4
<1> HIDE DEF A, B, r
<1> QED
  BY <1>12, <1>13, <1>14, <1>15 DEF g, k, A, B, r, Swapped

LEMMA SwapAgree ==
  ASSUME NEW h, h \in Heap, RefsAgree(h), NEW a \in Live(h), NEW b \in Live(h), a # b,
         h.rel[a] = h.rel[b], NEW g, g \in Heap, g.rel = h.rel, Swapped(g, h, a, b)
  PROVE  /\ RefsAgree(g)
         /\ \A j \in Items \ {a, b} : Alone(h, j) => Alone(g, j)
<1> DEFINE r == h.rel[a]
           A == h.con[a]
           B == h.con[b]
<1>1. /\ a \in Items /\ b \in Items /\ r \in Rels /\ r = h.rel[b] /\ A \in Contents
      /\ B \in Contents /\ h.reg[A][r] = a /\ h.reg[B][r] = b /\ A # B /\ a # Nil
      /\ b # Nil /\ A # Nil /\ B # Nil
      /\ h.reg \in [Contents -> [Rels -> Ptr]]
  <2>1. a \in Items /\ b \in Items /\ r \in Rels /\ h.rel[a] # Nil /\ h.rel[b] # Nil
    BY DEF Live, Heap
  <2>2. /\ A \in Contents /\ B \in Contents /\ h.reg[A][r] = a /\ h.reg[B][r] = b
    BY <2>1 DEF RefsAgree, Heap
  <2> QED
    BY <2>1, <2>2, PointerAssumption DEF Heap
<1>2. /\ \A j \in Items : g.con[j] = IF j = a THEN B ELSE IF j = b THEN A ELSE h.con[j]
      /\ \A d \in Contents, q \in Rels :
           g.reg[d][q] = IF q = r /\ d = B THEN a
                         ELSE IF q = r /\ d = A THEN b ELSE h.reg[d][q]
      /\ g.mem = h.mem
  BY DEF Swapped
<1>3. \A j \in Items : h.con[j] \in {A, B} /\ h.rel[j] = r => j \in {a, b}
  <2> SUFFICES ASSUME NEW j \in Items, h.con[j] \in {A, B}, h.rel[j] = r PROVE j \in {a, b}
    OBVIOUS
  <2>1. h.rel[j] # Nil
    BY <1>1, PointerAssumption
  <2>2. h.reg[h.con[j]][r] = j
    BY <2>1 DEF RefsAgree
  <2> QED
    BY <1>1, <2>2
<1>4. ASSUME NEW j \in Items, h.rel[j] # Nil
      PROVE  g.con[j] # Nil /\ g.con[j] \in Contents /\ g.reg[g.con[j]][h.rel[j]] = j
  <2>1. h.con[j] # Nil /\ h.reg[h.con[j]][h.rel[j]] = j /\ h.rel[j] \in Rels
        /\ h.con[j] \in Contents
    BY <1>4 DEF RefsAgree, Heap
  <2>2. CASE j = a
    BY <1>1, <1>2, <2>1, <2>2
  <2>3. CASE j = b
    BY <1>1, <1>2, <2>1, <2>3
  <2>4. CASE j \notin {a, b}
    <3>1. g.con[j] = h.con[j]
      BY <1>2, <2>4
    <3>2. h.con[j] \in {A, B} => h.rel[j] # r
      BY <1>3, <2>4
    <3> HIDE DEF A, B, r
    <3> QED
      BY <1>2, <2>1, <3>1, <3>2
  <2> QED
    BY <2>2, <2>3, <2>4
<1>5. \A j \in Items : h.rel[j] = Nil => g.con[j] = Nil
  <2>1. \A j \in Items : h.rel[j] = Nil => h.con[j] = Nil /\ j \notin {a, b}
    BY DEF RefsAgree, Live
  <2> QED
    BY <1>2, <2>1
<1>6. ASSUME NEW d \in Contents, NEW q \in Rels, g.reg[d][q] # Nil
      PROVE  g.con[g.reg[d][q]] = d /\ h.rel[g.reg[d][q]] = q
  <2>1. CASE q = r /\ d = B
    BY <1>1, <1>2, <2>1
  <2>2. CASE q = r /\ d = A
    BY <1>1, <1>2, <2>2
  <2>3. CASE ~(q = r /\ d \in {A, B})
    <3>1. g.reg[d][q] = h.reg[d][q]
      BY <1>2, <2>3
    <3>2. h.con[h.reg[d][q]] = d /\ h.rel[h.reg[d][q]] = q /\ h.reg[d][q] \in Items
      BY <1>1, <1>6, <3>1 DEF RefsAgree, Ptr
    <3>3. h.reg[d][q] \notin {a, b}
      BY <1>1, <2>3, <3>2
    <3> HIDE DEF A, B, r
    <3> QED
      BY <1>2, <3>1, <3>2, <3>3
  <2> QED
    BY <2>1, <2>2, <2>3
<1>7. ASSUME NEW d \in Contents PROVE d \in g.mem <=> g.reg[d] # NoRef
  <2>1. (d \in g.mem) <=> \E q \in Rels : h.reg[d][q] # Nil
    <3>1. h.reg[d] = NoRef <=> \A q \in Rels : h.reg[d][q] = Nil
      <4>1. h.reg[d] \in [Rels -> Ptr]
        BY <1>1
      <4> QED
        BY <4>1 DEF NoRef
    <3> QED
      BY <1>2, <3>1 DEF RefsAgree
  <2>2. \A q \in Rels : g.reg[d][q] # Nil <=> h.reg[d][q] # Nil
    <3>1. \A q \in Rels : g.reg[d][q] # Nil <=> h.reg[d][q] # Nil
      BY <1>1, <1>2
    <3> QED
      BY <3>1
  <2>3. (\E q \in Rels : g.reg[d][q] # Nil) => g.reg[d] # NoRef
    BY DEF NoRef
  <2>4. g.reg[d] # NoRef => \E q \in Rels : g.reg[d][q] # Nil
    <3>1. g.reg[d] \in [Rels -> Ptr]
      BY DEF Heap
    <3> QED
      BY <3>1 DEF NoRef
  <2> QED
    BY <2>1, <2>2, <2>3, <2>4
<1>8. RefsAgree(g)
  BY <1>4, <1>5, <1>6, <1>7 DEF RefsAgree
<1>9. ASSUME NEW j \in Items \ {a, b}, Alone(h, j) PROVE Alone(g, j)
  <2>1. h.con[j] # A /\ h.con[j] # B /\ g.con[j] = h.con[j]
    BY <1>1, <1>2, <1>9 DEF Alone
  <2>2. \A i \in Items : g.con[i] = h.con[j] => h.con[i] = h.con[j]
    BY <1>2, <2>1
  <2> QED
    BY <1>9, <2>1, <2>2 DEF Alone
<1> QED
  BY <1>8, <1>9

(* What was in use and is not among them is still in use. *)
LEMMA CutReaches ==
  ASSUME NEW h, Good(h), NEW g, Pointers(g), NEW a, NEW x, x = h.d[a], x \in Ptr,
         LinkedCut(g, h, a, x),
         NEW j \in InUse(h), j \notin Tree(h, x)
  PROVE  j \in InUse(g)
<1> DEFINE X == Tree(h, x)
           hd == h.head[h.rel[j]]
           S == Tree(g, hd) \cup X
<1>1. /\ j \in Live(h) /\ j \in Items /\ h.rel[j] \in Rels /\ h.rel[j] # Nil
      /\ Pointers(h) /\ hd \in Ptr /\ g.rel = h.rel /\ g.head = h.head
  BY DEF InUse, Live, Good, Heap, Pointers, LinkedCut
<1>2. X \subseteq Items /\ TreeClosed(h, X) /\ (x # Nil => x \in X)
  BY <1>1, TreeLeast
<1>3. /\ Tree(g, hd) \subseteq Items /\ TreeClosed(g, Tree(g, hd))
      /\ (hd # Nil => hd \in Tree(g, hd))
  BY <1>1, TreeLeast
<1> HIDE DEF X
<1>4. ASSUME NEW k \in S PROVE h.n[k] \in S \cup {Nil} /\ h.d[k] \in S \cup {Nil}
  <2>1. CASE k \in X
    BY <1>2, <2>1 DEF TreeClosed
  <2>2. CASE k \in Tree(g, hd)
    <3>1. g.n[k] \in Tree(g, hd) \cup {Nil} /\ g.d[k] \in Tree(g, hd) \cup {Nil}
          /\ k \in Items
      BY <1>3, <2>2 DEF TreeClosed
    <3>2. h.n[k] = g.n[k] /\ (k # a => h.d[k] = g.d[k]) /\ h.d[a] = x
      BY <3>1 DEF LinkedCut
    <3> QED
      BY <1>2, <3>1, <3>2
  <2> QED
    BY <1>4, <2>1, <2>2
<1>5. TreeClosed(h, S) /\ S \in SUBSET Items /\ (hd # Nil => hd \in S)
  BY <1>2, <1>3, <1>4 DEF TreeClosed
<1>6. j \in Tree(h, hd)
  BY DEF InUse
<1> HIDE DEF S
<1>7. j \in S
  BY <1>1, <1>5, <1>6, TreeLeast
<1>8. j \in Tree(g, hd)
  BY <1>7 DEF S, X
<1> QED
  BY <1>1, <1>8 DEF InUse, Live

(* Both lists of daughters are cut off. *)
LEMMA CutBoth ==
  ASSUME NEW L, NEW h, Whole(h, L), NEW a \in InUse(h), NEW b \in InUse(h),
         a # b, h.rel[a] = h.rel[b], ~InTree(h, a, b), ~InTree(h, b, a)
  PROVE  LET x == h.d[a]
             y == h.d[b]
             X == Tree(h, x)
             Y == Tree(h, y)
             g == CutDaughters(CutDaughters(h, a), b)
         IN  /\ Whole(g, L \cup X \cup Y) /\ Elsewhere(g, h, h.rel[a])
             /\ g.rel = h.rel /\ a \in InUse(g) /\ b \in InUse(g)
             /\ a \notin X \cup Y /\ b \notin X \cup Y /\ X \cap Y = {}
             /\ X \subseteq Items /\ Y \subseteq Items
             /\ g.d[a] = Nil /\ g.d[b] = Nil
             /\ Tree(g, x) = X /\ Tree(g, y) = Y
             /\ x # Nil => x \in Live(h) /\ h.rel[x] = h.rel[a] /\ Root(g, x)
             /\ y # Nil => y \in Live(h) /\ h.rel[y] = h.rel[a] /\ Root(g, y)
<1> DEFINE x == h.d[a]
           y == h.d[b]
           X == Tree(h, x)
           Y == Tree(h, y)
           f == CutDaughters(h, a)
           g == CutDaughters(f, b)
           r == h.rel[a]
<1>1. /\ Good(h) /\ Pointers(h) /\ Links(h) /\ Nil \notin Items /\ Nil \notin Rels
      /\ a \in Items /\ b \in Items /\ a \in Live(h) /\ b \in Live(h)
      /\ x \in Ptr /\ y \in Ptr /\ r \in Rels
  BY PointerAssumption DEF Whole, Good, Heap, Pointers, InUse, Live
<1>2. /\ Whole(f, L \cup X) /\ Elsewhere(f, h, r) /\ Island(f, X) /\ a \notin X
      /\ LinkedCut(f, h, a, x)
      /\ x # Nil => x \in Live(h) /\ h.rel[x] = r
  BY CutIsland
<1>3. /\ X \subseteq Items /\ Y \subseteq Items /\ TreeClosed(h, X) /\ TreeClosed(h, Y)
      /\ (x # Nil => x \in X) /\ (y # Nil => y \in Y)
      /\ a \notin Y /\ b \notin X
  BY <1>1, TreeLeast DEF InTree, Under
<1>4. b \notin Y
  BY <1>1, InUseRoot
<1> HIDE DEF f
<1>5. /\ f.rel = h.rel /\ f.d[b] = y /\ Live(f) = Live(h) /\ Pointers(f) /\ Good(f)
      /\ f.head = h.head
  BY <1>1, <1>2 DEF LinkedCut, Live, Whole, Good, Heap, Pointers
<1>6. Tree(f, x) = X /\ Tree(f, y) = Y
  BY <1>1, <1>2, <1>3, <1>5, TreeSame DEF LinkedCut
<1>7. ASSUME NEW j \in InUse(h), j \notin X PROVE j \in InUse(f)
  BY <1>1, <1>2, <1>5, <1>7, CutReaches
<1>8. a \in InUse(f) /\ b \in InUse(f)
  BY <1>2, <1>3, <1>7
<1>9. X \cap Y = {}
  <2>1. b \in Tree(f, f.head[r]) /\ f.head[r] \in Ptr
    BY <1>1, <1>5, <1>8 DEF InUse, Good, Heap
  <2>2. TreeClosed(f, Tree(f, f.head[r])) /\ Tree(f, f.head[r]) \in SUBSET Items
    BY <1>5, <2>1, TreeLeast
  <2>3. y # Nil => y \in Tree(f, f.head[r])
    BY <1>5, <2>1, <2>2 DEF TreeClosed
  <2>4. Y \subseteq Tree(f, f.head[r])
    <3> HIDE DEF Y, y, r
    <3> QED
      BY <1>1, <1>5, <1>6, <2>2, <2>3, TreeLeast
  <2>5. X \cap Tree(f, f.head[r]) = {}
    BY <1>1, <1>2, <1>5, IslandApart
  <2> QED
    BY <2>4, <2>5
<1>10. /\ Whole(g, L \cup X \cup Y) /\ Elsewhere(g, f, r) /\ Island(g, Y)
       /\ LinkedCut(g, f, b, y)
       /\ y # Nil => y \in Live(h) /\ h.rel[y] = r
  <2>1. f.rel[b] = r /\ Tree(f, f.d[b]) = Y /\ f.d[b] = y /\ Live(f) = Live(h)
    BY <1>5, <1>6
  <2>2. (L \cup X) \cup Y = L \cup X \cup Y
    OBVIOUS
  <2> HIDE DEF X, Y, y, r
  <2> QED
    BY <1>2, <1>5, <1>8, <2>1, <2>2, CutIsland DEF g
<1> HIDE DEF g
<1>11. /\ g.rel = h.rel /\ g.d[a] = Nil /\ g.d[b] = Nil /\ Good(g) /\ Pointers(g)
       /\ Elsewhere(g, h, r) /\ g.n = h.n /\ g.p = h.p
       /\ \A j \in Items : g.u[j] = IF j \in {x, y} THEN Nil ELSE h.u[j]
       /\ \A j \in Items \ {a, b} : g.d[j] = h.d[j]
  <2>1. Good(g) /\ Pointers(g)
    BY <1>10 DEF Whole, Good, Heap, Pointers
  <2>2. Elsewhere(g, h, r)
    BY <1>2, <1>10, ElsewhereTwice
  <2> QED
    BY <1>1, <1>2, <1>10, <2>1, <2>2 DEF LinkedCut
<1>12. Tree(g, x) = X /\ Tree(g, y) = Y
  <2>1. \A j \in X \cup Y : g.n[j] = h.n[j] /\ g.d[j] = h.d[j]
    BY <1>2, <1>3, <1>4, <1>11
  <2> QED
    BY <1>1, <1>3, <1>11, <2>1, TreeSame
<1>13. a \in InUse(g) /\ b \in InUse(g)
  <2>1. a \notin Tree(f, y) /\ b \notin Tree(f, y)
    BY <1>3, <1>4, <1>6
  <2> HIDE DEF y
  <2> QED
    BY <1>1, <1>5, <1>8, <1>10, <1>11, <2>1, CutReaches
<1>14. ASSUME NEW z \in {x, y}, z # Nil PROVE Root(g, z)
  <2>1. h.p[z] = Nil /\ z \in Items
    BY <1>1, <1>14 DEF Links, DownGood, Ptr
  <2>2. Nil \notin Tree(g, z)
    BY <1>1, <1>3, <1>12
  <2> QED
    BY <1>11, <2>1, <2>2 DEF Root
<1> QED
  BY <1>2, <1>3, <1>4, <1>9, <1>10, <1>11, <1>12, <1>13, <1>14 DEF f, g

(* The daughters of each are copied below the other. *)
LEMMA CopyBoth ==
  ASSUME NEW L, NEW h, Whole(h, L), NEW a \in InUse(h), NEW b \in InUse(h), a # b,
         h.rel[a] = h.rel[b], h.d[a] = Nil, h.d[b] = Nil, NEW x \in Ptr, NEW y \in Ptr,
         NEW X \in SUBSET Items, X = Tree(h, x), NEW Y \in SUBSET Items, Y = Tree(h, y),
         X \cap Y = {}, a \notin X \cup Y, b \notin X \cup Y,
         x # Nil => x \in Live(h) /\ h.rel[x] = h.rel[a] /\ Root(h, x),
         y # Nil => y \in Live(h) /\ h.rel[y] = h.rel[a] /\ Root(h, y),
         Enough(h, X \cup Y)
  PROVE  LET g == CopyBelow(CopyBelow(h, x, b), y, a)
         IN  /\ Changed(g, h, h.rel[a], L)
             /\ \A j \in Live(h) : Alone(h, j) \/ j \in X \cup Y => Alone(g, j)
<1> DEFINE f == CopyBelow(h, x, b)
           g == CopyBelow(f, y, a)
           r == h.rel[a]
<1>1. /\ Good(h) /\ Pointers(h) /\ a \in Live(h) /\ b \in Live(h) /\ a \in Items
  BY DEF Whole, Good, Heap, Pointers, InUse, Live
<1>2. Grown(f, h, b, X)
  <2>1. Enough(h, Tree(h, x))
    BY EnoughOfPart
  <2> QED
    BY <1>1, <2>1, CopyBelowGrows
<1> HIDE DEF f
<1>3. Changed(f, h, r, L) /\ a \in InUse(f)
  BY <1>2, GrownWhole
<1>4. /\ Good(f) /\ Whole(f, L) /\ Elsewhere(f, h, r) /\ Pointers(f) /\ f.rel[a] = r
      /\ a \in Live(f) /\ f.d[a] = Nil /\ Live(h) \subseteq Live(f)
  BY <1>1, <1>2, <1>3 DEF Changed, Whole, Grown, Good, Heap, Pointers, InUse, Live
<1>5. Enough(f, Y)
  BY <1>2, EnoughLeft DEF Grown
<1>6. Tree(f, y) = Y /\ (y # Nil => y \in Live(f) /\ f.rel[y] = r /\ Root(f, y))
  <2>1. CASE y = Nil
    BY <1>1, <1>4, <2>1, NoTree
  <2>2. CASE y # Nil
    <3>1. y \in Live(h) /\ h.rel[y] = r /\ Root(h, y) /\ b \notin Tree(h, y)
      BY <2>2
    <3>2. Tree(f, y) = Y /\ Root(f, y)
      BY <1>1, <1>2, <3>1, GrownTree
    <3>3. y \in Live(f) /\ f.rel[y] = r
      BY <1>2, <1>4, <3>1 DEF Grown
    <3> QED
      BY <3>2, <3>3
  <2> QED
    BY <2>1, <2>2
<1>7. Grown(g, f, a, Y)
  BY <1>4, <1>5, <1>6, CopyBelowGrows
<1> HIDE DEF g
<1>8. Changed(g, f, r, L)
  BY <1>3, <1>4, <1>7, GrownWhole
<1>9. Changed(g, h, r, L)
  BY <1>4, <1>8, ElsewhereTwice DEF Changed
<1>10. ASSUME NEW j \in Live(h), Alone(h, j) \/ j \in X \cup Y PROVE Alone(g, j)
  <2>1. j \in Live(f) /\ (Alone(h, j) \/ j \in X => Alone(f, j))
    BY <1>2, <1>4 DEF Grown
  <2>2. Alone(f, j) \/ j \in Y
    BY <1>10, <2>1
  <2> QED
    BY <1>7, <2>1, <2>2 DEF Grown
<1> QED
  BY <1>9, <1>10 DEF f, g

LEMMA CutDaughtersHeap ==
  ASSUME NEW h, h \in Heap, NEW c \in Items
  PROVE  CutDaughters(h, c) \in Heap
<1>1. Store(h.u, h.d[c], Nil) \in [Items -> Ptr]
  BY DEF Store, Heap, Ptr
<1> QED
  BY <1>1 DEF CutDaughters, Heap, Ptr

LEMMA ExchangeSubTreesSane ==
  ASSUME NEW h, Sane(h), NEW a \in InUse(h), NEW b \in InUse(h), h.rel[a] = h.rel[b],
         ~InTree(h, a, b), ~InTree(h, b, a),
         RoomFor(h, Cardinality(Under(h, a) \cup Under(h, b)))
  PROVE  Became(ExchangeSubTrees(h, a, b), h, h.rel[b])
<1> DEFINE x == h.d[a]
           y == h.d[b]
           X == Tree(h, x)
           Y == Tree(h, y)
           L == Lost(h)
           M == L \cup X \cup Y
           r == h.rel[b]
           t1 == GrabContents(h, b)
           t == GrabContents(t1, a)
           c == CutDaughters(CutDaughters(t, a), b)
           k == SetContents(SetContents(c, b, h.con[a]), a, h.con[b])
           l == CutDaughters(CutDaughters(h, a), b)
           g == CopyBelow(CopyBelow(k, x, b), y, a)
<1>1. /\ Good(h) /\ h \in Heap /\ RefsAgree(h) /\ a \in Items /\ b \in Items /\ r \in Rels
      /\ a \in Live(h) /\ b \in Live(h) /\ r # Nil /\ x \in Ptr /\ y \in Ptr /\ a # b
      /\ h.con[a] \in Contents /\ h.con[b] \in Contents
  BY PointerAssumption DEF Sane, Good, Heap, InUse, Live, RefsAgree, InTree
<1>2. ExchangeSubTrees(h, a, b) = g
  <2>1. AsRelation(h, a, r) = a
    BY <1>1 DEF AsRelation, RefsAgree
  <2> QED
    BY <2>1 DEF ExchangeSubTrees
<1>3. Whole(h, L)
  BY SaneWhole
<1>4. /\ Whole(l, M) /\ Elsewhere(l, h, r)
      /\ l.rel = h.rel /\ a \in InUse(l) /\ b \in InUse(l)
      /\ a \notin X \cup Y /\ b \notin X \cup Y /\ X \cap Y = {}
      /\ X \subseteq Items /\ Y \subseteq Items
      /\ l.d[a] = Nil /\ l.d[b] = Nil
      /\ Tree(l, x) = X /\ Tree(l, y) = Y
      /\ x # Nil => x \in Live(h) /\ h.rel[x] = r /\ Root(l, x)
      /\ y # Nil => y \in Live(h) /\ h.rel[y] = r /\ Root(l, y)
  BY <1>1, <1>3, CutBoth
<1> DEFINE m == Cardinality(X \cup Y)
<1>5. m \in Nat /\ Spares(h, m + 3) /\ Slots(h, m)
  <2>1. X \cup Y \in SUBSET Items
    BY <1>4
  <2>2. m \in Nat
    BY <2>1, PointerAssumption, FS_Subset, FS_CardinalityType
  <2> QED
    BY <2>2 DEF RoomFor, Spares, Slots, Under
<1> HIDE DEF m
<1>6. Spares(h, 2) /\ Spares(h, 1) /\ Spares(h, m)
  <2>1. m + 3 \in Nat /\ 2 <= m + 3 /\ 1 <= m + 3 /\ m <= m + 3
    BY <1>5
  <2> QED
    BY <1>5, <2>1, SparesFewer
<1>7. t \in Heap /\ SameLinks(t, h)
  <2>1. PICK n \in Contents \ h.mem : Moved(t1, h, b, n) /\ t1.mem = h.mem \cup {n}
    BY <1>1, <1>6, GrabMoves
  <2> HIDE DEF t1
  <2>2. t1 \in Heap /\ SameLinks(t1, h) /\ t1.con[a] = h.con[a]
    BY <1>1, <2>1 DEF Moved
  <2>3. Spares(t1, 1)
    BY <1>1, <1>6, <2>1, <2>2, SparesDrop
  <2>4. \E e \in Contents \ t1.mem : Moved(t, t1, a, e)
    <3>1. t1.rel[a] \in Rels
      BY <1>1, <2>2 DEF SameLinks
    <3> QED
      BY <1>1, <2>2, <2>3, <3>1, GrabMoves
  <2> HIDE DEF t
  <2> QED
    BY <2>2, <2>4 DEF Moved, SameLinks
<1>8. /\ c \in Heap /\ c.con = t.con /\ c.reg = t.reg /\ c.mem = t.mem /\ c.rel = h.rel
      /\ SameLinks(c, l)
  <2> HIDE DEF t
  <2> DEFINE c1 == CutDaughters(t, a)
             l1 == CutDaughters(h, a)
  <2>1. /\ c1.con = t.con /\ c1.reg = t.reg /\ c1.mem = t.mem /\ SameLinks(c1, l1)
        /\ c1.rel = h.rel
    BY <1>1, <1>7 DEF CutDaughters, Heap, SameLinks
  <2>2. c1 \in Heap /\ l1 \in Heap
    BY <1>1, <1>7, CutDaughtersHeap
  <2>3. c = CutDaughters(c1, b) /\ l = CutDaughters(l1, b)
    OBVIOUS
  <2> HIDE DEF c1, l1, c, l
  <2>4. c \in Heap
    BY <1>1, <2>2, <2>3, CutDaughtersHeap
  <2>5. /\ c.con = c1.con /\ c.reg = c1.reg /\ c.mem = c1.mem /\ SameLinks(c, l)
        /\ c.rel = c1.rel
    BY <2>1, <2>2, <2>3 DEF CutDaughters, Heap, SameLinks
  <2> QED
    BY <2>1, <2>4, <2>5
<1>9. k \in Heap /\ SameLinks(k, c) /\ Swapped(k, h, a, b)
  <2>1. t = GrabContents(GrabContents(h, b), a)
    OBVIOUS
  <2> HIDE DEF c, t
  <2> QED
    BY <1>1, <1>6, <1>8, <2>1, SwapContents
<1> HIDE DEF k, c, t, l
<1>10. SameLinks(k, l) /\ k.rel = h.rel
  BY <1>4, <1>8, <1>9 DEF SameLinks
<1>11. RefsAgree(k) /\ \A j \in Items \ {a, b} : Alone(h, j) => Alone(k, j)
  BY <1>1, <1>9, <1>10, SwapAgree
<1>12. /\ Whole(k, M) /\ InUse(k) = InUse(l) /\ Elsewhere(k, l, r)
       /\ Live(k) = Live(h) /\ k.d = l.d
       /\ \A z : Tree(k, z) = Tree(l, z)
       /\ \A z : Root(l, z) => Root(k, z)
  <2>1. Good(k)
    <3>1. Links(k)
      BY <1>4, <1>10 DEF Whole, Good, Links, SameLinks, NextGood, PrevGood, DownGood,
                         UpGood, EndsGood
    <3> QED
      BY <1>9, <1>11, <3>1 DEF Good
  <2>2. Live(k) = Live(h)
    BY <1>10 DEF Live
  <2> QED
    BY <1>4, <1>10, <2>1, <2>2, SameLinksReach DEF Whole, Root, SameLinks
<1>13. Elsewhere(k, h, r)
  BY <1>4, <1>12, ElsewhereTwice
<1>14. Enough(k, X \cup Y)
  BY <1>5, <1>6, <1>9, <1>12 DEF Enough, Spares, Slots, Swapped, m
<1>15. /\ Changed(g, k, r, M)
       /\ \A j \in Live(h) : Alone(k, j) \/ j \in X \cup Y => Alone(g, j)
  <2> HIDE DEF M, X, Y, x, y
  <2>1. /\ k.rel[a] = r /\ k.rel[b] = r /\ k.d[a] = Nil /\ k.d[b] = Nil
        /\ a \in InUse(k) /\ b \in InUse(k) /\ X = Tree(k, x) /\ Y = Tree(k, y)
    BY <1>4, <1>10, <1>12
  <2>2. /\ x # Nil => x \in Live(k) /\ k.rel[x] = r /\ Root(k, x)
        /\ y # Nil => y \in Live(k) /\ k.rel[y] = r /\ Root(k, y)
    BY <1>4, <1>10, <1>12
  <2> QED
    BY <1>1, <1>4, <1>12, <1>14, <2>1, <2>2, CopyBoth
<1> HIDE DEF g
<1>16. Changed(g, h, r, M)
  BY <1>13, <1>15, ElsewhereTwice DEF Changed
<1>17. ASSUME NEW j \in M, j \in Live(g) PROVE Alone(g, j)
  <2>1. CASE j \in L
    <3>1. j \in Live(h) /\ j \in Items /\ j \notin {a, b} /\ Alone(h, j)
      BY <2>1 DEF Lost, Live, Sane
    <3> QED
      BY <1>11, <1>15, <3>1
  <2>2. CASE j \in X \cup Y
    <3>1. \A i \in X : h.rel[i] = h.rel[x]
      BY <1>1, TreeWithin
    <3>2. \A i \in Y : h.rel[i] = h.rel[y]
      BY <1>1, TreeWithin
    <3>3. (x = Nil => X = {}) /\ (y = Nil => Y = {})
      BY <1>1, NoTree DEF Good, Heap, Pointers
    <3> HIDE DEF X, Y, x, y
    <3>4. j \in Live(h)
      BY <1>1, <1>4, <2>2, <3>1, <3>2, <3>3 DEF Live
    <3> QED
      BY <1>15, <2>2, <3>4
  <2> QED
    BY <1>17, <2>1, <2>2
<1> QED
  BY <1>2, <1>16, <1>17, ChangedSane
-----------------------------------------------------------------------------
(* The invariant.                                                          *)

(* An item in no relation's tree has contents of its own: no view of an    *)
(* item in use leads to it.                                                *)
LostAlone == \A j \in Lost(heap) : Alone(heap, j)

(* The five properties, none of which a call preserves without the others: *)
(* an insertion at a tail that something followed would leave a link one   *)
(* way only; a head that does not lead to the tail, or an item that no     *)
(* head leads to, would be cut off by the next deletion; and a call on an  *)
(* item would reach one that is in no tree through shared contents.        *)
IInv == TypeOK /\ DoubleLinks /\ BackPointers /\ EndsMeet /\ LostAlone

(* No item is lost: each one is reached from its relation's head. *)
NoneLost == InUse(heap) = Live(heap)

LEMMA InvMeaning ==
  /\ IInv <=> Sane(heap) /\ doomed \in Contents \cup {Nil}
  /\ IInv /\ NoneLost <=> Whole(heap, {}) /\ doomed \in Contents \cup {Nil}
<1>1. EndsMeet <=> EndsFree(heap) /\ EndsJoined(heap)
  BY DEF EndsMeet, EndsFree, EndsJoined
<1>2. NoneLost <=> AllInUse(heap, {})
  BY DEF NoneLost, InUse, Live, AllInUse
<1>3. NoneLost => LostAlone
  BY DEF NoneLost, LostAlone, Lost
<1> QED
  BY <1>1, <1>2, <1>3, LinksMeaning
  DEF IInv, TypeOK, DoubleLinks, BackPointers, Good, Sane, Whole, LostAlone

LEMMA InitWhole == Init => IInv /\ NoneLost
<1> SUFFICES ASSUME Init PROVE IInv /\ NoneLost
  OBVIOUS
<1>1. heap \in Heap
  BY DEF Init, Heap, NoLink, NoRef, Ptr
<1>2. Links(heap)
  BY DEF Init, NoLink, NoRef, Links, NextGood, PrevGood, DownGood, UpGood, EndsGood
<1>3. RefsAgree(heap)
  BY DEF Init, NoLink, NoRef, RefsAgree
<1>4. EndsJoined(heap) /\ AllInUse(heap, {})
  BY DEF Init, NoLink, NoRef, EndsJoined, AllInUse
<1> QED
  BY <1>1, <1>2, <1>3, <1>4, InvMeaning DEF Good, Whole, Init

(* Nothing comes to share contents with what is in no tree. *)
KeepsLost(g, h) == \A j \in Lost(h) : Alone(h, j) /\ j \in Live(g) => Alone(g, j)

LEMMA LostApart ==
  ASSUME NEW h, NEW j \in Lost(h), Alone(h, j), NEW s \in InUse(h)
  PROVE  h.con[s] # h.con[j]
BY DEF Lost, Alone, InUse, Live

LEMMA EnteredKeepsLost ==
  ASSUME NEW h, Good(h), Spares(h, 1), Live(h) # Items,
         NEW r \in Rels, NEW si \in InUse(h) \cup {Nil}, NEW g, Entered(g, h, r, si)
  PROVE  KeepsLost(g, h)
<1> SUFFICES ASSUME NEW j \in Lost(h), Alone(h, j) PROVE Alone(g, j)
  BY DEF KeepsLost
<1>1. si \in Live(h) \cup {Nil} /\ j \in Live(h) /\ (si = Nil \/ h.con[si] # h.con[j])
  BY LostApart DEF InUse, Lost
<1>2. Kept(g, h, j)
  BY <1>1, EnteredKeeps
<1> QED
  BY <1>2, KeptAlone

(* A step leaves the heap as it is, or changes one relation of it. *)
Step(L) ==
  \/ heap' = heap
  \/ \E r \in Rels : Changed(heap', heap, r, L) /\ KeepsLost(heap', heap)

LEMMA InsertionStep ==
  ASSUME NEW L, Whole(heap, L), Insertion
  PROVE  Step(L) /\ doomed' = doomed
<1>1. Good(heap) /\ EndsJoined(heap)
  BY DEF Whole
<1>2. PICK si \in InUse(heap) \cup {Nil} :
        \/ \E r \in Rels : append(r, si) \/ prepend(r, si)
        \/ \E t \in InUse(heap) :
             \/ insert_after(t, si) \/ insert_before(t, si)
             \/ insert_below(t, si) \/ insert_above(t, si) \/ insert_parent(t, si)
             \/ append_daughter(t, si) \/ prepend_daughter(t, si)
  BY DEF Insertion
<1>3. /\ si \in Live(heap) \cup {Nil} /\ InUse(heap) \subseteq Live(heap)
      /\ \A t \in InUse(heap) : heap.rel[t] \in Rels
  BY <1>1 DEF InUse, Live, Good, Heap
<1>4. Spares(heap, 5) /\ Live(heap) # Items /\ doomed' = doomed
  BY <1>2 DEF append, prepend, insert_after, insert_before, insert_below,
              insert_above, insert_parent, append_daughter, prepend_daughter,
              RoomToHang, Room, Spare, Spares, Put
<1>5. Spares(heap, 1)
  BY <1>4, SparesFewer
<1>6. \A r \in Rels : \A g : Entered(g, heap, r, si) => KeepsLost(g, heap)
  BY <1>1, <1>4, <1>5, EnteredKeepsLost
<1>7. Step(L)
  <2>1. ASSUME NEW r \in Rels, append(r, si) PROVE Step(L)
    <3>1. heap' = AppendTop(heap, r, si)
      BY <2>1 DEF append, Put
    <3>2. Entered(heap', heap, r, si) /\ Changed(heap', heap, r, L)
      BY <1>1, <1>3, <1>4, <1>5, <3>1, TopsEnter, AppendTopWhole
    <3> QED
      BY <1>6, <3>2 DEF Step
  <2>2. ASSUME NEW r \in Rels, prepend(r, si) PROVE Step(L)
    <3>1. heap' = PrependTop(heap, r, si)
      BY <2>2 DEF prepend, Put
    <3>2. Entered(heap', heap, r, si) /\ Changed(heap', heap, r, L)
      BY <1>1, <1>3, <1>4, <1>5, <3>1, TopsEnter, PrependTopWhole
    <3> QED
      BY <1>6, <3>2 DEF Step
  <2>3. ASSUME NEW t \in InUse(heap), insert_after(t, si) PROVE Step(L)
    <3>1. heap' = InsertAfter(heap, t, si)
      BY <2>3 DEF insert_after, Put
    <3>2. Entered(heap', heap, heap.rel[t], si) /\ Changed(heap', heap, heap.rel[t], L)
      BY <1>1, <1>3, <1>4, <1>5, <3>1, InsertsEnter, AfterWhole
    <3> QED
      BY <1>3, <1>6, <3>2 DEF Step
  <2>4. ASSUME NEW t \in InUse(heap), insert_before(t, si) PROVE Step(L)
    <3>1. heap' = InsertBefore(heap, t, si)
      BY <2>4 DEF insert_before, Put
    <3>2. Entered(heap', heap, heap.rel[t], si) /\ Changed(heap', heap, heap.rel[t], L)
      BY <1>1, <1>3, <1>4, <1>5, <3>1, InsertsEnter, BeforeWhole
    <3> QED
      BY <1>3, <1>6, <3>2 DEF Step
  <2>5. ASSUME NEW t \in InUse(heap), insert_below(t, si) PROVE Step(L)
    <3>1. heap' = InsertBelow(heap, t, si)
      BY <2>5 DEF insert_below, Put
    <3>2. Entered(heap', heap, heap.rel[t], si) /\ Changed(heap', heap, heap.rel[t], L)
      BY <1>1, <1>3, <1>4, <1>5, <3>1, InsertsEnter, BelowWhole
    <3> QED
      BY <1>3, <1>6, <3>2 DEF Step
  <2>6. ASSUME NEW t \in InUse(heap), insert_above(t, si) PROVE Step(L)
    <3>1. /\ heap' = InsertAbove(heap, t, si)
          /\ heap.p[t] = Nil /\ (heap.n[t] = Nil \/ heap.u[t] # Nil)
      BY <2>6 DEF insert_above, Put
    <3>2. Entered(heap', heap, heap.rel[t], si) /\ Changed(heap', heap, heap.rel[t], L)
      BY <1>1, <1>3, <1>4, <1>5, <3>1, InsertsEnter, AboveWhole
    <3> QED
      BY <1>3, <1>6, <3>2 DEF Step
  <2>7. ASSUME NEW t \in InUse(heap), insert_parent(t, si) PROVE Step(L)
    <3>1. heap' = InsertParent(heap, t, si)
      BY <2>7 DEF insert_parent, Put
    <3>2. Changed(heap', heap, heap.rel[t], L)
      BY <1>3, <1>4, <3>1, ParentWhole
    <3>3. ASSUME NEW j \in Lost(heap), Alone(heap, j) PROVE Alone(heap', j)
      <4>1. /\ t \in Live(heap) /\ j \in Live(heap) /\ heap.con[t] # heap.con[j]
            /\ si = Nil \/ heap.con[si] # heap.con[j]
        BY <3>3, LostApart DEF InUse, Lost
      <4>2. Kept(heap', heap, j)
        BY <1>1, <1>3, <1>4, <3>1, <4>1, InsertParentGood
      <4> QED
        BY <3>3, <4>2, KeptAlone
    <3> QED
      BY <1>3, <3>2, <3>3 DEF Step, KeepsLost
  <2>8. ASSUME NEW t \in InUse(heap), NEW g,
               g \in {AppendDaughter(heap, t, si), PrependDaughter(heap, t, si)}
        PROVE  KeepsLost(g, heap)
    <3> SUFFICES ASSUME NEW j \in Lost(heap), Alone(heap, j), j \in Live(g)
                 PROVE  Alone(g, j)
      BY DEF KeepsLost
    <3>1. /\ t \in Live(heap) /\ j \in Live(heap)
          /\ si = Nil \/ heap.con[si] # heap.con[j]
      BY LostApart DEF InUse, Lost
    <3>2. Kept(g, heap, j)
      BY <1>1, <1>3, <1>4, <1>5, <2>8, <3>1, DaughtersKeep
    <3> QED
      BY <3>2, KeptAlone
  <2>9. ASSUME NEW t \in InUse(heap), append_daughter(t, si) PROVE Step(L)
    <3>1. heap' = AppendDaughter(heap, t, si)
      BY <2>9 DEF append_daughter, Put
    <3>2. Changed(heap', heap, heap.rel[t], L)
      BY <1>3, <1>4, <1>5, <2>9, <3>1, DaughtersWhole DEF append_daughter, OutsideOf
    <3> QED
      BY <1>3, <2>8, <3>1, <3>2 DEF Step
  <2>10. ASSUME NEW t \in InUse(heap), prepend_daughter(t, si) PROVE Step(L)
    <3>1. heap' = PrependDaughter(heap, t, si)
      BY <2>10 DEF prepend_daughter, Put
    <3>2. Changed(heap', heap, heap.rel[t], L)
      BY <1>3, <1>4, <1>5, <2>10, <3>1, DaughtersWhole DEF prepend_daughter, OutsideOf
    <3> QED
      BY <1>3, <2>8, <3>1, <3>2 DEF Step
  <2> QED
    BY <1>2, <2>1, <2>2, <2>3, <2>4, <2>5, <2>6, <2>7, <2>9, <2>10
<1> QED
  BY <1>4, <1>7

LEMMA DeletionStep ==
  ASSUME NEW L, Whole(heap, L), doomed \in Contents \cup {Nil}, Deletion
  PROVE  Step(L) /\ doomed' \in Contents \cup {Nil}
<1>1. Good(heap)
  BY DEF Whole
<1>2. ASSUME NEW x \in Live(heap), heap' = Delete(heap, x) PROVE Step(L)
  <2>1. heap.rel[x] \in Rels
    BY <1>1 DEF Live, Good, Heap
  <2>2. Changed(heap', heap, heap.rel[x], L)
    BY <1>2, DeleteWhole
  <2>3. ASSUME NEW j \in Lost(heap), Alone(heap, j), j \in Live(heap')
        PROVE  Alone(heap', j)
    BY <1>1, <1>2, <2>3, DeleteKeeps, KeptAlone DEF Lost
  <2> QED
    BY <2>1, <2>2, <2>3 DEF Step, KeepsLost
<1>3. ASSUME NEW i \in InUse(heap), remove_item(i)
      PROVE  Step(L) /\ doomed' = doomed
  BY <1>2, <1>3 DEF remove_item, Put, InUse
<1>4. ASSUME NEW i \in InUse(heap), unref_all(i)
      PROVE  heap' = heap /\ doomed' \in Contents \cup {Nil}
  BY <1>1, <1>4 DEF unref_all, InUse, Live, Good, Heap
<1>5. ASSUME NEW r \in Rels, clear(r)
      PROVE  Step(L) /\ doomed' = doomed
  <2>1. heap' = Clear(heap, r) /\ doomed' = doomed
    BY <1>5 DEF clear, Put
  <2>2. Changed(heap', heap, r, L)
    BY <2>1, ClearWhole
  <2>3. ASSUME NEW j \in Lost(heap), Alone(heap, j), j \in Live(heap')
        PROVE  Alone(heap', j)
    BY <1>1, <2>1, <2>3, ClearKeeps, KeptAlone DEF Lost
  <2> QED
    BY <2>1, <2>2, <2>3 DEF Step, KeepsLost
<1>6. ASSUME NEW r \in Rels, delete_next(r)
      PROVE  Step(L) /\ doomed' \in {doomed, Nil}
  <2> DEFINE x == heap.reg[doomed][r]
  <2>1. doomed \in Contents /\ x # Nil
    BY <1>6 DEF delete_next
  <2>2. x \in Items
    BY <2>1, <1>1 DEF Good, Heap, Ptr
  <2>3. heap.rel[x] = r /\ r # Nil
    BY <2>1, <1>1, PointerAssumption DEF Good, RefsAgree
  <2>4. heap' = Delete(heap, x) /\ doomed' \in {doomed, Nil}
    BY <1>6 DEF delete_next
  <2> HIDE DEF x
  <2>5. x \in Live(heap)
    BY <2>2, <2>3 DEF Live
  <2> QED
    BY <1>2, <2>4, <2>5
<1> QED
  BY <1>3, <1>4, <1>5, <1>6 DEF Deletion, Step

(* The same of the calls on whole subtrees; merging changes no links. *)
Call == heap' = heap \/ \E r \in Rels : Became(heap', heap, r)

LEMMA TreeStep ==
  ASSUME ~ForeignViews, Sane(heap), TreeCall
  PROVE  Call /\ doomed' = doomed
<1>1. PICK from \in InUse(heap), to \in InUse(heap) :
        \/ merge_item(from, to)
        \/ move_item(from, to)
        \/ move_sub_tree(from, to)
        \/ exchange_sub_trees(from, to)
  BY DEF TreeCall
<1>2. /\ Good(heap) /\ from \in Items /\ to \in Items /\ from \in Live(heap)
      /\ heap.rel[from] \in Rels /\ heap.rel[to] \in Rels
  BY DEF Sane, Good, Heap, InUse, Live
<1>3. ASSUME merge_item(from, to) PROVE Call /\ doomed' = doomed
  <2> DEFINE others == {r \in Rels : AsRelation(heap, from, r) \notin {Nil, from}}
             visits == {s \in UNION {[1..k -> others] : k \in 0..Cardinality(others)} :
                          \A a, b \in DOMAIN s : s[a] = s[b] => a = b}
  <2>1. PICK s \in visits : /\ Cardinality(Contents \ heap.mem) > Len(s)
                            /\ Put(MergeItem(heap, from, to, s))
    BY <1>3 DEF merge_item
  <2> HIDE DEF others
  <2>2. /\ \E k \in 0..Cardinality(others) : s \in [1..k -> others]
        /\ \A a, b \in DOMAIN s : s[a] = s[b] => a = b
    OBVIOUS
  <2> HIDE DEF visits
  <2>3. PICK k \in 0..Cardinality(others) : s \in [1..k -> others]
    BY <2>2
  <2>4. others \in SUBSET Rels
    BY DEF others
  <2>5. s \in Seq(Rels) /\ Len(s) \in Nat /\ \A a \in DOMAIN s : s[a] \in others
    BY <2>3, <2>4
  <2>6. Spares(heap, Len(s) + 1)
    <3>1. Cardinality(Contents \ heap.mem) \in Nat
      BY PointerAssumption, FS_Subset, FS_CardinalityType
    <3> QED
      BY <2>1, <2>5, <3>1 DEF Spares
  <2>7. \A a \in DOMAIN s : AsRelation(heap, from, s[a]) \notin {Nil, from}
    BY <2>5 DEF others
  <2>8. heap' = MergeItem(heap, from, to, s) /\ doomed' = doomed
    BY <2>1 DEF Put
  <2>9. Sane(heap') /\ SameLinks(heap', heap)
    BY <2>2, <2>5, <2>6, <2>7, <2>8, MergeItemSane
  <2> QED
    BY <1>2, <2>8, <2>9, SameLinksReach DEF Call, Became
<1>4. ASSUME move_item(from, to) PROVE Call /\ doomed' = doomed
  <2>1. heap' = MoveItem(heap, from, to) /\ doomed' = doomed /\ RoomFor(heap, 0)
    BY <1>4 DEF move_item, Put
  <2>2. Spares(heap, 1)
    <3>1. Spares(heap, 3)
      BY <2>1 DEF RoomFor, Spares
    <3> QED
      BY <3>1, SparesFewer
  <2>3. Became(heap', heap, heap.rel[to])
    BY <2>1, <2>2, MoveItemSane
  <2> QED
    BY <1>2, <2>1, <2>3 DEF Call
<1>5. ASSUME move_sub_tree(from, to) PROVE Call /\ doomed' = doomed
  <2> DEFINE v == AsRelation(heap, from, heap.rel[to])
  <2>1. /\ heap' = MoveSubTree(heap, from, to) /\ doomed' = doomed
        /\ v # Nil /\ v # from => ~InTree(heap, to, v)
        /\ RoomFor(heap, IF v = Nil THEN 0 ELSE Cardinality(Under(heap, v)))
    BY <1>5 DEF move_sub_tree, Put
  <2>2. Became(heap', heap, heap.rel[to])
    BY <2>1, MoveSubTreeSane
  <2> QED
    BY <1>2, <2>1, <2>2 DEF Call
<1>6. ASSUME exchange_sub_trees(from, to) PROVE Call /\ doomed' = doomed
  <2> DEFINE v == AsRelation(heap, from, heap.rel[to])
  <2>1. /\ heap' = ExchangeSubTrees(heap, from, to) /\ doomed' = doomed
        /\ v # Nil /\ ~InTree(heap, v, to) /\ ~InTree(heap, to, v) /\ v = from
        /\ RoomFor(heap, Cardinality(Under(heap, v) \cup Under(heap, to)))
    BY <1>6 DEF exchange_sub_trees, MayExchange, Put
  <2>2. heap.rel[from] = heap.rel[to]
    BY <1>2, <2>1, ViewInUse
  <2> HIDE DEF v
  <2>3. Became(heap', heap, heap.rel[to])
    BY <2>1, <2>2, ExchangeSubTreesSane
  <2> QED
    BY <1>2, <2>1, <2>3 DEF Call
<1> QED
  BY <1>1, <1>3, <1>4, <1>5, <1>6

LEMMA EveryCall ==
  ASSUME ~ForeignViews, IInv, [TreeNext]_vars
  PROVE  Call /\ doomed' \in Contents \cup {Nil}
<1>1. Sane(heap) /\ Whole(heap, Lost(heap)) /\ doomed \in Contents \cup {Nil}
  BY InvMeaning, SaneWhole
<1>2. CASE Next
  <2>1. Step(Lost(heap)) /\ doomed' \in Contents \cup {Nil}
    BY <1>1, <1>2, InsertionStep, DeletionStep DEF Next
  <2>2. ASSUME NEW r \in Rels, Changed(heap', heap, r, Lost(heap)), KeepsLost(heap', heap)
        PROVE  Became(heap', heap, r)
    BY <1>1, <2>2, ChangedSane DEF KeepsLost, Sane
  <2> QED
    BY <2>1, <2>2 DEF Step, Call
<1>3. CASE TreeCall
  BY <1>1, <1>3, TreeStep
<1>4. CASE UNCHANGED vars
  BY <1>1, <1>4 DEF vars, Call
<1> QED
  BY <1>2, <1>3, <1>4 DEF TreeNext

(* The strengthened invariant holds of every utterance, as long as         *)
(* exchange_sub_trees is given two items of one relation.                  *)
THEOREM Invariance ==
  ASSUME ~ForeignViews
  PROVE  TreeSpec => []IInv
<1>1. Init => IInv
  BY InitWhole
<1>2. IInv /\ [TreeNext]_vars => IInv'
  <2> SUFFICES ASSUME IInv, [TreeNext]_vars PROVE IInv'
    OBVIOUS
  <2>1. Sane(heap)
    BY InvMeaning
  <2>2. Sane(heap') /\ doomed' \in Contents \cup {Nil}
    BY <2>1, EveryCall DEF Call, Became
  <2>3. Sane(heap)' /\ (doomed \in Contents \cup {Nil})'
    BY <2>2
  <2> QED
    BY <2>3, InvMeaning, PTL
<1> QED
  BY <1>1, <1>2, PTL DEF TreeSpec

(* The heap holds pointers of the right kinds: in particular every search  *)
(* for a free slot, spare contents or a last daughter finds one.           *)
THEOREM TypeCorrect ==
  ASSUME ~ForeignViews
  PROVE  TreeSpec => []TypeOK
<1>1. IInv => TypeOK
  BY DEF IInv
<1> QED
  BY <1>1, Invariance, PTL

(* No link dangles or leaves its relation, and sibling and parent links    *)
(* agree in both directions, however insertions, deletions and the         *)
(* operations on whole subtrees are mixed.                                 *)
THEOREM LinksStayDouble ==
  ASSUME ~ForeignViews
  PROVE  TreeSpec => []DoubleLinks
<1>1. IInv => DoubleLinks
  BY DEF IInv
<1> QED
  BY <1>1, Invariance, PTL

(* An item and the contents it shares always refer to each other, and      *)
(* contents live exactly as long as an item has them, though merging,      *)
(* copying and exchanging take contents away from items.                   *)
THEOREM ContentsStayShared ==
  ASSUME ~ForeignViews
  PROVE  TreeSpec => []BackPointers
<1>1. IInv => BackPointers
  BY DEF IInv
<1> QED
  BY <1>1, Invariance, PTL

(* From p_head the list of each relation always leads to p_tail, with      *)
(* nothing before the one or after the other.                              *)
THEOREM EndsStayJoined ==
  ASSUME ~ForeignViews
  PROVE  TreeSpec => []EndsMeet
<1>1. IInv => EndsMeet
  BY DEF IInv
<1> QED
  BY <1>1, Invariance, PTL

(* From an item in use every other view of it is again in use: what        *)
(* exchange_sub_trees leaves behind, in no tree, is never come upon.       *)
THEOREM ViewsStayReachable ==
  ASSUME ~ForeignViews
  PROVE  TreeSpec => []ViewsAreReachable
<1>1. IInv => ViewsAreReachable
  <2> SUFFICES ASSUME IInv, NEW i \in InUse(heap), NEW r \in Rels,
                      AsRelation(heap, i, r) # Nil
               PROVE  AsRelation(heap, i, r) \in Tree(heap, heap.head[r])
    BY DEF ViewsAreReachable
  <2>1. Sane(heap)
    BY InvMeaning
  <2>2. AsRelation(heap, i, r) \in InUse(heap) /\ heap.rel[AsRelation(heap, i, r)] = r
    BY <2>1, ViewInUse
  <2> QED
    BY <2>2 DEF InUse
<1> QED
  BY <1>1, Invariance, PTL

LEMMA ElsewhereLinks ==
  ASSUME NEW h, NEW g, NEW r, Elsewhere(g, h, r), NEW q \in Rels \ {r}
  PROVE  LinksOf(h, q) = LinksOf(g, q)
<1>1. {j \in Items : h.rel[j] = q} = {j \in Items : g.rel[j] = q}
  BY DEF Elsewhere
<1>2. h.head[q] = g.head[q] /\ h.tail[q] = g.tail[q]
  BY DEF Elsewhere
<1>3. [i \in {j \in Items : h.rel[j] = q} |-> <<h.n[i], h.p[i], h.u[i], h.d[i]>>]
      = [i \in {j \in Items : g.rel[j] = q} |-> <<g.n[i], g.p[i], g.u[i], g.d[i]>>]
  BY <1>1 DEF Elsewhere
<1> QED
  BY <1>2, <1>3 DEF LinksOf

(* No call touches the links of two relations, those that delete, move or  *)
(* exchange whole subtrees included.                                       *)
THEOREM OthersStayUntouched ==
  ASSUME ~ForeignViews
  PROVE  TreeSpec => OneRelationAtATime
<1>1. IInv /\ [TreeNext]_vars =>
        [\A q, r \in Rels : q # r => LinksOf(heap, q) = LinksOf(heap, q)'
                                   \/ LinksOf(heap, r) = LinksOf(heap, r)']_vars
  <2> DEFINE Apart == \A q, r \in Rels :
                        q # r => LinksOf(heap, q) = LinksOf(heap, q)'
                              \/ LinksOf(heap, r) = LinksOf(heap, r)'
  <2> SUFFICES ASSUME IInv, [TreeNext]_vars PROVE Apart
    OBVIOUS
  <2>1. CASE heap' = heap
    BY <2>1 DEF LinksOf
  <2>2. ASSUME NEW s \in Rels, Became(heap', heap, s) PROVE Apart
    <3>1. \A q \in Rels \ {s} : LinksOf(heap, q) = LinksOf(heap', q)
      BY <2>2, ElsewhereLinks DEF Became
    <3>2. \A q \in Rels \ {s} : LinksOf(heap, q) = LinksOf(heap, q)'
      BY <3>1 DEF LinksOf
    <3> QED
      BY <3>2
  <2> QED
    BY <2>1, <2>2, EveryCall DEF Call
<1> QED
  BY <1>1, Invariance, PTL DEF TreeSpec, OneRelationAtATime

(* Insertions and deletions alone lose no item: whatever is allocated can  *)
(* be walked to from the head of its relation.                             *)
THEOREM NoItemIsLost == Spec => []NoneLost
<1>1. Init => IInv /\ NoneLost
  BY InitWhole
<1>2. IInv /\ NoneLost /\ [Next]_vars => (IInv /\ NoneLost)'
  <2> SUFFICES ASSUME IInv, NoneLost, [Next]_vars PROVE (IInv /\ NoneLost)'
    OBVIOUS
  <2>1. Whole(heap, {}) /\ doomed \in Contents \cup {Nil}
    BY InvMeaning
  <2>2. Step({}) /\ doomed' \in Contents \cup {Nil}
    BY <2>1, InsertionStep, DeletionStep DEF Next, vars, Step
  <2>3. Whole(heap', {})
    BY <2>1, <2>2 DEF Step, Changed
  <2>4. Whole(heap, {})' /\ (doomed \in Contents \cup {Nil})'
    BY <2>2, <2>3
  <2> QED
    BY <2>4, InvMeaning, PTL
<1> QED
  BY <1>1, <1>2, PTL DEF Spec
=============================================================================
