--------------------------- MODULE PriorityQueue ---------------------------
(***************************************************************************)
(* PltPriorityQueue<T> of src/acplt/trunk/plt/include/plt/priorityqueue_   *)
(* impl.h: a binary min-heap in a growable array a_elems[0..a_capacity-1], *)
(* of which a_elems[0..a_size-1] hold the elements.  T is a small set of   *)
(* integers, ordered by <.  size_t is modelled with W bits.                *)
(*                                                                         *)
(* A cell of a fresh array (new T[cap]) holds a value of Fresh until it is *)
(* written: Fresh = Vals for a built-in T, whose cells are uninitialized.  *)
(* grow() copies only a_elems[0..a_size-1], so every cell past a_size of a *)
(* grown array is fresh, while the cells past a_size of an array that did  *)
(* not grow keep the elements that were removed from them.                 *)
(*                                                                         *)
(* An access past a_capacity is recorded in memErr; what follows it is    *)
(* undefined, and the model stops following the method there.             *)
(***************************************************************************)
EXTENDS Integers, FiniteSets, Bags

CONSTANTS
  Vals,      \* the values of T a caller adds
  Fresh,     \* the values an unwritten array cell may hold
  GrowSize,  \* a_growsize
  MaxCap,    \* bound on a_capacity: a grow beyond it fails like new T[]
  W,         \* width of size_t in bits
  Ops        \* the methods the caller uses: "add", "removeFirst", "remove"

ASSUME GrowSize > 0 /\ MaxCap >= GrowSize
ASSUME \A v \in Vals \cup Fresh : v >= 0
ASSUME Ops \subseteq {"add", "removeFirst", "remove"}

VARIABLES
  elems,   \* a_elems, a function on 0 .. a_capacity-1
  size,    \* a_size
  ok,      \* what the last add() or remove() returned
  taken,   \* what the last removeFirst() returned
  memErr,  \* an access has left a_elems[0 .. a_capacity-1]
  call     \* the caller's last call: the method and its argument

vars == <<elems, size, ok, taken, memErr, call>>

NoValue == -1   \* taken before any removeFirst(); no value of T is negative

SizeT == 2 ^ W

Capacity == Cardinality(DOMAIN elems)

NoArray == [i \in {} |-> 0]

LeftChild(i)  == (2 * i + 1) % SizeT
RightChild(i) == (2 * i + 2) % SizeT
Parent(i)     == ((i - 1) % SizeT) \div 2

(***************************************************************************)
(* grow(cap): the arrays new T[cap] followed by the copy of the first sz   *)
(* elements of a may produce.  That new T[cap] may fail is a disjunct of   *)
(* the callers.                                                            *)
(***************************************************************************)
Grow(a, sz, cap) ==
  {[i \in 0 .. cap - 1 |-> IF i < sz THEN a[i] ELSE f[i]] :
     f \in [sz .. cap - 1 -> Fresh]}

(* The upheap loop of add(x): move x up from the hole at i.               *)
RECURSIVE Upheap(_, _, _)
Upheap(a, i, x) ==
  IF i > 0 /\ x < a[Parent(i)]
  THEN Upheap([a EXCEPT ![i] = a[Parent(i)]], Parent(i), x)
  ELSE [a EXCEPT ![i] = x]

(***************************************************************************)
(* downheap(k, v).  Its outcomes are records o: the array o.a and whether  *)
(* the loop read past the array (o.err).  a_elems[rc] is read only when    *)
(* rc < a_size, inside the array, and k only ever holds an index inside   *)
(* it, so a_elems[lc] is the one read that can stray.                     *)
(***************************************************************************)
Put(o, k, v) == [o EXCEPT !.a[k] = v]

(***************************************************************************)
(* a_elems[lc] read past the array yields some T.  Either it is not below *)
(* v, and v is stored at k, or it is moved into a_elems[k] and the loop    *)
(* goes on past the array, where all its later writes fall.               *)
(***************************************************************************)
Astray(o, k, v) ==
  {[a |-> [o.a EXCEPT ![k] = g], err |-> TRUE] : g \in {v} \cup Vals \cup Fresh}

(* Mutant: the smaller child is always taken to be the left one.          *)
RECURSIVE SiftLeftOnly(_, _, _, _, _)
SiftLeftOnly(o, sz, lp, k, v) ==
  LET lc == LeftChild(k) IN
  IF k > lp THEN {Put(o, k, v)}
  ELSE IF lc \notin DOMAIN o.a THEN Astray(o, k, v)
  ELSE IF o.a[lc] >= v THEN {Put(o, k, v)}
  ELSE SiftLeftOnly(Put(o, k, o.a[lc]), sz, lp, lc, v)

RECURSIVE Sift(_, _, _, _, _)
Sift(o, sz, lp, k, v) ==
  LET lc == LeftChild(k)
      rc == (lc + 1) % SizeT
      j  == IF rc < sz /\ o.a[rc] < o.a[lc] THEN rc ELSE lc
  IN IF k > lp THEN {Put(o, k, v)}
     ELSE IF lc \notin DOMAIN o.a THEN Astray(o, k, v)
     ELSE IF o.a[j] >= v THEN {Put(o, k, v)}
     ELSE Sift(Put(o, k, o.a[j]), sz, lp, j, v)

(* last_parent = parent(a_size-1), computed in size_t.                    *)
Downheap(a, sz, k, v) ==
  Sift([a |-> a, err |-> FALSE], sz, Parent((sz - 1) % SizeT), k, v)

(***************************************************************************)
(* locate(node, elem): the index of an element equal to elem in the       *)
(* subtree at node, or sz.  A subtree is searched only if its root is not  *)
(* larger than elem; the right result is tested with if (rfound).          *)
(***************************************************************************)
(* Mutant: the root test written as >= like the subtree tests.           *)
RECURSIVE LocateAtLeast(_, _, _, _)
LocateAtLeast(a, sz, node, elem) ==
  IF elem >= a[node] THEN node
  ELSE LET lc == LeftChild(node)
       IN IF lc < sz /\ elem >= a[lc] THEN LocateAtLeast(a, sz, lc, elem)
          ELSE sz

RECURSIVE Locate(_, _, _, _)
Locate(a, sz, node, elem) ==
  IF elem = a[node] THEN node
  ELSE
    LET lc == LeftChild(node)
        rc == RightChild(node)
        lfound == IF elem >= a[lc] THEN Locate(a, sz, lc, elem) ELSE sz
        rfound == IF rc < sz /\ elem >= a[rc] THEN Locate(a, sz, rc, elem)
                  ELSE 0
    IN IF lc >= sz THEN sz
       ELSE IF lfound < sz THEN lfound
       ELSE IF rfound # 0 THEN rfound
       ELSE sz

----------------------------------------------------------------------------
(* The constructor: grow(a_growsize), whose failure it ignores.          *)
Init ==
  /\ \/ elems \in Grow(NoArray, 0, GrowSize)
     \/ elems = NoArray
  /\ size = 0
  /\ ok = FALSE
  /\ taken = NoValue
  /\ memErr = FALSE
  /\ call = [op |-> "none", arg |-> NoValue]

(* The upheap part of add(x) on the array a, which has room for x.        *)
Insert(a, x) ==
  /\ elems' = Upheap(a, size, x)
  /\ size' = size + 1
  /\ ok' = TRUE
  /\ UNCHANGED <<taken, memErr>>

(* Mutant: add(x) without the test for a full array.                      *)
AddNoGrow(x) ==
  /\ "add" \in Ops
  /\ call' = [op |-> "add", arg |-> x]
  /\ elems' = [i \in DOMAIN elems |-> IF i = size THEN x ELSE elems[i]]
  /\ size' = size + 1 /\ ok' = TRUE /\ UNCHANGED <<taken, memErr>>

(* add(x): grow by a_growsize when full; a failed grow returns false.    *)
Add(x) ==
  /\ "add" \in Ops
  /\ call' = [op |-> "add", arg |-> x]
  /\ \/ size < Capacity /\ Insert(elems, x)
     \/ /\ size = Capacity
        /\ Capacity + GrowSize <= MaxCap
        /\ \E a \in Grow(elems, size, Capacity + GrowSize) : Insert(a, x)
     \/ /\ size = Capacity
        /\ ok' = FALSE
        /\ UNCHANGED <<elems, size, taken, memErr>>

(* Mutant: removeFirst() returns the moved last element v instead of x.   *)
RemoveFirstReturnsV ==
  /\ "removeFirst" \in Ops
  /\ call' = [op |-> "removeFirst", arg |-> NoValue]
  /\ size > 0
  /\ \E o \in Downheap(elems, size - 1, 0, elems[size - 1]) :
       /\ elems' = o.a
       /\ memErr' = (memErr \/ o.err)
  /\ size' = size - 1
  /\ taken' = elems[size - 1]
  /\ UNCHANGED ok

(* removeFirst(): the caller's precondition is a non-empty queue.        *)
RemoveFirst ==
  /\ "removeFirst" \in Ops
  /\ call' = [op |-> "removeFirst", arg |-> NoValue]
  /\ size > 0
  /\ \E o \in Downheap(elems, size - 1, 0, elems[size - 1]) :
       /\ elems' = o.a
       /\ memErr' = (memErr \/ o.err)
  /\ size' = size - 1
  /\ taken' = elems[0]
  /\ UNCHANGED ok

(* remove(elem): fill the hole at loc with the last element, sift down.  *)
Remove(x) ==
  /\ "remove" \in Ops
  /\ call' = [op |-> "remove", arg |-> x]
  /\ size > 0
  /\ LET loc == Locate(elems, size, 0, x) IN
       \/ /\ loc < size
          /\ \E o \in Downheap(elems, size - 1, loc, elems[size - 1]) :
               /\ elems' = o.a
               /\ memErr' = (memErr \/ o.err)
          /\ size' = size - 1
          /\ ok' = TRUE
          /\ UNCHANGED taken
       \/ /\ loc >= size
          /\ ok' = FALSE
          /\ UNCHANGED <<elems, size, taken, memErr>>

Next == \E x \in Vals : Add(x) \/ Remove(x) \/ RemoveFirst

Spec == Init /\ [][Next]_vars

----------------------------------------------------------------------------
(* The elements held, a_elems[0 .. a_size-1], as a bag.                   *)
Contents ==
  [v \in {elems[i] : i \in 0 .. size - 1} |->
     Cardinality({i \in 0 .. size - 1 : elems[i] = v})]

LeastOf(b)  == {x \in BagToSet(b) : \A y \in BagToSet(b) : x <= y}
MemberOf(b) == BagToSet(b)

Strict == INSTANCE PriorityQueueSpec
            WITH contents <- Contents, ok <- ok, taken <- taken,
                 NoValue <- NoValue, call <- call, Pick <- LeastOf,
                 Exact <- TRUE
Loose  == INSTANCE PriorityQueueSpec
            WITH contents <- Contents, ok <- ok, taken <- taken,
                 NoValue <- NoValue, call <- call, Pick <- MemberOf,
                 Exact <- FALSE

TypeOK ==
  /\ Capacity \in 0 .. MaxCap
  /\ size \in 0 .. Capacity
  /\ elems \in [0 .. Capacity - 1 -> Vals \cup Fresh]
  /\ ok \in BOOLEAN
  /\ taken \in Vals \cup {NoValue}
  /\ memErr \in BOOLEAN
  /\ call.arg \in Vals \cup {NoValue}

(* The partial ordering invariant() checks under PLT_DEBUG_INVARIANTS: no *)
(* child is smaller than its parent.                                      *)
HeapOrdered ==
  \A i \in 0 .. size - 1 :
    /\ LeftChild(i) < size => elems[LeftChild(i)] >= elems[i]
    /\ RightChild(i) < size => elems[RightChild(i)] >= elems[i]

(* On the heaps add and removeFirst build, locate(0, x) is exact: it      *)
(* returns the index of an x if the queue holds one and a_size if not,     *)
(* despite testing the right subtree's result with if (rfound) where the   *)
(* left one is tested with lfound < a_size.                                *)
LocateExact ==
  size > 0 =>
    \A x \in Vals :
      LET loc == Locate(elems, size, 0, x) IN
        /\ loc \in 0 .. size
        /\ loc < size => elems[loc] = x
        /\ loc = size => \A i \in 0 .. size - 1 : elems[i] # x

(* Used with add and removeFirst, the heap is a priority queue: add keeps *)
(* every element, removeFirst returns a least one, and the growth of the  *)
(* array, including its failure, never loses an element.                  *)
PQRefinement == Strict!Spec

(* With remove as well, the array at least keeps exactly the elements    *)
(* added and not removed: remove(x) returning true took out one x, and    *)
(* removeFirst returned an element that was there.                        *)
KeepsElements == Loose!Spec

(* downheap never reads or writes past a_elems[a_capacity-1], also when   *)
(* it runs on the queue that removeFirst or remove has just emptied.      *)
MemorySafe == ~memErr
=============================================================================
