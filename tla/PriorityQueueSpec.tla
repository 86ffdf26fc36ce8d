------------------------- MODULE PriorityQueueSpec -------------------------
(***************************************************************************)
(* What PltPriorityQueue<T> promises its callers, with no array in sight:  *)
(* a multiset of elements and the values the last calls returned.         *)
(*                                                                         *)
(*   add(x)        puts one x in, or returns false when memory runs out;  *)
(*   removeFirst() on a non-empty queue takes out and returns an element   *)
(*                 of Pick(contents);                                      *)
(*   remove(x)     takes out one x and returns true, or returns false and *)
(*                 leaves the queue alone.                                 *)
(*                                                                         *)
(* Two constants make this one module serve as two promises.  Pick(b) is  *)
(* the set of elements removeFirst may return: the minima of b for a       *)
(* priority queue, all of b for a container that merely never loses or    *)
(* invents an element.  When Exact holds, remove(x) returns false only if *)
(* there is no x to remove.  ok is what add and remove returned last,     *)
(* taken what removeFirst returned last (NoValue before the first call),   *)
(* call the method last called and its argument.                           *)
(***************************************************************************)
EXTENDS Integers, Bags

CONSTANTS Vals, Pick(_), Exact, NoValue

ASSUME NoValue \notin Vals

VARIABLES contents, ok, taken, call

vars == <<contents, ok, taken, call>>

Call(op, x) == [op |-> op, arg |-> x]

Init ==
  contents = EmptyBag /\ ok = FALSE /\ taken = NoValue
    /\ call = Call("none", NoValue)

Add(x) ==
  /\ call' = Call("add", x)
  /\ UNCHANGED taken
  /\ \/ contents' = contents (+) SetToBag({x}) /\ ok' = TRUE
     \/ UNCHANGED contents /\ ok' = FALSE

RemoveFirst ==
  /\ contents # EmptyBag
  /\ call' = Call("removeFirst", NoValue)
  /\ UNCHANGED ok
  /\ \E x \in Pick(contents) :
       contents' = contents (-) SetToBag({x}) /\ taken' = x

Remove(x) ==
  /\ contents # EmptyBag
  /\ call' = Call("remove", x)
  /\ UNCHANGED taken
  /\ \/ BagIn(x, contents) /\ contents' = contents (-) SetToBag({x})
        /\ ok' = TRUE
     \/ (~Exact \/ ~BagIn(x, contents)) /\ UNCHANGED contents /\ ok' = FALSE

Next == \E x \in Vals : Add(x) \/ Remove(x) \/ RemoveFirst

Spec == Init /\ [][Next]_vars

=============================================================================
