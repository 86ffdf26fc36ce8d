------------------------------- MODULE Sorter -------------------------------
(***************************************************************************)
(* KscSorter and KscSorterBucket (src/acplt/trunk/ks/src/sorter.cpp).     *)
(*                                                                         *)
(* A sorter is built over a package and sorts the variables of that        *)
(* package and of all its sub-packages into buckets, one per key           *)
(* (av module, server), kept in a hash table.  The sub-packages are sorted *)
(* by sorters of their own, whose buckets are then merged in.  Every       *)
(* allocation may fail (when AllocMayFail): an iterator, a bucket, a hash  *)
(* table entry, a list node.  The caller then drains the table bucket by   *)
(* bucket and takes the sorted variables out of each bucket.               *)
(*                                                                         *)
(* sortVars runs to its end without calling out to anything that could    *)
(* interleave, so the whole of it is one step (Sort), computed by the      *)
(* RECURSIVE operators below as the set of its possible outcomes.  An     *)
(* outcome is [ok, tab, failed]: the value of ok, the table, and whether   *)
(* an allocation failed on the way (a history flag, not a program         *)
(* variable).  A table is a function from the keys present to the bucket's *)
(* list of variables.                                                      *)
(***************************************************************************)
EXTENDS Integers, Sequences, FiniteSets, FiniteSetsExt, Functions, TLC

CONSTANTS
  Vars, Servers, Avms, NoAvm, NoServer,
  Pkgs, Root,
  SubPkgs,       \* SubPkgs[p]: p's sub-packages, in iteration order
  VarsOf,        \* VarsOf[p]: p's variables, in iteration order
  ServerOf, VarAvm, PkgAvm, ServerAvm, ClientAvm,
  Dirty, DirtyOnly, AllocMayFail

ASSUME NoAvm \notin Avms /\ NoServer \notin Servers

Keys == (Avms \cup {NoAvm}) \X Servers
NoKey == <<NoAvm, NoServer>>
NoBucket == [key |-> NoKey, vars |-> <<>>]

VARIABLES phase, valid, table, cur, out, failed

vars == <<phase, valid, table, cur, out, failed>>

(* Mutant: the package's av module takes precedence over the variable's.  *)
FindAvModulePkgFirst(v, p) ==
  CASE PkgAvm[p] # NoAvm            -> PkgAvm[p]
    [] VarAvm[v] # NoAvm            -> VarAvm[v]
    [] ServerAvm[ServerOf[v]] # NoAvm -> ServerAvm[ServerOf[v]]
    [] OTHER                        -> ClientAvm

(* findAvModule(var): the variable's own av module, else the package's,   *)
(* else its server's, else the client's.                                  *)
FindAvModule(v, p) ==
  CASE VarAvm[v] # NoAvm            -> VarAvm[v]
    [] PkgAvm[p] # NoAvm            -> PkgAvm[p]
    [] ServerAvm[ServerOf[v]] # NoAvm -> ServerAvm[ServerOf[v]]
    [] OTHER                        -> ClientAvm

(* Mutant: the key built with its two parts swapped.                      *)
SortKeySwapped(v, p) == <<ServerOf[v], FindAvModule(v, p)>>

(* Key key(findAvModule(current), current->getServer()).                  *)
SortKey(v, p) == <<FindAvModule(v, p), ServerOf[v]>>

(* The failure branch of an allocation: ok becomes false.                 *)
Fail(o) == [o EXCEPT !.ok = FALSE, !.failed = TRUE]
MayFail(o) == IF AllocMayFail THEN {Fail(o)} ELSE {}

(* KscSorterBucket::add(var): append to var_lst, whose node may not be    *)
(* allocated; ok is set to the result.                                     *)
BucketAddVar(o, k, v) ==
  {[o EXCEPT !.tab[k] = Append(@, v), !.ok = TRUE]} \cup MayFail(o)

(* One pass of the first loop of sortVars: skip a clean variable when     *)
(* fDirtyOnly; add it to the bucket of its key, or create the bucket      *)
(* (new may fail) and enter it in the table (which may fail: the bucket   *)
(* is dropped), then add the variable (which may fail, leaving an empty    *)
(* bucket in the table).                                                   *)
SortVar(o, v, p) ==
  LET k == SortKey(v, p) IN
  IF DirtyOnly /\ v \notin Dirty THEN {o}
  ELSE IF k \in DOMAIN o.tab THEN BucketAddVar(o, k, v)
  ELSE MayFail(o)
       \cup BucketAddVar([o EXCEPT !.tab = @ @@ (k :> <<>>)], k, v)

RECURSIVE SortVarList(_, _, _)
SortVarList(o, vs, p) ==
  IF vs = <<>> \/ ~o.ok THEN {o}
  ELSE UNION {SortVarList(o2, Tail(vs), p) : o2 \in SortVar(o, Head(vs), p)}

(* Mutant: the move stops while one variable is still in hbucket.        *)
RECURSIVE MoveVarsLeaveLast(_, _, _)
MoveVarsLeaveLast(o, k, b) ==
  IF Len(b) <= 1 THEN {[o EXCEPT !.ok = TRUE]}
  ELSE UNION {MoveVarsLeaveLast(o2, k, Tail(b)) :
                o2 \in {[o EXCEPT !.tab[k] = Append(@, Head(b))]}}
       \cup MayFail(o)

(* KscSorterBucket::add(hbucket): move the variables one by one while the *)
(* adds succeed; whatever is left in hbucket is dropped with it.           *)
RECURSIVE MoveVars(_, _, _)
MoveVars(o, k, b) ==
  IF b = <<>> THEN {[o EXCEPT !.ok = TRUE]}
  ELSE UNION {MoveVars(o2, k, Tail(b)) :
                o2 \in {[o EXCEPT !.tab[k] = Append(@, Head(b))]}}
       \cup MayFail(o)

(* One bucket taken from the sub-sorter: added to the matching bucket, or *)
(* entered in the table itself.  Either way ok is overwritten.             *)
MergeBucket(o, k, b) ==
  IF k \in DOMAIN o.tab THEN MoveVars(o, k, b)
  ELSE {[o EXCEPT !.tab = @ @@ (k :> b), !.ok = TRUE]} \cup MayFail(o)

(* while(!sub_sorter.isEmpty()): removeFirst() takes the buckets in hash  *)
(* iteration order, so in any order.                                       *)
RECURSIVE Drain(_, _)
Drain(o, sub) ==
  IF DOMAIN sub = {} THEN {o}
  ELSE UNION {UNION {Drain(o2, Restrict(sub, DOMAIN sub \ {k})) :
                       o2 \in MergeBucket(o, k, sub[k])} : k \in DOMAIN sub}

RECURSIVE SortVars(_), SubLoop(_, _)

(* The second loop of sortVars: a sorter per sub-package, valid or not,   *)
(* and its buckets merged in; the loop stops once ok is false.             *)
SubLoop(o, qs) ==
  IF qs = <<>> \/ ~o.ok THEN {o}
  ELSE UNION {
         IF s.ok
         THEN UNION {SubLoop(o2, Tail(qs)) :
                       o2 \in Drain([o EXCEPT !.failed = @ \/ s.failed], s.tab)}
         ELSE {[o EXCEPT !.ok = FALSE, !.failed = @ \/ s.failed]}
         : s \in SortVars(Head(qs))}

(* sortVars() on package p, from a fresh sorter: either iterator may fail *)
(* to be allocated, which returns false at once.                           *)
SortVars(p) ==
  LET o0 == [ok |-> TRUE, tab |-> <<>>, failed |-> FALSE] IN
  MayFail(o0)
  \cup UNION {IF ~o1.ok THEN {o1} ELSE MayFail(o1) \cup SubLoop(o1, SubPkgs[p])
              : o1 \in SortVarList(o0, VarsOf[p], p)}

-----------------------------------------------------------------------------

Init ==
  /\ phase = "new"
  /\ valid = FALSE
  /\ table = <<>>
  /\ cur = NoBucket
  /\ out = [x \in Keys \X Vars |-> 0]
  /\ failed = FALSE

(* The constructor KscSorter(pkg, dirtyOnly): its validity is the result *)
(* of sortVars().                                                          *)
Sort ==
  /\ phase = "new"
  /\ \E o \in SortVars(Root) :
       /\ valid' = o.ok
       /\ table' = o.tab
       /\ failed' = o.failed
  /\ phase' = "sorted"
  /\ UNCHANGED <<cur, out>>

(* The caller takes a new bucket only once it has taken the variables out *)
(* of the one it holds.                                                    *)
CallerIdle == phase = "sorted" /\ cur.vars = <<>>

(* KscSorter::removeFirst(): the first bucket of the hash iteration, or a *)
(* null handle when the table is empty.                                    *)
RemoveFirst ==
  /\ CallerIdle
  /\ \/ \E k \in DOMAIN table :
          /\ cur' = [key |-> k, vars |-> table[k]]
          /\ table' = Restrict(table, DOMAIN table \ {k})
     \/ /\ DOMAIN table = {}
        /\ cur' = NoBucket
        /\ UNCHANGED table
  /\ UNCHANGED <<phase, valid, out, failed>>

(* KscSorter::removeMatchingBucket(bucket): remove the bucket of the key  *)
(* of a bucket the caller got elsewhere; a null handle if there is none.   *)
RemoveMatchingBucket(k) ==
  /\ CallerIdle
  /\ cur' = IF k \in DOMAIN table THEN [key |-> k, vars |-> table[k]]
            ELSE NoBucket
  /\ table' = Restrict(table, DOMAIN table \ {k})
  /\ UNCHANGED <<phase, valid, out, failed>>

(* KscSorterBucket::getSortedVars(): an array of size() handles, or an   *)
(* empty one, leaving the bucket alone, when it cannot be allocated;      *)
(* otherwise the list is emptied into the array, which is then sorted.    *)
GetSortedVars ==
  /\ phase = "sorted"
  /\ cur.vars # <<>>
  /\ \/ /\ cur' = [cur EXCEPT !.vars = <<>>]
        /\ out' = [x \in DOMAIN out |->
                     out[x] + IF x[1] = cur.key
                              THEN Len(SelectSeq(cur.vars, LAMBDA w : w = x[2]))
                              ELSE 0]
     \/ AllocMayFail /\ UNCHANGED <<cur, out>>
  /\ UNCHANGED <<phase, valid, table, failed>>

Next ==
  \/ Sort
  \/ RemoveFirst
  \/ \E k \in Keys : RemoveMatchingBucket(k)
  \/ GetSortedVars

Spec == Init /\ [][Next]_vars

-----------------------------------------------------------------------------

TypeOK ==
  /\ phase \in {"new", "sorted"}
  /\ valid \in BOOLEAN /\ failed \in BOOLEAN
  /\ DOMAIN table \subseteq Keys
  /\ \A k \in DOMAIN table : table[k] \in Seq(Vars)
  /\ cur.key \in Keys \cup {NoKey} /\ cur.vars \in Seq(Vars)
  /\ out \in [Keys \X Vars -> Nat]

(* The reference: the packages of the tree under Root, and for each       *)
(* selected variable of each package the key it belongs under, the first  *)
(* av module that is set along variable, package, server, client.         *)
RECURSIVE Subtree(_)
Subtree(p) == {p} \cup UNION {Subtree(q) : q \in Range(SubPkgs[p])}

NearestAvm(v, p) ==
  LET chain == <<VarAvm[v], PkgAvm[p], ServerAvm[ServerOf[v]], ClientAvm>>
      set   == {i \in 1..4 : chain[i] # NoAvm}
  IN  IF set = {} THEN NoAvm ELSE chain[Min(set)]

Occurrences(s, v) == Len(SelectSeq(s, LAMBDA w : w = v))

Expected(k, v) ==
  IF DirtyOnly /\ v \notin Dirty THEN 0
  ELSE MapThenSumSet(LAMBDA p : IF <<NearestAvm(v, p), ServerOf[v]>> = k
                                THEN Occurrences(VarsOf[p], v) ELSE 0,
                     Subtree(Root))

(* How often v is under key k: in the table, in the bucket the caller     *)
(* holds, and among the variables getSortedVars has handed out.           *)
Held(k, v) ==
  (IF k \in DOMAIN table THEN Occurrences(table[k], v) ELSE 0)
  + (IF cur.key = k THEN Occurrences(cur.vars, v) ELSE 0)
  + out[<<k, v>>]

(* Whatever allocations fail, sortVars and the buckets' moves never put a *)
(* variable under another key than its own (findAvModule), never hand one *)
(* out twice, and never invent one: merging sub-sorter buckets moves each  *)
(* variable at most once.                                                  *)
NothingMisplaced ==
  phase = "sorted" => \A k \in Keys, v \in Vars : Held(k, v) <= Expected(k, v)

(* When no allocation fails, the sorter is valid and every selected        *)
(* variable of the package and of all its sub-packages, however deep, is  *)
(* in the bucket of its key, in the caller's hands or handed out.          *)
CompleteUnlessFailed ==
  phase = "sorted" /\ ~failed =>
    valid /\ \A k \in Keys, v \in Vars : Held(k, v) = Expected(k, v)

(* A valid sorter holds every selected variable: sortVars returns false   *)
(* whenever it lost one.                                                   *)
ValidMeansComplete ==
  phase = "sorted" /\ valid =>
    \A k \in Keys, v \in Vars : Held(k, v) = Expected(k, v)

=============================================================================
