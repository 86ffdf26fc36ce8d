----------------------------- MODULE HashIndex -----------------------------
(***************************************************************************)
(* The fd-to-slot index of KssConnectionManager in its PLT_CNXMGR_USE_HT   *)
(* build (src/acplt/trunk/ks/src/connectionmgr.cpp).  The slots            *)
(* _connections[0 .. _fdset_size-1] are no longer indexed by fd: a free   *)
(* slot is taken from the list _free_entries, and the hash table          *)
(* _hash_table[0 .. 2*_fdset_size-1] maps an fd to its slot.  Each bucket  *)
(* has an overflow table of slot pointers, of which _used are in use and   *)
(* _size are claimed; it grows by Step entries (8 in the code) when full.  *)
(*                                                                         *)
(* Only the index part of addConnection and removeConnection is modelled  *)
(* here; what they do to the fd sets, lists and counters is modelled in   *)
(* ConnectionManager.  new[] may fail (returning null) when AllocMayFail.  *)
(* A write past the memory an overflow table really owns is recorded in   *)
(* memErr, and the model follows the program no further.                  *)
(***************************************************************************)
EXTENDS Integers, Sequences, SequencesExt, FiniteSets, Bitwise

CONSTANTS
  Fds,           \* the fds (SOCKET values) the caller registers
  NSlots,        \* _fdset_size
  GetHash(_),    \* getHash(fd)
  Step,          \* growth of an overflow table (the literal 8)
  AllocMayFail   \* new[] may return null

ASSUME NSlots > 0 /\ Step > 0 /\ \A fd \in Fds : fd >= 0

Slots  == 0 .. NSlots - 1
HTSize == NSlots * 2          \* _hash_table_size
Mask   == HTSize - 1          \* _hash_table_mask
Bucket == 0 .. HTSize - 1
NoFd   == -1                  \* the _fd of a slot never used
NoSlot == -1                  \* a null item pointer

VARIABLES
  free,    \* _free_entries, head (_next) first
  tab,     \* tab[b]: the _used entries of bucket b's _overflow_table
  size,    \* size[b]: bucket b's _size
  alloc,   \* alloc[b]: the entries bucket b's table really owns
  slotFd,  \* slotFd[s]: _connections[s]._fd
  bound,   \* the slots whose _connection is set
  memErr,  \* a write went past an overflow table
  ok,      \* what the last addConnection/removeConnection returned
  call     \* the caller's last call and its fd

vars == <<free, tab, size, alloc, slotFd, bound, memErr, ok, call>>

HashIdx(fd) == GetHash(fd) & Mask

(* The fds of the entries of bucket b, as the scans compare them.          *)
FdsIn(b) == {slotFd[tab[b][i]] : i \in 1 .. Len(tab[b])}

(* The position of fd's entry in bucket b, 0 if there is none.            *)
PosIn(b, fd) ==
  LET hits == {i \in 1 .. Len(tab[b]) : slotFd[tab[b][i]] = fd}
  IN IF hits = {} THEN 0 ELSE Min(hits)

(* Mutant: the scan stops one entry short of _used.                      *)
LookupSkipLast(fd) ==
  LET b == HashIdx(fd)
      hits == {i \in 1 .. Len(tab[b]) - 1 : slotFd[tab[b][i]] = fd}
  IN IF hits = {} THEN NoSlot ELSE tab[b][Min(hits)]

(* getConnectionItem(fd): scan fd's bucket for an entry with this fd.     *)
Lookup(fd) ==
  LET b == HashIdx(fd)
  IN IF PosIn(b, fd) = 0 THEN NoSlot ELSE tab[b][PosIn(b, fd)]

(* The constructor: every slot is linked after _free_entries in turn, so  *)
(* the list runs from the last slot to the first; all buckets are empty. *)
Init ==
  /\ free = [i \in 1 .. NSlots |-> NSlots - i]
  /\ tab = [b \in Bucket |-> <<>>]
  /\ size = [b \in Bucket |-> 0]
  /\ alloc = [b \in Bucket |-> 0]
  /\ slotFd = [s \in Slots |-> NoFd]
  /\ bound = {}
  /\ memErr = FALSE
  /\ ok = FALSE
  /\ call = [op |-> "none", fd |-> -1]

(* The call is recorded when it returns; a call that wrote past a table  *)
(* never returns.                                                         *)
Called(op, fd) == call' = IF memErr' THEN call ELSE [op |-> op, fd |-> fd]

(***************************************************************************)
(* The rest of addConnection once the bucket's table has room, or claims  *)
(* to: take the head of the free list, store it at _overflow_table[_used], *)
(* ++_used, then bind the item if it has no connection yet.  The store    *)
(* lands past the table when _size claims more than alloc owns.            *)
(***************************************************************************)
Claim(b, fd) ==
  \/ /\ free = <<>>
     /\ ok' = FALSE
     /\ UNCHANGED <<free, tab, slotFd, bound, memErr>>
  \/ /\ free # <<>>
     /\ Len(tab[b]) >= alloc'[b]
     /\ memErr' = TRUE
     /\ UNCHANGED <<free, tab, slotFd, bound, ok>>
  \/ /\ free # <<>>
     /\ Len(tab[b]) < alloc'[b]
     /\ LET s == Head(free) IN
          /\ free' = Tail(free)
          /\ tab' = [tab EXCEPT ![b] = Append(@, s)]
          /\ IF s \notin bound
             THEN /\ slotFd' = [slotFd EXCEPT ![s] = fd]
                  /\ bound' = bound \cup {s}
                  /\ ok' = TRUE
             ELSE /\ ok' = FALSE
                  /\ UNCHANGED <<slotFd, bound>>
     /\ UNCHANGED memErr

(* Mutant: the table is grown on every add, not only when it is full.     *)
AddConnectionGrowAlways(fd) ==
  LET b == HashIdx(fd) IN
  /\ ~memErr
  /\ fd \notin FdsIn(b)
  /\ size' = [size EXCEPT ![b] = @ + Step]
  /\ alloc' = [alloc EXCEPT ![b] = size[b] + Step]
  /\ Claim(b, fd)
  /\ Called("add", fd)

(***************************************************************************)
(* addConnection(con), hash-table part: fail on an fd already in the      *)
(* bucket; if the table is full, raise _size by Step and then allocate the *)
(* new table, which may fail; then claim a free slot.                     *)
(***************************************************************************)
AddConnection(fd) ==
  LET b == HashIdx(fd) IN
  /\ ~memErr
  /\ \/ /\ fd \in FdsIn(b)
        /\ ok' = FALSE
        /\ UNCHANGED <<free, tab, size, alloc, slotFd, bound, memErr>>
     \/ /\ fd \notin FdsIn(b)
        /\ Len(tab[b]) = size[b]
        /\ size' = [size EXCEPT ![b] = @ + Step]
        /\ \/ /\ AllocMayFail
              /\ ok' = FALSE
              /\ UNCHANGED <<free, tab, alloc, slotFd, bound, memErr>>
           \/ /\ alloc' = [alloc EXCEPT ![b] = size[b] + Step]
              /\ Claim(b, fd)
     \/ /\ fd \notin FdsIn(b)
        /\ Len(tab[b]) # size[b]
        /\ UNCHANGED <<size, alloc>>
        /\ Claim(b, fd)
  /\ Called("add", fd)

(* Mutant: removeConnection reports success also for an unknown fd.       *)
RemoveConnectionAlwaysTrue(fd) ==
  LET b == HashIdx(fd)
      i == PosIn(b, fd)
  IN /\ ~memErr
     /\ call' = [op |-> "remove", fd |-> fd]
     /\ ok' = TRUE
     /\ IF i # 0 /\ tab[b][i] \in bound
        THEN /\ bound' = bound \ {tab[b][i]}
             /\ tab' = [tab EXCEPT ![b] = RemoveAt(@, i)]
             /\ free' = <<tab[b][i]>> \o free
        ELSE UNCHANGED <<bound, tab, free>>
     /\ UNCHANGED <<size, alloc, slotFd, memErr>>

(* Mutant: --_used without the memmove that closes the gap.               *)
RemoveConnectionNoMemmove(fd) ==
  LET b == HashIdx(fd)
      i == PosIn(b, fd)
  IN /\ ~memErr
     /\ call' = [op |-> "remove", fd |-> fd]
     /\ \/ /\ i # 0 /\ tab[b][i] \in bound
           /\ bound' = bound \ {tab[b][i]}
           /\ tab' = [tab EXCEPT ![b] = SubSeq(@, 1, Len(@) - 1)]
           /\ free' = <<tab[b][i]>> \o free
           /\ ok' = TRUE
        \/ /\ ~(i # 0 /\ tab[b][i] \in bound)
           /\ ok' = FALSE
           /\ UNCHANGED <<bound, tab, free>>
     /\ UNCHANGED <<size, alloc, slotFd, memErr>>

(***************************************************************************)
(* removeConnection(con), hash-table part: find fd's entry, unbind the    *)
(* item, close the gap in the overflow table (memmove), --_used, and link *)
(* the item after _free_entries.                                          *)
(***************************************************************************)
RemoveConnection(fd) ==
  LET b == HashIdx(fd)
      i == PosIn(b, fd)
  IN /\ ~memErr
     /\ call' = [op |-> "remove", fd |-> fd]
     /\ \/ /\ i # 0 /\ tab[b][i] \in bound
           /\ bound' = bound \ {tab[b][i]}
           /\ tab' = [tab EXCEPT ![b] = RemoveAt(@, i)]
           /\ free' = <<tab[b][i]>> \o free
           /\ ok' = TRUE
        \/ /\ ~(i # 0 /\ tab[b][i] \in bound)
           /\ ok' = FALSE
           /\ UNCHANGED <<bound, tab, free>>
     /\ UNCHANGED <<size, alloc, slotFd, memErr>>

(* After a write past a table the program's behaviour is undefined.       *)
Halted == memErr /\ UNCHANGED vars

Next == (\E fd \in Fds : AddConnection(fd) \/ RemoveConnection(fd)) \/ Halted

Spec == Init /\ [][Next]_vars

----------------------------------------------------------------------------
(* The slots the buckets point to, and the map from fd to slot they hold. *)
InTables == UNION {ToSet(tab[b]) : b \in Bucket}

Reg == [fd \in {slotFd[s] : s \in InTables} |->
          CHOOSE s \in InTables : slotFd[s] = fd]

Abs == INSTANCE FdIndex
         WITH reg <- Reg, free <- ToSet(free), MayFail <- AllocMayFail

TypeOK ==
  /\ free \in Seq(Slots)
  /\ tab \in [Bucket -> Seq(Slots)]
  /\ size \in [Bucket -> {k * Step : k \in 0 .. NSlots}]
  /\ alloc \in [Bucket -> {k * Step : k \in 0 .. NSlots}]
  /\ slotFd \in [Slots -> Fds \cup {NoFd}]
  /\ bound \subseteq Slots
  /\ memErr \in BOOLEAN /\ ok \in BOOLEAN

(***************************************************************************)
(* The free list and the overflow tables partition the slots: every slot  *)
(* is linked into the free list or held by one table entry, exactly once; *)
(* an entry sits in the bucket its fd hashes to; no fd has two entries;   *)
(* and the held slots are exactly those with a connection.  addConnection *)
(* takes the slot off the list before it stores it, and removeConnection  *)
(* memmoves the entries behind the gap before it relinks the slot.        *)
(***************************************************************************)
IndexWellFormed ==
  /\ \A s \in Slots :
       Cardinality({i \in 1 .. Len(free) : free[i] = s})
       + Cardinality({<<b, i>> \in Bucket \X (1 .. NSlots) :
                        i <= Len(tab[b]) /\ tab[b][i] = s}) = 1
  /\ \A b \in Bucket : \A i \in 1 .. Len(tab[b]) : HashIdx(slotFd[tab[b][i]]) = b
  /\ \A s, t \in InTables : s # t => slotFd[s] # slotFd[t]
  /\ bound = InTables

(* An overflow table is never written past the memory it owns: _size     *)
(* never claims more room than the last successful new[] gave.           *)
MemorySafe == ~memErr

(* getConnectionItem(fd), which processConnections, resetConnection and  *)
(* reactivateConnection use, finds exactly the slot fd was given.         *)
LookupExact ==
  \A fd \in Fds : Lookup(fd) = IF fd \in DOMAIN Reg THEN Reg[fd] ELSE NoSlot

(* The hash-table index implements the abstract fd-to-slot map: an add    *)
(* fails only for a bound fd, an empty free list or a failed new[], and a *)
(* remove finds every bound fd.                                           *)
FdIndexRefinement == Abs!Spec
=============================================================================
