------------------------------ MODULE FdIndex ------------------------------
(***************************************************************************)
(* What the connection manager needs of its fd-to-slot index, whatever    *)
(* its layout (a table indexed by fd, or the hash table of the            *)
(* PLT_CNXMGR_USE_HT build): a partial map reg from fds to slots, no slot  *)
(* given to two fds, and the set of slots still free.                      *)
(*                                                                         *)
(*   add(fd)    binds fd to a free slot and returns true; it returns      *)
(*              false, changing nothing, if fd is bound already, if no     *)
(*              slot is free, or (when MayFail) if memory runs out;       *)
(*   remove(fd) unbinds fd, frees its slot and returns true, or returns   *)
(*              false if fd is not bound.                                  *)
(*                                                                         *)
(* ok is what the last call returned, call the call itself.               *)
(***************************************************************************)
EXTENDS Integers, Functions, FiniteSets

CONSTANTS Fds, Slots, MayFail

VARIABLES reg, free, ok, call

vars == <<reg, free, ok, call>>

Init ==
  /\ reg = [fd \in {} |-> CHOOSE s \in Slots : TRUE]
  /\ free = Slots
  /\ ok = FALSE
  /\ call = [op |-> "none", fd |-> -1]

Add(fd) ==
  /\ call' = [op |-> "add", fd |-> fd]
  /\ \/ /\ fd \notin DOMAIN reg
        /\ \E s \in free :
             /\ reg' = [x \in DOMAIN reg \cup {fd} |->
                          IF x = fd THEN s ELSE reg[x]]
             /\ free' = free \ {s}
        /\ ok' = TRUE
     \/ /\ fd \in DOMAIN reg \/ free = {} \/ MayFail
        /\ ok' = FALSE
        /\ UNCHANGED <<reg, free>>

Remove(fd) ==
  /\ call' = [op |-> "remove", fd |-> fd]
  /\ \/ /\ fd \in DOMAIN reg
        /\ reg' = Restrict(reg, DOMAIN reg \ {fd})
        /\ free' = free \cup {reg[fd]}
        /\ ok' = TRUE
     \/ /\ fd \notin DOMAIN reg
        /\ ok' = FALSE
        /\ UNCHANGED <<reg, free>>

Next == \E fd \in Fds : Add(fd) \/ Remove(fd)

Spec == Init /\ [][Next]_vars

=============================================================================
