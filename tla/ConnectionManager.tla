------------------------- MODULE ConnectionManager -------------------------
(***************************************************************************)
(* KssConnectionManager of src/acplt/trunk/ks/src/connectionmgr.cpp, in   *)
(* its dense-table build (PLT_CNXMGR_USE_HT off): the slot table indexed   *)
(* by file descriptor, the two fd sets handed to select(), the timeout     *)
(* list (_active_connections) kept sorted by _best_before, the list of     *)
(* serviceable connections and the statistics.                             *)
(*                                                                         *)
(* The manager is single threaded.  Every public method is one action of  *)
(* the caller, except the two loops processConnections() and              *)
(* processTimeout(): they call out to the connections once per fd, so     *)
(* each loop iteration is a step of its own, and while a loop runs (pc)   *)
(* no caller action is enabled.  A connection is an external object: what *)
(* send(), receive(), reset() and getIoMode() return is chosen from the   *)
(* constant sets of io modes.                                             *)
(***************************************************************************)
EXTENDS Integers, Sequences, SequencesExt, FiniteSets

CONSTANTS
  Cnx,          \* connection objects the caller may register
  FdOf,         \* FdOf[c]: the fd of connection c (getFd())
  TimeoutOf,    \* TimeoutOf[c]: getTimeout() of c, in clock ticks
  AutoDestroy,  \* the connections for which isAutoDestroyable() holds
  FdSetSize,    \* _fdset_size: the table has slots 0 .. FdSetSize-1
  IoModes,      \* io modes send()/receive()/getIoMode() may return
  ResetModes,   \* io modes reset() may return
  NoCnx,        \* a null _connection pointer
  MaxTime,      \* bound on the clock
  MaxErrors,    \* bound on each statistics counter
  MaxServCount  \* bound on _serviceable_count

ASSUME NoCnx \notin Cnx
ASSUME AutoDestroy \subseteq Cnx

Fd == 0 .. FdSetSize - 1

(* The io mode bits of KssConnection::ConnectionIoMode.  CNX_IO_DORMANT   *)
(* is the empty set.                                                      *)
Flag == {"READABLE", "WRITEABLE", "ATTENTION", "NEED_TIMEOUT",
         "HAD_ERROR", "HAD_RX_ERROR", "HAD_TX_ERROR", "DEAD"}
ErrKind == {"HAD_ERROR", "HAD_RX_ERROR", "HAD_TX_ERROR"}
ASSUME IoModes \cup ResetModes \subseteq SUBSET Flag

VARIABLES
  conn,        \* conn[fd]: _connections[fd]._connection
  lastMode,    \* lastMode[fd]: _connections[fd]._last_io_mode
  bestBefore,  \* bestBefore[fd]: _connections[fd]._best_before
  active,      \* the timeout list _active_connections, head first
  serv,        \* the list _serviceable_connections, head first
  rdSet,       \* _readable_fdset
  wrSet,       \* _writeable_fdset
  cnxCount,    \* _connection_count
  servCount,   \* _serviceable_count
  errs,        \* _io_errors, _io_rx_errors, _io_tx_errors
  mgrOf,       \* mgrOf[c]: c was told thisIsMyConnectionManager(this)
  deleted,     \* connections the manager has shut down and deleted
  overrun,     \* a fast write asked for a deeper recursion than one send
  now,         \* PltTime::now()
  pc           \* the loop in progress, if any

mgrVars == <<conn, lastMode, bestBefore, active, serv, rdSet, wrSet,
             cnxCount, servCount, errs, mgrOf, deleted, overrun>>
vars == <<mgrVars, now, pc>>

End == -1   \* the sentinel node that closes a list (no fd is negative)

Idle == [op |-> "idle"]

(***************************************************************************)
(* The manager's state as a record, so that the steps of one method can be *)
(* composed as functions from state to state; Commit makes a record the    *)
(* next state.                                                             *)
(***************************************************************************)
St == [conn |-> conn, lastMode |-> lastMode, bestBefore |-> bestBefore,
       active |-> active, serv |-> serv, rd |-> rdSet, wr |-> wrSet,
       cnxCount |-> cnxCount, servCount |-> servCount, errs |-> errs,
       mgrOf |-> mgrOf, deleted |-> deleted, overrun |-> overrun]

Commit(s) ==
  /\ \A k \in ErrKind : s.errs[k] <= MaxErrors
  /\ s.servCount <= MaxServCount
  /\ conn' = s.conn /\ lastMode' = s.lastMode /\ bestBefore' = s.bestBefore
  /\ active' = s.active /\ serv' = s.serv /\ rdSet' = s.rd /\ wrSet' = s.wr
  /\ cnxCount' = s.cnxCount /\ servCount' = s.servCount /\ errs' = s.errs
  /\ mgrOf' = s.mgrOf /\ deleted' = s.deleted /\ overrun' = s.overrun

(* _PltDLinkedListNode::remove(): unlink a slot from whatever list it is  *)
(* in.                                                                    *)
Unlink(s, fd) ==
  [s EXCEPT !.active = SelectSeq(@, LAMBDA x : x # fd),
            !.serv   = SelectSeq(@, LAMBDA x : x # fd)]

(* getConnectionItem(): the slot of fd, if fd lies inside the table.      *)
HasSlot(fd) == fd \in Fd

(***************************************************************************)
(* The insertion point of the timeout list: starting at the tail, walk     *)
(* back while the predecessor is due later than bb; the slot goes after    *)
(* the node where the walk stops (position 0 is the list head).            *)
(***************************************************************************)
(* Mutant: the slot is appended at the tail, without the backward walk.   *)
InsertPosAtTail(lst, bbOf, bb) == Len(lst)

InsertPos(lst, bbOf, bb) ==
  LET stops == {i \in 1 .. Len(lst) : bbOf[lst[i]] <= bb}
  IN IF stops = {} THEN 0 ELSE Max(stops)

(***************************************************************************)
(* The NEED_TIMEOUT branch of trackCnxIoMode: compute the deadline, take   *)
(* the tail as the start of the walk, unlink the slot, walk back, link     *)
(* after the node found.  The tail is read before the unlink: if the slot  *)
(* itself was the tail, it is linked after itself and ends up in no list.  *)
(***************************************************************************)
TimeoutInsert(s, fd) ==
  LET bb   == now + TimeoutOf[s.conn[fd]]
      it   == IF s.active = <<>> THEN End ELSE Last(s.active)
      u    == [Unlink(s, fd) EXCEPT !.bestBefore[fd] = bb]
      pos  == InsertPos(u.active, u.bestBefore, bb)
  IN IF it = fd THEN u
     ELSE [u EXCEPT !.active = InsertAt(@, pos + 1, fd)]

CountErrors(e, mode) ==
  [k \in ErrKind |-> IF k \in mode THEN e[k] + 1 ELSE e[k]]

(* Mutant: a fast write whenever the mode is writeable, not only when it   *)
(* just became writeable.                                                 *)
FastWriteAlways(last, mode) == "WRITEABLE" \in mode

(* trackCnxIoMode sets fastwrite when WRITEABLE has just been switched on. *)
FastWrite(last, mode) == "WRITEABLE" \in mode /\ "WRITEABLE" \notin last

(***************************************************************************)
(* trackCnxIoMode(item, ioMode).  fws are the results of the send() calls *)
(* the fast write makes, in order; a fast write with none left is recorded *)
(* as an overrun.                                                          *)
(***************************************************************************)
RECURSIVE TrackCnxIoMode(_, _, _, _)
TrackCnxIoMode(s, fd, mode, fws) ==
  LET last       == s.lastMode[fd]
      Changed(f) == (f \in mode) # (f \in last)
      Toggle(set, f) ==
        IF ~Changed(f) THEN set
        ELSE IF f \in mode THEN set \cup {fd} ELSE set \ {fd}
      fastwrite  == FastWrite(last, mode)
      s1 == [s EXCEPT !.rd = Toggle(@, "READABLE"),
                      !.wr = Toggle(@, "WRITEABLE")]
      s2 == IF "ATTENTION" \in mode
              THEN [Unlink(s1, fd) EXCEPT !.serv = <<fd>> \o @,
                                          !.servCount = @ + 1]
              ELSE s1
      s3 == IF ~Changed("NEED_TIMEOUT") THEN s2
            ELSE IF "NEED_TIMEOUT" \in mode THEN TimeoutInsert(s2, fd)
            ELSE IF "ATTENTION" \notin mode THEN Unlink(s2, fd)
            ELSE s2
      s4 == [s3 EXCEPT !.errs = CountErrors(@, mode),
                       !.lastMode[fd] = mode]
  IN IF ~fastwrite THEN s4
     ELSE IF fws = <<>> THEN [s4 EXCEPT !.overrun = TRUE]
     ELSE TrackCnxIoMode(s4, fd, Head(fws), Tail(fws))

(* Mutant: the slot is freed without unlinking it from its list.          *)
RemoveCnxNoUnlink(s, c) ==
  LET fd == FdOf[c]
  IN IF HasSlot(fd) /\ s.conn[fd] # NoCnx
       THEN [s EXCEPT !.mgrOf[s.conn[fd]] = FALSE,
                      !.rd = @ \ {fd}, !.wr = @ \ {fd},
                      !.cnxCount = @ - 1, !.conn[fd] = NoCnx]
       ELSE s

(* Mutant: removeConnection also decrements _serviceable_count.           *)
RemoveCnxDecServ(s, c) ==
  LET fd == FdOf[c]
  IN IF HasSlot(fd) /\ s.conn[fd] # NoCnx
       THEN [Unlink(s, fd) EXCEPT !.mgrOf[s.conn[fd]] = FALSE,
                                  !.rd = @ \ {fd}, !.wr = @ \ {fd},
                                  !.cnxCount = @ - 1,
                                  !.servCount = @ - 1,
                                  !.conn[fd] = NoCnx]
       ELSE s

(* removeConnection(con): look up the slot by con's fd and free it.       *)
RemoveCnx(s, c) ==
  LET fd == FdOf[c]
  IN IF HasSlot(fd) /\ s.conn[fd] # NoCnx
       THEN [Unlink(s, fd) EXCEPT !.mgrOf[s.conn[fd]] = FALSE,
                                  !.rd = @ \ {fd}, !.wr = @ \ {fd},
                                  !.cnxCount = @ - 1,
                                  !.conn[fd] = NoCnx]
       ELSE s

(* removeConnection(con); con->shutdown(); delete con;                    *)
(* Mutant: the connection is deleted without being unregistered first.    *)
DestroyNoRemove(s, c) == [s EXCEPT !.deleted = @ \cup {c}]

Destroy(s, c) == [RemoveCnx(s, c) EXCEPT !.deleted = @ \cup {c}]

(***************************************************************************)
(* What processConnections() does with a connection after send() or        *)
(* receive() returned mode: track it, and if it is dead destroy it or      *)
(* reset(false) and track the result.                                      *)
(***************************************************************************)
AfterIo(s, fd, c, mode, fws, rmode, rfws) ==
  LET t == TrackCnxIoMode(s, fd, mode, fws)
  IN IF "DEAD" \notin mode THEN t
     ELSE IF c \in AutoDestroy THEN Destroy(t, c)
     ELSE TrackCnxIoMode(t, fd, rmode, rfws)

-----------------------------------------------------------------------------
(* Caller actions.  Each needs the manager idle.                          *)

Live == Cnx \ deleted

(* Mutant: addConnection keeps the _last_io_mode the slot's previous      *)
(* connection left behind.                                                *)
AddConnectionKeepMode(c, mode, fws) ==
  LET fd == FdOf[c]
  IN /\ pc = Idle
     /\ HasSlot(fd) /\ conn[fd] = NoCnx
     /\ Commit([TrackCnxIoMode([St EXCEPT !.conn[fd] = c, !.mgrOf[c] = TRUE],
                               fd, mode, fws)
                EXCEPT !.cnxCount = @ + 1])
     /\ UNCHANGED <<now, pc>>

(* Mutant: addConnection without the check that the slot is free.         *)
AddConnectionNoDupCheck(c, mode, fws) ==
  LET fd == FdOf[c]
  IN /\ pc = Idle
     /\ HasSlot(fd)
     /\ Commit([TrackCnxIoMode([St EXCEPT !.conn[fd] = c,
                                          !.lastMode[fd] = {},
                                          !.mgrOf[c] = TRUE],
                               fd, mode, fws)
                EXCEPT !.cnxCount = @ + 1])
     /\ UNCHANGED <<now, pc>>

(* addConnection(con) *)
AddConnection(c, mode, fws) ==
  LET fd == FdOf[c]
  IN /\ pc = Idle
     /\ HasSlot(fd) /\ conn[fd] = NoCnx
     /\ Commit([TrackCnxIoMode([St EXCEPT !.conn[fd] = c,
                                          !.lastMode[fd] = {},
                                          !.mgrOf[c] = TRUE],
                               fd, mode, fws)
                EXCEPT !.cnxCount = @ + 1])
     /\ UNCHANGED <<now, pc>>

(* removeConnection(con) called by the owner of con *)
RemoveConnection(c) ==
  /\ pc = Idle
  /\ HasSlot(FdOf[c]) /\ conn[FdOf[c]] # NoCnx
  /\ Commit(RemoveCnx(St, c))
  /\ UNCHANGED <<now, pc>>

(* resetConnection(con), con.getState() not CNX_STATE_DEAD *)
ResetConnection(c, rmode, fws) ==
  LET fd == FdOf[c]
  IN /\ pc = Idle
     /\ HasSlot(fd) /\ conn[fd] # NoCnx
     /\ Commit(TrackCnxIoMode(St, fd, rmode, fws))
     /\ UNCHANGED <<now, pc>>

(* getNextServiceableConnection() on a non-empty list *)
GetNextServiceable ==
  /\ pc = Idle
  /\ serv # <<>>
  /\ Commit([Unlink(St, Head(serv)) EXCEPT !.servCount = @ - 1])
  /\ UNCHANGED <<now, pc>>

(***************************************************************************)
(* reactivateConnection(con).  mode is con.getIoMode(); con is dead when   *)
(* it says DEAD.  A dead connection that may not be destroyed is reset,    *)
(* and the result of that reset is not tracked.                            *)
(***************************************************************************)
Reactivate(c, mode, fws) ==
  LET fd == FdOf[c]
  IN /\ pc = Idle
     /\ HasSlot(fd) /\ conn[fd] # NoCnx
     /\ \/ /\ "DEAD" \notin mode
           /\ Commit(TrackCnxIoMode(St, fd, mode, fws))
        \/ /\ "DEAD" \in mode /\ c \in AutoDestroy
           /\ Commit(Destroy(St, c))
        \/ /\ "DEAD" \in mode /\ c \notin AutoDestroy
           /\ UNCHANGED mgrVars
     /\ UNCHANGED <<now, pc>>

(***************************************************************************)
(* processConnections(readables, writeables): the caller passes what       *)
(* select() left of the sets getFdSets() gave it.                          *)
(***************************************************************************)
ProcessConnections(w, r) ==
  /\ pc = Idle
  /\ w \cup r # {}
  /\ pc' = [op |-> "io", w |-> w, r |-> r]
  /\ UNCHANGED <<mgrVars, now>>

(***************************************************************************)
(* One iteration of the two loops of processConnections(): the lowest fd   *)
(* of the writables (send()) and, once they are done, of the readables     *)
(* (receive()).  The slot's connection is read without a check: a null     *)
(* one crashes the process.                                                *)
(***************************************************************************)
IoStep(mode, fws, rmode, rfws) ==
  /\ pc.op = "io"
  /\ LET writing == pc.w # {}
         fd      == Min(IF writing THEN pc.w ELSE pc.r)
         c       == conn[fd]
         rest    == IF writing THEN [pc EXCEPT !.w = @ \ {fd}]
                                   ELSE [pc EXCEPT !.r = @ \ {fd}]
     IN IF c = NoCnx
          THEN /\ pc' = [op |-> "crashed"]
               /\ UNCHANGED mgrVars
          ELSE /\ Commit(AfterIo(St, fd, c, mode, fws, rmode, rfws))
               /\ pc' = IF rest.w \cup rest.r = {} THEN Idle ELSE rest
  /\ UNCHANGED now

(* processTimeout(): start the walk at the head of the timeout list.      *)
ProcessTimeout ==
  /\ pc = Idle
  /\ pc' = [op |-> "timeout",
            item |-> IF active = <<>> THEN End ELSE Head(active)]
  /\ UNCHANGED <<mgrVars, now>>

(* The successor of fd in the timeout list. *)
NextInList(fd) ==
  LET i == SelectInSeq(active, LAMBDA x : x = fd)
  IN IF i = Len(active) THEN End ELSE active[i + 1]

(***************************************************************************)
(* One iteration of processTimeout(): the next node is read before the     *)
(* item is handled; the walk ends at the sentinel or at the first item     *)
(* that is not yet due.  A due item is destroyed or reset(true).           *)
(***************************************************************************)
TimeoutStep(rmode, fws) ==
  /\ pc.op = "timeout"
  /\ LET item == pc.item
     IN IF item = End \/ bestBefore[item] > now
          THEN /\ pc' = Idle
               /\ UNCHANGED mgrVars
          ELSE LET c == conn[item]
               IN /\ pc' = [pc EXCEPT !.item = NextInList(item)]
                  /\ IF c \in AutoDestroy
                       THEN Commit(Destroy(St, c))
                       ELSE Commit(TrackCnxIoMode(St, item, rmode, fws))
  /\ UNCHANGED now

(* Time passes between calls (PltTime::now()). *)
Tick ==
  /\ pc = Idle
  /\ now < MaxTime
  /\ now' = now + 1
  /\ UNCHANGED <<mgrVars, pc>>

-----------------------------------------------------------------------------

Init ==
  /\ conn = [fd \in Fd |-> NoCnx]
  /\ lastMode = [fd \in Fd |-> {}]
  /\ bestBefore = [fd \in Fd |-> 0]
  /\ active = <<>> /\ serv = <<>>
  /\ rdSet = {} /\ wrSet = {}
  /\ cnxCount = 0 /\ servCount = 0
  /\ errs = [k \in ErrKind |-> 0]
  /\ mgrOf = [c \in Cnx |-> FALSE]
  /\ deleted = {}
  /\ overrun = FALSE
  /\ now = 0
  /\ pc = Idle

(***************************************************************************)
(* The results of the send() a fast write makes: only a mode with          *)
(* WRITEABLE can start one, so other modes need none.  The results of the  *)
(* reset() of a dead connection: only a DEAD mode leads to one.            *)
(***************************************************************************)
FastSends(m) == IF "WRITEABLE" \in m THEN {<<f>> : f \in IoModes} ELSE {<<>>}
(* A connection is registered alive: getIoMode() then never says DEAD.   *)
AliveModes == {m \in IoModes : "DEAD" \notin m}
ResetsAfter(m) == IF "DEAD" \in m THEN ResetModes ELSE {{}}

Next ==
  \/ \E c \in Live, m \in AliveModes : \E fws \in FastSends(m) :
       AddConnection(c, m, fws)
  \/ \E c \in Live : RemoveConnection(c)
  \/ \E c \in Live, r \in ResetModes : \E fws \in FastSends(r) :
       ResetConnection(c, r, fws)
  \/ GetNextServiceable
  \/ \E c \in Live, m \in IoModes : \E fws \in FastSends(m) :
       Reactivate(c, m, fws)
  \/ \E w \in SUBSET wrSet, r \in SUBSET rdSet : ProcessConnections(w, r)
  \/ \E m \in IoModes : \E fws \in FastSends(m), r \in ResetsAfter(m) :
       \E rfws \in FastSends(r) : IoStep(m, fws, r, rfws)
  \/ ProcessTimeout
  \/ \E r \in ResetModes : \E fws \in FastSends(r) : TimeoutStep(r, fws)
  \/ Tick

(* The loops run to their end: the manager is single threaded and makes   *)
(* no blocking call inside them.                                          *)
Spec ==
  /\ Init /\ [][Next]_vars
  /\ WF_vars(pc.op \in {"io", "timeout"} /\ Next)

-----------------------------------------------------------------------------
(* Properties *)

Registered == {fd \in Fd : conn[fd] # NoCnx}

TypeOK ==
  /\ conn \in [Fd -> Cnx \cup {NoCnx}]
  /\ lastMode \in [Fd -> SUBSET Flag]
  /\ bestBefore \in [Fd -> Nat]
  /\ active \in Seq(Fd) /\ serv \in Seq(Fd)
  /\ rdSet \subseteq Fd /\ wrSet \subseteq Fd
  /\ cnxCount \in Nat /\ servCount \in 0 .. MaxServCount
  /\ errs \in [ErrKind -> 0 .. MaxErrors]
  /\ mgrOf \in [Cnx -> BOOLEAN]
  /\ deleted \subseteq Cnx
  /\ overrun \in BOOLEAN
  /\ now \in 0 .. MaxTime

(***************************************************************************)
(* The timeout list is sorted by deadline, head first: getEarliestTimeout() *)
(* returns the head's _best_before and processTimeout() stops at the first *)
(* item not yet due, both relying on the backward walk of trackCnxIoMode.  *)
(***************************************************************************)
TimeoutListSorted ==
  \A i \in 1 .. Len(active) - 1 :
    bestBefore[active[i]] <= bestBefore[active[i + 1]]

(***************************************************************************)
(* The fd sets handed to select() are exactly the fds of registered slots  *)
(* whose last io mode asks for reading (writing): trackCnxIoMode only      *)
(* touches a bit when the mode bit changed, so this rests on               *)
(* addConnection() resetting _last_io_mode to DORMANT for a reused slot    *)
(* and removeConnection() clearing both bits.                              *)
(***************************************************************************)
PollSetsMirrorModes ==
  \A fd \in Fd :
    /\ fd \in rdSet <=> fd \in Registered /\ "READABLE" \in lastMode[fd]
    /\ fd \in wrSet <=> fd \in Registered /\ "WRITEABLE" \in lastMode[fd]

(***************************************************************************)
(* Every slot linked into the timeout or the serviceable list holds a      *)
(* connection: processTimeout() and getNextServiceableConnection() use the *)
(* slot's _connection without a check.                                     *)
(***************************************************************************)
ListedAreRegistered ==
  \A fd \in ToSet(active) \cup ToSet(serv) : fd \in Registered

(* _connection_count is the number of slots holding a connection.         *)
ConnectionCountExact == cnxCount = Cardinality(Registered)

(***************************************************************************)
(* A connection's back reference to the manager is set exactly while it    *)
(* sits in a slot, and no slot holds a connection the manager deleted.     *)
(***************************************************************************)
BackRefsConsistent ==
  \A c \in Cnx :
    /\ mgrOf[c] <=> \E fd \in Fd : conn[fd] = c
    /\ c \in deleted => \A fd \in Fd : conn[fd] # c

(***************************************************************************)
(* The fast write of trackCnxIoMode recurses at most once: the nested call *)
(* sees WRITEABLE already in _last_io_mode, whatever send() returns.       *)
(***************************************************************************)
FastwriteBounded == ~overrun

(***************************************************************************)
(* _serviceable_count, which processConnections() returns to the caller as *)
(* the number of connections getNextServiceableConnection() will hand out, *)
(* never falls below the length of the serviceable list: a caller that    *)
(* asks that many times serves every waiting connection, and the          *)
(* decrement in getNextServiceableConnection() never wraps.  (The count    *)
(* does drift upwards: trackCnxIoMode counts every ATTENTION report, also  *)
(* for a slot already in the list, and removeConnection() unlinks a        *)
(* serviceable slot without a decrement.)                                  *)
(***************************************************************************)
ServCountCoversList == servCount >= Len(serv)

(***************************************************************************)
(* processConnections() never calls send() or receive() through an empty  *)
(* slot: the handling of one fd (a dead auto-destroyable connection is     *)
(* removed and deleted in the writing loop) must not leave a slot the      *)
(* reading loop then dereferences.                                         *)
(***************************************************************************)
NoNullDereference == pc.op # "crashed"

(***************************************************************************)
(* A slot processTimeout() handles as due leaves the timeout list or gets  *)
(* a new deadline: otherwise getEarliestTimeoutSpan() stays zero and every *)
(* later processTimeout() resets the same connection again.                *)
(***************************************************************************)
DueItemRescheduled ==
  [][pc.op = "timeout" /\ pc.item # End /\ bestBefore[pc.item] <= now
       => pc.item \notin ToSet(active') \/ bestBefore'[pc.item] > now
    ]_vars

(***************************************************************************)
(* A connection that reported DEAD is not left registered where the        *)
(* manager never looks at it again: it is destroyed, or reset, or still    *)
(* polled or listed so that the next send(), receive() or timeout handles  *)
(* it.  The send() of a fast write is the one call whose DEAD result       *)
(* trackCnxIoMode does not check.                                          *)
(***************************************************************************)
DeadNotOrphaned ==
  \A fd \in Registered :
    "DEAD" \in lastMode[fd] =>
      fd \in rdSet \cup wrSet \cup ToSet(active) \cup ToSet(serv)

=============================================================================
