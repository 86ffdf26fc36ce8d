------------------------------ MODULE XdrStub ------------------------------
(***************************************************************************)
(* The XDR glue of src/acplt/trunk/ks/include/ks/xdr.h: the C stub         *)
(* xdr_<class>(xdrs, pp) that KS_IMPL_XDR_C expands to, and the factory    *)
(* methods xdrNew() behind its XDR_DECODE case: KS_IMPL_XDRNEW with        *)
(* KS_IMPL_XDRCTOR for a plain streamable class, KS_BEGIN_IMPL_XDRUNION /  *)
(* KS_XDR_MAP / KS_END_IMPL_XDRUNION for an abstract union base.           *)
(*                                                                         *)
(* The stubs are called by the RPC layer, one call at a time; each call is *)
(* one step.  The caller holds one pointer per stub ("plain" for a class   *)
(* of the first kind, "union" for a union base).  Objects are model        *)
(* values; heap maps each object on the heap to "decoded" or "partial" (a  *)
(* constructor whose xdrDecode() failed, or whose common part failed).     *)
(* What comes off the wire is chosen at each call: the enum may not        *)
(* decode, the typecode may be unknown, any decode may fail.               *)
(***************************************************************************)
EXTENDS FiniteSets, Functions, TLC

CONSTANTS
  Objs,            \* heap cells new may return
  Null,            \* the null pointer
  Codes,           \* typecodes that may arrive on the wire
  Mapped,          \* the typecodes with a KS_XDR_MAP line
  AllocMayFail,    \* new may return 0
  CommonMayFail    \* the union base overrides xdrDecodeCommon()

ASSUME Null \notin Objs /\ Mapped \subseteq Codes

Stubs == {"plain", "union"}
Ops == {"ENCODE", "DECODE", "FREE"}

VARIABLES
  pp,     \* pp[s]: the caller's pointer handed to stub s
  heap,   \* the objects on the heap and whether they are fully decoded
  ret,    \* the bool_t the last call returned
  call    \* the last call: which stub, which x_op (for the properties)

vars == <<pp, heap, ret, call>>

(* delete p *)
Delete(h, o) == Restrict(h, DOMAIN h \ {o})

(***************************************************************************)
(* p = new derived(xdrs, ok), the constructor being KS_IMPL_XDRCTOR's:     *)
(* ok = xdrDecode(xdr).  The outcomes [p, ok, h]: new returned 0 (the      *)
(* constructor does not run, ok stays false), or a fresh cell holding an   *)
(* object whose decode succeeded or failed.                                *)
(***************************************************************************)
NewDecoded(h) ==
  (IF AllocMayFail THEN {[p |-> Null, ok |-> FALSE, h |-> h]} ELSE {})
  \cup {[p |-> o, ok |-> b, h |-> h @@ (o :> IF b THEN "decoded" ELSE "partial")]
          : o \in Objs \ DOMAIN h, b \in BOOLEAN}

(* Mutant: the failed object is dropped but not deleted.                  *)
DropIfFailedNoDelete(r) ==
  IF ~r.ok /\ r.p # Null THEN [r EXCEPT !.p = Null] ELSE r

(* Mutant: the test reads `if (!ok && !p)`.                               *)
DropIfFailedNotP(r) ==
  IF ~r.ok /\ r.p = Null THEN [r EXCEPT !.p = Null] ELSE r

(* if (!ok && p) { delete p; p = 0; }                                     *)
DropIfFailed(r) ==
  IF ~r.ok /\ r.p # Null THEN [r EXCEPT !.p = Null, !.h = Delete(@, r.p)]
  ELSE r

(* classname::xdrNew(xdrs) of KS_IMPL_XDRNEW.                              *)
XdrNewPlain(h) == {DropIfFailed(r) : r \in NewDecoded(h)}

(* Mutant: a failed xdrDecodeCommon() returns 0 without the delete.       *)
DecodeCommonNoDelete(r) ==
  IF r.p = Null THEN {r}
  ELSE {r} \cup (IF CommonMayFail THEN {[r EXCEPT !.p = Null]} ELSE {})

(* if (p) { if (!p->xdrDecodeCommon(xdrs)) { delete p; return 0; } }      *)
DecodeCommon(r) ==
  IF r.p = Null THEN {r}
  ELSE {r} \cup (IF CommonMayFail
                   THEN {[r EXCEPT !.p = Null, !.h = Delete(@, r.p)]}
                   ELSE {})

(***************************************************************************)
(* base::xdrNew(xdrs) of KS_BEGIN_IMPL_XDRUNION ... KS_END_IMPL_XDRUNION:  *)
(* p stays 0 when xdr_enum() fails or the typecode has no KS_XDR_MAP case; *)
(* a mapped case constructs as KS_IMPL_XDRNEW does, then the common part   *)
(* is decoded.                                                             *)
(***************************************************************************)
UnionNew(h) ==
  LET none == [p |-> Null, ok |-> FALSE, h |-> h] IN
  {none}
  \cup (IF Codes \ Mapped # {} THEN {none} ELSE {})
  \cup UNION {DecodeCommon(DropIfFailed(r)) : r \in NewDecoded(h)}

XdrNew(s, h) == IF s = "union" THEN UnionNew(h) ELSE XdrNewPlain(h)

-----------------------------------------------------------------------------
(* xdr_<class>(xdrs, pp), one action per x_op.                             *)

(* Mutant: the stub returns the pointer itself, not *pp != 0.            *)
XdrDecodeRetPtr(s) ==
  /\ pp[s] = Null
  /\ \E r \in XdrNew(s, heap) :
       /\ pp' = [pp EXCEPT ![s] = r.p]
       /\ heap' = r.h
       /\ ret' = r.p
  /\ call' = [stub |-> s, op |-> "DECODE"]

(* case XDR_DECODE: *pp = classname::xdrNew(xdrs); return *pp != 0;       *)
(* The RPC layer hands in a zeroed pointer to decode into.                *)
XdrDecode(s) ==
  /\ pp[s] = Null
  /\ \E r \in XdrNew(s, heap) :
       /\ pp' = [pp EXCEPT ![s] = r.p]
       /\ heap' = r.h
       /\ ret' = (r.p # Null)
  /\ call' = [stub |-> s, op |-> "DECODE"]

(* case XDR_ENCODE: if (!*pp) return FALSE; else the object's xdrEncode().  *)
(* The encoder may run out of buffer, so either result is possible.       *)
EncodeResult(s) == IF pp[s] = Null THEN {FALSE} ELSE BOOLEAN

XdrEncode(s) ==
  /\ ret' \in EncodeResult(s)
  /\ call' = [stub |-> s, op |-> "ENCODE"]
  /\ UNCHANGED <<pp, heap>>

(***************************************************************************)
(* case XDR_FREE: if (!*pp) { delete *pp; *pp = 0; return TRUE; } and,     *)
(* with no break, on into case XDR_ENCODE for a non-null pointer.         *)
(***************************************************************************)
XdrFree(s) ==
  /\ \/ /\ pp[s] = Null
        /\ ret' = TRUE
     \/ /\ pp[s] # Null
        /\ ret' \in EncodeResult(s)
  /\ call' = [stub |-> s, op |-> "FREE"]
  /\ UNCHANGED <<pp, heap>>

(* The owner of a decoded object deletes it itself: delete p; p = 0;      *)
OwnerDelete(s) ==
  /\ pp[s] # Null
  /\ heap' = Delete(heap, pp[s])
  /\ pp' = [pp EXCEPT ![s] = Null]
  /\ call' = [stub |-> s, op |-> "delete"]
  /\ UNCHANGED ret

Init ==
  /\ pp = [s \in Stubs |-> Null]
  /\ heap = <<>>
  /\ ret = FALSE
  /\ call = [stub |-> "plain", op |-> "none"]

Next ==
  \E s \in Stubs :
    \/ XdrDecode(s)
    \/ XdrEncode(s)
    \/ XdrFree(s)
    \/ OwnerDelete(s)

Spec == Init /\ [][Next]_vars

-----------------------------------------------------------------------------
(* Properties *)

TypeOK ==
  /\ pp \in [Stubs -> Objs \cup {Null}]
  /\ DOMAIN heap \subseteq Objs
  /\ \A o \in DOMAIN heap : heap[o] \in {"decoded", "partial"}
  /\ ret \in BOOLEAN
  /\ call.stub \in Stubs /\ call.op \in Ops \cup {"delete", "none"}

(***************************************************************************)
(* Nothing the factories allocate is lost and no pointer dangles: the      *)
(* objects on the heap are exactly those the caller's pointers hold.  This *)
(* rests on every failure path of xdrNew() deleting what it made (a failed *)
(* constructor decode, a failed xdrDecodeCommon()) before returning 0.     *)
(***************************************************************************)
NoLeak == DOMAIN heap = {pp[s] : s \in Stubs} \ {Null}

(***************************************************************************)
(* The caller is never handed a half-decoded object: a pointer an          *)
(* XDR_DECODE stored holds an object whose constructor decode and common   *)
(* part both succeeded.                                                    *)
(***************************************************************************)
HeldAreDecoded == \A s \in Stubs : pp[s] # Null => heap[pp[s]] = "decoded"

(***************************************************************************)
(* xdr_<class>(XDR_FREE) releases what *pp holds and leaves *pp null, as   *)
(* the XDR_FREE case's own body (delete, then *pp = 0) intends and as      *)
(* xdr_free() promises the RPC layer that calls it.                        *)
(***************************************************************************)
FreeReleases ==
  [][\A s \in Stubs :
       call' = [stub |-> s, op |-> "FREE"]
         => pp'[s] = Null /\ pp[s] \notin DOMAIN heap']_vars

=============================================================================
