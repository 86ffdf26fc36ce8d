----------------------- MODULE MC_ConnectionManager -----------------------
(* Three connections on a two-slot table: c1 and c3 share fd 0, so fd 0   *)
(* is reused after c1 goes and a second registration of it is refused;    *)
(* c1 and c3 are auto-destroyable (TCP server connections), c2 is not.    *)
EXTENDS ConnectionManager

CONSTANTS c1, c2, c3

MCCnx == {c1, c2, c3}
MCFdOf == (c1 :> 0) @@ (c2 :> 1) @@ (c3 :> 0)
MCTimeoutOf == (c1 :> 2) @@ (c2 :> 1) @@ (c3 :> 1)
MCAutoDestroy == {c1, c3}

(* Results of send()/receive()/getIoMode(): reading or writing, each with *)
(* or without timeout supervision, a request ready for service, and a     *)
(* broken connection.  No mode is readable and writable at once.          *)
MCIoModes == { {}, {"READABLE"}, {"WRITEABLE"}, {"READABLE", "NEED_TIMEOUT"},
               {"ATTENTION"}, {"DEAD", "HAD_ERROR"} }
(* reset() puts a connection back into its idle, listening mode. *)
MCResetModes == { {"READABLE"}, {} }

(* A connection that is readable and writable at once (a broken TCP       *)
(* connection reports both).                                              *)
MCIoModesDuplex == MCIoModes \cup { {"READABLE", "WRITEABLE"} }
(* A connection that asks for service and keeps its timeout.              *)
MCIoModesAttnTimeout == MCIoModes \cup { {"ATTENTION", "NEED_TIMEOUT"} }
(* A reset that leaves the connection waiting under supervision.          *)
MCResetModesTimeout == MCResetModes \cup { {"READABLE", "NEED_TIMEOUT"} }
=============================================================================
