---------------------------- MODULE MC_HashIndex ----------------------------
(* getHash for the model: the fd itself, as for small socket numbers.      *)
EXTENDS HashIndex

MCGetHash(fd) == fd
=============================================================================
