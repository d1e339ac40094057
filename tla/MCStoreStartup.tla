--------------------------- MODULE MCStoreStartup ---------------------------
(***************************************************************************)
(* Instances of StoreStartup for TLC: processes u, v and w start on one    *)
(* path, which names no file or any database.                              *)
(***************************************************************************)
EXTENDS StoreStartup

CONSTANTS u, v, w
=============================================================================
