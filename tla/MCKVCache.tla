----------------------------- MODULE MCKVCache -----------------------------
(* Small instances of KVCache for TLC: constants that a .cfg cannot write. *)
EXTENDS KVCache

NoShifts   == {}
BackOnly   == {-1}
=============================================================================
