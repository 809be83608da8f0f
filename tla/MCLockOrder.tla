---------------------------- MODULE MCLockOrder ----------------------------
(* Instances of LockOrder for TLC: every call but the quad loaders, and the *)
(* quad loaders alone.                                                      *)
EXTENDS LockOrder, TLC

Ordered == Op \ {"dataset"}

Sessions == Permutations(Session)
=============================================================================
