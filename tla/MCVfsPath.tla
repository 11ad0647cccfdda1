----------------------------- MODULE MCVfsPath -----------------------------
(* Instances of VfsPath for TLC. *)
EXTENDS VfsPath, TLC

=============================================================================
