---------------------------- MODULE OffsetFilterMC ----------------------------
(***************************************************************************)
(* Instances of OffsetFilter for TLC (a configuration file cannot hold     *)
(* negative numbers).                                                      *)
(***************************************************************************)
EXTENDS OffsetFilter

\* The server's clock behind the controller's, and ahead of it.
BothSigns == {-6, 9}

===============================================================================
