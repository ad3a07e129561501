----------------------------- MODULE MCAccounts -----------------------------
(***************************************************************************)
(* The accounts for TLC.  Tabs are told apart by nothing but their names.  *)
(***************************************************************************)
EXTENDS Accounts, TLC

Renamings == Permutations(Tabs)
=============================================================================
