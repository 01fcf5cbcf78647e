--------------------------- MODULE MCVaultJournal ---------------------------
(* VaultJournal on two record files, one audit file and three keys. *)
EXTENDS VaultJournal
=============================================================================
