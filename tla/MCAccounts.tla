----------------------------- MODULE MCAccounts -----------------------------
(* Two requests and one pass of the worker over three addresses. *)
EXTENDS Accounts
=============================================================================
