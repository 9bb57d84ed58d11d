---- MODULE MCPagedLookup ----
(* A small instance of PagedLookup: every lookup of the catalog.           *)
EXTENDS PagedLookup

MCReads == Lookups
====
