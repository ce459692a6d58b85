----------------------------- MODULE MCDomainDns -----------------------------
(* A small instance of DomainDns for TLC.                                  *)
EXTENDS DomainDns
=============================================================================
