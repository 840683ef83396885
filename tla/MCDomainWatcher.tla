--------------------------- MODULE MCDomainWatcher ---------------------------
(* Bounded instances of DomainWatcher for TLC.                             *)
EXTENDS DomainWatcher
=============================================================================
