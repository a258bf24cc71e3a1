--------------------------- MODULE MCSectionLock ---------------------------
(* Instance of SectionLock for TLC. *)
EXTENDS SectionLock
=============================================================================
