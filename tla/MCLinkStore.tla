---------------------------- MODULE MCLinkStore ----------------------------
(* Two clients, two links, one short, one long and the empty content.        *)
EXTENDS LinkStore

CONSTANTS p1, p2, l1, l2, s, b, e

MCProc == {p1, p2}
MCLink == {l1, l2}
MCShort == {e, s}
MCLong == {b}
=============================================================================
