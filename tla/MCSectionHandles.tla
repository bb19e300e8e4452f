--------------------------- MODULE MCSectionHandles ---------------------------
(* Two clients, up to three sections, three places for a wrapper: the allocator *)
(* may take a place again or another one.                                    *)
EXTENDS SectionHandles, TLC

Symmetry == Permutations(Addrs) \cup Permutations(Clients)
=============================================================================
