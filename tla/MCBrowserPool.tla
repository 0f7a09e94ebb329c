---------------------------- MODULE MCBrowserPool ----------------------------
(* BrowserPool on a small instance: two slots, the handles are model values. *)
EXTENDS BrowserPool, TLC

Symmetry == Permutations(Handles)

=============================================================================
