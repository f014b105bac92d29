------------------------------ MODULE Overlays -------------------------------
(***************************************************************************)
(* Rows added beside those a table has, entries beside those of a map.     *)
(***************************************************************************)

\* f, and g where f has no value.
Overlay(f, g) ==
  [x \in DOMAIN f \cup DOMAIN g |-> IF x \in DOMAIN f THEN f[x] ELSE g[x]]

=============================================================================
