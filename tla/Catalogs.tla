-------------------------------- MODULE Catalogs --------------------------------
(***************************************************************************)
(* Catalogues that are put together from groups, entries by their keys.    *)
(***************************************************************************)

\* The entries of both, of which no key is in both.
f ++ g == [k \in DOMAIN f \cup DOMAIN g |-> IF k \in DOMAIN f THEN f[k] ELSE g[k]]
=================================================================================
