------------------------------- MODULE Overlay -------------------------------
(***************************************************************************)
(* Functions that are written over: the content of a device, a directory   *)
(* of files, a HashMap.  What @@ and :> of module TLC would say, which     *)
(* proofs cannot see into.                                                 *)
(***************************************************************************)

(* g, but f where f is defined.                                            *)
Over(f, g) ==
  [x \in DOMAIN f \union DOMAIN g |-> IF x \in DOMAIN f THEN f[x] ELSE g[x]]

(* g, with k mapped to v.                                                  *)
Put(g, k, v) == [x \in {k} \union DOMAIN g |-> IF x = k THEN v ELSE g[x]]
=============================================================================
