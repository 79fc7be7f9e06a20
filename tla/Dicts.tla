-------------------------------- MODULE Dicts --------------------------------
(***************************************************************************)
(* Python's dictionaries as functions: keywords, documents, tables by key. *)
(* (TLC's own operators for this have no definition a proof can use.)      *)
(***************************************************************************)

\* d.get(key, default)
Given(dict, key, default) == IF key \in DOMAIN dict THEN dict[key] ELSE default

\* d[key] = value
With(dict, key, value) ==
  [k \in DOMAIN dict \cup {key} |-> IF k = key THEN value ELSE dict[k]]

\* dict.update(more)
Updated(dict, more) ==
  [k \in DOMAIN dict \cup DOMAIN more |-> IF k \in DOMAIN more THEN more[k] ELSE dict[k]]
=============================================================================
