------------------------------- MODULE Globs --------------------------------
(***************************************************************************)
(* fnmatchcase of the standard library over names cut into tokens, where   *)
(* "*" stands for any run of tokens and "?" for one.                       *)
(***************************************************************************)
EXTENDS Integers, Sequences

FnMatch(name, pattern) ==
  LET m[i \in 0..Len(name), j \in 0..Len(pattern)] ==
        IF j = 0 THEN i = 0
        ELSE IF pattern[j] = "*" THEN m[i, j-1] \/ (i > 0 /\ m[i-1, j])
        ELSE i > 0 /\ pattern[j] \in {"?", name[i]} /\ m[i-1, j-1]
  IN  m[Len(name), Len(pattern)]

GlobCovers(names) == [p \in names |-> {n \in names : FnMatch(n, p)}]
=============================================================================
