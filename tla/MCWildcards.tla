----------------------------- MODULE MCWildcards -----------------------------
(* One task and two documents whose patterns have a wildcard for one       *)
(* character and for any: the matching of Globs is not transitive on them. *)
EXTENDS Blocks, Globs

MCBlank == <<>>
MCStar == <<"*">>
OneDigit == <<"v", "?">>
AnyVersion == <<"v", "*">>
MCNames == {MCBlank, MCStar, OneDigit, AnyVersion, <<"v", "1">>, <<"v", "1", "0">>}
MCCovers == GlobCovers(MCNames)

MCDocuments ==
  {[EmptySpec EXCEPT !["allow"] = {OneDigit}], [EmptySpec EXCEPT !["allow"] = {AnyVersion}]}

\* No model is priced.
MCNothing == <<>>
MCHooks == {[x \in {} |-> x]}
MCConfigs == {[mode |-> "local", keys |-> FALSE]}
MCMaxDocuments == [m \in Modes |-> 2]
MCMaxEntered == [m \in Modes |-> 2]
MCMaxCalls == [m \in Modes |-> 0]
=============================================================================
