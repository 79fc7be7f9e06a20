------------------------------ MODULE MCBlocks ------------------------------
(* Two tasks; three documents, three sets of keywords, a genuine envelope  *)
(* and a forged one.                                                       *)
EXTENDS Blocks, Globs

MCBlank == <<>>
MCStar == <<"*">>
Fs == <<"fs", "*">>
FsRead == <<"fs", "read">>
FsWrite == <<"fs", "write">>
Net == <<"net">>
All == <<"all">>
MCNames == {MCBlank, MCStar, Fs, FsRead, FsWrite, Net, All}
MCCovers == GlobCovers(MCNames)
MCEverything == {MCStar, All}

\* The theorems about blocks are stated for matchings of this kind.
ASSUME MCTransitive == Transitive

\* The theorem about bills is stated for truthful providers.
ASSUME MCTruthful == \A reply \in Replies : Truthful(reply)

Symmetry == Permutations(Workers)

MCDocuments ==
  {[EmptySpec EXCEPT !["allow"] = {Fs}, !["budget"] = 2, !["memory"] = 1],
   [EmptySpec EXCEPT !["deny"] = {FsWrite}, !["monitor"] = TRUE, !["tokens"] = 3,
                     !["rules"] = {"r"}]}

\* A supervisor and a worker it hands a task to, who share no capability.
Disjoint ==
  {[EmptySpec EXCEPT !["allow"] = {Fs}], [EmptySpec EXCEPT !["allow"] = {Net}]}

Genuine == [task |-> "c", caps |-> {FsRead}, genuine |-> TRUE]
Forged == [task |-> "c", caps |-> {MCStar}, genuine |-> FALSE]

MCKeywords ==
  {"allow" :> {All} @@ Observe,
   "rule" :> {"r"} @@ "envelope" :> Genuine,
   "calls" :> 1 @@ "budget" :> 1 @@ "timeout" :> 1 @@ "total_seconds" :> 1 @@ Hardened}

MCHooks ==
  {"judge" :> "j",
   "run" :> "c" @@ "envelope" :> Genuine,
   "run" :> "c" @@ "envelope" :> Forged @@ "backend" :> "b" @@ "judge" :> "j"}

MCConfigs ==
  {[mode |-> "local", keys |-> FALSE], [mode |-> "shadow", keys |-> TRUE],
   [mode |-> "canary", keys |-> TRUE], [mode |-> "enforce", keys |-> TRUE]}

\* Metering is explored in local mode, narrowed documents in canary mode.
MCMaxCalls == [m \in Modes |-> IF m = "local" THEN 1 ELSE 0]
MCMaxDocuments == [m \in Modes |-> IF m = "canary" THEN 3 ELSE 2]
MCMaxEntered == [m \in Modes |-> IF m \in {"shadow", "enforce"} THEN 3 ELSE 2]

\* Dollars per token of the entries, the longer name first.
Price(in, out, cached, write) ==
  [input |-> in, output |-> out, cached |-> cached, cache_write |-> write]

MCPriceTable == << << <<"gpt", "mini">>, Price(0, 1, None, None) >>,
                   << <<"gpt">>, Price(1, 1, 0, None) >> >>

MCModelCalls == {[fixed |-> NoPrice, model |-> <<"gpt", "mini">>],
                 [fixed |-> NoPrice, model |-> <<"new">>],
                 [fixed |-> NoPrice, model |-> NoModel]}

Bill(fresh, output, cached, written) ==
  [fresh |-> fresh, output |-> output, cached |-> cached, written |-> written]

\* A reply that reports cached tokens inside the prompt; a stream that reports
\* the prompt first and the answer at its end; and one that reports the prompt
\* first and what was cached of it at its end.
MCReplies ==
  {[stream |-> FALSE, inside |-> TRUE, bill |-> Bill(1, 1, 1, 0),
    chunks |-> << "input" :> 2 @@ "subset_cached" :> 1 @@ "output" :> 1 >>],
   [stream |-> TRUE, inside |-> FALSE, bill |-> Bill(1, 2, 0, 0),
    chunks |-> << "input" :> 1 @@ "output" :> 0, <<>>, "output" :> 2 >>],
   [stream |-> TRUE, inside |-> TRUE, bill |-> Bill(1, 1, 1, 0),
    chunks |-> << "input" :> 2, "input" :> 2 @@ "subset_cached" :> 1 @@ "output" :> 1 >>]}
=============================================================================
