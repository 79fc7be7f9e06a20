---------------------------- MODULE BlocksProofs ----------------------------
(***************************************************************************)
(* Theorems about Blocks: the one-way ratchet of nested blocks, the owner  *)
(* of the memory tracer, the envelopes of blocks, their types, what a      *)
(* reply is metered as, and that no spending escapes an outer budget.      *)
(* They hold for any tasks, documents, keywords, envelopes, prices and     *)
(* depths.                                                                 *)
(***************************************************************************)
EXTENDS Blocks, Lemmas, SequenceTheorems, FiniteSetTheorems, TLAPS

-----------------------------------------------------------------------------
(* What Intersect promises, for every set of names and every matching of   *)
(* patterns that is transitive                                             *)

\* A pattern that a permission set lets through matches only names that the
\* allow list of the set matches (_allows_pattern).
LEMMA PatternWithin ==
  ASSUME Transitive, NEW perms \in PermissionSet, NEW p \in Names,
         NEW c \in Covers[p], AllowsPattern(perms, p)
  PROVE  Matched(c, perms.allow)
<1>1. c \in Names
  BY NamesAssumption
<1>2. CASE Star \in perms.allow
  BY <1>1, <1>2, NamesAssumption DEF Matched
<1>3. CASE p \in perms.allow
  BY <1>3 DEF Matched
<1>4. CASE Allows(perms, p)
  <2>1. PICK q \in perms.allow : p \in Covers[q]
    BY <1>4 DEF Allows, Matched
  <2>2. q \in Names
    BY DEF PermissionSet
  <2>3. c \in Covers[q]
    BY <2>1, <2>2 DEF Transitive
  <2>4. QED
    BY <2>1, <2>3 DEF Matched
<1>5. QED
  BY <1>2, <1>3, <1>4 DEF AllowsPattern

\* The intersection allows nothing that either side forbids, so a nested block
\* has no capability its outer block lacks (PermissionSet.intersect).
THEOREM IntersectNarrows ==
  ASSUME Transitive, NEW s \in PermissionSet, NEW other \in PermissionSet
  PROVE  Authority(Intersect(s, other)) \subseteq Authority(s) \cap Authority(other)
<1> SUFFICES ASSUME NEW c \in Names, Allows(Intersect(s, other), c)
             PROVE  Allows(s, c) /\ Allows(other, c)
  BY DEF Authority
<1>1. c # Blank /\ ~Matched(c, s.deny) /\ ~Matched(c, other.deny)
  BY DEF Allows, Intersect, Matched
<1>2. PICK p \in Intersect(s, other).allow : c \in Covers[p]
  BY DEF Allows, Matched
<1>3. CASE p \in s.allow /\ AllowsPattern(other, p)
  <2>1. p \in Names
    BY <1>3 DEF PermissionSet
  <2>2. Matched(c, s.allow) /\ Matched(c, other.allow)
    BY <1>2, <1>3, <2>1, PatternWithin DEF Matched
  <2>3. QED
    BY <1>1, <2>2 DEF Allows
<1>4. CASE p \in other.allow /\ AllowsPattern(s, p)
  <2>1. p \in Names
    BY <1>4 DEF PermissionSet
  <2>2. Matched(c, s.allow) /\ Matched(c, other.allow)
    BY <1>2, <1>4, <2>1, PatternWithin DEF Matched
  <2>3. QED
    BY <1>1, <2>2 DEF Allows
<1>5. QED
  BY <1>2, <1>3, <1>4 DEF Intersect

-----------------------------------------------------------------------------
(* Sequences of objects                                                    *)

IsSeq(s) == \E S : s \in Seq(S)

\* Sequences of any elements, joined.
LEMMA ConcatSeq ==
  ASSUME NEW s, IsSeq(s), NEW t, IsSeq(t)
  PROVE  IsSeq(s \o t)
<1>1. PICK S, T : s \in Seq(S) /\ t \in Seq(T)
  BY DEF IsSeq
<1>2. s \in Seq(S \cup T) /\ t \in Seq(S \cup T)
  BY <1>1, SeqMonotonic
<1> QED
  BY <1>2, ConcatProperties DEF IsSeq

\* The sequences of no and of one element.
LEMMA ShortSeq ==
  /\ IsSeq(<<>>) /\ Len(<<>>) = 0
  /\ \A x : IsSeq(<<x>>) /\ Len(<<x>>) = 1
<1>1. IsSeq(<<>>) /\ Len(<<>>) = 0
  BY EmptySeq DEF IsSeq
<1>2. ASSUME NEW x PROVE IsSeq(<<x>>) /\ Len(<<x>>) = 1
  <2>1. <<x>> \in Seq({x}) /\ Len(<<x>>) = 1
    OBVIOUS
  <2> QED
    BY <2>1 DEF IsSeq
<1> QED
  BY <1>1, <1>2

\* The tuples of objects a policy holds (Policy).
LEMMA FieldNames == ObjectFields = {"quotas", "cost_budgets", "others"}
BY DEF ObjectFields, Bare

\* A prefix, element by element.
LEMMA PrefixIff ==
  ASSUME NEW S, NEW s \in Seq(S), NEW T, NEW t \in Seq(T)
  PROVE  IsPrefix(s, t) <=> Len(s) <= Len(t) /\ \A i \in 1..Len(s) : s[i] = t[i]
<1>1. SubSeq(s, 1, Len(s)) = s
  BY SubSeqFull
<1> SUFFICES ASSUME Len(s) <= Len(t)
             PROVE  SubSeq(t, 1, Len(s)) = s <=> \A i \in 1..Len(s) : s[i] = t[i]
  BY <1>1 DEF IsPrefix
<1> DEFINE u == SubSeq(t, 1, Len(s))
<1>2. Len(s) \in Nat /\ Len(t) \in Nat
  BY LenProperties
<1>3. \A i \in 1..Len(s) : t[i] \in T
  BY <1>2, ElementOfSeq
<1>4. u \in Seq(T) /\ Len(u) = Len(s) /\ \A i \in 1..Len(s) : u[i] = t[i]
  BY <1>2, <1>3, SubSeqProperties
<1> HIDE DEF u
<1>5. u \in Seq(S \cup T) /\ s \in Seq(S \cup T)
  BY <1>4, SeqMonotonic
<1>6. (\A i \in 1..Len(s) : s[i] = t[i]) => s = u
  BY <1>4, <1>5, SeqEqual
<1> QED
  BY <1>4, <1>6 DEF u

\* A sequence is a prefix of what it is extended to.
LEMMA PrefixConcat ==
  ASSUME NEW S, NEW s \in Seq(S), NEW t \in Seq(S)
  PROVE  IsPrefix(s, s \o t)
<1>1. s \o t \in Seq(S) /\ Len(s \o t) = Len(s) + Len(t)
      /\ \A i \in 1..Len(s) + Len(t) : (s \o t)[i] = IF i <= Len(s) THEN s[i] ELSE t[i - Len(s)]
  BY ConcatProperties
<1>2. Len(s) \in Nat /\ Len(t) \in Nat
  BY LenProperties
<1>3. \A u \in Seq(S) : IsPrefix(s, u) <=> Len(s) <= Len(u) /\ \A i \in 1..Len(s) : s[i] = u[i]
  BY PrefixIff
<1>4. Len(s) <= Len(s \o t) /\ \A i \in 1..Len(s) : s[i] = (s \o t)[i]
  BY <1>1, <1>2
<1> QED
  BY <1>1, <1>3, <1>4

\* A prefix of a prefix is a prefix.
LEMMA PrefixTransitive ==
  ASSUME NEW S, NEW s \in Seq(S), NEW T, NEW t \in Seq(T), NEW U, NEW u \in Seq(U),
         IsPrefix(s, t), IsPrefix(t, u)
  PROVE  IsPrefix(s, u)
<1>1. Len(s) \in Nat /\ Len(t) \in Nat /\ Len(u) \in Nat
  BY LenProperties
<1>2. /\ Len(s) <= Len(t) /\ \A i \in 1..Len(s) : s[i] = t[i]
      /\ Len(t) <= Len(u) /\ \A i \in 1..Len(t) : t[i] = u[i]
  BY PrefixIff
<1>3. Len(s) <= Len(u) /\ \A i \in 1..Len(s) : s[i] = u[i]
  BY <1>1, <1>2
<1> QED
  BY <1>3, PrefixIff

-----------------------------------------------------------------------------
(* Policies                                                                *)

\* What a policy is made of, its accounts among `ids`.
PolicyOK(p, ids) ==
  /\ DOMAIN p = DOMAIN Root
  /\ p.root \in BOOLEAN /\ p.perms \in PermissionSet /\ p.enforce \in BOOLEAN
  /\ p.timeout \in Int /\ p.memory \in Int
  /\ p.quotas \in Seq(ids) /\ p.cost_budgets \in Seq(ids)
  /\ IsSeq(p.others)

\* The same of what narrows a policy.
MoreOK(more, ids) ==
  /\ more.quotas \in Seq(ids) /\ more.cost_budgets \in Seq(ids)
  /\ IsSeq(more.others)

ScopeOK(scope, ids) ==
  /\ scope.perms \in PermissionSet
  /\ PolicyOK(scope.policy, ids)
  /\ MoreOK(scope.more, ids)
  /\ scope.timeout \in Int /\ scope.memory \in Int

\* Narrowing a policy gives a policy (Policy.narrow).
LEMMA NarrowPolicyOK ==
  ASSUME NEW ids, NEW p, PolicyOK(p, ids), NEW perms \in PermissionSet,
         NEW more, MoreOK(more, ids)
  PROVE  /\ PolicyOK(NarrowPolicy(p, perms, more), ids)
         /\ \A f \in {"root", "enforce", "timeout", "memory"} :
               NarrowPolicy(p, perms, more)[f] = p[f]
         /\ NarrowPolicy(p, perms, more).perms
              = IF perms = NoPermissions THEN p.perms ELSE Intersect(p.perms, perms)
         /\ \A f \in ObjectFields : IsPrefix(p[f], NarrowPolicy(p, perms, more)[f])
<1> DEFINE n == NarrowPolicy(p, perms, more)
<1>0. {"root", "perms", "quotas", "cost_budgets", "others", "enforce", "timeout", "memory"}
        \subseteq DOMAIN p
  BY DEF PolicyOK, Root
<1>1. PICK S, T : p.others \in Seq(S) /\ more.others \in Seq(T)
  BY DEF PolicyOK, MoreOK, IsSeq
<1>2. p.others \in Seq(S \cup T) /\ more.others \in Seq(S \cup T)
  BY <1>1, SeqMonotonic
<1>3. /\ n.quotas = p.quotas \o more.quotas
      /\ n.cost_budgets = p.cost_budgets \o more.cost_budgets
      /\ n.others = p.others \o more.others
      /\ DOMAIN n = DOMAIN p
      /\ n.perms = (IF perms = NoPermissions THEN p.perms ELSE Intersect(p.perms, perms))
      /\ n.root = p.root /\ n.enforce = p.enforce /\ n.timeout = p.timeout
      /\ n.memory = p.memory
  BY <1>0 DEF NarrowPolicy
<1> HIDE DEF n
<1>4. n.quotas \in Seq(ids) /\ n.cost_budgets \in Seq(ids) /\ n.others \in Seq(S \cup T)
  BY <1>2, <1>3, ConcatProperties DEF PolicyOK, MoreOK
<1>5. n.perms \in PermissionSet
  <2>1. p.perms \in PermissionSet
    BY DEF PolicyOK
  <2>2. Intersect(p.perms, perms) \in PermissionSet
    BY <2>1 DEF Intersect, PermissionSet
  <2> QED
    BY <1>3, <2>1, <2>2
<1>6. /\ IsPrefix(p.quotas, n.quotas) /\ IsPrefix(p.cost_budgets, n.cost_budgets)
      /\ IsPrefix(p.others, n.others)
  BY <1>2, <1>3, PrefixConcat DEF PolicyOK, MoreOK
<1>7. PolicyOK(n, ids)
  BY <1>3, <1>4, <1>5 DEF PolicyOK, IsSeq
<1> QED
  BY <1>3, <1>6, <1>7, FieldNames DEF n

\* Narrowing allows nothing that was forbidden, by the policy or by what
\* narrows it (Policy.narrow).
LEMMA NarrowAuthority ==
  ASSUME Transitive, NEW ids, NEW p, PolicyOK(p, ids), NEW perms \in PermissionSet,
         NEW more, MoreOK(more, ids)
  PROVE  /\ Authority(NarrowPolicy(p, perms, more).perms) \subseteq Authority(p.perms)
         /\ perms # NoPermissions =>
              Authority(NarrowPolicy(p, perms, more).perms) \subseteq Authority(perms)
<1>1. p.perms \in PermissionSet
  BY DEF PolicyOK
<1>2. Authority(Intersect(p.perms, perms)) \subseteq Authority(p.perms) \cap Authority(perms)
  BY <1>1, IntersectNarrows
<1> QED
  BY <1>2, NarrowPolicyOK

\* The tighter of two limits is as tight as both (_tighter).
LEMMA TighterOK ==
  ASSUME NEW a \in Int, NEW b \in Int
  PROVE  Tighter(a, b) \in Int /\ NoLooser(Tighter(a, b), a)
BY DEF Tighter, NoLooser, None

\* The part of a policy that the ratchet is about.
LEMMA StricterSelf ==
  ASSUME NEW ids, NEW p, PolicyOK(p, ids), NEW q, PolicyOK(q, ids),
         \A f \in {"perms", "enforce", "timeout"} \cup ObjectFields : q[f] = p[f]
  PROVE  Stricter(q, p)
<1>1. \A S : \A s \in Seq(S) : IsPrefix(s, s)
  BY PrefixIff, LenProperties
<1>2. IsPrefix(p.quotas, p.quotas) /\ IsPrefix(p.cost_budgets, p.cost_budgets)
      /\ IsPrefix(p.others, p.others)
  BY <1>1 DEF PolicyOK, IsSeq
<1>3. \A f \in ObjectFields : IsPrefix(p[f], q[f])
  BY <1>2, FieldNames
<1>4. NoLooser(q.timeout, p.timeout)
  BY DEF NoLooser, PolicyOK, None
<1> QED
  BY <1>3, <1>4 DEF Stricter

\* Stricter than the stricter is stricter.
LEMMA StricterTransitive ==
  ASSUME NEW ids, NEW p, PolicyOK(p, ids), NEW q, PolicyOK(q, ids), NEW r, PolicyOK(r, ids),
         Stricter(r, q), Stricter(q, p)
  PROVE  Stricter(r, p)
<1>1. /\ IsPrefix(p.quotas, r.quotas) /\ IsPrefix(p.cost_budgets, r.cost_budgets)
      /\ IsPrefix(p.others, r.others)
  BY FieldNames, PrefixTransitive DEF Stricter, PolicyOK, IsSeq
<1>2. \A f \in ObjectFields : IsPrefix(p[f], r[f])
  BY <1>1, FieldNames
<1>3. NoLooser(r.timeout, p.timeout)
  BY SMTT(30) DEF NoLooser, PolicyOK, None, Stricter
<1> QED
  BY <1>2, <1>3 DEF Stricter

\* What the blocks of safety_context get from the policy around them.
LEMMA EffectiveOK ==
  ASSUME NEW ids, NEW outer, PolicyOK(outer, ids), NEW scope, ScopeOK(scope, ids)
  PROVE  /\ PolicyOK(Effective(outer, scope), ids)
         /\ ~Effective(outer, scope).root
         /\ (Transitive /\ ~outer.root) => Stricter(Effective(outer, scope), outer)
         /\ (Transitive /\ scope.perms # NoPermissions) =>
              Authority(Effective(outer, scope).perms) \subseteq Authority(scope.perms)
<1> DEFINE base == IF outer.root
                     THEN [Root EXCEPT !.root = FALSE, !.perms = AllowAll,
                                       !.enforce = scope.enforce # "off"]
                     ELSE outer
           given == IF scope.policy = NoPolicy
                      THEN base
                      ELSE NarrowPolicy(base, scope.policy.perms, scope.policy)
           own == NarrowPolicy(given, scope.perms, scope.more)
           result == [own EXCEPT !.enforce = Enforcing(outer, @, scope.enforce),
                                 !.timeout = Tighter(@, scope.timeout),
                                 !.memory = Tighter(@, scope.memory)]
<1>1. Effective(outer, scope) = result
  BY DEF Effective
<1>2. PolicyOK(base, ids) /\ ~base.root /\ (~outer.root => base = outer)
  <2>1. CASE ~outer.root
    BY <2>1
  <2>2. CASE outer.root
    <3>1. AllowAll \in PermissionSet
      BY NamesAssumption DEF AllowAll, PermissionSet
    <3>2. base = [root |-> FALSE, perms |-> AllowAll, quotas |-> <<>>, cost_budgets |-> <<>>,
                  others |-> <<>>, enforce |-> scope.enforce # "off", timeout |-> None,
                  memory |-> None, baseline |-> 0]
      BY <2>2 DEF Root
    <3>3. <<>> \in Seq(ids) /\ IsSeq(<<>>)
      BY EmptySeq DEF IsSeq
    <3> QED
      BY <2>2, <3>1, <3>2, <3>3 DEF PolicyOK, Root, None
  <2> QED
    BY <2>1, <2>2
<1> HIDE DEF base
<1>3. /\ PolicyOK(given, ids) /\ ~given.root
      /\ given.enforce = base.enforce /\ given.timeout = base.timeout
      /\ given.memory = base.memory
      /\ \A f \in ObjectFields : IsPrefix(base[f], given[f])
      /\ Transitive => Authority(given.perms) \subseteq Authority(base.perms)
  <2>1. CASE scope.policy = NoPolicy
    <3>1. Stricter(base, base)
      BY <1>2, StricterSelf
    <3> QED
      BY <1>2, <2>1, <3>1 DEF Stricter
  <2>2. CASE scope.policy # NoPolicy
    <3>1. scope.policy.perms \in PermissionSet /\ MoreOK(scope.policy, ids)
      BY DEF ScopeOK, PolicyOK, MoreOK
    <3>2. given = NarrowPolicy(base, scope.policy.perms, scope.policy)
      BY <2>2
    <3> HIDE DEF given
    <3>3. /\ PolicyOK(given, ids)
          /\ \A f \in {"root", "enforce", "timeout", "memory"} : given[f] = base[f]
          /\ \A f \in ObjectFields : IsPrefix(base[f], given[f])
      BY <1>2, <3>1, <3>2, NarrowPolicyOK
    <3>4. Transitive => Authority(given.perms) \subseteq Authority(base.perms)
      BY <1>2, <3>1, <3>2, NarrowAuthority
    <3> QED
      BY <1>2, <3>3, <3>4
  <2> QED
    BY <2>1, <2>2
<1> HIDE DEF given
<1>4. /\ PolicyOK(own, ids) /\ ~own.root
      /\ own.enforce = base.enforce /\ own.timeout = base.timeout /\ own.memory = base.memory
      /\ \A f \in ObjectFields : IsPrefix(given[f], own[f])
      /\ Transitive => Authority(own.perms) \subseteq Authority(given.perms)
      /\ (Transitive /\ scope.perms # NoPermissions) =>
           Authority(own.perms) \subseteq Authority(scope.perms)
  <2>1. scope.perms \in PermissionSet /\ MoreOK(scope.more, ids)
    BY DEF ScopeOK
  <2>2. /\ PolicyOK(own, ids)
        /\ \A f \in {"root", "enforce", "timeout", "memory"} : own[f] = given[f]
        /\ \A f \in ObjectFields : IsPrefix(given[f], own[f])
    BY <1>3, <2>1, NarrowPolicyOK
  <2>3. /\ Transitive => Authority(own.perms) \subseteq Authority(given.perms)
        /\ (Transitive /\ scope.perms # NoPermissions) =>
             Authority(own.perms) \subseteq Authority(scope.perms)
    BY <1>3, <2>1, NarrowAuthority
  <2> QED
    BY <1>3, <2>2, <2>3
<1> HIDE DEF own
<1>5. /\ DOMAIN result = DOMAIN Root
      /\ \A f \in {"root", "perms"} \cup ObjectFields : result[f] = own[f]
      /\ result.enforce = Enforcing(outer, own.enforce, scope.enforce)
      /\ result.timeout = Tighter(own.timeout, scope.timeout)
      /\ result.memory = Tighter(own.memory, scope.memory)
  <2>1. {"root", "perms", "quotas", "cost_budgets", "others", "enforce", "timeout", "memory"}
          \subseteq DOMAIN own
    BY <1>4 DEF PolicyOK, Root
  <2> QED
    BY <1>4, <2>1, FieldNames DEF PolicyOK
<1> HIDE DEF result
<1>6. PolicyOK(result, ids)
  <2>1. /\ result.root = own.root /\ result.perms = own.perms /\ result.quotas = own.quotas
        /\ result.cost_budgets = own.cost_budgets /\ result.others = own.others
    BY <1>5, FieldNames
  <2>2. result.enforce \in BOOLEAN
    BY <1>4, <1>5 DEF Enforcing, PolicyOK
  <2>3. result.timeout \in Int /\ result.memory \in Int
    BY <1>4, <1>5, TighterOK, ZenonT(30) DEF PolicyOK, ScopeOK
  <2> QED
    BY <1>4, <1>5, <2>1, <2>2, <2>3 DEF PolicyOK
<1>7. ASSUME Transitive, ~outer.root
      PROVE  Stricter(result, outer)
  <2>1. base = outer
    BY <1>2, <1>7
  <2>2. \A f \in ObjectFields : IsPrefix(outer[f], result[f])
    <3>1. /\ IsPrefix(outer.quotas, own.quotas)
          /\ IsPrefix(outer.cost_budgets, own.cost_budgets)
          /\ IsPrefix(outer.others, own.others)
      BY <1>3, <1>4, <2>1, FieldNames, PrefixTransitive DEF PolicyOK, IsSeq
    <3> QED
      BY <1>5, <3>1, FieldNames
  <2>3. Authority(result.perms) \subseteq Authority(outer.perms)
    BY <1>3, <1>4, <1>5, <1>7, <2>1
  <2>4. outer.enforce => result.enforce
    BY <1>4, <1>5, <1>7, <2>1 DEF Enforcing
  <2>5. NoLooser(result.timeout, outer.timeout)
    BY <1>4, <1>5, <2>1, TighterOK, ZenonT(30) DEF PolicyOK, ScopeOK
  <2> QED
    BY <2>2, <2>3, <2>4, <2>5 DEF Stricter
<1> QED
  BY <1>1, <1>4, <1>5, <1>6, <1>7

-----------------------------------------------------------------------------
(* Keywords                                                                *)

\* A policy stays one while accounts are made.
LEMMA MonotonePolicyOK ==
  ASSUME NEW ids, NEW more, ids \subseteq more, NEW p, PolicyOK(p, ids)
  PROVE  PolicyOK(p, more)
BY SeqMonotonic DEF PolicyOK

\* Outside every block is the root policy (_ROOT).
LEMMA RootOK == \A ids : PolicyOK(Root, ids) /\ MoreOK(Bare, ids)
<1>1. \A ids : <<>> \in Seq(ids) /\ IsSeq(<<>>)
  BY EmptySeq DEF IsSeq
<1>2. DenyAll \in PermissionSet
  BY DEF DenyAll, PermissionSet
<1> QED
  BY <1>1, <1>2 DEF PolicyOK, MoreOK, Root, Bare, None

\* The keywords of a document are typed if the document is and the hooks are.
LEMMA FromSpecTyped ==
  ASSUME NEW spec, TypedSpec(spec), NEW hooks, Typed(hooks)
  PROVE  Typed(FromSpec(spec, hooks))
<1> DEFINE budgets == {"calls", "tokens", "budget"}
           own == {"allow", "deny", "timeout", "memory"} \cup budgets
           kwargs == ToKwargs(spec)
           given == IF spec.rules = {} THEN kwargs ELSE With(kwargs, "rule", spec.rules)
<1>1. \A f \in own : f \in DOMAIN kwargs => kwargs[f] = spec[f]
  BY DEF ToKwargs, With
<1>2. "envelope" \notin DOMAIN kwargs
  BY DEF ToKwargs, With, Stated, Fields, ListFields, ScalarFields, FlagFields
<1> HIDE DEF kwargs
<1>3. /\ \A f \in own : f \in DOMAIN given => given[f] = spec[f]
      /\ "envelope" \notin DOMAIN given
  BY <1>1, <1>2 DEF With
<1>4. FromSpec(spec, hooks) = Updated(given, hooks)
  BY DEF FromSpec, kwargs
<1> HIDE DEF given
<1>5. \A f \in own \cup {"envelope"} : \A d :
         Given(FromSpec(spec, hooks), f, d)
           = IF f \in DOMAIN hooks THEN hooks[f] ELSE Given(given, f, d)
  BY <1>4 DEF Given, Updated
<1>6. \A f \in own : \A d : Given(FromSpec(spec, hooks), f, d) \in {Given(hooks, f, d), spec[f], d}
  BY <1>3, <1>5 DEF Given
<1>7. Envelope(FromSpec(spec, hooks)) = Envelope(hooks)
  BY <1>3, <1>5 DEF Given, Envelope
<1> HIDE DEF own
<1>8. /\ \A f \in {"allow", "deny"} :
           Given(hooks, f, {}) \subseteq Names /\ spec[f] \subseteq Names
      /\ \A f \in {"timeout", "memory"} : Given(hooks, f, None) \in Int /\ spec[f] \in Int
      /\ \A f \in budgets : Given(hooks, f, None) \in Budgets /\ spec[f] \in Budgets
      /\ Envelope(hooks).caps \subseteq Names
  BY DEF Typed, TypedSpec
<1>9. /\ \A f \in {"allow", "deny"} : Given(FromSpec(spec, hooks), f, {}) \subseteq Names
      /\ \A f \in {"timeout", "memory"} : Given(FromSpec(spec, hooks), f, None) \in Int
  BY <1>6, <1>8 DEF own, None
<1>10. \A f \in budgets : Given(FromSpec(spec, hooks), f, None) \in Budgets
  BY <1>6, <1>8 DEF own, Budgets
<1> QED
  BY <1>7, <1>8, <1>9, <1>10 DEF Typed

\* The permissions of keywords (_permissions).
LEMMA GrantedOK ==
  ASSUME NEW kw, Typed(kw)
  PROVE  /\ GrantedPermissions(kw) \in PermissionSet
         /\ Envelope(kw) # NoEnvelope =>
              /\ GrantedPermissions(kw) = Of(Envelope(kw).caps, {})
              /\ GrantedPermissions(kw) # NoPermissions
<1> DEFINE allow == {IF p \in Everything THEN Star ELSE p : p \in Given(kw, "allow", {})}
           deny == Given(kw, "deny", {})
<1>1. /\ Given(kw, "allow", {}) \subseteq Names /\ deny \subseteq Names
      /\ Envelope(kw).caps \subseteq Names
  BY DEF Typed
<1>2. allow \subseteq Names
  BY <1>1, NamesAssumption
<1> HIDE DEF allow, deny
<1>3. \A a, d \in SUBSET Names : Of(a, d) \in PermissionSet
  BY DEF Of, PermissionSet
<1>4. NoPermissions \in PermissionSet /\ {Star} \in SUBSET Names /\ {} \in SUBSET Names
  BY NamesAssumption DEF NoPermissions, PermissionSet
<1>5. GrantedPermissions(kw) =
        IF Envelope(kw) # NoEnvelope THEN Of(Envelope(kw).caps, {})
        ELSE IF allow = {} /\ deny = {} THEN NoPermissions
        ELSE Of(IF allow = {} THEN {Star} ELSE allow, deny)
  BY DEF GrantedPermissions, allow, deny
<1>6. \A a : Of(a, {}) # NoPermissions
  BY DEF Of, NoPermissions
<1>7. Of(Envelope(kw).caps, {}) \in PermissionSet
  BY <1>1, <1>3, <1>4
<1>8. Of(IF allow = {} THEN {Star} ELSE allow, deny) \in PermissionSet
  BY <1>1, <1>2, <1>3, <1>4
<1> QED
  BY <1>4, <1>5, <1>6, <1>7, <1>8

\* A value that may be a list, as a tuple (_as_tuple).
LEMMA AddedOK ==
  ASSUME NEW S, NEW object \in S, NEW wanted
  PROVE  Added(wanted, object) \in Seq(S)
<1>1. <<object>> \in Seq(S) /\ <<>> \in Seq(S)
  OBVIOUS
<1> QED
  BY <1>1 DEF Added

\* One object, if there is one (_as_tuple).
LEMMA OneSeq ==
  ASSUME NEW wanted, NEW field, NEW object
  PROVE  IsSeq(One(wanted, field, object))
<1>1. One(wanted, field, object) \in Seq({<<field, object>>})
  BY AddedOK DEF One
<1> QED
  BY <1>1 DEF IsSeq

\* The guards, limits, gates and sinks that keywords add.
LEMMA OthersSeq ==
  ASSUME NEW kw, NEW outer
  PROVE  IsSeq(Restrictions(kw, outer).others)
<1>1. /\ IsSeq(RateLimits(kw)) /\ IsSeq(Concurrency(kw)) /\ IsSeq(Approval(kw))
      /\ IsSeq(Reasoning(kw)) /\ IsSeq(Constitution(kw)) /\ IsSeq(Preview(kw))
      /\ IsSeq(Audit(kw))
  BY OneSeq, ConcatSeq DEF RateLimits, Concurrency, Approval, Reasoning, Constitution,
                           Preview, Audit
<1>2. IsSeq(InputGuards(kw))
  BY OneSeq, ConcatSeq DEF InputGuards
<1> DEFINE number(key) == Given(kw, key, None)
           lent(key) == ~Shared(kw) /\ Truthy(number(key))
           paced  == One(Shared(kw), "shared_quota", SharedLimits(kw)) \o RateLimits(kw)
                     \o One(Truthy(number("total_seconds")), "deadlines", number("total_seconds"))
                     \o Concurrency(kw)
           lentTo == paced \o One(lent("risk_budget"), "risk_budgets", number("risk_budget"))
                     \o One(lent("no_repeats"), "loop_guards", number("no_repeats"))
           guarded == lentTo \o InputGuards(kw)
                     \o One(number("honeytoken") # None, "honeytoken", number("honeytoken"))
                     \o One(Given(kw, "hide_secrets", FALSE), "hide_secrets", TRUE)
<1>3. IsSeq(paced)
  <2>1. /\ IsSeq(One(Shared(kw), "shared_quota", SharedLimits(kw)))
        /\ IsSeq(One(Truthy(number("total_seconds")), "deadlines", number("total_seconds")))
    BY OneSeq
  <2> QED
    BY <1>1, <2>1, ConcatSeq
<1> HIDE DEF paced
<1>4. IsSeq(lentTo)
  <2>1. /\ IsSeq(One(lent("risk_budget"), "risk_budgets", number("risk_budget")))
        /\ IsSeq(One(lent("no_repeats"), "loop_guards", number("no_repeats")))
    BY OneSeq
  <2> QED
    BY <1>3, <2>1, ConcatSeq
<1> HIDE DEF lentTo
<1>5. IsSeq(guarded)
  <2>1. /\ IsSeq(One(number("honeytoken") # None, "honeytoken", number("honeytoken")))
        /\ IsSeq(One(Given(kw, "hide_secrets", FALSE), "hide_secrets", TRUE))
    BY OneSeq
  <2> QED
    BY <1>2, <1>4, <2>1, ConcatSeq
<1> HIDE DEF guarded
<1>6. Restrictions(kw, outer).others =
        guarded \o Approval(kw) \o Reasoning(kw) \o Constitution(kw) \o Preview(kw) \o Audit(kw)
  BY DEF Restrictions, guarded, lentTo, paced
<1> QED
  BY <1>1, <1>5, <1>6, ConcatSeq

\* Entering a block makes its accounts first, so what it adds to the policy
\* names accounts there are.
LEMMA RestrictionsOK ==
  ASSUME IsSeq(accounts), NEW kw, NEW outer, NEW after,
         after = accounts \o NewQuotas(kw, outer) \o NewBudgets(kw, outer)
  PROVE  /\ IsSeq(after) /\ DOMAIN accounts \subseteq DOMAIN after
         /\ MoreOK(Restrictions(kw, outer), DOMAIN after)
<1> DEFINE q == NewQuotas(kw, outer)
           b == NewBudgets(kw, outer)
<1>1. IsSeq(q) /\ Len(q) \in 0..1
  <2>1. q = <<>> \/ \E x : q = <<x>>
    BY DEF NewQuotas
  <2> QED
    BY <2>1, ShortSeq
<1>2. IsSeq(b) /\ Len(b) = (IF "budget" \in DOMAIN kw THEN 1 ELSE 0)
  <2>1. IF "budget" \in DOMAIN kw THEN \E x : b = <<x>> ELSE b = <<>>
    BY DEF NewBudgets
  <2> QED
    BY <2>1, ShortSeq
<1>3. after = (accounts \o q) \o b
  OBVIOUS
<1>4. Restrictions(kw, outer).quotas = Added(Len(q) > 0, Len(accounts) + 1)
      /\ Restrictions(kw, outer).cost_budgets
           = Added("budget" \in DOMAIN kw, Len(accounts) + 1 + Len(q))
  BY DEF Restrictions
<1> HIDE DEF q, b
<1>5. PICK S : accounts \in Seq(S) /\ q \in Seq(S) /\ b \in Seq(S)
  <2>1. PICK S, T, U : accounts \in Seq(S) /\ q \in Seq(T) /\ b \in Seq(U)
    BY <1>1, <1>2 DEF IsSeq
  <2>2. /\ accounts \in Seq(S \cup T \cup U) /\ q \in Seq(S \cup T \cup U)
        /\ b \in Seq(S \cup T \cup U)
    BY <2>1, SeqMonotonic
  <2> QED
    BY <2>2
<1>6. after \in Seq(S) /\ Len(after) = Len(accounts) + Len(q) + Len(b)
  <2>1. accounts \o q \in Seq(S) /\ Len(accounts \o q) = Len(accounts) + Len(q)
    BY <1>5, ConcatProperties
  <2> QED
    BY <1>3, <1>5, <2>1, ConcatProperties
<1>7. /\ Len(accounts) \in Nat /\ DOMAIN accounts = 1..Len(accounts)
      /\ DOMAIN after = 1..Len(after)
  BY <1>5, <1>6, LenProperties
<1>8. Restrictions(kw, outer).quotas \in Seq(DOMAIN after)
  <2>1. CASE Len(q) > 0
    <3>1. Len(accounts) + 1 \in DOMAIN after
      BY <1>1, <1>2, <1>6, <1>7, <2>1
    <3> QED
      BY <1>4, <3>1, AddedOK
  <2>2. CASE ~(Len(q) > 0)
    BY <1>4, <2>2, EmptySeq DEF Added
  <2> QED
    BY <2>1, <2>2
<1>9. Restrictions(kw, outer).cost_budgets \in Seq(DOMAIN after)
  <2>1. CASE "budget" \in DOMAIN kw
    <3>1. Len(accounts) + 1 + Len(q) \in DOMAIN after
      BY <1>1, <1>2, <1>6, <1>7, <2>1
    <3> QED
      BY <1>4, <3>1, AddedOK
  <2>2. CASE "budget" \notin DOMAIN kw
    BY <1>4, <2>2, EmptySeq DEF Added
  <2> QED
    BY <2>1, <2>2
<1>10. DOMAIN accounts \subseteq DOMAIN after
  BY <1>1, <1>2, <1>6, <1>7
<1> QED
  BY <1>6, <1>8, <1>9, <1>10, OthersSeq DEF MoreOK, IsSeq

\* The arguments safely() gives safety_context.
LEMMA ScopeOfOK ==
  ASSUME NEW kw, Typed(kw), NEW outer, NEW ids, MoreOK(Restrictions(kw, outer), ids)
  PROVE  /\ ScopeOK(ScopeOf(kw, outer), ids)
         /\ ScopeOf(kw, outer).perms = GrantedPermissions(kw)
<1>1. /\ ScopeOf(kw, outer).perms = GrantedPermissions(kw)
      /\ ScopeOf(kw, outer).policy = Root
      /\ ScopeOf(kw, outer).more = Restrictions(kw, outer)
      /\ ScopeOf(kw, outer).timeout = Given(kw, "timeout", None)
      /\ ScopeOf(kw, outer).memory = Given(kw, "memory", None)
  BY DEF ScopeOf, Scope, NoPolicy
<1>2. Given(kw, "timeout", None) \in Int /\ Given(kw, "memory", None) \in Int
  BY DEF Typed
<1> QED
  BY <1>1, <1>2, RootOK, GrantedOK DEF ScopeOK

\* The arguments of a block that adopts a policy (safety_context(policy)).
LEMMA AdoptedScopeOK ==
  ASSUME NEW ids, NEW p, PolicyOK(p, ids)
  PROVE  ScopeOK([Scope EXCEPT !.policy = p], ids)
<1>1. NoPermissions \in PermissionSet
  BY NamesAssumption DEF NoPermissions, PermissionSet
<1> QED
  BY <1>1, RootOK DEF ScopeOK, Scope, None

-----------------------------------------------------------------------------
(* The state                                                               *)

BlockOK(b, ids) ==
  /\ {"policy", "started"} \subseteq DOMAIN b
  /\ PolicyOK(b.policy, ids) /\ ~b.policy.root /\ b.started \in BOOLEAN

Asked == {"no", "traced", "untraced"}

\* A task on its way into a block has not turned the tracer on for it.
OpeningOK(t) ==
  opening[t] # "no" => blocks[t] # <<>> /\ ~blocks[t][Len(blocks[t])].started

ContextOK ==
  /\ DOMAIN inherited = Workers /\ DOMAIN blocks = Workers
  /\ opening \in [Workers -> Asked]
  /\ \A t \in Workers :
       /\ PolicyOK(inherited[t].policy, DOMAIN accounts)
       /\ IsSeq(blocks[t]) /\ Len(blocks[t]) <= MaxDepth
       /\ \A i \in DOMAIN blocks[t] : BlockOK(blocks[t][i], DOMAIN accounts)
       /\ OpeningOK(t)

DocumentsOK == \A spec \in Resolvable : TypedSpec(spec)

StateOK == IsSeq(accounts) /\ ContextOK /\ DocumentsOK

\* The positions of a sequence.
LEMMA SeqDomain ==
  ASSUME NEW s, IsSeq(s)
  PROVE  Len(s) \in Nat /\ DOMAIN s = 1..Len(s)
BY LenProperties DEF IsSeq

\* One more element at the end, and one less.
LEMMA Longer ==
  ASSUME NEW s, IsSeq(s), NEW x
  PROVE  /\ IsSeq(Append(s, x)) /\ Len(Append(s, x)) = Len(s) + 1
         /\ DOMAIN Append(s, x) = 1..(Len(s) + 1)
         /\ \A i \in 1..Len(s) : Append(s, x)[i] = s[i]
         /\ Append(s, x)[Len(s) + 1] = x
<1>1. PICK S : s \in Seq(S)
  BY DEF IsSeq
<1>2. s \in Seq(S \cup {x})
  BY <1>1, SeqMonotonic
<1>3. /\ Append(s, x) \in Seq(S \cup {x})
      /\ Len(Append(s, x)) = Len(s) + 1
      /\ \A i \in 1..Len(s) : Append(s, x)[i] = s[i]
      /\ Append(s, x)[Len(s) + 1] = x
  BY <1>2, AppendProperties
<1>4. DOMAIN Append(s, x) = 1..(Len(s) + 1)
  BY <1>3, LenProperties
<1> QED
  BY <1>3, <1>4 DEF IsSeq

\* One element less.
LEMMA Shorter ==
  ASSUME NEW s, IsSeq(s), s # <<>>
  PROVE  /\ IsSeq(Front(s)) /\ Len(s) \in Nat \ {0} /\ Len(Front(s)) = Len(s) - 1
         /\ DOMAIN Front(s) = 1..(Len(s) - 1)
         /\ \A i \in 1..(Len(s) - 1) : Front(s)[i] = s[i]
<1>1. PICK S : s \in Seq(S)
  BY DEF IsSeq
<1>2. Len(s) \in Nat \ {0} /\ \A i \in 1..(Len(s) - 1) : s[i] \in S
  BY <1>1, EmptySeq, LenProperties, ElementOfSeq
<1>3. /\ Front(s) \in Seq(S)
      /\ Len(Front(s)) = Len(s) - 1
      /\ \A i \in 1..(Len(s) - 1) : Front(s)[i] = s[i]
  <2> DEFINE k == Len(s) - 1
  <2>1. k \in Nat /\ Front(s) = SubSeq(s, 1, k)
    BY <1>2 DEF Front
  <2> HIDE DEF k
  <2>2. /\ SubSeq(s, 1, k) \in Seq(S)
        /\ Len(SubSeq(s, 1, k)) = IF 1 <= k THEN k - 1 + 1 ELSE 0
        /\ \A i \in 1..(k - 1 + 1) : SubSeq(s, 1, k)[i] = s[1 + i - 1]
    <3>1. \A i \in 1..k : s[i] \in S
      BY <1>2 DEF k
    <3> QED
      BY <2>1, <3>1, SubSeqProperties
  <2>3. Len(SubSeq(s, 1, k)) = k /\ \A i \in 1..k : SubSeq(s, 1, k)[i] = s[i]
    BY <2>1, <2>2
  <2> QED
    BY <2>1, <2>2, <2>3 DEF k
<1>4. DOMAIN Front(s) = 1..(Len(s) - 1)
  BY <1>3, LenProperties
<1> QED
  BY <1>2, <1>3, <1>4 DEF IsSeq

\* The policy in force is a policy (current_policy).
LEMMA CurrentOK ==
  ASSUME ContextOK, NEW t \in Workers
  PROVE  /\ PolicyOK(Current(t), DOMAIN accounts)
         /\ blocks[t] = <<>> => Current(t) = inherited[t].policy
         /\ blocks[t] # <<>> => /\ Len(blocks[t]) \in DOMAIN blocks[t]
                                /\ Current(t) = blocks[t][Len(blocks[t])].policy
<1>1. CASE blocks[t] = <<>>
  BY <1>1 DEF ContextOK, Current, Innermost
<1>2. CASE blocks[t] # <<>>
  <2>1. Len(blocks[t]) \in DOMAIN blocks[t]
    BY <1>2, SeqDomain, Shorter DEF ContextOK
  <2> QED
    BY <1>2, <2>1 DEF ContextOK, Current, Innermost, Last, BlockOK
<1> QED
  BY <1>1, <1>2

-----------------------------------------------------------------------------
(* Steps                                                                   *)

\* Whatever a step does to the blocks, it opens one with typed keywords, is
\* the end of that, closes one, or starts a task; accounts only become more.
Opening(t) ==
  \E scope, notes : ScopeOK(scope, DOMAIN accounts') /\ Open(t, scope, notes)

ContextStep ==
  \/ \E t \in Workers : Watch(t)
  \/ MaySwitch /\ \E t \in Workers : Inside(t) /\ Opening(t)
  \/ MaySwitch /\ \E t \in Workers : Inside(t) /\ Close(t)
  \/ \E t, child \in Workers : Spawn(t, child)
  \/ UNCHANGED <<inherited, blocks, opening, tracing>>

AccountsStep == IsSeq(accounts') /\ DOMAIN accounts \subseteq DOMAIN accounts'

\* Entering a block by safely() opens one.
LEMMA EnterStep ==
  ASSUME StateOK, NEW t \in Workers, NEW kw, Typed(kw), Enter(t, kw)
  PROVE  Opening(t) /\ AccountsStep
<1> DEFINE outer == Current(t)
<1>1. accounts' = accounts \o NewQuotas(kw, outer) \o NewBudgets(kw, outer)
  BY DEF Enter
<1>2. AccountsStep /\ MoreOK(Restrictions(kw, outer), DOMAIN accounts')
  BY <1>1, RestrictionsOK DEF AccountsStep, StateOK
<1>3. ScopeOK(ScopeOf(kw, outer), DOMAIN accounts')
  BY <1>2, ScopeOfOK
<1> QED
  BY <1>2, <1>3 DEF Opening, Enter

\* Entering a block with a policy opens one.
LEMMA AdoptStep ==
  ASSUME StateOK, NEW t \in Workers, NEW other \in Workers, Adopt(t, other)
  PROVE  Opening(t) /\ AccountsStep
<1>1. accounts' = accounts /\ IsSeq(accounts)
  BY DEF Adopt, entryVars, StateOK
<1>2. ScopeOK([Scope EXCEPT !.policy = Current(other)], DOMAIN accounts')
  BY <1>1, CurrentOK, AdoptedScopeOK DEF StateOK
<1> QED
  BY <1>1, <1>2 DEF Opening, Adopt, AccountsStep

\* A metered call keeps the accounts there are, and opens no block.
LEMMA MeterStep ==
  ASSUME StateOK, NEW t \in Workers, Meter(t)
  PROVE  UNCHANGED <<contextVars, config, spent, entries>> /\ AccountsStep
<1>0. ASSUME UNCHANGED accounts PROVE AccountsStep
  BY <1>0 DEF AccountsStep, StateOK
<1>1. ASSUME NEW call \in ModelCalls, BeginCall(t, call)
      PROVE  UNCHANGED <<contextVars, config, spent, entries>> /\ AccountsStep
  BY <1>0, <1>1 DEF BeginCall, Unmetered
<1>2. CASE Charge(t)
  <2>1. UNCHANGED <<contextVars, config, spent, entries>>
    BY <1>2 DEF Charge, Unmetered
  <2>2. UNCHANGED accounts \/ \E id, x : accounts' = [accounts EXCEPT ![id] = x]
    BY <1>2 DEF Charge
  <2>3. ASSUME NEW id, NEW x, accounts' = [accounts EXCEPT ![id] = x]
        PROVE  AccountsStep
    <3>1. PICK S : accounts \in Seq(S)
      BY DEF StateOK, IsSeq
    <3>2. accounts \in Seq(S \cup {x})
      BY <3>1, SeqMonotonic
    <3>3. accounts' \in Seq(S \cup {x}) /\ DOMAIN accounts' = DOMAIN accounts
      <4>1. CASE id \in 1..Len(accounts)
        BY <2>3, <3>2, <4>1, ExceptSeq
      <4>2. CASE id \notin 1..Len(accounts)
        <5>1. accounts \in [1..Len(accounts) -> S \cup {x}]
          BY <3>2, LenProperties
        <5>2. accounts' = accounts
          BY <2>3, <4>2, <5>1
        <5> QED
          BY <3>2, <5>2
      <4> QED
        BY <4>1, <4>2
    <3> QED
      BY <3>3 DEF AccountsStep, IsSeq
  <2> QED
    BY <1>0, <2>1, <2>2, <2>3
<1>3. CASE \/ RefusedElsewhere(t) \/ Charged(t) \/ CallFails(t)
           \/ NextChunk(t) \/ Exhausted(t) \/ Abandon(t)
  BY <1>0, <1>3
     DEF RefusedElsewhere, Charged, CallFails, NextChunk, Exhausted, Abandon, Unmetered
<1>4. ASSUME NEW reply \in Replies, Answer(t, reply)
      PROVE  UNCHANGED <<contextVars, config, spent, entries>> /\ AccountsStep
  BY <1>0, <1>4 DEF Answer, Unmetered
<1> QED
  BY <1>1, <1>2, <1>3, <1>4 DEF Meter

\* A document is typed when it is published: what it leaves out has defaults.
LEMMA PublishedTyped ==
  ASSUME NEW spec, TypedSpec(spec)
  PROVE  TypedSpec(FromDict(PolicyHash(spec)))
<1> DEFINE budgets == {"calls", "tokens", "budget"}
<1>1. \A f \in {"allow", "deny", "timeout", "memory"} \cup budgets :
         FromDict(PolicyHash(spec))[f] \in {spec[f], EmptySpec[f]}
  BY DEF FromDict, PolicyHash, ToDict, Given, Fields, ListFields, ScalarFields
<1>2. /\ EmptySpec["allow"] = {} /\ EmptySpec["deny"] = {}
      /\ EmptySpec["timeout"] \in Int /\ EmptySpec["memory"] \in Int
      /\ \A f \in budgets : EmptySpec[f] \in Budgets
  BY DEF EmptySpec, Fields, ListFields, ScalarFields, FlagFields, None, Budgets
<1>3. \A f \in budgets : FromDict(PolicyHash(spec))[f] \in Budgets
  BY <1>1, <1>2 DEF TypedSpec
<1> QED
  BY <1>1, <1>2, <1>3 DEF TypedSpec

\* Publishing a narrowed document.
LEMMA NarrowTyped ==
  ASSUME NEW a, TypedSpec(a), NEW b, TypedSpec(b)
  PROVE  TypedSpec(FromDict(PolicyHash(Narrow(a, b))))
<1> DEFINE n == Narrow(a, b)
<1>1. SpecPermissions(a) \in PermissionSet /\ SpecPermissions(b) \in PermissionSet
  BY NamesAssumption DEF SpecPermissions, Of, PermissionSet, TypedSpec
<1>2. Intersect(SpecPermissions(a), SpecPermissions(b)) \in PermissionSet
  BY <1>1 DEF Intersect, PermissionSet
<1>3. /\ n["allow"] \subseteq Names /\ n["deny"] \subseteq Names
      /\ \A f \in {"timeout", "memory", "calls", "tokens", "budget"} : n[f] = Tighter(a[f], b[f])
  BY <1>2 DEF Narrow, PermissionSet, Fields, ListFields, ScalarFields, FlagFields
<1>4. n["timeout"] \in Int /\ n["memory"] \in Int
  BY <1>3, TighterOK DEF TypedSpec
<1>5. \A f \in {"calls", "tokens", "budget"} : n[f] \in Budgets
  BY <1>3 DEF TypedSpec, Tighter, Budgets
<1> HIDE DEF n
<1>6. TypedSpec(n)
  BY <1>3, <1>4, <1>5 DEF TypedSpec
<1> QED
  BY <1>6, PublishedTyped DEF n

\* A published document is typed (PolicyRegistry.publish).
LEMMA PublishStep ==
  ASSUME DocumentsOK, PublishDocument
  PROVE  DocumentsOK'
<1>1. PICK a \in Resolvable, b \in Resolvable :
        entries' = With(entries, PolicyHash(Narrow(a, b)), 2)
  BY DEF PublishDocument, Publish
<1>2. DOMAIN entries' = DOMAIN entries \cup {PolicyHash(Narrow(a, b))}
  BY <1>1 DEF With
<1>3. TypedSpec(FromDict(PolicyHash(Narrow(a, b))))
  BY NarrowTyped DEF DocumentsOK
<1> QED
  BY <1>2, <1>3 DEF DocumentsOK, Resolvable

\* What a step does to the blocks and the accounts.
LEMMA StepCases ==
  ASSUME StateOK, [Next]_vars
  PROVE  ContextStep /\ AccountsStep /\ DocumentsOK' /\ config' = config
<1>0. ASSUME UNCHANGED entries PROVE DocumentsOK'
  BY <1>0 DEF StateOK, DocumentsOK, Resolvable
<1>a. ASSUME UNCHANGED accounts PROVE AccountsStep
  BY <1>a DEF AccountsStep, StateOK
<1>1. CASE MaySwitch /\ Entering
  <2>1. UNCHANGED entries
    BY <1>1 DEF Entering
  <2>2. PICK t \in Workers : /\ Inside(t)
                            /\ (EnterFromSpec(t) \/ EnterDirectly(t) \/ AdoptPolicy(t))
    BY <1>1 DEF Entering, Free
  <2>3. CASE EnterFromSpec(t)
    <3>1. PICK spec \in Resolvable, hooks \in Hooks : Enter(t, FromSpec(spec, hooks))
      BY <2>3 DEF EnterFromSpec
    <3>2. Typed(FromSpec(spec, hooks))
      BY BlocksAssumption, FromSpecTyped DEF StateOK, DocumentsOK
    <3> QED
      BY <1>0, <1>1, <2>1, <2>2, <3>1, <3>2, EnterStep DEF ContextStep, Enter
  <2>4. CASE EnterDirectly(t)
    <3>1. PICK kw \in Keywords : Enter(t, kw) \/ Fail(t, kw)
      BY <2>4 DEF EnterDirectly
    <3>2. CASE Enter(t, kw)
      BY <1>0, <1>1, <2>1, <2>2, <3>2, EnterStep, BlocksAssumption DEF ContextStep, Enter
    <3>3. CASE Fail(t, kw)
      BY <1>0, <1>a, <2>1, <3>3 DEF Fail, ContextStep, contextVars
    <3> QED
      BY <3>1, <3>2, <3>3
  <2>5. CASE AdoptPolicy(t)
    BY <1>0, <1>1, <2>1, <2>2, <2>5, AdoptStep DEF AdoptPolicy, ContextStep, Adopt, entryVars
  <2> QED
    BY <2>2, <2>3, <2>4, <2>5
<1>2. CASE MaySwitch /\ (Leaving \/ Spawning)
  BY <1>0, <1>a, <1>2 DEF Leaving, Spawning, Free, entryVars, ContextStep
<1>3. CASE Metered
  BY <1>0, <1>3, MeterStep DEF Metered, contextVars, ContextStep
<1>4. CASE Heap
  BY <1>0, <1>a, <1>4 DEF Heap, Allocate, entryVars, ContextStep
<1>5. CASE PublishDocument
  BY <1>a, <1>5, PublishStep DEF PublishDocument, contextVars, entryVars, ContextStep, StateOK
<1>6. CASE UNCHANGED vars
  BY <1>0, <1>a, <1>6 DEF vars, contextVars, entryVars, ContextStep
<1>7. CASE Watching
  BY <1>0, <1>a, <1>7 DEF Watching, entryVars, ContextStep
<1> QED
  BY <1>1, <1>2, <1>3, <1>4, <1>5, <1>6, <1>7 DEF Next

\* The block that is opened has a policy.
LEMMA OpeningBlocks ==
  ASSUME StateOK, AccountsStep, NEW t \in Workers, Opening(t)
  PROVE  \E b : \E asked \in Asked :
           /\ blocks' = [blocks EXCEPT ![t] = Append(@, b)]
           /\ inherited' = inherited /\ tracing' = tracing
           /\ Len(blocks[t]) < MaxDepth
           /\ opening' = [opening EXCEPT ![t] = asked] /\ (asked = "untraced" => ~tracing)
           /\ {"policy", "started"} \subseteq DOMAIN b /\ b.started = FALSE
           /\ PolicyOK(b.policy, DOMAIN accounts') /\ ~b.policy.root
           /\ (Transitive /\ ~Current(t).root) => Stricter(b.policy, Current(t))
<1>1. PICK scope, notes : ScopeOK(scope, DOMAIN accounts') /\ Open(t, scope, notes)
  BY DEF Opening
<1> DEFINE outer == Current(t)
           p == Effective(outer, scope)
           seen == IF tracing THEN "traced" ELSE "untraced"
           asked == IF p.memory # None THEN seen ELSE "no"
           b == [policy |-> p, started |-> FALSE, run |-> notes.run,
                 required |-> notes.required, envelope |-> notes.envelope]
<1>2. /\ blocks' = [blocks EXCEPT ![t] = Append(@, b)]
      /\ inherited' = inherited /\ tracing' = tracing
      /\ Len(blocks[t]) < MaxDepth
      /\ opening' = [opening EXCEPT ![t] = asked]
  BY <1>1 DEF Open
<1>3. PolicyOK(outer, DOMAIN accounts')
  BY CurrentOK, MonotonePolicyOK DEF StateOK, AccountsStep
<1>4. /\ PolicyOK(p, DOMAIN accounts') /\ ~p.root
      /\ (Transitive /\ ~outer.root) => Stricter(p, outer)
  BY <1>1, <1>3, EffectiveOK
<1> HIDE DEF outer, p
<1>5. b.policy = p /\ b.started = FALSE /\ {"policy", "started"} \subseteq DOMAIN b
  OBVIOUS
<1>6. asked \in Asked /\ (asked = "untraced" => ~tracing)
  BY DEF Asked
<1> HIDE DEF b, asked
<1> QED
  BY <1>2, <1>4, <1>5, <1>6 DEF outer

\* A task's blocks after one more is opened, or one closed.
LEMMA OpenedBlocks ==
  ASSUME ContextOK, NEW t \in Workers, NEW b, blocks' = [blocks EXCEPT ![t] = Append(@, b)]
  PROVE  /\ \A u \in Workers : u # t => blocks'[u] = blocks[u]
         /\ IsSeq(blocks'[t]) /\ Len(blocks'[t]) = Len(blocks[t]) + 1
         /\ Len(blocks[t]) \in Nat /\ DOMAIN blocks[t] = 1..Len(blocks[t])
         /\ DOMAIN blocks'[t] = 1..(Len(blocks[t]) + 1)
         /\ \A i \in 1..Len(blocks[t]) : blocks'[t][i] = blocks[t][i]
         /\ blocks'[t][Len(blocks[t]) + 1] = b
<1>1. IsSeq(blocks[t]) /\ DOMAIN blocks = Workers
  BY DEF ContextOK
<1>2. blocks'[t] = Append(blocks[t], b) /\ \A u \in Workers : u # t => blocks'[u] = blocks[u]
  BY <1>1
<1> QED
  BY <1>1, <1>2, Longer, SeqDomain

\* A task's blocks after one is closed.
LEMMA ClosedBlocks ==
  ASSUME ContextOK, NEW t \in Workers, Close(t)
  PROVE  /\ \A u \in Workers : u # t => blocks'[u] = blocks[u]
         /\ IsSeq(blocks'[t]) /\ Len(blocks[t]) \in Nat \ {0}
         /\ Len(blocks'[t]) = Len(blocks[t]) - 1
         /\ DOMAIN blocks[t] = 1..Len(blocks[t])
         /\ DOMAIN blocks'[t] = 1..(Len(blocks[t]) - 1)
         /\ \A i \in 1..(Len(blocks[t]) - 1) : blocks'[t][i] = blocks[t][i]
<1>1. IsSeq(blocks[t]) /\ DOMAIN blocks = Workers
  BY DEF ContextOK
<1>2. /\ blocks[t] # <<>> /\ blocks'[t] = Front(blocks[t])
      /\ \A u \in Workers : u # t => blocks'[u] = blocks[u]
  BY <1>1 DEF Close
<1> QED
  BY <1>1, <1>2, Shorter, SeqDomain

\* Blocks keep their types while accounts are made.
LEMMA BlocksMonotone ==
  ASSUME StateOK, AccountsStep
  PROVE  /\ \A p : PolicyOK(p, DOMAIN accounts) => PolicyOK(p, DOMAIN accounts')
         /\ \A b : BlockOK(b, DOMAIN accounts) => BlockOK(b, DOMAIN accounts')
BY MonotonePolicyOK DEF BlockOK, AccountsStep

\* The fields of a policy that watching the heap leaves alone.
Kept == {"root", "perms", "enforce", "timeout", "memory"} \cup ObjectFields

\* Once the tracer is on for a block, the block has a baseline and knows whether
\* it asked for the tracer; nothing else changes.
LEMMA WatchedBlocks ==
  ASSUME ContextOK, NEW t \in Workers, Watch(t)
  PROVE  \E b :
           /\ \A u \in Workers : u # t => blocks'[u] = blocks[u]
           /\ IsSeq(blocks'[t]) /\ Len(blocks[t]) \in Nat \ {0}
           /\ Len(blocks'[t]) = Len(blocks[t])
           /\ DOMAIN blocks[t] = 1..Len(blocks[t]) /\ DOMAIN blocks'[t] = 1..Len(blocks[t])
           /\ \A i \in 1..(Len(blocks[t]) - 1) : blocks'[t][i] = blocks[t][i]
           /\ blocks'[t][Len(blocks[t])] = b
           /\ b.started = (opening[t] = "untraced") /\ BlockOK(b, DOMAIN accounts)
           /\ \A f \in Kept : b.policy[f] = blocks[t][Len(blocks[t])].policy[f]
<1> DEFINE n == Len(blocks[t])
           old == blocks[t][n]
           starts == opening[t] = "untraced"
           b == [old EXCEPT !.started = starts, !.policy.baseline = heap]
<1>1. /\ IsSeq(blocks[t]) /\ DOMAIN blocks = Workers /\ blocks[t] # <<>>
      /\ \A i \in DOMAIN blocks[t] : BlockOK(blocks[t][i], DOMAIN accounts)
  BY DEF ContextOK, OpeningOK, Watch
<1>2. n \in Nat \ {0} /\ DOMAIN blocks[t] = 1..n /\ n \in 1..n
  BY <1>1, SeqDomain, Shorter
<1>3. blocks' = [blocks EXCEPT ![t] = [@ EXCEPT ![Len(@)] = b]]
  BY DEF Watch, Last
<1>4. BlockOK(old, DOMAIN accounts)
  BY <1>1, <1>2
<1> HIDE DEF old
<1>5. /\ DOMAIN b = DOMAIN old /\ b.started = starts
      /\ b.policy = [old.policy EXCEPT !.baseline = heap]
  BY <1>4 DEF BlockOK
<1> HIDE DEF b
<1>6. /\ DOMAIN b.policy = DOMAIN old.policy
      /\ \A f \in Kept : b.policy[f] = old.policy[f]
  BY <1>5, FieldNames DEF Kept
<1>7. BlockOK(b, DOMAIN accounts)
  <2>1. /\ b.policy.root = old.policy.root /\ b.policy.perms = old.policy.perms
        /\ b.policy.enforce = old.policy.enforce /\ b.policy.timeout = old.policy.timeout
        /\ b.policy.memory = old.policy.memory /\ b.policy.quotas = old.policy.quotas
        /\ b.policy.cost_budgets = old.policy.cost_budgets
        /\ b.policy.others = old.policy.others
    BY <1>6, FieldNames DEF Kept
  <2>2. PolicyOK(b.policy, DOMAIN accounts)
    BY <1>4, <1>6, <2>1 DEF BlockOK, PolicyOK
  <2> QED
    BY <1>4, <1>5, <2>1, <2>2 DEF BlockOK
<1>8. /\ blocks'[t] = [blocks[t] EXCEPT ![n] = b]
      /\ \A u \in Workers : u # t => blocks'[u] = blocks[u]
  BY <1>1, <1>3
<1>9. PICK S : blocks[t] \in Seq(S)
  BY <1>1 DEF IsSeq
<1>10. blocks[t] \in Seq(S \cup {b})
  BY <1>9, SeqMonotonic
<1>11. /\ blocks'[t] \in Seq(S \cup {b}) /\ Len(blocks'[t]) = n
       /\ \A i \in 1..n : blocks'[t][i] = IF i = n THEN b ELSE blocks[t][i]
  BY <1>2, <1>8, <1>10, ExceptSeq
<1>12. DOMAIN blocks'[t] = 1..n
  BY <1>11, LenProperties
<1> WITNESS b
<1> QED
  BY <1>2, <1>5, <1>6, <1>7, <1>8, <1>11, <1>12 DEF IsSeq, old

\* A step keeps the types of the blocks.
LEMMA ContextNext ==
  ASSUME StateOK, AccountsStep, ContextStep
  PROVE  ContextOK'
<1>0. ContextOK
  BY DEF StateOK
<1>m. /\ \A p : PolicyOK(p, DOMAIN accounts) => PolicyOK(p, DOMAIN accounts')
      /\ \A b : BlockOK(b, DOMAIN accounts) => BlockOK(b, DOMAIN accounts')
  BY BlocksMonotone
<1> DEFINE Fine(t) == /\ PolicyOK(inherited[t].policy, DOMAIN accounts)
                      /\ IsSeq(blocks[t]) /\ Len(blocks[t]) <= MaxDepth
                      /\ \A i \in DOMAIN blocks[t] : BlockOK(blocks[t][i], DOMAIN accounts)
                      /\ OpeningOK(t)
<1>f. \A u \in Workers : Fine(u)
  BY <1>0 DEF ContextOK
<1>1. ASSUME NEW t \in Workers, Opening(t) PROVE ContextOK'
  <2>1. PICK b, asked :
          /\ asked \in Asked
          /\ blocks' = [blocks EXCEPT ![t] = Append(@, b)]
          /\ inherited' = inherited /\ Len(blocks[t]) < MaxDepth
          /\ opening' = [opening EXCEPT ![t] = asked]
          /\ {"policy", "started"} \subseteq DOMAIN b /\ b.started = FALSE
          /\ PolicyOK(b.policy, DOMAIN accounts') /\ ~b.policy.root
    BY <1>1, OpeningBlocks
  <2>2. DOMAIN inherited' = Workers /\ DOMAIN blocks' = Workers /\ opening' \in [Workers -> Asked]
    BY <1>0, <2>1 DEF ContextOK
  <2>3. BlockOK(b, DOMAIN accounts')
    BY <2>1 DEF BlockOK
  <2>4. Fine(t)'
    <3>1. MaxDepth \in Nat
      BY BlocksAssumption
    <3>2. /\ IsSeq(blocks'[t]) /\ Len(blocks'[t]) = Len(blocks[t]) + 1
          /\ Len(blocks[t]) \in Nat /\ DOMAIN blocks[t] = 1..Len(blocks[t])
          /\ DOMAIN blocks'[t] = 1..(Len(blocks[t]) + 1)
          /\ \A i \in 1..Len(blocks[t]) : blocks'[t][i] = blocks[t][i]
          /\ blocks'[t][Len(blocks[t]) + 1] = b
      BY <1>0, <2>1, OpenedBlocks
    <3>3. \A i \in DOMAIN blocks'[t] : BlockOK(blocks'[t][i], DOMAIN accounts')
      BY <1>f, <1>m, <2>3, <3>2
    <3>4. OpeningOK(t)'
      <4>1. blocks'[t] # <<>>
        BY <3>2, ShortSeq
      <4>2. Len(blocks'[t]) = Len(blocks[t]) + 1 /\ ~blocks'[t][Len(blocks[t]) + 1].started
        BY <2>1, <3>2
      <4> QED
        BY <4>1, <4>2 DEF OpeningOK
    <3> QED
      BY <1>f, <1>m, <2>1, <3>1, <3>2, <3>3, <3>4
  <2>5. ASSUME NEW u \in Workers, u # t PROVE Fine(u)'
    <3>1. /\ blocks'[u] = blocks[u] /\ inherited'[u] = inherited[u]
          /\ opening'[u] = opening[u]
      BY <1>0, <2>1, <2>5 DEF ContextOK
    <3> QED
      BY <1>f, <1>m, <3>1 DEF OpeningOK
  <2> QED
    BY <2>2, <2>4, <2>5 DEF ContextOK
<1>2. ASSUME NEW t \in Workers, Inside(t), Close(t) PROVE ContextOK'
  <2>1. /\ DOMAIN inherited' = Workers /\ DOMAIN blocks' = Workers /\ inherited' = inherited
        /\ opening' = opening /\ opening \in [Workers -> Asked]
    BY <1>0, <1>2 DEF ContextOK, Close
  <2>2. Fine(t)'
    <3>1. MaxDepth \in Nat
      BY BlocksAssumption
    <3>2. /\ IsSeq(blocks'[t]) /\ Len(blocks[t]) \in Nat \ {0}
          /\ Len(blocks'[t]) = Len(blocks[t]) - 1
          /\ DOMAIN blocks[t] = 1..Len(blocks[t])
          /\ DOMAIN blocks'[t] = 1..(Len(blocks[t]) - 1)
          /\ \A i \in 1..(Len(blocks[t]) - 1) : blocks'[t][i] = blocks[t][i]
      BY <1>0, <1>2, ClosedBlocks
    <3>3. \A i \in DOMAIN blocks'[t] : BlockOK(blocks'[t][i], DOMAIN accounts')
      BY <1>f, <1>m, <3>2
    <3>4. OpeningOK(t)'
      BY <1>2, <2>1 DEF OpeningOK, Inside
    <3> QED
      BY <1>f, <1>m, <2>1, <3>1, <3>2, <3>3, <3>4
  <2>3. ASSUME NEW u \in Workers, u # t PROVE Fine(u)'
    <3>1. blocks'[u] = blocks[u] /\ inherited'[u] = inherited[u]
      BY <1>0, <1>2, <2>1, <2>3, ClosedBlocks
    <3> QED
      BY <1>f, <1>m, <2>1, <3>1 DEF OpeningOK
  <2> QED
    BY <2>1, <2>2, <2>3 DEF ContextOK
<1>3. ASSUME NEW t \in Workers, NEW child \in Workers, Spawn(t, child) PROVE ContextOK'
  <2>1. /\ blocks' = blocks /\ DOMAIN inherited' = Workers /\ DOMAIN blocks' = Workers
        /\ opening' = opening /\ opening \in [Workers -> Asked]
    BY <1>0, <1>3 DEF ContextOK, Spawn
  <2>2. PolicyOK(inherited'[child].policy, DOMAIN accounts)
    <3>1. inherited'[child].policy = Current(t)
      BY <1>0, <1>3 DEF Spawn, ContextOK
    <3> QED
      BY <1>0, <3>1, CurrentOK
  <2>3. ASSUME NEW u \in Workers PROVE Fine(u)'
    <3>1. u # child => inherited'[u] = inherited[u]
      BY <1>0, <1>3 DEF Spawn, ContextOK
    <3> QED
      BY <1>f, <1>m, <2>1, <2>2, <3>1 DEF OpeningOK
  <2> QED
    BY <2>1, <2>3 DEF ContextOK
<1>4. CASE UNCHANGED <<inherited, blocks, opening>>
  <2>1. \A u \in Workers : Fine(u)'
    BY <1>f, <1>m, <1>4 DEF OpeningOK
  <2> QED
    BY <1>0, <1>4, <2>1 DEF ContextOK
<1>5. ASSUME NEW t \in Workers, Watch(t) PROVE ContextOK'
  <2>1. /\ inherited' = inherited /\ DOMAIN inherited = Workers
        /\ DOMAIN blocks = Workers /\ DOMAIN blocks' = DOMAIN blocks
        /\ opening' = [opening EXCEPT ![t] = "no"] /\ opening \in [Workers -> Asked]
    BY <1>0, <1>5 DEF ContextOK, Watch
  <2>2. Fine(t)'
    <3>1. PICK b : /\ IsSeq(blocks'[t]) /\ Len(blocks[t]) \in Nat \ {0}
                   /\ Len(blocks'[t]) = Len(blocks[t])
                   /\ DOMAIN blocks[t] = 1..Len(blocks[t])
                   /\ DOMAIN blocks'[t] = 1..Len(blocks[t])
                   /\ \A i \in 1..(Len(blocks[t]) - 1) : blocks'[t][i] = blocks[t][i]
                   /\ blocks'[t][Len(blocks[t])] = b /\ BlockOK(b, DOMAIN accounts)
      BY <1>0, <1>5, WatchedBlocks
    <3>2. \A i \in DOMAIN blocks'[t] : BlockOK(blocks'[t][i], DOMAIN accounts')
      <4>1. \A i \in 1..Len(blocks[t]) : i \in 1..(Len(blocks[t]) - 1) \/ i = Len(blocks[t])
        BY <3>1
      <4> QED
        BY <1>f, <1>m, <3>1, <4>1
    <3>3. OpeningOK(t)'
      BY <2>1 DEF OpeningOK
    <3> QED
      BY <1>f, <1>m, <2>1, <3>1, <3>2, <3>3
  <2>3. ASSUME NEW u \in Workers, u # t PROVE Fine(u)'
    <3>1. blocks'[u] = blocks[u] /\ opening'[u] = opening[u]
      BY <1>0, <1>5, <2>1, <2>3, WatchedBlocks
    <3> QED
      BY <1>f, <1>m, <2>1, <3>1 DEF OpeningOK
  <2>4. opening' \in [Workers -> Asked]
    BY <2>1 DEF Asked
  <2> QED
    BY <2>1, <2>2, <2>3, <2>4 DEF ContextOK
<1> QED
  BY <1>1, <1>2, <1>3, <1>4, <1>5 DEF ContextStep

\* The types hold at the start.
LEMMA StateInit == Init => StateOK
<1> SUFFICES ASSUME Init PROVE StateOK
  OBVIOUS
<1>1. IsSeq(accounts)
  BY ShortSeq DEF Init, EntryInit
<1>2. ContextOK
  <2>1. inherited = [t \in Workers |-> Outside] /\ blocks = [t \in Workers |-> <<>>]
    BY DEF Init, ContextInit
  <2>2. Outside.policy = Root
    BY DEF Outside
  <2>3. DOMAIN <<>> = {}
    OBVIOUS
  <2>4. opening = [t \in Workers |-> "no"] /\ opening \in [Workers -> Asked]
    BY DEF Init, ContextInit, Asked
  <2> QED
    BY <2>1, <2>2, <2>3, <2>4, RootOK, ShortSeq, BlocksAssumption DEF ContextOK, OpeningOK
<1>3. DocumentsOK
  <2>1. DOMAIN entries = {PolicyHash(d) : d \in Documents}
    BY DEF Init, RegistryInit
  <2>2. \A d \in Documents : TypedSpec(FromDict(PolicyHash(d)))
    BY BlocksAssumption, PublishedTyped
  <2> QED
    BY <2>1, <2>2 DEF DocumentsOK, Resolvable
<1> QED
  BY <1>1, <1>2, <1>3 DEF StateOK

\* A step keeps the types.
LEMMA StateNext == StateOK /\ [Next]_vars => StateOK'
BY StepCases, ContextNext DEF StateOK, AccountsStep

-----------------------------------------------------------------------------
(* The ratchet                                                             *)

\* The blocks of a task, each against the ones around it and against the
\* policy the task was started with.
Ratcheted(t) ==
  \A j \in DOMAIN blocks[t] :
    /\ ~inherited[t].policy.root => Stricter(blocks[t][j].policy, inherited[t].policy)
    /\ \A i \in 1..(j - 1) : Stricter(blocks[t][j].policy, blocks[t][i].policy)

RatchetInv == StateOK /\ \A t \in Workers : Ratcheted(t)

\* A block that is opened is at least as strict as the one around it.
LEMMA RatchetOpens ==
  ASSUME Transitive, RatchetInv, AccountsStep,
         NEW t \in Workers, Opening(t)
  PROVE  \A u \in Workers : Ratcheted(u)'
<1>0. StateOK /\ ContextOK
  BY DEF RatchetInv, StateOK
<1>1. PICK b, asked : /\ blocks' = [blocks EXCEPT ![t] = Append(@, b)]
                      /\ inherited' = inherited
                      /\ PolicyOK(b.policy, DOMAIN accounts')
                      /\ ~Current(t).root => Stricter(b.policy, Current(t))
  BY <1>0, OpeningBlocks
<1> DEFINE n == Len(blocks[t])
<1>2. /\ \A u \in Workers : u # t => blocks'[u] = blocks[u]
      /\ n \in Nat /\ DOMAIN blocks[t] = 1..n /\ DOMAIN blocks'[t] = 1..(n + 1)
      /\ \A i \in 1..n : blocks'[t][i] = blocks[t][i]
      /\ blocks'[t][n + 1] = b
  BY <1>0, <1>1, OpenedBlocks
<1> HIDE DEF n
<1>3. ASSUME NEW u \in Workers, u # t PROVE Ratcheted(u)'
  BY <1>1, <1>2, <1>3 DEF Ratcheted, RatchetInv
<1>4. PolicyOK(inherited[t].policy, DOMAIN accounts')
      /\ \A i \in 1..n : PolicyOK(blocks[t][i].policy, DOMAIN accounts') /\ ~blocks[t][i].policy.root
  BY <1>0, <1>2, BlocksMonotone DEF ContextOK, BlockOK
\* The new block against the rest.
<1>5. /\ ~inherited[t].policy.root => Stricter(b.policy, inherited[t].policy)
      /\ \A i \in 1..n : Stricter(b.policy, blocks[t][i].policy)
  <2>1. CASE n = 0
    <3>1. blocks[t] = <<>>
      BY <1>0, <2>1, Shorter DEF n, ContextOK
    <3> QED
      BY <1>0, <1>1, <2>1, <3>1, CurrentOK
  <2>2. CASE n # 0
    <3>1. blocks[t] # <<>>
      BY <1>2, <2>2, ShortSeq DEF n
    <3>2. Current(t) = blocks[t][n].policy /\ n \in 1..n
      BY <1>0, <1>2, <2>2, <3>1, CurrentOK DEF n
    <3>3. Stricter(b.policy, blocks[t][n].policy)
      BY <1>1, <1>4, <3>2
    <3>4. Ratcheted(t)
      BY DEF RatchetInv
    <3>5. ASSUME ~inherited[t].policy.root PROVE Stricter(b.policy, inherited[t].policy)
      BY <1>1, <1>2, <1>4, <3>2, <3>3, <3>4, <3>5, StricterTransitive DEF Ratcheted
    <3>6. ASSUME NEW i \in 1..n, i # n PROVE Stricter(b.policy, blocks[t][i].policy)
      <4>1. i \in 1..(n - 1)
        BY <1>2, <3>6
      <4>2. Stricter(blocks[t][n].policy, blocks[t][i].policy)
        BY <1>2, <3>2, <3>4, <4>1 DEF Ratcheted
      <4> QED
        BY <1>1, <1>4, <3>2, <3>3, <4>2, StricterTransitive
    <3> QED
      BY <3>3, <3>5, <3>6
  <2> QED
    BY <2>1, <2>2
<1>6. Ratcheted(t)'
  <2> SUFFICES ASSUME NEW j \in 1..(n + 1)
               PROVE  /\ ~inherited[t].policy.root =>
                           Stricter(blocks'[t][j].policy, inherited[t].policy)
                      /\ \A i \in 1..(j - 1) : Stricter(blocks'[t][j].policy, blocks'[t][i].policy)
    BY <1>1, <1>2 DEF Ratcheted
  <2>1. CASE j = n + 1
    BY <1>2, <1>5, <2>1
  <2>2. CASE j # n + 1
    <3>1. j \in 1..n /\ \A i \in 1..(j - 1) : i \in 1..n
      BY <1>2, <2>2
    <3>2. Ratcheted(t)
      BY DEF RatchetInv
    <3> QED
      BY <1>2, <3>1, <3>2 DEF Ratcheted
  <2> QED
    BY <2>1, <2>2
<1> QED
  BY <1>3, <1>6

\* Reading the baseline leaves a block as strict as it was.
LEMMA RatchetWatches ==
  ASSUME RatchetInv, NEW t \in Workers, Watch(t)
  PROVE  \A u \in Workers : Ratcheted(u)'
<1>0. ContextOK /\ \A u \in Workers : Ratcheted(u)
  BY DEF RatchetInv, StateOK
<1> DEFINE n == Len(blocks[t])
<1>1. PICK b : /\ \A u \in Workers : u # t => blocks'[u] = blocks[u]
               /\ n \in Nat \ {0} /\ DOMAIN blocks[t] = 1..n /\ DOMAIN blocks'[t] = 1..n
               /\ \A i \in 1..(n - 1) : blocks'[t][i] = blocks[t][i]
               /\ blocks'[t][n] = b
               /\ \A f \in Kept : b.policy[f] = blocks[t][n].policy[f]
  BY <1>0, WatchedBlocks
<1>2. inherited' = inherited
  BY DEF Watch
<1> HIDE DEF n
<1>3. /\ b.policy.perms = blocks[t][n].policy.perms
      /\ b.policy.enforce = blocks[t][n].policy.enforce
      /\ b.policy.timeout = blocks[t][n].policy.timeout
      /\ \A f \in ObjectFields : b.policy[f] = blocks[t][n].policy[f]
  BY <1>1 DEF Kept
<1>4. \A p : Stricter(blocks[t][n].policy, p) => Stricter(b.policy, p)
  BY <1>3 DEF Stricter
<1>5. ASSUME NEW j \in 1..n
      PROVE  /\ ~inherited[t].policy.root => Stricter(blocks'[t][j].policy, inherited[t].policy)
             /\ \A i \in 1..(j - 1) : Stricter(blocks'[t][j].policy, blocks'[t][i].policy)
  <2>1. /\ ~inherited[t].policy.root => Stricter(blocks[t][j].policy, inherited[t].policy)
        /\ \A i \in 1..(j - 1) : Stricter(blocks[t][j].policy, blocks[t][i].policy)
    BY <1>0, <1>1 DEF Ratcheted
  <2>2. \A i \in 1..(j - 1) : blocks'[t][i] = blocks[t][i]
    BY <1>1
  <2>3. CASE j = n
    BY <1>1, <1>4, <2>1, <2>2, <2>3
  <2>4. CASE j # n
    <3>1. blocks'[t][j] = blocks[t][j]
      BY <1>1, <2>4
    <3> QED
      BY <2>1, <2>2, <3>1
  <2> QED
    BY <2>3, <2>4
<1>6. ASSUME NEW u \in Workers, u # t PROVE Ratcheted(u)'
  BY <1>0, <1>1, <1>2, <1>6 DEF Ratcheted
<1> QED
  BY <1>1, <1>2, <1>5, <1>6 DEF Ratcheted

\* A step keeps the ratchet between neighbouring blocks.
LEMMA RatchetNext == ASSUME Transitive PROVE RatchetInv /\ [Next]_vars => RatchetInv'
<1> SUFFICES ASSUME RatchetInv, [Next]_vars PROVE RatchetInv'
  OBVIOUS
<1>1. StateOK /\ StateOK' /\ ContextOK /\ ContextStep /\ AccountsStep
  BY StateNext, StepCases DEF RatchetInv, StateOK
<1>2. ASSUME NEW t \in Workers, Opening(t) PROVE \A u \in Workers : Ratcheted(u)'
  BY <1>1, <1>2, RatchetOpens
<1>3. ASSUME NEW t \in Workers, Close(t) PROVE \A u \in Workers : Ratcheted(u)'
  <2>1. inherited' = inherited
    BY <1>3 DEF Close
  <2>2. /\ \A u \in Workers : u # t => blocks'[u] = blocks[u]
        /\ DOMAIN blocks[t] = 1..Len(blocks[t]) /\ Len(blocks[t]) \in Nat
        /\ DOMAIN blocks'[t] = 1..(Len(blocks[t]) - 1)
        /\ \A i \in 1..(Len(blocks[t]) - 1) : blocks'[t][i] = blocks[t][i]
    BY <1>1, <1>3, ClosedBlocks
  <2>3. Ratcheted(t)'
    <3> SUFFICES ASSUME NEW j \in 1..(Len(blocks[t]) - 1)
                 PROVE  /\ ~inherited[t].policy.root =>
                             Stricter(blocks'[t][j].policy, inherited[t].policy)
                        /\ \A i \in 1..(j - 1) :
                             Stricter(blocks'[t][j].policy, blocks'[t][i].policy)
      BY <2>1, <2>2 DEF Ratcheted
    <3>1. j \in 1..Len(blocks[t]) /\ \A i \in 1..(j - 1) : i \in 1..(Len(blocks[t]) - 1)
      BY <2>2
    <3>2. Ratcheted(t)
      BY DEF RatchetInv
    <3> QED
      BY <2>2, <3>1, <3>2 DEF Ratcheted
  <2> QED
    BY <2>1, <2>2, <2>3 DEF RatchetInv, Ratcheted
<1>4. ASSUME NEW t \in Workers, NEW child \in Workers, Spawn(t, child)
      PROVE  \A u \in Workers : Ratcheted(u)'
  <2>1. /\ blocks' = blocks /\ blocks[child] = <<>>
        /\ \A u \in Workers : u # child => inherited'[u] = inherited[u]
    BY <1>1, <1>4 DEF Spawn, ContextOK
  <2>2. Ratcheted(child)'
    BY <2>1 DEF Ratcheted
  <2> QED
    BY <2>1, <2>2 DEF RatchetInv, Ratcheted
<1>5. ASSUME UNCHANGED <<inherited, blocks>> PROVE \A u \in Workers : Ratcheted(u)'
  BY <1>5 DEF RatchetInv, Ratcheted
<1>6. ASSUME NEW t \in Workers, Watch(t) PROVE \A u \in Workers : Ratcheted(u)'
  BY <1>1, <1>6, RatchetWatches
<1> QED
  BY <1>1, <1>2, <1>3, <1>4, <1>5, <1>6 DEF RatchetInv, ContextStep

\* Neighbouring blocks that get stricter make a chain that does.
LEMMA ChainIs ==
  ASSUME ContextOK, NEW t \in Workers
  PROVE  /\ Len(blocks[t]) \in Nat /\ DOMAIN blocks[t] = 1..Len(blocks[t])
         /\ DOMAIN Chain(t) = 1..(Len(blocks[t]) + 1)
         /\ Chain(t)[1] = inherited[t].policy
         /\ \A i \in 1..Len(blocks[t]) : Chain(t)[i + 1] = blocks[t][i].policy
<1> DEFINE n == Len(blocks[t])
           own == [i \in DOMAIN blocks[t] |-> blocks[t][i].policy]
           S == {own[i] : i \in 1..n} \cup {inherited[t].policy}
<1>1. n \in Nat /\ DOMAIN blocks[t] = 1..n
  BY SeqDomain DEF ContextOK
<1>2. own \in [1..n -> S]
  BY <1>1
<1>3. own \in Seq(S) /\ Len(own) = n
  BY <1>1, <1>2, SeqDef
<1>4. <<inherited[t].policy>> \in Seq(S) /\ Len(<<inherited[t].policy>>) = 1
  OBVIOUS
<1>5. Chain(t) = <<inherited[t].policy>> \o own
  BY DEF Chain
<1>6. \A i \in 1..n : own[i] = blocks[t][i].policy
  BY <1>1
<1> HIDE DEF n, own, S
<1>7. /\ Chain(t) \in Seq(S) /\ Len(Chain(t)) = 1 + n
      /\ \A i \in 1..(1 + n) : Chain(t)[i] = IF i <= 1 THEN <<inherited[t].policy>>[i] ELSE own[i - 1]
  BY <1>3, <1>4, <1>5, ConcatProperties
<1>8. DOMAIN Chain(t) = 1..(n + 1)
  BY <1>1, <1>7, LenProperties
<1>9. Chain(t)[1] = inherited[t].policy
  BY <1>1, <1>7
<1>10. ASSUME NEW i \in 1..n PROVE Chain(t)[i + 1] = blocks[t][i].policy
  <2>1. i + 1 \in 1..(1 + n) /\ ~(i + 1 <= 1) /\ i + 1 - 1 = i
    BY <1>1
  <2> QED
    BY <1>6, <1>7, <2>1
<1> QED
  BY <1>1, <1>8, <1>9, <1>10 DEF n

\* The ratchet between neighbours is the ratchet between any two blocks.
LEMMA RatchetHolds == RatchetInv => Ratchet
<1> SUFFICES ASSUME RatchetInv, NEW t \in Workers,
                    NEW i \in DOMAIN Chain(t), NEW j \in DOMAIN Chain(t),
                    i < j, ~Chain(t)[i].root
             PROVE  Stricter(Chain(t)[j], Chain(t)[i])
  BY DEF Ratchet
<1>1. ContextOK /\ Ratcheted(t)
  BY DEF RatchetInv, StateOK
<1> DEFINE n == Len(blocks[t])
<1>2. /\ n \in Nat /\ DOMAIN blocks[t] = 1..n /\ DOMAIN Chain(t) = 1..(n + 1)
      /\ Chain(t)[1] = inherited[t].policy
      /\ \A k \in 1..n : Chain(t)[k + 1] = blocks[t][k].policy
  BY <1>1, ChainIs
<1> HIDE DEF n
<1> DEFINE jj == j - 1
           ii == i - 1
<1>3. jj \in 1..n /\ j = jj + 1 /\ i = ii + 1 /\ (i = 1 \/ ii \in 1..(jj - 1)) /\ (i # 1 => ii \in 1..n)
  BY <1>2
<1> HIDE DEF jj, ii
<1>4. Chain(t)[j] = blocks[t][jj].policy
  BY <1>2, <1>3
<1>5. CASE i = 1
  BY <1>1, <1>2, <1>3, <1>4, <1>5 DEF Ratcheted
<1>6. CASE i # 1
  <2>1. Chain(t)[i] = blocks[t][ii].policy
    BY <1>2, <1>3, <1>6
  <2> QED
    BY <1>1, <1>2, <1>3, <1>4, <1>6, <2>1 DEF Ratcheted
<1> QED
  BY <1>5, <1>6

\* The one-way ratchet of safety_context in all but memory limits, for any
\* number of tasks and depth of blocks, any documents, keywords and envelopes,
\* and any transitive matching: capabilities, timeouts, limits, guards, gates
\* and enforcement only tighten.
THEOREM RatchetSafe == ASSUME Transitive PROVE Spec => []Ratchet
<1>1. Init => RatchetInv
  <2> SUFFICES ASSUME Init PROVE \A t \in Workers : Ratcheted(t)
    BY StateInit DEF RatchetInv
  <2> QED
    BY DEF Init, ContextInit, Ratcheted
<1>2. RatchetInv /\ [Next]_vars => RatchetInv'
  BY RatchetNext
<1> QED
  BY <1>1, <1>2, RatchetHolds, PTL DEF Spec

-----------------------------------------------------------------------------
(* Tracing                                                                 *)

\* Among asyncio tasks the tracer is off, or one open block turned it on.
Owned ==
  \/ ~tracing /\ Starters = {}
  \/ tracing /\ \E x : Starters = {x}

\* One of them is on its way into a block at most, and what it was told of the
\* tracer still holds.
Alone ==
  /\ \A t, u \in Workers : opening[t] # "no" /\ opening[u] # "no" => t = u
  /\ \A t \in Workers : opening[t] = "untraced" => ~tracing

TracingInv ==
  /\ StateOK /\ tracing \in BOOLEAN
  /\ tracing => Starters # {}
  /\ config.mode \notin Threaded => Owned /\ Alone

\* The blocks that turned the tracer on.
LEMMA StarterIff ==
  ASSUME NEW t \in Workers, NEW i \in 1..MaxDepth
  PROVE  <<t, i>> \in Starters <=> i \in DOMAIN blocks[t] /\ blocks[t][i].started
BY DEF Starters

\* Entering a block turns nothing on yet.
LEMMA TracingOpens ==
  ASSUME TracingInv, AccountsStep, MaySwitch, config' = config,
         NEW t \in Workers, Inside(t), Opening(t)
  PROVE  /\ tracing' = tracing /\ Starters' = Starters
         /\ config.mode \notin Threaded => Alone'
<1>0. StateOK /\ ContextOK
  BY DEF TracingInv, StateOK
<1>1. PICK b, asked :
        /\ blocks' = [blocks EXCEPT ![t] = Append(@, b)]
        /\ opening' = [opening EXCEPT ![t] = asked] /\ (asked = "untraced" => ~tracing)
        /\ tracing' = tracing /\ b.started = FALSE
  BY <1>0, OpeningBlocks
<1> DEFINE n == Len(blocks[t])
<1>2. /\ \A u \in Workers : u # t => blocks'[u] = blocks[u]
      /\ n \in Nat /\ DOMAIN blocks[t] = 1..n /\ DOMAIN blocks'[t] = 1..(n + 1)
      /\ \A i \in 1..n : blocks'[t][i] = blocks[t][i]
      /\ blocks'[t][n + 1] = b
  BY <1>0, <1>1, OpenedBlocks
<1> HIDE DEF n
<1>3. ASSUME NEW u \in Workers, NEW i \in 1..MaxDepth
      PROVE  <<u, i>> \in Starters' <=> <<u, i>> \in Starters
  <2>1. <<u, i>> \in Starters' <=> i \in DOMAIN blocks'[u] /\ blocks'[u][i].started
    BY DEF Starters
  <2>2. CASE u # t
    BY <1>2, <2>1, <2>2, StarterIff
  <2>3. CASE u = t
    <3>1. i \in 1..(n + 1) <=> i \in 1..n \/ i = n + 1
      BY <1>2
    <3> QED
      BY <1>1, <1>2, <2>1, <2>3, <3>1, StarterIff
  <2> QED
    BY <2>2, <2>3
<1>4. Starters' = Starters
  <2>1. Starters \subseteq Workers \X (1..MaxDepth) /\ Starters' \subseteq Workers \X (1..MaxDepth)
    BY DEF Starters
  <2> QED
    BY <1>3, <2>1
<1>5. ASSUME config.mode \notin Threaded PROVE Alone'
  <2>1. \A u \in Workers : opening[u] = "no"
    BY <1>5 DEF MaySwitch, Inside
  <2>2. \A u \in Workers : opening'[u] = IF u = t THEN asked ELSE "no"
    BY <1>0, <1>1, <2>1 DEF ContextOK
  <2> QED
    BY <1>1, <2>2 DEF Alone
<1> QED
  BY <1>1, <1>4, <1>5

\* The block that asked for the tracer has turned it on.
LEMMA TracingWatches ==
  ASSUME TracingInv, NEW t \in Workers, Watch(t)
  PROVE  \E x :
           /\ Starters' = IF opening[t] = "untraced" THEN Starters \cup {x} ELSE Starters
           /\ config.mode \notin Threaded => Alone'
<1>0. StateOK /\ ContextOK /\ MaxDepth \in Nat
  BY BlocksAssumption DEF TracingInv, StateOK
<1> DEFINE n == Len(blocks[t])
<1>1. PICK b : /\ \A u \in Workers : u # t => blocks'[u] = blocks[u]
               /\ n \in Nat \ {0} /\ DOMAIN blocks[t] = 1..n /\ DOMAIN blocks'[t] = 1..n
               /\ \A i \in 1..(n - 1) : blocks'[t][i] = blocks[t][i]
               /\ blocks'[t][n] = b /\ b.started = (opening[t] = "untraced")
  BY <1>0, WatchedBlocks
<1>2. /\ opening[t] # "no" /\ opening' = [opening EXCEPT ![t] = "no"]
      /\ tracing' = (tracing \/ opening[t] = "untraced")
  BY DEF Watch
<1>3. ~blocks[t][n].started /\ n <= MaxDepth /\ n \in 1..MaxDepth
  BY <1>0, <1>1, <1>2 DEF ContextOK, OpeningOK
<1> HIDE DEF n
<1>4. ASSUME NEW u \in Workers, NEW i \in 1..MaxDepth
      PROVE  <<u, i>> \in Starters' <=>
               <<u, i>> \in Starters \/ (opening[t] = "untraced" /\ u = t /\ i = n)
  <2>1. <<u, i>> \in Starters' <=> i \in DOMAIN blocks'[u] /\ blocks'[u][i].started
    BY DEF Starters
  <2>2. CASE u # t
    BY <1>1, <2>1, <2>2, StarterIff
  <2>3. CASE u = t /\ i # n
    <3>1. i \in 1..n <=> i \in 1..(n - 1)
      BY <1>1, <2>3
    <3> QED
      BY <1>1, <2>1, <2>3, <3>1, StarterIff
  <2>4. CASE u = t /\ i = n
    <3>1. blocks'[t][n].started <=> opening[t] = "untraced"
      BY <1>1
    <3>2. n \in 1..n /\ ~(<<t, n>> \in Starters)
      BY <1>1, <1>3, StarterIff
    <3> QED
      BY <1>1, <2>1, <2>4, <3>1, <3>2
  <2> QED
    BY <2>2, <2>3, <2>4
<1>5. Starters' = IF opening[t] = "untraced" THEN Starters \cup {<<t, n>>} ELSE Starters
  <2>1. Starters \subseteq Workers \X (1..MaxDepth) /\ Starters' \subseteq Workers \X (1..MaxDepth)
    BY DEF Starters
  <2>2. CASE opening[t] = "untraced"
    BY <1>3, <1>4, <2>1, <2>2
  <2>3. CASE opening[t] # "untraced"
    BY <1>4, <2>1, <2>3
  <2> QED
    BY <2>2, <2>3
<1>6. ASSUME config.mode \notin Threaded PROVE Alone'
  <2>1. \A u \in Workers : u # t => opening[u] = "no"
    BY <1>2, <1>6 DEF TracingInv, Alone
  <2>2. \A u \in Workers : opening'[u] = "no"
    BY <1>0, <1>2, <2>1 DEF ContextOK
  <2> QED
    BY <2>2 DEF Alone
<1> QED
  BY <1>5, <1>6

\* Leaving takes the block's own claim on the tracer with it.
LEMMA TracingCloses ==
  ASSUME TracingInv, NEW t \in Workers, Close(t)
  PROVE  \E x : Starters' = Starters \ {x} /\ tracing' = (tracing /\ x \notin Starters)
<1>0. StateOK /\ ContextOK /\ MaxDepth \in Nat
  BY BlocksAssumption DEF TracingInv, StateOK
<1> DEFINE n == Len(blocks[t])
<1>1. /\ \A u \in Workers : u # t => blocks'[u] = blocks[u]
      /\ n \in Nat \ {0} /\ DOMAIN blocks[t] = 1..n /\ DOMAIN blocks'[t] = 1..(n - 1)
      /\ \A i \in 1..(n - 1) : blocks'[t][i] = blocks[t][i]
  BY <1>0, ClosedBlocks
<1>2. n <= MaxDepth /\ n \in 1..MaxDepth
  BY <1>0, <1>1 DEF ContextOK
<1>3. tracing' = (tracing /\ ~blocks[t][n].started)
  BY DEF Close, Last
<1> HIDE DEF n
<1>4. <<t, n>> \in Starters <=> blocks[t][n].started
  BY <1>1, <1>2, StarterIff
<1>5. ASSUME NEW u \in Workers, NEW i \in 1..MaxDepth
      PROVE  <<u, i>> \in Starters' <=> <<u, i>> \in Starters /\ ~(u = t /\ i = n)
  <2>1. <<u, i>> \in Starters' <=> i \in DOMAIN blocks'[u] /\ blocks'[u][i].started
    BY DEF Starters
  <2>2. CASE u # t
    BY <1>1, <2>1, <2>2, StarterIff
  <2>3. CASE u = t
    <3>1. i \in 1..(n - 1) <=> i \in 1..n /\ i # n
      BY <1>1
    <3> QED
      BY <1>1, <2>1, <2>3, <3>1, StarterIff
  <2> QED
    BY <2>2, <2>3
<1>6. Starters' = Starters \ {<<t, n>>}
  <2>1. Starters \subseteq Workers \X (1..MaxDepth) /\ Starters' \subseteq Workers \X (1..MaxDepth)
    BY DEF Starters
  <2> QED
    BY <1>2, <1>5, <2>1
<1> QED
  BY <1>3, <1>4, <1>6

\* A step leaves the tracer owned.
LEMMA TracingNext == TracingInv /\ [Next]_vars => TracingInv'
<1> SUFFICES ASSUME TracingInv, [Next]_vars PROVE TracingInv'
  OBVIOUS
<1>0. /\ StateOK /\ StateOK' /\ ContextStep /\ AccountsStep /\ config' = config
      /\ tracing \in BOOLEAN /\ (tracing => Starters # {})
      /\ config.mode \notin Threaded => Owned /\ Alone
  BY StepCases, StateNext DEF TracingInv
<1>1. ASSUME MaySwitch, NEW t \in Workers, Inside(t), Opening(t) PROVE TracingInv'
  <2>1. tracing' = tracing /\ Starters' = Starters /\ (config.mode \notin Threaded => Alone')
    BY <1>0, <1>1, TracingOpens
  <2> QED
    BY <1>0, <2>1 DEF TracingInv, Owned
<1>2. ASSUME NEW t \in Workers, Watch(t) PROVE TracingInv'
  <2>1. PICK x : /\ Starters' = IF opening[t] = "untraced" THEN Starters \cup {x} ELSE Starters
                 /\ config.mode \notin Threaded => Alone'
    BY <1>2, TracingWatches
  <2>2. tracing' = (tracing \/ opening[t] = "untraced")
    BY <1>2 DEF Watch
  <2>3. ASSUME config.mode \notin Threaded PROVE Owned'
    <3>1. opening[t] = "untraced" => ~tracing
      BY <1>0, <2>3 DEF Alone
    <3> QED
      BY <1>0, <2>1, <2>2, <2>3, <3>1 DEF Owned
  <2>4. tracing' \in BOOLEAN /\ (tracing' => Starters' # {})
    BY <1>0, <2>1, <2>2
  <2> QED
    BY <1>0, <2>1, <2>3, <2>4 DEF TracingInv
<1>3. ASSUME MaySwitch, NEW t \in Workers, Inside(t), Close(t) PROVE TracingInv'
  <2>1. PICK x : Starters' = Starters \ {x} /\ tracing' = (tracing /\ x \notin Starters)
    BY <1>3, TracingCloses
  <2>2. tracing' \in BOOLEAN /\ (tracing' => Starters' # {})
    BY <1>0, <2>1
  <2>3. ASSUME config.mode \notin Threaded PROVE Owned' /\ Alone'
    <3>1. Owned'
      BY <1>0, <2>1, <2>3 DEF Owned
    <3>2. opening' = opening /\ \A u \in Workers : opening[u] = "no"
      BY <1>3, <2>3 DEF MaySwitch, Inside, Close
    <3> QED
      BY <3>1, <3>2 DEF Alone
  <2> QED
    BY <1>0, <2>2, <2>3 DEF TracingInv
<1>4. ASSUME UNCHANGED <<blocks, opening, tracing>> PROVE TracingInv'
  <2>1. Starters' = Starters
    BY <1>4 DEF Starters
  <2> QED
    BY <1>0, <1>4, <2>1 DEF TracingInv, Owned, Alone
<1> QED
  BY <1>0, <1>1, <1>2, <1>3, <1>4 DEF ContextStep, Spawn

\* While the process is traced, a block that turned tracing on is open, also
\* where threads are stopped between is_tracing() and start(); among asyncio
\* tasks it is one block, and tracing is on as long as it is open
\* (started_tracing in safety_context).
THEOREM TracingSafe == Spec => []TracingOwned
<1>1. Init => TracingInv
  <2> SUFFICES ASSUME Init PROVE tracing \in BOOLEAN /\ (tracing => Starters # {}) /\ Owned /\ Alone
    BY StateInit DEF TracingInv
  <2>1. /\ tracing = FALSE /\ \A t \in Workers : blocks[t] = <<>>
        /\ \A t \in Workers : opening[t] = "no"
    BY DEF Init, ContextInit
  <2>2. Starters = {}
    BY <2>1 DEF Starters
  <2> QED
    BY <2>1, <2>2 DEF Owned, Alone
<1>2. TracingInv => TracingOwned
  <2> SUFFICES ASSUME TracingInv, config.mode \notin Threaded
               PROVE  Cardinality(Starters) <= 1 /\ (Starters # {} => tracing)
    BY DEF TracingInv, TracingOwned
  <2>1. Cardinality({}) = 0 /\ \A x : Cardinality({x}) = 1
    BY FS_EmptySet, FS_Singleton
  <2>2. ASSUME Starters = {} PROVE Cardinality(Starters) <= 1
    BY <2>1, <2>2, SMTT(30)
  <2>3. ASSUME tracing, NEW x, Starters = {x}
        PROVE  Cardinality(Starters) <= 1
    BY <2>1, <2>3, SMTT(30)
  <2> QED
    BY <2>2, <2>3 DEF TracingInv, Owned
<1> QED
  BY <1>1, <1>2, TracingNext, PTL DEF Spec

-----------------------------------------------------------------------------
(* Envelopes                                                               *)

\* The block that is opened, as far as envelopes are concerned.
LEMMA OpenedRecord ==
  ASSUME NEW t, NEW scope, NEW notes, Open(t, scope, notes)
  PROVE  \E b :
           /\ blocks' = [blocks EXCEPT ![t] = Append(@, b)]
           /\ b.policy = Effective(Current(t), scope)
           /\ b.required = notes.required /\ b.envelope = notes.envelope
<1> DEFINE p == Effective(Current(t), scope)
           b == [policy |-> p, started |-> FALSE, run |-> notes.run,
                 required |-> notes.required, envelope |-> notes.envelope]
<1>1. blocks' = [blocks EXCEPT ![t] = Append(@, b)]
  BY DEF Open
<1>2. b.policy = p /\ b.required = notes.required /\ b.envelope = notes.envelope
  OBVIOUS
<1> HIDE DEF b, p
<1> WITNESS b
<1> QED
  BY <1>1, <1>2 DEF p

\* Entering takes an envelope of the block's own, or needs none.
LEMMA EnterEnveloped ==
  ASSUME Transitive, StateOK, NEW t \in Workers, NEW kw, Typed(kw), Enter(t, kw)
  PROVE  \A u \in Workers : Enveloped(u)
<1> DEFINE outer == Current(t)
           scope == ScopeOf(kw, outer)
           n == Len(blocks[t])
<1>1. AccountsStep /\ ContextOK /\ accounts' = accounts \o NewQuotas(kw, outer) \o NewBudgets(kw, outer)
  BY EnterStep DEF StateOK, Enter
<1>2. ScopeOK(scope, DOMAIN accounts') /\ scope.perms = GrantedPermissions(kw)
  BY <1>1, RestrictionsOK, ScopeOfOK DEF StateOK
<1>3. PolicyOK(outer, DOMAIN accounts')
  BY <1>1, CurrentOK, MonotonePolicyOK DEF AccountsStep
<1>4. PICK b : /\ blocks' = [blocks EXCEPT ![t] = Append(@, b)]
               /\ b.policy.perms = Effective(outer, scope).perms
               /\ b.required = Required(kw) /\ b.envelope = Envelope(kw)
  <2>1. PICK b :
          /\ blocks' = [blocks EXCEPT ![t] = Append(@, b)]
          /\ b.policy = Effective(outer, scope)
          /\ b.required = Required(kw) /\ b.envelope = Envelope(kw)
    <3> DEFINE notes == [run |-> Given(kw, "run", RunOf(t)), required |-> Required(kw),
                         envelope |-> Envelope(kw)]
    <3>1. Open(t, scope, notes)
      BY DEF Enter
    <3>2. notes.required = Required(kw) /\ notes.envelope = Envelope(kw)
      OBVIOUS
    <3> HIDE DEF notes, scope
    <3> QED
      BY <3>1, <3>2, OpenedRecord
  <2> QED
    BY <2>1
<1>5. /\ \A u \in Workers : u # t => blocks'[u] = blocks[u]
      /\ IsSeq(blocks'[t]) /\ Len(blocks'[t]) = n + 1 /\ blocks'[t][n + 1] = b
  BY <1>1, <1>4, OpenedBlocks
<1>6. ASSUME NEW u \in Workers, u # t PROVE Enveloped(u)
  <2>1. Len(blocks[u]) \in Nat
    BY <1>1, SeqDomain DEF ContextOK
  <2> QED
    BY <1>5, <1>6, <2>1 DEF Enveloped
<1>7. Last(blocks'[t]) = b
  BY <1>5 DEF Last
<1>8. ASSUME Required(kw)
      PROVE  /\ b.envelope.genuine /\ config.keys /\ b.envelope \in spent' \ spent
             /\ Authority(b.policy.perms) \subseteq Authority(Of(b.envelope.caps, {}))
  <2>1. Envelope(kw) # NoEnvelope /\ config.keys /\ Verifies(Envelope(kw))
    BY <1>8 DEF Enter, Admitted
  <2>2. b.envelope \in spent' \ spent
    BY <1>4, <2>1 DEF Enter, Spend, Verifies
  <2>3. scope.perms = Of(b.envelope.caps, {}) /\ scope.perms # NoPermissions
    BY <1>2, <1>4, <2>1, GrantedOK
  <2>4. Authority(Effective(outer, scope).perms) \subseteq Authority(scope.perms)
    BY <1>2, <1>3, <2>3, EffectiveOK
  <2> QED
    BY <1>4, <2>1, <2>2, <2>3, <2>4 DEF Verifies
<1>9. Enveloped(t)
  BY <1>4, <1>7, <1>8 DEF Enveloped
<1> QED
  BY <1>6, <1>9

\* A step opens blocks in line with their envelopes.
LEMMA EnvelopedStep ==
  ASSUME Transitive
  PROVE  StateOK /\ [Next]_vars => [\A t \in Workers : Enveloped(t)]_vars
<1> SUFFICES ASSUME StateOK, Next PROVE \A t \in Workers : Enveloped(t)
  OBVIOUS
<1>0. ContextOK
  BY DEF StateOK
<1>l. \A u \in Workers : Len(blocks[u]) \in Nat
  BY <1>0, SeqDomain DEF ContextOK
<1>a. ASSUME UNCHANGED blocks PROVE \A u \in Workers : Enveloped(u)
  BY <1>l, <1>a DEF Enveloped
<1>1. CASE Entering
  <2>1. PICK t \in Workers : EnterFromSpec(t) \/ EnterDirectly(t) \/ AdoptPolicy(t)
    BY <1>1 DEF Entering
  <2>2. CASE EnterFromSpec(t)
    <3>1. PICK spec \in Resolvable, hooks \in Hooks : Enter(t, FromSpec(spec, hooks))
      BY <2>2 DEF EnterFromSpec
    <3>2. Typed(FromSpec(spec, hooks))
      BY BlocksAssumption, FromSpecTyped DEF StateOK, DocumentsOK
    <3> QED
      BY <3>1, <3>2, EnterEnveloped
  <2>3. CASE EnterDirectly(t)
    <3>1. PICK kw \in Keywords : Enter(t, kw) \/ Fail(t, kw)
      BY <2>3 DEF EnterDirectly
    <3>2. CASE Enter(t, kw)
      BY <3>2, EnterEnveloped, BlocksAssumption
    <3>3. CASE Fail(t, kw)
      BY <1>a, <3>3 DEF Fail, contextVars
    <3> QED
      BY <3>1, <3>2, <3>3
  <2>4. CASE AdoptPolicy(t)
    <3>1. PICK b : blocks' = [blocks EXCEPT ![t] = Append(@, b)] /\ b.required = FALSE
      <4>1. PICK other \in Workers : Adopt(t, other)
        BY <2>4 DEF AdoptPolicy
      <4> DEFINE notes == [run |-> RunOf(t), required |-> FALSE, envelope |-> NoEnvelope]
      <4>2. Open(t, [Scope EXCEPT !.policy = Current(other)], notes) /\ notes.required = FALSE
        BY <4>1 DEF Adopt
      <4> HIDE DEF notes
      <4> QED
        BY <4>2, OpenedRecord
    <3>2. /\ \A u \in Workers : u # t => blocks'[u] = blocks[u]
          /\ Len(blocks'[t]) = Len(blocks[t]) + 1
          /\ blocks'[t][Len(blocks[t]) + 1] = b
      BY <1>0, <3>1, OpenedBlocks
    <3>3. Last(blocks'[t]) = b
      BY <3>2 DEF Last
    <3> QED
      BY <1>l, <3>1, <3>2, <3>3 DEF Enveloped
  <2> QED
    BY <2>1, <2>2, <2>3, <2>4
<1>2. CASE Leaving
  <2>1. PICK t \in Workers : Close(t)
    BY <1>2 DEF Leaving
  <2>2. /\ \A u \in Workers : u # t => blocks'[u] = blocks[u]
        /\ Len(blocks'[t]) = Len(blocks[t]) - 1
    BY <1>0, <2>1, ClosedBlocks
  <2> QED
    BY <1>l, <2>2 DEF Enveloped
<1>3. CASE Metered
  BY <1>a, <1>3, MeterStep DEF Metered, contextVars
<1>4. CASE Spawning \/ Heap \/ PublishDocument
  BY <1>a, <1>4 DEF Spawning, Spawn, Heap, Allocate, PublishDocument, contextVars
<1>5. CASE Watching
  <2>1. PICK t \in Workers : Watch(t)
    BY <1>5 DEF Watching
  <2>2. /\ \A u \in Workers : u # t => blocks'[u] = blocks[u]
        /\ Len(blocks'[t]) = Len(blocks[t])
    BY <1>0, <2>1, WatchedBlocks
  <2> QED
    BY <1>l, <2>2 DEF Enveloped
<1> QED
  BY <1>1, <1>2, <1>3, <1>4, <1>5 DEF Next

\* Where an envelope is required, each block takes one of its own and no more
\* authority than it grants (safely() under EnvelopeVerifier.verify), for any
\* deployment, documents and hooks.
THEOREM EnvelopesSafe == ASSUME Transitive PROVE Spec => EnvelopePerBlock
<1>1. StateOK /\ [Next]_vars => [\A t \in Workers : Enveloped(t)]_vars
  BY EnvelopedStep
<1> QED
  BY <1>1, StateInit, StateNext, PTL DEF Spec, EnvelopePerBlock

-----------------------------------------------------------------------------
(* Types                                                                   *)

\* The charges that wait name accounts there are.
DueOK(due, ids) == IsSeq(due) /\ \A i \in DOMAIN due : due[i][1] \in ids

MeterOK ==
  /\ DOMAIN meter = Workers
  /\ \A t \in Workers : DOMAIN meter[t] = DOMAIN Idle /\ DueOK(meter[t].due, DOMAIN accounts)

TypeInv ==
  /\ StateOK /\ MeterOK
  /\ tracing \in BOOLEAN /\ heap \in 0..MaxHeap
  /\ config \in [mode : Modes, keys : BOOLEAN]
  /\ \A e \in spent : e.genuine

\* Nothing is due at first.
LEMMA DueShort == \A ids : DueOK(<<>>, ids)
BY ShortSeq DEF DueOK

\* What is due first and what is due then.
LEMMA DueConcat ==
  ASSUME NEW ids, NEW s, DueOK(s, ids), NEW r, DueOK(r, ids)
  PROVE  DueOK(s \o r, ids)
<1>1. PICK S, T : s \in Seq(S) /\ r \in Seq(T)
  BY DEF DueOK, IsSeq
<1>2. s \in Seq(S \cup T) /\ r \in Seq(S \cup T)
  BY <1>1, SeqMonotonic
<1>3. /\ s \o r \in Seq(S \cup T) /\ Len(s \o r) = Len(s) + Len(r)
      /\ \A i \in 1..Len(s) + Len(r) : (s \o r)[i] = IF i <= Len(s) THEN s[i] ELSE r[i - Len(s)]
  BY <1>2, ConcatProperties
<1>4. /\ Len(s) \in Nat /\ Len(r) \in Nat
      /\ DOMAIN s = 1..Len(s) /\ DOMAIN r = 1..Len(r)
      /\ DOMAIN (s \o r) = 1..(Len(s) + Len(r))
  BY <1>2, <1>3, LenProperties
<1>5. ASSUME NEW i \in 1..(Len(s) + Len(r)) PROVE (s \o r)[i][1] \in ids
  <2>1. CASE i <= Len(s)
    BY <1>3, <1>4, <2>1 DEF DueOK
  <2>2. CASE ~(i <= Len(s))
    <3>1. i - Len(s) \in 1..Len(r)
      BY <1>4, <2>2
    <3> QED
      BY <1>3, <1>4, <2>2, <3>1 DEF DueOK
  <2> QED
    BY <2>1, <2>2
<1> QED
  BY <1>3, <1>4, <1>5 DEF DueOK, IsSeq

\* The charges of one price to the accounts of a policy.
LEMMA EachOK ==
  ASSUME NEW ids, NEW p, PolicyOK(p, ids), NEW field \in {"quotas", "cost_budgets"},
         NEW resource, NEW n
  PROVE  DueOK(Each(p, field, resource, n), ids)
<1> DEFINE s == p[field]
           e == [i \in 1..Len(s) |-> <<s[i], resource, n>>]
           S == {<<x, resource, n>> : x \in ids}
<1>1. s \in Seq(ids)
  BY DEF PolicyOK
<1>2. Each(p, field, resource, n) = e
  BY DEF Each
<1> HIDE DEF s
<1>3. Len(s) \in Nat /\ \A i \in 1..Len(s) : s[i] \in ids
  BY <1>1, LenProperties, ElementOfSeq
<1>4. e \in [1..Len(s) -> S]
  BY <1>3
<1>5. e \in Seq(S) /\ DOMAIN e = 1..Len(s) /\ \A i \in 1..Len(s) : e[i][1] = s[i]
  BY <1>3, <1>4, SeqDef
<1> QED
  BY <1>2, <1>3, <1>5 DEF DueOK, IsSeq

\* What a reply costs is due to known accounts (_charge).
LEMMA ChargesOK ==
  ASSUME ContextOK, NEW t \in Workers, NEW usage, NEW price
  PROVE  DueOK(Charges(t, usage, price), DOMAIN accounts)
<1>1. PolicyOK(Current(t), DOMAIN accounts)
  BY CurrentOK
<1>2. \A n : /\ DueOK(Each(Current(t), "quotas", "tokens", n), DOMAIN accounts)
             /\ DueOK(Each(Current(t), "cost_budgets", "usd", n), DOMAIN accounts)
  BY <1>1, EachOK
<1>3. DueOK(IF usage.total > 0 THEN Each(Current(t), "quotas", "tokens", usage.total) ELSE <<>>,
            DOMAIN accounts)
  BY <1>2, DueShort
<1>4. DueOK(IF price # NoPrice /\ Cost(price, usage) > 0
              THEN Each(Current(t), "cost_budgets", "usd", Cost(price, usage)) ELSE <<>>,
            DOMAIN accounts)
  BY <1>2, DueShort
<1>5. CASE usage = NoUsage
  BY <1>5, DueShort DEF Charges
<1>6. CASE usage # NoUsage
  BY <1>3, <1>4, <1>6, DueConcat DEF Charges
<1> QED
  BY <1>5, <1>6

\* What is left when the first charge is made.
LEMMA DueTail ==
  ASSUME NEW ids, NEW due, DueOK(due, ids), due # <<>>
  PROVE  DueOK(Tail(due), ids) /\ Head(due)[1] \in ids
<1>1. PICK S : due \in Seq(S)
  BY DEF DueOK, IsSeq
<1>2. /\ Tail(due) \in Seq(S) /\ Len(Tail(due)) = Len(due) - 1
      /\ \A i \in 1..Len(Tail(due)) : Tail(due)[i] = due[i + 1]
  BY <1>1, HeadTailProperties
<1>3. /\ Len(due) \in Nat \ {0} /\ DOMAIN due = 1..Len(due)
      /\ DOMAIN Tail(due) = 1..Len(Tail(due))
  BY <1>1, <1>2, EmptySeq, LenProperties
<1>4. \A i \in 1..Len(Tail(due)) : i + 1 \in 1..Len(due)
  BY <1>2, <1>3
<1>5. Head(due) = due[1] /\ 1 \in 1..Len(due)
  BY <1>1, <1>3
<1> QED
  BY <1>2, <1>3, <1>4, <1>5 DEF DueOK, IsSeq

\* A metered call keeps the types.
LEMMA MeterTypes ==
  ASSUME TypeInv, NEW t \in Workers, Meter(t)
  PROVE  MeterOK'
<1>0. /\ AccountsStep /\ ContextOK /\ MeterOK
      /\ UNCHANGED <<contextVars, config, spent, entries>>
  BY MeterStep DEF TypeInv, StateOK
<1> DEFINE Fine(m, ids) == DOMAIN m = DOMAIN Idle /\ DueOK(m.due, ids)
<1>d. DOMAIN Idle = {"phase", "price", "reply", "read", "merged", "due"}
  BY DEF Idle
<1>i. \A ids : Fine(Idle, ids)
  BY DueShort DEF Idle
<1>f. \A u \in Workers : Fine(meter[u], DOMAIN accounts)
  BY <1>0 DEF MeterOK
<1>m. \A m : Fine(m, DOMAIN accounts) => Fine(m, DOMAIN accounts')
  BY <1>0 DEF AccountsStep, DueOK
\* A step becomes a meter of the right kind.
<1>b. ASSUME NEW m, Become(t, m), Fine(m, DOMAIN accounts) PROVE MeterOK'
  <2>1. meter' = [meter EXCEPT ![t] = m] /\ DOMAIN meter = Workers
    BY <1>0, <1>b DEF Become, MeterOK
  <2>2. ASSUME NEW u \in Workers PROVE Fine(meter'[u], DOMAIN accounts')
    BY <1>b, <1>f, <1>m, <2>1
  <2> QED
    BY <2>1, <2>2 DEF MeterOK
<1>c. PolicyOK(Current(t), DOMAIN accounts)
  BY <1>0, CurrentOK
<1>r. DOMAIN meter[t] = {"phase", "price", "reply", "read", "merged", "due"}
      /\ DueOK(meter[t].due, DOMAIN accounts)
  BY <1>d, <1>f
<1> HIDE DEF Fine
<1>1. ASSUME NEW call \in ModelCalls, BeginCall(t, call) PROVE MeterOK'
  <2> DEFINE m == [Idle EXCEPT !.phase = "admitting", !.price = ResolvePrice(call),
                               !.due = Each(Current(t), "quotas", "calls", 1)]
  <2>1. DOMAIN m = DOMAIN Idle /\ m.due = Each(Current(t), "quotas", "calls", 1)
    BY <1>d DEF Idle
  <2>2. Become(t, m)
    BY <1>1 DEF BeginCall
  <2> HIDE DEF m
  <2>3. Fine(m, DOMAIN accounts)
    BY <1>c, <2>1, EachOK DEF Fine
  <2> QED
    BY <1>b, <2>2, <2>3
<1>2. CASE Charge(t)
  <2> DEFINE m == [meter[t] EXCEPT !.due = Tail(@)]
  <2>1. Become(t, Idle) \/ Become(t, m)
    BY <1>2 DEF Charge
  <2>2. DOMAIN m = DOMAIN Idle /\ m.due = Tail(meter[t].due)
    BY <1>d, <1>r
  <2> HIDE DEF m
  <2>3. meter[t].due # <<>>
    BY <1>2 DEF Charge
  <2>4. Fine(m, DOMAIN accounts)
    BY <1>r, <2>2, <2>3, DueTail DEF Fine
  <2> QED
    BY <1>b, <1>i, <2>1, <2>4
<1>3. CASE Charged(t)
  <2> DEFINE m == [meter[t] EXCEPT !.phase = "calling"]
  <2>1. Become(t, Idle) \/ Become(t, m)
    BY <1>3 DEF Charged
  <2>2. DOMAIN m = DOMAIN Idle /\ m.due = meter[t].due
    BY <1>d, <1>r
  <2> HIDE DEF m
  <2> QED
    BY <1>b, <1>i, <1>r, <2>1, <2>2 DEF Fine
<1>4. CASE CallFails(t) \/ Abandon(t) \/ RefusedElsewhere(t)
  BY <1>b, <1>i, <1>4 DEF CallFails, Abandon, RefusedElsewhere
<1>5. ASSUME NEW reply \in Replies, Answer(t, reply) PROVE MeterOK'
  <2> DEFINE usage == ExtractUsage(reply.chunks[1])
             m == [meter[t] EXCEPT !.phase = "streaming", !.reply = reply]
             n == [meter[t] EXCEPT !.phase = "charging", !.reply = reply,
                             !.read = 1, !.merged = usage,
                             !.due = Charges(t, usage, meter[t].price)]
  <2>1. Become(t, m) \/ Become(t, n)
    BY <1>5 DEF Answer
  <2> HIDE DEF usage
  <2>2. /\ DOMAIN m = DOMAIN Idle /\ m.due = meter[t].due
        /\ DOMAIN n = DOMAIN Idle /\ n.due = Charges(t, usage, meter[t].price)
    BY <1>d, <1>r
  <2> HIDE DEF m, n
  <2>3. DueOK(n.due, DOMAIN accounts)
    BY <1>0, <2>2, ChargesOK
  <2> QED
    BY <1>b, <1>r, <2>1, <2>2, <2>3 DEF Fine
<1>6. CASE NextChunk(t)
  <2> DEFINE merged == Merged(meter[t].merged, meter[t].reply.chunks[meter[t].read + 1])
             m == [meter[t] EXCEPT !.read = @ + 1, !.merged = merged]
  <2>1. Become(t, m)
    BY <1>6 DEF NextChunk
  <2> HIDE DEF merged
  <2>2. DOMAIN m = DOMAIN Idle /\ m.due = meter[t].due
    BY <1>d, <1>r
  <2> HIDE DEF m
  <2> QED
    BY <1>b, <1>r, <2>1, <2>2 DEF Fine
<1>7. CASE Exhausted(t)
  <2> DEFINE due == Charges(t, meter[t].merged, meter[t].price)
             m == [meter[t] EXCEPT !.phase = "charging", !.due = due]
  <2>1. Become(t, m)
    BY <1>7 DEF Exhausted
  <2>2. DueOK(due, DOMAIN accounts)
    BY <1>0, ChargesOK
  <2> HIDE DEF due
  <2>3. DOMAIN m = DOMAIN Idle /\ m.due = due
    BY <1>d, <1>r
  <2> HIDE DEF m
  <2> QED
    BY <1>b, <2>1, <2>2, <2>3 DEF Fine
<1> QED
  BY <1>1, <1>2, <1>3, <1>4, <1>5, <1>6, <1>7 DEF Meter

\* A step keeps the types of every variable.
LEMMA TypeNext == TypeInv /\ [Next]_vars => TypeInv'
<1> SUFFICES ASSUME TypeInv, [Next]_vars PROVE TypeInv'
  OBVIOUS
<1>0. StateOK /\ StateOK' /\ ContextOK /\ AccountsStep /\ MaxHeap \in Nat
  BY StateNext, StepCases, BlocksAssumption DEF TypeInv, StateOK
\* Opening a block and closing one.
<1>o. ASSUME NEW t \in Workers, NEW scope, NEW notes, Open(t, scope, notes)
      PROVE  tracing' \in BOOLEAN /\ heap' \in 0..MaxHeap
  BY <1>0, <1>o DEF Open, TypeInv
<1>m. UNCHANGED meter => MeterOK'
  BY <1>0 DEF TypeInv, MeterOK, AccountsStep, DueOK
<1>s. ASSUME NEW kw, Spend(kw) PROVE \A e \in spent' : e.genuine
  BY <1>s DEF Spend, TypeInv
<1>1. CASE Entering
  <2>1. UNCHANGED meter
    BY <1>1 DEF Entering, meterVars
  <2>2. PICK t \in Workers : EnterFromSpec(t) \/ EnterDirectly(t) \/ AdoptPolicy(t)
    BY <1>1 DEF Entering
  <2>3. ASSUME NEW kw, Enter(t, kw) PROVE TypeInv'
    BY <1>0, <1>m, <1>o, <1>s, <2>1, <2>3 DEF Enter, TypeInv
  <2>4. ASSUME NEW kw, Fail(t, kw) PROVE TypeInv'
    BY <1>0, <1>m, <1>s, <2>1, <2>4 DEF Fail, TypeInv, contextVars
  <2>5. ASSUME NEW other, Adopt(t, other) PROVE TypeInv'
    BY <1>0, <1>m, <1>o, <2>1, <2>5 DEF Adopt, TypeInv, entryVars
  <2> QED
    BY <2>2, <2>3, <2>4, <2>5 DEF EnterFromSpec, EnterDirectly, AdoptPolicy
<1>2. CASE Leaving
  BY <1>0, <1>m, <1>2 DEF Leaving, Close, TypeInv, entryVars, meterVars
<1>3. CASE Spawning
  BY <1>0, <1>m, <1>3 DEF Spawning, Spawn, TypeInv, entryVars, meterVars
<1>4. CASE Metered
  BY <1>0, <1>4, MeterStep, MeterTypes DEF Metered, TypeInv, StateOK, contextVars
<1>5. CASE Heap
  BY <1>0, <1>m, <1>5 DEF Heap, Allocate, TypeInv, entryVars, meterVars
<1>6. CASE PublishDocument
  BY <1>0, <1>m, <1>6 DEF PublishDocument, TypeInv, contextVars, entryVars, meterVars
<1>7. CASE UNCHANGED vars
  BY <1>0, <1>m, <1>7 DEF vars, contextVars, entryVars, meterVars, TypeInv
<1>8. CASE Watching
  BY <1>0, <1>m, <1>8 DEF Watching, Watch, TypeInv, entryVars, meterVars
<1> QED
  BY <1>1, <1>2, <1>3, <1>4, <1>5, <1>6, <1>7, <1>8 DEF Next

\* The types hold at first.
LEMMA TypeInit == Init => TypeInv
<1> SUFFICES ASSUME Init PROVE TypeInv
  OBVIOUS
<1>1. tracing = FALSE /\ heap = 0 /\ spent = {} /\ config \in Configs
  BY DEF Init, ContextInit, EntryInit
<1>2. MeterOK
  BY DueShort DEF Init, MeterInit, MeterOK, Idle
<1>3. heap \in 0..MaxHeap
  BY <1>1, BlocksAssumption
<1>4. StateOK
  BY StateInit
<1> QED
  BY <1>1, <1>2, <1>3, <1>4, BlocksAssumption DEF TypeInv

\* Every policy in force is a set of capabilities with known accounts, and
\* nothing but genuine envelopes is recorded as spent.
THEOREM BlocksTyped == Spec => []TypeOK
<1>1. TypeInv => TypeOK
  <2> SUFFICES ASSUME TypeInv PROVE TypeOK
    OBVIOUS
  <2>1. \A spec \in Resolvable : DOMAIN spec = Fields
    BY DEF Resolvable, FromDict
  <2>2. \A t \in Workers : Len(blocks[t]) <= MaxDepth /\ Current(t).perms \in PermissionSet
    BY CurrentOK DEF TypeInv, StateOK, ContextOK, PolicyOK
  <2> QED
    BY <2>1, <2>2 DEF TypeInv, TypeOK, MeterOK, DueOK, StateOK, ContextOK, Asked
<1> QED
  BY <1>1, TypeInit, TypeNext, PTL DEF Spec

-----------------------------------------------------------------------------
(* What a reply is metered as                                              *)

\* What reports of running counts come to: of each kind of token the most that
\* was reported, and of the totals at least their sum.
Most(n, S) == n \in S /\ \A m \in S : m <= n

Bills(usage, reports) ==
  IF reports = {} THEN usage = NoUsage
  ELSE /\ \A kind \in {"input", "output", "cached", "cache_write"} :
            Most(usage[kind], {r[kind] : r \in reports})
       /\ Most(usage.total,
               {r.total : r \in reports}
                 \cup {usage.input + usage.output + usage.cached + usage.cache_write})

\* What the first n chunks report.
Reported(reply, n) == {ExtractUsage(reply.chunks[i]) : i \in 1..n} \ {NoUsage}

\* The usage a report comes to: counts, and a total they fit in.
Counts(u) ==
  /\ u \in Usages
  /\ u.input >= 0 /\ u.output >= 0 /\ u.cached >= 0 /\ u.cache_write >= 0
  /\ u.total >= u.input + u.output + u.cached + u.cache_write

\* A report comes to counts or to nothing (extract_usage).
LEMMA ExtractCounts ==
  ASSUME NEW report, IsReport(report)
  PROVE  ExtractUsage(report) = NoUsage \/ Counts(ExtractUsage(report))
<1> DEFINE n(field) == Given(report, field, 0)
           in == Larger(0, n("input") - n("subset_cached"))
           cached == n("subset_cached") + n("additive_cached")
           all == Larger(n("total"), in + n("output") + cached + n("cache_write"))
           u == Usage(in, n("output"), cached, n("cache_write"), all)
<1>1. \A field : n(field) \in Nat
  BY DEF IsReport, Given
<1>2. ExtractUsage(report) = IF DOMAIN report = {} THEN NoUsage ELSE u
  BY DEF ExtractUsage
<1> HIDE DEF n
<1>3. in \in Nat /\ cached \in Nat
  <2>1. n("input") \in Nat /\ n("subset_cached") \in Nat /\ n("additive_cached") \in Nat
    BY <1>1
  <2> QED
    BY <2>1 DEF Larger
<1>4. n("total") \in Nat /\ n("output") \in Nat /\ n("cache_write") \in Nat
  BY <1>1
<1> HIDE DEF in, cached
<1>5. all \in Nat /\ all >= in + n("output") + cached + n("cache_write")
  BY <1>3, <1>4 DEF Larger
<1> HIDE DEF all
<1>6. Counts(u)
  BY <1>3, <1>4, <1>5 DEF Counts, Usages, Usage
<1> QED
  BY <1>2, <1>6

\* One chunk more: the greater of every count, and a total they fit in (_merge).
LEMMA MergeBills ==
  ASSUME NEW R, \A r \in R : Counts(r), NEW m \in Usages, Bills(m, R), R # {},
         NEW u, Counts(u)
  PROVE  Bills(Merge(m, u), R \cup {u}) /\ Merge(m, u) \in Usages
<1> DEFINE x == Merge(m, u)
           K == {"input", "output", "cached", "cache_write"}
           sum(y) == y.input + y.output + y.cached + y.cache_write
<1>0. u \in Usages /\ \A r \in R : r \in Usages
  BY DEF Counts
<1>1. /\ x \in Usages
      /\ \A kind \in K : x[kind] = Larger(m[kind], u[kind])
      /\ x.total = Larger(Larger(m.total, u.total), sum(x))
  BY <1>0 DEF Merge, Usage, Usages, Larger
<1>2. \A kind \in K : \A y \in Usages : y[kind] \in Int
  BY DEF Usages
<1>3. /\ \A kind \in K : Most(m[kind], {r[kind] : r \in R})
      /\ Most(m.total, {r.total : r \in R} \cup {sum(m)})
  BY DEF Bills
<1> HIDE DEF x
<1>4. ASSUME NEW kind \in K PROVE Most(x[kind], {r[kind] : r \in R \cup {u}})
  <2>1. x[kind] = Larger(m[kind], u[kind]) /\ m[kind] \in Int /\ u[kind] \in Int
    BY <1>0, <1>1, <1>2
  <2>2. (\E r \in R : r[kind] = m[kind]) /\ \A r \in R : r[kind] <= m[kind] /\ r[kind] \in Int
    BY <1>0, <1>2, <1>3 DEF Most
  <2>3. m[kind] <= x[kind] /\ u[kind] <= x[kind] /\ x[kind] \in {m[kind], u[kind]} /\ x[kind] \in Int
    BY <2>1 DEF Larger
  <2>4. \A r \in R \cup {u} : r[kind] <= x[kind]
    BY <2>1, <2>2, <2>3
  <2>5. \E r \in R \cup {u} : r[kind] = x[kind]
    BY <2>2, <2>3
  <2> QED
    BY <2>4, <2>5 DEF Most
<1>5. sum(m) \in Int /\ sum(x) \in Int /\ sum(u) \in Int /\ m.total \in Int /\ u.total \in Int
  BY <1>0, <1>1 DEF Usages
<1>6. sum(m) <= sum(x)
  <2>1. m.input <= x.input /\ m.output <= x.output /\ m.cached <= x.cached /\ m.cache_write <= x.cache_write
    BY <1>0, <1>1, <1>2 DEF Larger
  <2> QED
    BY <1>1, <2>1 DEF Usages
<1> HIDE DEF sum
<1>7. Most(x.total, {r.total : r \in R \cup {u}} \cup {sum(x)})
  <2>1. /\ m.total <= x.total /\ u.total <= x.total /\ sum(x) <= x.total
        /\ x.total \in {m.total, u.total, sum(x)} /\ x.total \in Int
    BY <1>1, <1>5 DEF Larger
  <2>2. /\ \A r \in R : r.total <= m.total /\ r.total \in Int
        /\ (\E r \in R : r.total = m.total) \/ m.total = sum(m)
    BY <1>0, <1>3 DEF Most, Usages
  <2>3. \A r \in R \cup {u} : r.total <= x.total
    BY <1>5, <2>1, <2>2
  <2>4. (\E r \in R \cup {u} : r.total = x.total) \/ x.total = sum(x)
    <3>1. CASE x.total = m.total /\ m.total = sum(m)
      BY <1>5, <1>6, <2>1, <3>1
    <3> QED
      BY <2>1, <2>2, <3>1
  <2> QED
    BY <2>1, <2>3, <2>4 DEF Most
<1> QED
  BY <1>1, <1>4, <1>7 DEF Bills, sum, x

\* What the chunks up to the next come to (_meter_stream).
LEMMA MergedBills ==
  ASSUME NEW reply \in Replies, NEW k \in Nat, k < Len(reply.chunks),
         NEW m \in Usages, Bills(m, Reported(reply, k))
  PROVE  /\ Bills(Merged(m, reply.chunks[k + 1]), Reported(reply, k + 1))
         /\ Merged(m, reply.chunks[k + 1]) \in Usages
<1> DEFINE R == Reported(reply, k)
           u == ExtractUsage(reply.chunks[k + 1])
<1>1. Len(reply.chunks) \in Nat /\ \A i \in 1..Len(reply.chunks) : IsReport(reply.chunks[i])
  BY MeteringAssumption
<1>2. 1..(k + 1) = (1..k) \cup {k + 1} /\ 1..k \subseteq 1..Len(reply.chunks) /\ k + 1 \in 1..Len(reply.chunks)
  BY <1>1
<1>3. Reported(reply, k + 1) = (R \cup {u}) \ {NoUsage}
  BY <1>2 DEF Reported
<1>4. /\ \A r \in R : Counts(r)
      /\ u = NoUsage \/ Counts(u)
  BY <1>1, <1>2, ExtractCounts DEF Reported
<1>5. NoUsage \notin R /\ NoUsage.input < 0 /\ NoUsage \in Usages /\ ~Counts(NoUsage)
  BY DEF Reported, NoUsage, Usage, None, Usages, Counts
<1>6. Merged(m, reply.chunks[k + 1])
        = IF u = NoUsage THEN m ELSE IF m = NoUsage THEN u ELSE Merge(m, u)
  BY DEF Merged
<1>b. Bills(m, R)
  OBVIOUS
<1> HIDE DEF R, u
<1>7. CASE u = NoUsage
  <2>1. Reported(reply, k + 1) = R
    BY <1>3, <1>5, <1>7
  <2> QED
    BY <1>6, <1>7, <1>b, <2>1
<1>8. CASE u # NoUsage /\ R = {}
  <2>1. m = NoUsage /\ Reported(reply, k + 1) = {u}
    BY <1>3, <1>8, <1>b DEF Bills
  <2>2. Counts(u)
    BY <1>4, <1>8
  <2>3. Bills(u, {u})
    BY <2>2, SMTT(30) DEF Bills, Most, Counts, Usages
  <2> QED
    BY <1>6, <1>8, <2>1, <2>2, <2>3 DEF Counts
<1>9. CASE u # NoUsage /\ R # {}
  <2>1. PICK r \in R : r.input = m.input
    BY <1>9, <1>b DEF Bills, Most
  <2>2. m # NoUsage
    BY <1>4, <1>5, <2>1 DEF Counts, Usages
  <2>3. Reported(reply, k + 1) = R \cup {u} /\ Counts(u)
    BY <1>3, <1>4, <1>5, <1>9
  <2> QED
    BY <1>4, <1>6, <1>9, <1>b, <2>2, <2>3, MergeBills
<1> QED
  BY <1>7, <1>8, <1>9

Unread == {"idle", "admitting", "calling"}

\* How far a call has come, and what was read of its reply.
BillOK(m) ==
  /\ m.phase \in Unread \cup {"streaming", "charging"}
  /\ m.phase \in Unread => m.reply = NoReply /\ m.read = 0 /\ m.merged = NoUsage
  /\ m.phase = "streaming" =>
       /\ m.reply \in Replies /\ m.read \in 0..Len(m.reply.chunks)
       /\ m.merged \in Usages /\ Bills(m.merged, Reported(m.reply, m.read))
  /\ m.phase = "charging" => AsBilled(m.merged, m.reply)

BillInv == TypeInv /\ \A t \in Workers : BillOK(meter[t])

\* A reply read to its end has come to no less than its bill, and to what a
\* report of the prompt leaves uncarved more.
LEMMA ReadToTheEnd ==
  ASSUME NEW reply \in Replies, Truthful(reply), NEW m \in Usages,
         Bills(m, Reported(reply, Len(reply.chunks)))
  PROVE  AsBilled(m, reply)
<1> DEFINE n == Len(reply.chunks)
           R == Reported(reply, n)
           bill == reply.bill
           inside == IF reply.inside THEN bill.cached ELSE 0
           outside == bill.cached - inside
           g(i, field) == Given(reply.chunks[i], field, 0)
           u(i) == ExtractUsage(reply.chunks[i])
           actual == Actual(reply)
<1>1. /\ n \in Nat /\ \A i \in 1..n : IsReport(reply.chunks[i])
      /\ reply.inside \in BOOLEAN
      /\ bill.fresh \in Nat /\ bill.output \in Nat /\ bill.cached \in Nat /\ bill.written \in Nat
  BY MeteringAssumption
<1>2. /\ actual.input = bill.fresh + inside /\ actual.output = bill.output
      /\ actual.total = bill.fresh + bill.output + bill.cached + bill.written
      /\ actual.subset_cached = inside /\ actual.additive_cached = outside
      /\ actual.cache_write = bill.written
      /\ Tokens(bill) = bill.fresh + bill.output + bill.cached + bill.written
  BY DEF Actual, Tokens
<1>3. /\ inside \in Nat /\ outside \in Nat /\ inside + outside = bill.cached
      /\ inside = 0 \/ outside = 0
  BY <1>1
<1> HIDE DEF inside, outside
<1>4. \A field \in ReportFields : actual[field] \in Nat
  <2>1. /\ actual.input \in Nat /\ actual.output \in Nat /\ actual.total \in Nat
        /\ actual.subset_cached \in Nat /\ actual.additive_cached \in Nat
        /\ actual.cache_write \in Nat
    <3>1. PICK a, b, c, d, e, f \in Nat :
             /\ a = bill.fresh /\ b = bill.output /\ c = bill.cached /\ d = bill.written
             /\ e = inside /\ f = outside
      BY <1>1, <1>3
    <3>2. a + e \in Nat /\ a + b + c + d \in Nat
      BY ONLY a \in Nat, b \in Nat, c \in Nat, d \in Nat, e \in Nat
    <3> HIDE DEF actual, bill
    <3> QED
      BY <1>2, <3>1, <3>2
  <2> HIDE DEF actual
  <2> QED
    BY <2>1 DEF ReportFields
<1>t. Tokens(bill) \in Nat
  <2>1. PICK a, b, c, d \in Nat : a = bill.fresh /\ b = bill.output /\ c = bill.cached /\ d = bill.written
    BY <1>1
  <2>2. Tokens(bill) = a + b + c + d
    BY <1>2, <2>1
  <2> HIDE DEF bill
  <2> QED
    BY <2>2
<1>5. ASSUME NEW i \in 1..n, NEW field \in ReportFields
      PROVE  g(i, field) \in Nat /\ g(i, field) <= actual[field]
  <2>1. CASE field \in DOMAIN reply.chunks[i]
    <3>1. g(i, field) = reply.chunks[i][field]
      BY <2>1 DEF Given
    <3>2. reply.chunks[i][field] \in Nat
      BY <1>1, <2>1 DEF IsReport
    <3>3. reply.chunks[i][field] <= actual[field]
      BY <2>1 DEF Truthful
    <3> QED
      BY <3>1, <3>2, <3>3
  <2>2. CASE field \notin DOMAIN reply.chunks[i]
    <3>1. g(i, field) = 0
      BY <2>2 DEF Given
    <3>2. actual[field] \in Nat
      BY <1>4
    <3> HIDE DEF actual, g
    <3> QED
      BY <3>1, <3>2
  <2> QED
    BY <2>1, <2>2
\* Every count is reported in full.
<1>6. ASSUME NEW field \in ReportFields \ {"total"}, actual[field] > 0
      PROVE  \E i \in 1..n : g(i, field) = actual[field] /\ u(i) \in R
  <2>1. PICK i \in 1..n : field \in DOMAIN reply.chunks[i] /\ reply.chunks[i][field] = actual[field]
    BY <1>6 DEF Truthful
  <2>2. g(i, field) = actual[field] /\ DOMAIN reply.chunks[i] # {}
    BY <2>1 DEF Given
  <2>3. u(i) # NoUsage
    <3>1. ExtractUsage(reply.chunks[i]).output # None
      BY <1>5, <2>2 DEF ExtractUsage, Usage, None, ReportFields
    <3> QED
      BY <3>1 DEF NoUsage, Usage
  <2> QED
    BY <2>1, <2>2, <2>3 DEF Reported
<1> HIDE DEF actual, g
\* What a report comes to.
<1>7. ASSUME NEW i \in 1..n, u(i) # NoUsage
      PROVE  /\ u(i).input = Larger(0, g(i, "input") - g(i, "subset_cached"))
             /\ u(i).output = g(i, "output") /\ u(i).cache_write = g(i, "cache_write")
             /\ u(i).cached = g(i, "subset_cached") + g(i, "additive_cached")
             /\ u(i).total = Larger(g(i, "total"),
                              u(i).input + u(i).output + u(i).cached + u(i).cache_write)
  BY <1>7 DEF ExtractUsage, Usage, g
<1>8. \A r \in R : \E i \in 1..n : r = u(i) /\ u(i) # NoUsage
  BY DEF Reported
<1> HIDE DEF u
<1>9. ASSUME NEW i \in 1..n
      PROVE  /\ g(i, "input") \in Nat /\ g(i, "input") <= bill.fresh + inside
             /\ g(i, "output") \in Nat /\ g(i, "output") <= bill.output
             /\ g(i, "cache_write") \in Nat /\ g(i, "cache_write") <= bill.written
             /\ g(i, "subset_cached") \in Nat /\ g(i, "subset_cached") <= inside
             /\ g(i, "additive_cached") \in Nat /\ g(i, "additive_cached") <= outside
             /\ g(i, "total") \in Nat /\ g(i, "total") <= Tokens(bill)
  BY <1>2, <1>5 DEF ReportFields
<1>10. ASSUME NEW r \in R
       PROVE  /\ r.input \in Nat /\ r.input <= bill.fresh + inside
              /\ r.output \in Nat /\ r.output <= bill.output
              /\ r.cached \in Nat /\ r.cached <= bill.cached
              /\ r.cache_write \in Nat /\ r.cache_write <= bill.written
  <2>1. PICK i \in 1..n : r = u(i) /\ u(i) # NoUsage
    BY <1>8
  <2>2. /\ r.input = Larger(0, g(i, "input") - g(i, "subset_cached"))
        /\ r.output = g(i, "output") /\ r.cache_write = g(i, "cache_write")
        /\ r.cached = g(i, "subset_cached") + g(i, "additive_cached")
    BY <1>7, <2>1
  <2>3. /\ g(i, "input") \in Nat /\ g(i, "input") <= bill.fresh + inside
        /\ g(i, "output") \in Nat /\ g(i, "output") <= bill.output
        /\ g(i, "cache_write") \in Nat /\ g(i, "cache_write") <= bill.written
        /\ g(i, "subset_cached") \in Nat /\ g(i, "subset_cached") <= inside
        /\ g(i, "additive_cached") \in Nat /\ g(i, "additive_cached") <= outside
    BY <1>9
  <2> HIDE DEF bill
  <2>4. r.input \in Nat /\ r.input <= bill.fresh + inside
    <3>1. PICK x, y \in Nat : x = g(i, "input") /\ y = g(i, "subset_cached")
      BY <2>3
    <3>2. r.input = IF 0 > x - y THEN 0 ELSE x - y
      BY <2>2, <3>1 DEF Larger
    <3>3. r.input \in Nat /\ r.input <= x
      BY <3>2
    <3>4. PICK f, h \in Nat : f = bill.fresh /\ h = inside
      BY <1>1, <1>3
    <3>5. x <= f + h
      BY <2>3, <3>1, <3>4
    <3> HIDE DEF inside
    <3> QED
      BY <3>3, <3>4, <3>5
  <2>5. r.cached \in Nat /\ r.cached <= bill.cached
    <3>1. PICK x, y, e, f \in Nat :
             x = g(i, "subset_cached") /\ y = g(i, "additive_cached") /\ e = inside /\ f = outside
      BY <1>3, <2>3
    <3>2. r.cached = x + y /\ bill.cached = e + f /\ x <= e /\ y <= f
      BY <1>3, <2>2, <2>3, <3>1
    <3> HIDE DEF inside, outside
    <3> QED
      BY <3>2
  <2> QED
    BY <2>2, <2>3, <2>4, <2>5
<1>11. CASE R = {}
  <2>1. m = NoUsage
    BY <1>11 DEF Bills
  <2>2. \A field \in ReportFields \ {"total"} : ~(actual[field] > 0)
    BY <1>6, <1>11
  <2>3. bill.fresh + inside = 0 /\ bill.output = 0 /\ inside = 0 /\ outside = 0 /\ bill.written = 0
    BY <1>1, <1>2, <1>3, <2>2 DEF ReportFields
  <2>4. Tokens(bill) = 0
    BY <1>1, <1>2, <1>3, <2>3
  <2> QED
    BY <2>1, <2>4 DEF AsBilled
<1>12. CASE R # {}
  <2>1. /\ \A kind \in {"input", "output", "cached", "cache_write"} :
             (\E r \in R : r[kind] = m[kind]) /\ \A r \in R : r[kind] <= m[kind]
        /\ Most(m.total, {r.total : r \in R} \cup {m.input + m.output + m.cached + m.cache_write})
    BY <1>12 DEF Bills, Most
  <2>2. /\ m.input \in Int /\ m.output \in Int /\ m.cached \in Int
        /\ m.cache_write \in Int /\ m.total \in Int
    BY DEF Usages
  <2>3. m.output = bill.output
    <3>1. PICK r \in R : r.output = m.output
      BY <2>1
    <3>2. CASE bill.output = 0
      BY <1>10, <3>1, <3>2
    <3>3. CASE bill.output > 0
      <4>1. PICK i \in 1..n : g(i, "output") = bill.output /\ u(i) \in R
        BY <1>2, <1>6, <3>3 DEF ReportFields
      <4>2. u(i).output = bill.output
        BY <1>7, <1>8, <4>1
      <4> QED
        BY <1>1, <1>10, <2>1, <2>2, <3>1, <4>1, <4>2
    <3> QED
      BY <1>1, <3>2, <3>3
  <2>4. m.cache_write = bill.written
    <3>1. PICK r \in R : r.cache_write = m.cache_write
      BY <2>1
    <3>2. CASE bill.written = 0
      BY <1>10, <3>1, <3>2
    <3>3. CASE bill.written > 0
      <4>1. PICK i \in 1..n : g(i, "cache_write") = bill.written /\ u(i) \in R
        BY <1>2, <1>6, <3>3 DEF ReportFields
      <4>2. u(i).cache_write = bill.written
        BY <1>7, <1>8, <4>1
      <4> QED
        BY <1>1, <1>10, <2>1, <2>2, <3>1, <4>1, <4>2
    <3> QED
      BY <1>1, <3>2, <3>3
  <2>5. m.cached = bill.cached
    <3>1. PICK r \in R : r.cached = m.cached
      BY <2>1
    <3>2. CASE bill.cached = 0
      BY <1>10, <3>1, <3>2
    <3>3. CASE bill.cached > 0
      <4>1. PICK i \in 1..n : /\ u(i) \in R
                              /\ g(i, "subset_cached") + g(i, "additive_cached") >= bill.cached
        <5>1. CASE inside = 0
          <6>1. PICK i \in 1..n : g(i, "additive_cached") = outside /\ u(i) \in R
            BY <1>1, <1>2, <1>3, <1>6, <3>3, <5>1 DEF ReportFields
          <6> QED
            BY <1>1, <1>3, <1>9, <5>1, <6>1
        <5>2. CASE outside = 0
          <6>1. PICK i \in 1..n : g(i, "subset_cached") = inside /\ u(i) \in R
            BY <1>1, <1>2, <1>3, <1>6, <3>3, <5>2 DEF ReportFields
          <6> QED
            BY <1>1, <1>3, <1>9, <5>2, <6>1
        <5> QED
          BY <1>3, <5>1, <5>2
      <4>2. u(i).cached >= bill.cached
        BY <1>7, <1>8, <4>1
      <4> QED
        BY <1>1, <1>10, <2>1, <2>2, <3>1, <4>1, <4>2
    <3> QED
      BY <1>1, <3>2, <3>3
  <2>6. m.input >= bill.fresh /\ m.input <= bill.fresh + inside
    <3>1. PICK r \in R : r.input = m.input
      BY <2>1
    <3>2. m.input \in Nat /\ m.input <= bill.fresh + inside
      BY <1>10, <3>1
    <3>3. CASE bill.fresh + inside > 0
      <4>1. PICK i \in 1..n : g(i, "input") = bill.fresh + inside /\ u(i) \in R
        BY <1>2, <1>6, <3>3 DEF ReportFields
      <4>2. u(i).input >= bill.fresh
        <5>1. u(i).input = Larger(0, g(i, "input") - g(i, "subset_cached"))
          BY <1>7, <1>8, <4>1
        <5>2. g(i, "subset_cached") \in Nat /\ g(i, "subset_cached") <= inside
          BY <1>9
        <5> QED
          BY <1>1, <1>3, <4>1, <5>1, <5>2 DEF Larger
      <4> QED
        BY <1>1, <1>10, <2>1, <2>2, <4>1, <4>2
    <3> QED
      BY <1>1, <1>3, <3>2, <3>3
  <2>7. ASSUME Carved(reply) PROVE m.input = bill.fresh
    <3>1. PICK r \in R : r.input = m.input
      BY <2>1
    <3>2. PICK i \in 1..n : r = u(i) /\ u(i) # NoUsage
      BY <1>8
    <3>3. g(i, "input") <= bill.fresh + g(i, "subset_cached")
      BY <2>7 DEF Carved, g
    <3>4. r.input = Larger(0, g(i, "input") - g(i, "subset_cached"))
      BY <1>7, <3>2
    <3>5. r.input <= bill.fresh
      <4>1. PICK x, y, f \in Nat : x = g(i, "input") /\ y = g(i, "subset_cached") /\ f = bill.fresh
        BY <1>1, <1>9
      <4>2. r.input = (IF 0 > x - y THEN 0 ELSE x - y) /\ x <= f + y
        BY <3>3, <3>4, <4>1 DEF Larger
      <4>3. r.input <= f
        BY <4>2
      <4> QED
        BY <4>1, <4>3
    <3> QED
      BY <1>1, <2>2, <2>6, <3>1, <3>5
  <2> DEFINE extra == m.input - bill.fresh
             sum == m.input + m.output + m.cached + m.cache_write
  <2>8. extra \in 0..bill.cached /\ m.input = bill.fresh + extra
    <3> HIDE DEF extra, sum
    <3>0. m.input \in Nat
      BY <2>1, <1>10
    <3>1. PICK f, k, h, c \in Nat : f = bill.fresh /\ k = m.input /\ h = inside /\ c = bill.cached
      BY <1>1, <1>3, <3>0
    <3> USE DEF extra
    <3>2. f <= k /\ k <= f + h /\ h <= c /\ extra = k - f
      <4>1. PICK o \in Nat : o = outside
        BY <1>3
      <4>2. h + o = c
        BY <1>3, <3>1, <4>1
      <4> QED
        BY <2>6, <3>1, <4>2
    <3> HIDE DEF extra
    <3>3. extra \in 0..c /\ k = f + extra
      BY <3>2
    <3> QED
      BY <3>1, <3>3
  <2>9. sum = Tokens(bill) + extra /\ sum \in Nat
    <3> HIDE DEF extra
    <3>1. PICK a, b, c, d \in Nat : a = bill.fresh /\ b = bill.output /\ c = bill.cached /\ d = bill.written
      BY <1>1
    <3>2. extra \in Nat /\ m.input = a + extra /\ m.output = b /\ m.cached = c /\ m.cache_write = d
      BY <2>3, <2>4, <2>5, <2>8, <3>1
    <3>3. Tokens(bill) = a + b + c + d
      BY <1>2, <3>1
    <3> QED
      BY <3>2, <3>3
  <2>10. m.total = sum
    <3>1. ASSUME NEW r \in R PROVE r.total \in Int /\ r.total <= sum
      <4>1. PICK i \in 1..n : r = u(i) /\ u(i) # NoUsage
        BY <1>8
      <4>2. r.total = Larger(g(i, "total"), r.input + r.output + r.cached + r.cache_write)
        BY <1>7, <4>1
      <4>3. g(i, "total") \in Nat /\ g(i, "total") <= sum
        <5>1. g(i, "total") \in Nat /\ g(i, "total") <= Tokens(bill) /\ Tokens(bill) \in Nat
          BY <1>9, <1>t
        <5>2. extra \in Nat
          BY <1>1, <2>8
        <5> HIDE DEF extra, sum
        <5> QED
          BY <2>9, <5>1, <5>2
      <4>4. r.input <= m.input /\ r.output <= m.output /\ r.cached <= m.cached /\ r.cache_write <= m.cache_write
        BY <2>1
      <4>5. r.input + r.output + r.cached + r.cache_write \in Int
            /\ r.input + r.output + r.cached + r.cache_write <= sum
        <5>1. r.input \in Int /\ r.output \in Int /\ r.cached \in Int /\ r.cache_write \in Int
          BY <1>10
        <5> DEFINE all == r.input + r.output + r.cached + r.cache_write
        <5>2. all \in Int
          BY <5>1
        <5>3. all <= sum
          <6>1. PICK a1, a2, a3, a4 \in Int :
                  a1 = r.input /\ a2 = r.output /\ a3 = r.cached /\ a4 = r.cache_write
            BY <5>1
          <6>2. PICK b1, b2, b3, b4 \in Int :
                  b1 = m.input /\ b2 = m.output /\ b3 = m.cached /\ b4 = m.cache_write
            BY <2>2
          <6>3. a1 <= b1 /\ a2 <= b2 /\ a3 <= b3 /\ a4 <= b4
            BY <4>4, <6>1, <6>2
          <6>4. a1 + a2 + a3 + a4 <= b1 + b2 + b3 + b4
            BY <6>3
          <6> QED
            BY <6>1, <6>2, <6>4
        <5> QED
          BY <5>2, <5>3
      <4> HIDE DEF sum
      <4> QED
        BY <4>2, <4>3, <4>5 DEF Larger
    <3> HIDE DEF sum
    <3>2. (m.total = sum \/ \E r \in R : m.total = r.total) /\ sum <= m.total
      BY <2>1 DEF Most, sum
    <3> QED
      BY <2>2, <2>9, <3>1, <3>2
  <2>11. m = [Billed(bill) EXCEPT !.input = @ + extra, !.total = @ + extra]
    <3>1. /\ Billed(bill).input = bill.fresh /\ Billed(bill).output = bill.output
          /\ Billed(bill).cached = bill.cached /\ Billed(bill).cache_write = bill.written
          /\ Billed(bill).total = Tokens(bill)
          /\ Billed(bill) \in [{"input", "output", "cached", "cache_write", "total"} -> Nat]
      BY <1>1, <1>t DEF Billed, Usage
    <3>2. m \in [{"input", "output", "cached", "cache_write", "total"} -> Int]
      BY DEF Usages
    <3> HIDE DEF extra, sum
    <3>3. /\ m["input"] = Billed(bill)["input"] + extra
          /\ m["total"] = Billed(bill)["total"] + extra
          /\ m["output"] = Billed(bill)["output"] /\ m["cached"] = Billed(bill)["cached"]
          /\ m["cache_write"] = Billed(bill)["cache_write"]
      BY <2>3, <2>4, <2>5, <2>8, <2>9, <2>10, <3>1
    <3> HIDE DEF bill
    <3> QED
      BY <3>1, <3>2, <3>3
  <2>12. m # NoUsage
    BY <1>1, <2>3 DEF NoUsage, Usage, None
  <2>13. Carved(reply) => extra = 0
    BY <1>1, <2>7
  <2> QED
    BY <2>8, <2>11, <2>12, <2>13 DEF AsBilled
<1> QED
  BY <1>11, <1>12

\* A metered call keeps what was read of its reply.
LEMMA MeterBills ==
  ASSUME BillInv, \A reply \in Replies : Truthful(reply), NEW t \in Workers, Meter(t)
  PROVE  \A u \in Workers : BillOK(meter'[u])
<1>1. /\ DOMAIN meter = Workers /\ DOMAIN meter[t] = {"phase", "price", "reply", "read", "merged", "due"}
      /\ \A u \in Workers : BillOK(meter[u])
  BY DEF BillInv, TypeInv, MeterOK, Idle
<1>2. ASSUME NEW m, Become(t, m), BillOK(m)
      PROVE  \A u \in Workers : BillOK(meter'[u])
  BY <1>1, <1>2 DEF Become
<1>3. BillOK(Idle)
  BY DEF BillOK, Idle, Unread
<1>m. BillOK(meter[t])
  BY <1>1
<1>4. ASSUME NEW call \in ModelCalls, BeginCall(t, call)
      PROVE  \A u \in Workers : BillOK(meter'[u])
  <2> DEFINE m == [Idle EXCEPT !.phase = "admitting", !.price = ResolvePrice(call),
                               !.due = Each(Current(t), "quotas", "calls", 1)]
  <2>1. m.phase = "admitting" /\ m.reply = NoReply /\ m.read = 0 /\ m.merged = NoUsage
    BY DEF Idle
  <2>2. Become(t, m)
    BY <1>4 DEF BeginCall
  <2> HIDE DEF m
  <2>3. BillOK(m)
    BY <2>1 DEF BillOK, Unread
  <2> QED
    BY <1>2, <2>2, <2>3
<1>5. CASE Charge(t)
  <2> DEFINE m == [meter[t] EXCEPT !.due = Tail(@)]
  <2>1. Become(t, Idle) \/ Become(t, m)
    BY <1>5 DEF Charge
  <2>2. m.phase = meter[t].phase /\ m.reply = meter[t].reply /\ m.read = meter[t].read
        /\ m.merged = meter[t].merged
    BY <1>1
  <2> HIDE DEF m
  <2>3. BillOK(m)
    BY <1>m, <2>2 DEF BillOK
  <2> QED
    BY <1>2, <1>3, <2>1, <2>3
<1>6. CASE Charged(t)
  <2> DEFINE m == [meter[t] EXCEPT !.phase = "calling"]
  <2>1. Become(t, Idle) \/ (Become(t, m) /\ meter[t].phase = "admitting")
    BY <1>6 DEF Charged, InPhase
  <2>2. m.phase = "calling" /\ m.reply = meter[t].reply /\ m.read = meter[t].read
        /\ m.merged = meter[t].merged
    BY <1>1
  <2> HIDE DEF m
  <2>3. meter[t].phase = "admitting" => BillOK(m)
    BY <1>m, <2>2 DEF BillOK, Unread
  <2> QED
    BY <1>2, <1>3, <2>1, <2>3
<1>7. CASE CallFails(t) \/ Abandon(t) \/ RefusedElsewhere(t)
  BY <1>2, <1>3, <1>7 DEF CallFails, Abandon, RefusedElsewhere
<1>8. ASSUME NEW reply \in Replies, Answer(t, reply)
      PROVE  \A u \in Workers : BillOK(meter'[u])
  <2> DEFINE usage == ExtractUsage(reply.chunks[1])
             due == Charges(t, usage, meter[t].price)
             m == [meter[t] EXCEPT !.phase = "streaming", !.reply = reply]
             n == [meter[t] EXCEPT !.phase = "charging", !.reply = reply,
                             !.read = 1, !.merged = usage, !.due = due]
  <2>1. IF reply.stream THEN Become(t, m) ELSE Become(t, n)
    BY <1>8 DEF Answer
  <2>2. meter[t].phase = "calling"
    BY <1>8 DEF Answer, InPhase
  <2>3. meter[t].read = 0 /\ meter[t].merged = NoUsage
    BY <1>m, <2>2 DEF BillOK, Unread
  <2>4. /\ NoUsage \in Usages /\ Merged(NoUsage, reply.chunks[1]) = usage
        /\ Reported(reply, 0) = {}
    BY DEF NoUsage, Usage, Usages, None, Merged, Reported
  <2>5. Bills(NoUsage, Reported(reply, 0)) /\ Len(reply.chunks) \in Nat
    BY <2>4, MeteringAssumption DEF Bills
  <2> HIDE DEF usage, due
  <2>6. /\ m.phase = "streaming" /\ m.reply = reply /\ m.read = meter[t].read
        /\ m.merged = meter[t].merged
        /\ n.phase = "charging" /\ n.reply = reply /\ n.merged = usage
    BY <1>1
  <2> HIDE DEF m, n
  <2>7. BillOK(m)
    BY <2>3, <2>4, <2>5, <2>6 DEF BillOK, Unread
  <2>8. ASSUME ~reply.stream PROVE BillOK(n)
    <3>1. Len(reply.chunks) = 1
      BY <2>8, MeteringAssumption
    <3>2. PICK zero \in Nat : zero = 0
      OBVIOUS
    <3>3. /\ Bills(Merged(NoUsage, reply.chunks[zero + 1]), Reported(reply, zero + 1))
          /\ Merged(NoUsage, reply.chunks[zero + 1]) \in Usages
      BY <2>4, <2>5, <3>1, <3>2, MergedBills
    <3>4. zero + 1 = 1
      BY <3>2
    <3>5. Bills(usage, Reported(reply, Len(reply.chunks))) /\ usage \in Usages
      BY <2>4, <3>1, <3>3, <3>4
    <3>6. AsBilled(usage, reply)
      BY <3>5, ReadToTheEnd
    <3> QED
      BY <2>6, <3>6 DEF BillOK, Unread
  <2> QED
    BY <1>2, <2>1, <2>7, <2>8
<1>9. CASE NextChunk(t)
  <2> DEFINE reply == meter[t].reply
             k == meter[t].read
             merged == Merged(meter[t].merged, reply.chunks[k + 1])
             m == [meter[t] EXCEPT !.read = @ + 1, !.merged = merged]
  <2>1. Become(t, m) /\ meter[t].phase = "streaming" /\ k < Len(reply.chunks)
    BY <1>9 DEF NextChunk, InPhase
  <2>2. /\ reply \in Replies /\ k \in 0..Len(reply.chunks) /\ Len(reply.chunks) \in Nat
        /\ meter[t].merged \in Usages /\ Bills(meter[t].merged, Reported(reply, k))
    BY <1>m, <2>1, MeteringAssumption DEF BillOK
  <2> HIDE DEF merged
  <2>3. m.phase = "streaming" /\ m.reply = reply /\ m.read = k + 1 /\ m.merged = merged
    BY <1>1, <2>1
  <2> HIDE DEF m, reply, k
  <2>4. Bills(merged, Reported(reply, k + 1)) /\ merged \in Usages
    BY <2>1, <2>2, MergedBills DEF merged
  <2>5. k + 1 \in 0..Len(reply.chunks)
    BY <2>1, <2>2
  <2>6. BillOK(m)
    BY <2>2, <2>3, <2>4, <2>5 DEF BillOK, Unread
  <2> QED
    BY <1>2, <2>1, <2>6
<1>10. CASE Exhausted(t)
  <2> DEFINE due == Charges(t, meter[t].merged, meter[t].price)
             m == [meter[t] EXCEPT !.phase = "charging", !.due = due]
  <2>1. /\ Become(t, m) /\ meter[t].phase = "streaming"
        /\ meter[t].read = Len(meter[t].reply.chunks)
    BY <1>10 DEF Exhausted, InPhase
  <2> HIDE DEF due
  <2>2. m.phase = "charging" /\ m.reply = meter[t].reply /\ m.merged = meter[t].merged
    BY <1>1
  <2> HIDE DEF m
  <2>3. AsBilled(meter[t].merged, meter[t].reply)
    BY <1>m, <2>1, ReadToTheEnd DEF BillOK
  <2>4. BillOK(m)
    BY <2>2, <2>3 DEF BillOK, Unread
  <2> QED
    BY <1>2, <2>1, <2>4
<1> QED
  BY <1>4, <1>5, <1>6, <1>7, <1>8, <1>9, <1>10 DEF Meter

\* A reply that has been read is charged as no less than the provider bills,
\* and as more only by cached tokens that a chunk reports with the prompt and
\* not as cached: for any replies, spread over any chunks, whose reports of
\* running counts are true and reach the bill (metered, _merge).
THEOREM MeteredExactly ==
  ASSUME \A reply \in Replies : Truthful(reply)
  PROVE  Spec => []MeteredAsBilled
<1>1. Init => BillInv
  <2> SUFFICES ASSUME Init PROVE BillInv
    OBVIOUS
  <2>1. \A t \in Workers : BillOK(meter[t])
    BY DEF Init, MeterInit, BillOK, Idle, Unread
  <2> QED
    BY <2>1, TypeInit DEF BillInv
<1>2. BillInv /\ [Next]_vars => BillInv'
  <2> SUFFICES ASSUME BillInv, [Next]_vars PROVE BillInv'
    OBVIOUS
  <2>1. TypeInv'
    BY TypeNext DEF BillInv
  <2>2. CASE UNCHANGED meter
    BY <2>1, <2>2 DEF BillInv
  <2>3. CASE Metered
    BY <2>1, <2>3, MeterBills DEF Metered, BillInv
  <2>4. Metered \/ UNCHANGED meter
    BY DEF Next, Watching, Entering, Leaving, Spawning, Heap, PublishDocument, vars, meterVars
  <2> QED
    BY <2>2, <2>3, <2>4
<1>3. BillInv => MeteredAsBilled
  <2> SUFFICES ASSUME BillInv, NEW t \in Workers, IsRead(meter[t])
               PROVE  AsBilled(meter[t].merged, meter[t].reply)
    BY DEF MeteredAsBilled
  <2>1. BillOK(meter[t])
    BY DEF BillInv
  <2>2. CASE meter[t].phase = "charging"
    BY <2>1, <2>2 DEF BillOK
  <2>3. CASE meter[t].phase = "streaming" /\ meter[t].read = Len(meter[t].reply.chunks)
    BY <2>1, <2>3, ReadToTheEnd DEF BillOK
  <2> QED
    BY <2>2, <2>3 DEF IsRead
<1> QED
  BY <1>1, <1>2, <1>3, PTL DEF Spec
-----------------------------------------------------------------------------
(* Lists in which whoever comes is preceded by a partner of its own        *)

\* Every element of s that has a partner comes after it, each after its own.
Nested(s, partner) ==
  \E m :
    /\ \A i \in DOMAIN s : s[i] \in DOMAIN partner =>
         m[i] \in DOMAIN s /\ m[i] <= i /\ s[m[i]] = partner[s[i]]
    /\ \A i, j \in DOMAIN s :
         (s[i] \in DOMAIN partner /\ s[j] \in DOMAIN partner /\ m[i] = m[j]) => i = j

\* A list of others is nested.
LEMMA NestedAbsent ==
  ASSUME NEW s, NEW partner, \A i \in DOMAIN s : s[i] \notin DOMAIN partner
  PROVE  Nested(s, partner)
BY DEF Nested

\* Two nested lists, joined.
LEMMA NestedConcat ==
  ASSUME NEW S, NEW s \in Seq(S), NEW r \in Seq(S), NEW partner,
         Nested(s, partner), Nested(r, partner)
  PROVE  Nested(s \o r, partner)
<1> DEFINE w == s \o r
           n == Len(s)
<1>1. /\ n \in Nat /\ Len(r) \in Nat /\ DOMAIN s = 1..n /\ DOMAIN r = 1..Len(r)
      /\ DOMAIN w = 1..(n + Len(r))
      /\ \A i \in 1..(n + Len(r)) : w[i] = IF i <= n THEN s[i] ELSE r[i - n]
  BY LenProperties, ConcatProperties
<1>2. PICK a : /\ \A i \in DOMAIN s : s[i] \in DOMAIN partner =>
                    a[i] \in DOMAIN s /\ a[i] <= i /\ s[a[i]] = partner[s[i]]
               /\ \A i, j \in DOMAIN s :
                    (s[i] \in DOMAIN partner /\ s[j] \in DOMAIN partner /\ a[i] = a[j]) => i = j
  BY DEF Nested
<1>3. PICK b : /\ \A i \in DOMAIN r : r[i] \in DOMAIN partner =>
                    b[i] \in DOMAIN r /\ b[i] <= i /\ r[b[i]] = partner[r[i]]
               /\ \A i, j \in DOMAIN r :
                    (r[i] \in DOMAIN partner /\ r[j] \in DOMAIN partner /\ b[i] = b[j]) => i = j
  BY DEF Nested
<1> DEFINE m == [i \in 1..(n + Len(r)) |-> IF i <= n THEN a[i] ELSE n + b[i - n]]
<1> HIDE DEF w, n
\* Where an element of the joined list comes from.
<1>4. ASSUME NEW i \in 1..(n + Len(r)), w[i] \in DOMAIN partner, i <= n
      PROVE  m[i] = a[i] /\ a[i] \in 1..n /\ a[i] <= i /\ s[a[i]] = partner[w[i]]
             /\ s[i] \in DOMAIN partner /\ i \in 1..n
  BY <1>1, <1>2, <1>4
<1>5. ASSUME NEW i \in 1..(n + Len(r)), w[i] \in DOMAIN partner, ~(i <= n)
      PROVE  /\ m[i] = n + b[i - n] /\ b[i - n] \in 1..Len(r) /\ b[i - n] <= i - n
             /\ r[b[i - n]] = partner[w[i]]
             /\ i - n \in 1..Len(r) /\ r[i - n] \in DOMAIN partner
  <2>1. i - n \in 1..Len(r) /\ w[i] = r[i - n]
    BY <1>1, <1>5
  <2> QED
    BY <1>1, <1>3, <1>5, <2>1
<1> HIDE DEF m
<1>6. ASSUME NEW i \in 1..(n + Len(r)), w[i] \in DOMAIN partner
      PROVE  m[i] \in 1..(n + Len(r)) /\ m[i] <= i /\ w[m[i]] = partner[w[i]]
  <2>1. CASE i <= n
    <3>1. m[i] \in 1..n /\ m[i] <= i /\ s[m[i]] = partner[w[i]]
      BY <1>4, <1>6, <2>1
    <3> QED
      BY <1>1, <3>1
  <2>2. CASE ~(i <= n)
    <3>1. PICK k \in 1..Len(r) : k = b[i - n] /\ m[i] = n + k /\ k <= i - n /\ r[k] = partner[w[i]]
      BY <1>5, <1>6, <2>2
    <3>2. m[i] \in 1..(n + Len(r)) /\ m[i] <= i /\ ~(m[i] <= n) /\ m[i] - n = k
      BY <1>1, <3>1
    <3> QED
      BY <1>1, <3>1, <3>2
  <2> QED
    BY <2>1, <2>2
<1>7. ASSUME NEW i \in 1..(n + Len(r)), NEW j \in 1..(n + Len(r)),
             w[i] \in DOMAIN partner, w[j] \in DOMAIN partner, m[i] = m[j]
      PROVE  i = j
  <2>1. CASE i <= n /\ j <= n
    <3>1. a[i] = a[j] /\ i \in 1..n /\ j \in 1..n /\ s[i] \in DOMAIN partner /\ s[j] \in DOMAIN partner
      BY <1>4, <1>7, <2>1
    <3> QED
      BY <1>1, <1>2, <3>1
  <2>2. CASE ~(i <= n) /\ ~(j <= n)
    <3>1. /\ n + b[i - n] = n + b[j - n] /\ b[i - n] \in 1..Len(r) /\ b[j - n] \in 1..Len(r)
          /\ i - n \in 1..Len(r) /\ j - n \in 1..Len(r)
          /\ r[i - n] \in DOMAIN partner /\ r[j - n] \in DOMAIN partner
      BY <1>5, <1>7, <2>2
    <3>2. b[i - n] = b[j - n]
      <4>1. PICK x, y \in 1..Len(r) : x = b[i - n] /\ y = b[j - n] /\ n + x = n + y
        BY <3>1
      <4>2. x = y
        BY <1>1, <4>1
      <4> QED
        BY <4>1, <4>2
    <3>3. i - n = j - n
      BY <1>1, <1>3, <3>1, <3>2
    <3> QED
      BY <1>1, <3>3
  <2>3. CASE i <= n /\ ~(j <= n)
    <3>1. m[i] \in 1..n /\ m[j] = n + b[j - n] /\ b[j - n] \in 1..Len(r)
      BY <1>4, <1>5, <1>7, <2>3
    <3> QED
      BY <1>1, <1>7, <3>1
  <2>4. CASE ~(i <= n) /\ j <= n
    <3>1. m[j] \in 1..n /\ m[i] = n + b[i - n] /\ b[i - n] \in 1..Len(r)
      BY <1>4, <1>5, <1>7, <2>4
    <3> QED
      BY <1>1, <1>7, <3>1
  <2> QED
    BY <2>1, <2>2, <2>3, <2>4
<1>8. /\ \A i \in DOMAIN w : w[i] \in DOMAIN partner =>
           m[i] \in DOMAIN w /\ m[i] <= i /\ w[m[i]] = partner[w[i]]
      /\ \A i, j \in DOMAIN w :
           (w[i] \in DOMAIN partner /\ w[j] \in DOMAIN partner /\ m[i] = m[j]) => i = j
  BY <1>1, <1>6, <1>7
<1>9. Nested(w, partner)
  BY <1>8 DEF Nested
<1> QED
  BY <1>9 DEF w

\* The account `outer` is the partner of `inner`.
Around(inner, outer) == [x \in {inner} |-> outer]

\* A new account at the end of a list its outer account is on.
LEMMA NestedLast ==
  ASSUME NEW S, NEW s \in Seq(S), NEW b, NEW k \in DOMAIN s, \A i \in DOMAIN s : s[i] # b
  PROVE  Nested(s \o <<b>>, Around(b, s[k]))
<1> DEFINE w == s \o <<b>>
           n == Len(s)
<1>1. s \in Seq(S \cup {b}) /\ <<b>> \in Seq(S \cup {b}) /\ Len(<<b>>) = 1 /\ <<b>>[1] = b
  BY SeqMonotonic
<1>2. /\ n \in Nat /\ DOMAIN s = 1..n /\ w \in Seq(S \cup {b}) /\ Len(w) = n + 1
      /\ \A i \in 1..(n + 1) : w[i] = IF i <= n THEN s[i] ELSE <<b>>[i - n]
  BY <1>1, LenProperties, ConcatProperties
<1>3. DOMAIN w = 1..(n + 1)
  BY <1>2, LenProperties
<1>4. \A i \in 1..(n + 1) : w[i] = IF i <= n THEN s[i] ELSE b
  BY <1>1, <1>2
<1> DEFINE m == [i \in 1..(n + 1) |-> k]
<1> HIDE DEF w, n
<1>5. ASSUME NEW i \in 1..(n + 1), w[i] = b
      PROVE  i = n + 1 /\ m[i] \in 1..(n + 1) /\ m[i] <= i /\ w[m[i]] = s[k]
  <2>1. i = n + 1
    BY <1>2, <1>4, <1>5
  <2>2. k \in 1..n /\ k \in 1..(n + 1) /\ k <= n + 1 /\ w[k] = s[k]
    BY <1>2, <1>4
  <2> QED
    BY <2>1, <2>2
<1> HIDE DEF m
<1>6. DOMAIN Around(b, s[k]) = {b} /\ Around(b, s[k])[b] = s[k]
  BY DEF Around
<1>7. /\ \A i \in DOMAIN w : w[i] \in DOMAIN Around(b, s[k]) =>
           m[i] \in DOMAIN w /\ m[i] <= i /\ w[m[i]] = Around(b, s[k])[w[i]]
      /\ \A i, j \in DOMAIN w :
           (w[i] \in DOMAIN Around(b, s[k]) /\ w[j] \in DOMAIN Around(b, s[k]) /\ m[i] = m[j])
             => i = j
  <2>1. \A i \in DOMAIN w : w[i] \in DOMAIN Around(b, s[k]) => i \in 1..(n + 1) /\ w[i] = b
    BY <1>3, <1>6
  <2> QED
    BY <1>3, <1>5, <1>6, <2>1
<1>8. Nested(w, Around(b, s[k]))
  BY <1>7 DEF Nested
<1> QED
  BY <1>8 DEF w

-----------------------------------------------------------------------------
(* What is due to the accounts of a policy                                 *)

BudgetFields == {"quotas", "cost_budgets"}

Items(ids) == ids \X Resources \X Nat

\* The charge of an outer account that belongs to one of an inner account.
Dues(inner, outer) == [c \in {inner} \X Resources \X Nat |-> <<outer, c[2], c[3]>>]

\* Wherever a list has an account, it has the accounts that were around it.
ListNested(s, accts) ==
  \A b \in DOMAIN accts : \A o \in accts[b].under : Nested(s, Around(b, o))

DueNested(due, accts) ==
  \A b \in DOMAIN accts : \A o \in accts[b].under : Nested(due, Dues(b, o))

\* Outside every block is no account.
Enclosed(p, accts) ==
  /\ p.root => p.quotas = <<>> /\ p.cost_budgets = <<>>
  /\ \A f \in BudgetFields : ListNested(p[f], accts)

\* Each account of a policy is charged as often as the accounts around it.
LEMMA EachNested ==
  ASSUME NEW ids, NEW p, PolicyOK(p, ids), NEW accts, Enclosed(p, accts),
         NEW f \in BudgetFields, NEW r \in Resources, NEW n \in Nat
  PROVE  Each(p, f, r, n) \in Seq(Items(ids)) /\ DueNested(Each(p, f, r, n), accts)
<1> DEFINE s == p[f]
           e == [i \in 1..Len(s) |-> <<s[i], r, n>>]
<1>1. s \in Seq(ids) /\ ListNested(s, accts)
  BY DEF PolicyOK, BudgetFields, Enclosed
<1>2. Each(p, f, r, n) = e
  BY DEF Each
<1> HIDE DEF s
<1>3. Len(s) \in Nat /\ DOMAIN s = 1..Len(s) /\ \A i \in 1..Len(s) : s[i] \in ids
  BY <1>1, LenProperties, ElementOfSeq
<1>4. e \in [1..Len(s) -> Items(ids)]
  BY <1>3 DEF Items
<1>5. e \in Seq(Items(ids))
  BY <1>3, <1>4, SeqDef
<1>6. ASSUME NEW b \in DOMAIN accts, NEW o \in accts[b].under PROVE Nested(e, Dues(b, o))
  <2>1. PICK m : /\ \A i \in DOMAIN s : s[i] \in DOMAIN Around(b, o) =>
                      m[i] \in DOMAIN s /\ m[i] <= i /\ s[m[i]] = Around(b, o)[s[i]]
                 /\ \A i, j \in DOMAIN s :
                      (s[i] \in DOMAIN Around(b, o) /\ s[j] \in DOMAIN Around(b, o) /\ m[i] = m[j])
                        => i = j
    BY <1>1 DEF ListNested, Nested
  <2>2. ASSUME NEW i \in 1..Len(s), e[i] \in DOMAIN Dues(b, o)
        PROVE  s[i] \in DOMAIN Around(b, o) /\ s[i] = b
    BY <2>2 DEF Dues, Around
  <2>3. ASSUME NEW i \in 1..Len(s), e[i] \in DOMAIN Dues(b, o)
        PROVE  m[i] \in 1..Len(s) /\ m[i] <= i /\ e[m[i]] = Dues(b, o)[e[i]]
    <3>1. m[i] \in 1..Len(s) /\ m[i] <= i /\ s[m[i]] = o
      BY <1>3, <2>1, <2>2, <2>3 DEF Around
    <3>2. Dues(b, o)[e[i]] = <<o, r, n>>
      BY <2>3 DEF Dues
    <3> QED
      BY <3>1, <3>2
  <2>4. DOMAIN e = 1..Len(s)
    OBVIOUS
  <2>5. \A i, j \in 1..Len(s) :
          (e[i] \in DOMAIN Dues(b, o) /\ e[j] \in DOMAIN Dues(b, o) /\ m[i] = m[j]) => i = j
    BY <1>3, <2>1, <2>2
  <2> HIDE DEF e
  <2> QED
    BY <2>3, <2>4, <2>5, SMTT(30) DEF Nested
<1> QED
  BY <1>2, <1>5, <1>6 DEF DueNested

\* Two lists of charges, joined.
LEMMA DueNestedConcat ==
  ASSUME NEW ids, NEW s \in Seq(Items(ids)), NEW r \in Seq(Items(ids)), NEW accts,
         DueNested(s, accts), DueNested(r, accts)
  PROVE  s \o r \in Seq(Items(ids)) /\ DueNested(s \o r, accts)
BY ConcatProperties, NestedConcat DEF DueNested

\* No charge at all.
LEMMA NothingDue ==
  \A ids, accts : <<>> \in Seq(Items(ids)) /\ DueNested(<<>>, accts) /\ ListNested(<<>>, accts)
<1>1. DOMAIN <<>> = {}
  OBVIOUS
<1> QED
  BY <1>1, NestedAbsent, EmptySeq DEF DueNested, ListNested

\* The product of two numbers.
LEMMA Product == \A x, y \in Int : x * y \in Int
OBVIOUS

\* Price.cost() of counts is a number.
LEMMA CostType ==
  ASSUME NEW price \in Prices, NEW usage \in Usages
  PROVE  Cost(price, usage) \in Int
<1> DEFINE rate(bucket) == IF price[bucket] = None THEN price.input ELSE price[bucket]
<1>1. /\ usage.input \in Int /\ usage.cached \in Int /\ usage.cache_write \in Int
      /\ usage.output \in Int /\ price.input \in Int /\ price.output \in Int
      /\ rate("cached") \in Int /\ rate("cache_write") \in Int
  BY DEF Usages, Prices
<1>2. Cost(price, usage) = usage.input * price.input + usage.cached * rate("cached")
                           + usage.cache_write * rate("cache_write") + usage.output * price.output
  BY DEF Cost
<1> HIDE DEF rate
<1>3. PICK a \in Int, b \in Int, c \in Int, d \in Int :
        /\ a = usage.input * price.input /\ b = usage.cached * rate("cached")
        /\ c = usage.cache_write * rate("cache_write") /\ d = usage.output * price.output
  BY <1>1, Product
<1> QED
  BY <1>2, <1>3

\* The charges of a reply (_charge).
LEMMA ChargesNested ==
  ASSUME NEW t, NEW ids, PolicyOK(Current(t), ids), NEW accts, Enclosed(Current(t), accts),
         NEW usage \in Usages, NEW price \in Prices
  PROVE  /\ Charges(t, usage, price) \in Seq(Items(ids))
         /\ DueNested(Charges(t, usage, price), accts)
<1> DEFINE p == Current(t)
           first == IF usage.total > 0 THEN Each(p, "quotas", "tokens", usage.total) ELSE <<>>
           then == IF price # NoPrice /\ Cost(price, usage) > 0
                     THEN Each(p, "cost_budgets", "usd", Cost(price, usage)) ELSE <<>>
<1>0. {"tokens", "usd"} \subseteq Resources /\ {"quotas", "cost_budgets"} = BudgetFields
  BY DEF Resources, BudgetFields
<1>1. first \in Seq(Items(ids)) /\ DueNested(first, accts)
  <2>1. CASE usage.total > 0
    <3>1. usage.total \in Nat
      BY <2>1 DEF Usages
    <3> QED
      BY <1>0, <2>1, <3>1, EachNested
  <2>2. CASE ~(usage.total > 0)
    BY <2>2, NothingDue
  <2> QED
    BY <2>1, <2>2
<1>2. then \in Seq(Items(ids)) /\ DueNested(then, accts)
  <2>1. CASE price # NoPrice /\ Cost(price, usage) > 0
    <3>1. Cost(price, usage) \in Nat
      BY <2>1, CostType
    <3>2. Each(p, "cost_budgets", "usd", Cost(price, usage)) \in Seq(Items(ids))
          /\ DueNested(Each(p, "cost_budgets", "usd", Cost(price, usage)), accts)
      BY <1>0, <3>1, EachNested
    <3> QED
      BY <2>1, <3>2
  <2>2. CASE ~(price # NoPrice /\ Cost(price, usage) > 0)
    BY <2>2, NothingDue
  <2> QED
    BY <2>1, <2>2
<1>3. Charges(t, usage, price) = IF usage = NoUsage THEN <<>> ELSE first \o then
  BY DEF Charges
<1> HIDE DEF first, then
<1>4. first \o then \in Seq(Items(ids)) /\ DueNested(first \o then, accts)
  BY <1>1, <1>2, DueNestedConcat
<1> QED
  BY <1>3, <1>4, NothingDue

-----------------------------------------------------------------------------
(* The accounts of blocks                                                  *)

\* An account within its limits, opened inside known ones.
AccountOK(a, ids) ==
  /\ DOMAIN a = {"max", "used", "under"} /\ DOMAIN a.used = Resources
  /\ a.under \subseteq ids
  /\ \A r \in Resources : /\ a.used[r] \in Nat /\ a.max[r] \in Int
                          /\ a.max[r] # None => a.used[r] <= a.max[r]

BooksOK ==
  /\ \A b \in DOMAIN accounts : AccountOK(accounts[b], DOMAIN accounts)
  /\ \A t \in Workers :
       /\ Enclosed(inherited[t].policy, accounts)
       /\ \A i \in DOMAIN blocks[t] : Enclosed(blocks[t][i].policy, accounts)

\* What keywords make: at most one account for each field of the policy, whose
\* number is added to that field and to no other (NewQuotas, NewBudgets).
Fresh(after, outer, more) ==
  /\ \A b \in DOMAIN accounts : after[b] = accounts[b]
  /\ \A b \in DOMAIN after \ DOMAIN accounts : \E f \in BudgetFields :
       /\ more[f] = <<b>> /\ \A g \in BudgetFields : g # f => more[g] # <<b>>
       /\ \E max \in [Resources -> Budgets] : after[b] = Account(max, outer, f)
  /\ \A f \in BudgetFields :
       more[f] = <<>> \/ \E b \in DOMAIN after \ DOMAIN accounts : more[f] = <<b>>

\* The accounts keywords make are fresh (safely).
LEMMA EnterFresh ==
  ASSUME IsSeq(accounts), NEW kw, Typed(kw), NEW outer, NEW after,
         after = accounts \o NewQuotas(kw, outer) \o NewBudgets(kw, outer)
  PROVE  Fresh(after, outer, Restrictions(kw, outer))
<1> DEFINE q == NewQuotas(kw, outer)
           d == NewBudgets(kw, outer)
           more == Restrictions(kw, outer)
           n == Len(accounts)
           limits(x) == \E max \in [Resources -> Budgets] : x = Account(max, outer, "quotas")
           money(x) == \E max \in [Resources -> Budgets] : x = Account(max, outer, "cost_budgets")
<1>0. \A x : Len(<<x>>) = 1 /\ <<x>>[1] = x
  OBVIOUS
<1>1. q = <<>> \/ \E x : q = <<x>> /\ limits(x)
  <2> DEFINE calls == Given(kw, "calls", None)
             tokens == Given(kw, "tokens", None)
             max == [Unlimited EXCEPT !["calls"] = calls, !["tokens"] = tokens]
  <2>1. calls \in Budgets /\ tokens \in Budgets /\ None \in Budgets
    BY DEF Typed, Budgets
  <2>2. max \in [Resources -> Budgets]
    BY <2>1 DEF Unlimited, Resources
  <2>3. q = <<>> \/ q = <<Account(max, outer, "quotas")>>
    BY DEF NewQuotas
  <2> HIDE DEF max
  <2> QED
    BY <2>2, <2>3
<1>2. IF "budget" \in DOMAIN kw THEN \E x : d = <<x>> /\ money(x) ELSE d = <<>>
  <2> DEFINE max == [Unlimited EXCEPT !["usd"] = kw["budget"]]
  <2>1. ASSUME "budget" \in DOMAIN kw PROVE max \in [Resources -> Budgets]
    <3>1. kw["budget"] \in Budgets /\ None \in Budgets
      BY <2>1 DEF Typed, Given, Budgets
    <3> QED
      BY <3>1 DEF Unlimited, Resources
  <2>2. d = IF "budget" \in DOMAIN kw THEN <<Account(max, outer, "cost_budgets")>> ELSE <<>>
    BY DEF NewBudgets
  <2> HIDE DEF max
  <2> QED
    BY <2>1, <2>2
<1>3. /\ more["quotas"] = IF Len(q) > 0 THEN <<n + 1>> ELSE <<>>
      /\ more["cost_budgets"] = IF "budget" \in DOMAIN kw THEN <<n + 1 + Len(q)>> ELSE <<>>
  BY DEF Restrictions, Added
<1>4. after = (accounts \o q) \o d
  OBVIOUS
<1> HIDE DEF q, d, more, limits, money
<1>5. PICK S : accounts \in Seq(S) /\ q \in Seq(S) /\ d \in Seq(S)
  <2>1. IsSeq(q) /\ IsSeq(d)
    BY <1>1, <1>2, ShortSeq
  <2>2. PICK S, T, U : accounts \in Seq(S) /\ q \in Seq(T) /\ d \in Seq(U)
    BY <2>1 DEF IsSeq
  <2>3. /\ accounts \in Seq(S \cup T \cup U) /\ q \in Seq(S \cup T \cup U)
        /\ d \in Seq(S \cup T \cup U)
    BY <2>2, SeqMonotonic
  <2> QED
    BY <2>3
<1>6. /\ n \in Nat /\ Len(q) \in Nat /\ Len(d) \in Nat /\ DOMAIN accounts = 1..n
      /\ DOMAIN after = 1..(n + Len(q) + Len(d))
      /\ \A i \in 1..(n + Len(q) + Len(d)) :
            after[i] = IF i <= n THEN accounts[i]
                       ELSE IF i <= n + Len(q) THEN q[i - n] ELSE d[i - (n + Len(q))]
  <2> DEFINE w == accounts \o q
  <2>1. /\ n \in Nat /\ Len(q) \in Nat /\ Len(d) \in Nat /\ DOMAIN accounts = 1..n
        /\ w \in Seq(S) /\ Len(w) = n + Len(q)
        /\ \A i \in 1..(n + Len(q)) : w[i] = IF i <= n THEN accounts[i] ELSE q[i - n]
    BY <1>5, LenProperties, ConcatProperties
  <2> HIDE DEF w
  <2>2. /\ after \in Seq(S) /\ Len(after) = n + Len(q) + Len(d)
        /\ \A i \in 1..(n + Len(q) + Len(d)) :
              after[i] = IF i <= n + Len(q) THEN w[i] ELSE d[i - (n + Len(q))]
    <3>1. after = w \o d
      BY <1>4 DEF w
    <3>a. w \in Seq(S) /\ d \in Seq(S)
      BY <1>5, <2>1
    <3>2. /\ w \o d \in Seq(S) /\ Len(w \o d) = Len(w) + Len(d)
          /\ \A i \in 1..Len(w) + Len(d) : (w \o d)[i] = IF i <= Len(w) THEN w[i] ELSE d[i - Len(w)]
      BY <3>a, ConcatProperties
    <3>3. Len(w) = n + Len(q)
      BY <2>1
    <3> QED
      BY <3>1, <3>2, <3>3
  <2>3. DOMAIN after = 1..(n + Len(q) + Len(d))
    BY <2>2, LenProperties
  <2>4. ASSUME NEW i \in 1..(n + Len(q) + Len(d))
        PROVE  after[i] = IF i <= n THEN accounts[i]
                          ELSE IF i <= n + Len(q) THEN q[i - n] ELSE d[i - (n + Len(q))]
    BY <2>1, <2>2, SMTT(30)
  <2> QED
    BY <2>1, <2>3, <2>4
<1>7. \A b \in DOMAIN accounts : after[b] = accounts[b]
  BY <1>6
<1>8. Len(q) \in 0..1 /\ Len(d) = IF "budget" \in DOMAIN kw THEN 1 ELSE 0
  BY <1>0, <1>1, <1>2
<1>9. /\ Len(q) = 1 => /\ n + 1 \in DOMAIN after \ DOMAIN accounts
                       /\ more["quotas"] = <<n + 1>> /\ limits(after[n + 1])
      /\ Len(q) = 0 => more["quotas"] = <<>>
  <2>1. CASE Len(q) = 1
    <3>1. limits(q[1])
      <4>0. q # <<>>
        <5>1. Len(q) # 0
          BY <2>1
        <5> QED
          BY <5>1, ShortSeq, Zenon
      <4>1. PICK x : q = <<x>> /\ limits(x)
        BY <1>1, <4>0
      <4>2. q[1] = x
        BY <1>0, <4>1
      <4> QED
        BY <4>1, <4>2
    <3>2. n + 1 \in 1..(n + Len(q) + Len(d)) /\ ~(n + 1 <= n) /\ n + 1 <= n + Len(q)
          /\ (n + 1) - n = 1
      BY <1>6, <2>1
    <3> QED
      BY <1>3, <1>6, <2>1, <3>1, <3>2
  <2> QED
    BY <1>3, <2>1
<1>10. /\ Len(d) = 1 => /\ n + 1 + Len(q) \in DOMAIN after \ DOMAIN accounts
                        /\ more["cost_budgets"] = <<n + 1 + Len(q)>>
                        /\ money(after[n + 1 + Len(q)])
       /\ Len(d) = 0 => more["cost_budgets"] = <<>>
  <2>1. CASE Len(d) = 1
    <3>1. money(d[1])
      BY <1>0, <1>2, <2>1
    <3>2. /\ n + 1 + Len(q) \in 1..(n + Len(q) + Len(d)) /\ ~(n + 1 + Len(q) <= n)
          /\ ~(n + 1 + Len(q) <= n + Len(q)) /\ (n + 1 + Len(q)) - (n + Len(q)) = 1
      BY <1>6, <2>1
    <3> QED
      BY <1>3, <1>6, <1>8, <2>1, <3>1, <3>2
  <2> QED
    BY <1>3, <1>8, <2>1
<1>11. ASSUME NEW b \in DOMAIN after \ DOMAIN accounts
       PROVE  \E f \in BudgetFields :
                /\ more[f] = <<b>> /\ \A g \in BudgetFields : g # f => more[g] # <<b>>
                /\ \E max \in [Resources -> Budgets] : after[b] = Account(max, outer, f)
  <2>1. (Len(q) = 1 /\ b = n + 1) \/ (Len(d) = 1 /\ b = n + 1 + Len(q))
    BY <1>6, <1>8, SMTT(30)
  <2>2. CASE Len(q) = 1 /\ b = n + 1
    <3>1. more["cost_budgets"] # <<b>>
      <4>1. CASE Len(d) = 1
        <5>1. n + 1 + Len(q) # b
          BY <1>6, <2>2
        <5> QED
          BY <1>0, <1>10, <4>1, <5>1
      <4>2. CASE Len(d) = 0
        BY <1>0, <1>10, <4>2, EmptySeq
      <4> QED
        BY <1>8, <4>1, <4>2
    <3>2. more["quotas"] = <<b>>
      BY <1>9, <2>2
    <3>3. \E max \in [Resources -> Budgets] : after[b] = Account(max, outer, "quotas")
      BY <1>9, <2>2 DEF limits
    <3> QED
      BY <3>1, <3>2, <3>3 DEF BudgetFields
  <2>3. CASE Len(d) = 1 /\ b = n + 1 + Len(q)
    <3>1. more["quotas"] # <<b>>
      <4>1. CASE Len(q) = 1
        <5>1. n + 1 # b
          BY <1>6, <2>3, <4>1
        <5> QED
          BY <1>0, <1>9, <4>1, <5>1
      <4>2. CASE Len(q) = 0
        BY <1>0, <1>9, <4>2, EmptySeq
      <4> QED
        BY <1>8, <4>1, <4>2
    <3>2. more["cost_budgets"] = <<b>>
      BY <1>10, <2>3
    <3>3. \E max \in [Resources -> Budgets] : after[b] = Account(max, outer, "cost_budgets")
      BY <1>10, <2>3 DEF money
    <3> QED
      BY <3>1, <3>2, <3>3 DEF BudgetFields
  <2> QED
    BY <2>1, <2>2, <2>3
<1>12. \A f \in BudgetFields :
         more[f] = <<>> \/ \E b \in DOMAIN after \ DOMAIN accounts : more[f] = <<b>>
  BY <1>8, <1>9, <1>10 DEF BudgetFields
<1> QED
  BY <1>7, <1>11, <1>12 DEF Fresh, more


\* Policies keep their accounts enclosed while accounts are made and charged.
LEMMA EnclosedStays ==
  ASSUME NEW p, PolicyOK(p, DOMAIN accounts), Enclosed(p, accounts),
         \A b \in DOMAIN accounts : accounts'[b].under = accounts[b].under
  PROVE  Enclosed(p, accounts')
<1> SUFFICES ASSUME NEW f \in BudgetFields, NEW b \in DOMAIN accounts',
                    NEW o \in accounts'[b].under
             PROVE  Nested(p[f], Around(b, o))
  BY DEF Enclosed, ListNested
<1>1. p[f] \in Seq(DOMAIN accounts)
  BY DEF PolicyOK, BudgetFields
<1>2. CASE b \in DOMAIN accounts
  BY <1>2 DEF Enclosed, ListNested
<1>3. CASE b \notin DOMAIN accounts
  <2>1. \A i \in DOMAIN p[f] : p[f][i] \in DOMAIN accounts
    BY <1>1, LenProperties, ElementOfSeq
  <2>2. \A i \in DOMAIN p[f] : p[f][i] \notin DOMAIN Around(b, o)
    BY <1>3, <2>1 DEF Around
  <2> QED
    BY <2>2, NestedAbsent
<1> QED
  BY <1>2, <1>3

\* One list after another.
Joined(s, r) == s \o r

\* Narrowing adds to each list of accounts (Policy.narrow).
LEMMA NarrowLists ==
  ASSUME NEW p, DOMAIN p = DOMAIN Root, NEW perms, NEW more, NEW f \in BudgetFields
  PROVE  /\ DOMAIN NarrowPolicy(p, perms, more) = DOMAIN Root
         /\ NarrowPolicy(p, perms, more)[f] = Joined(p[f], more[f])
<1>1. f \in DOMAIN p /\ f \in {"quotas", "cost_budgets"}
  BY DEF Root, BudgetFields
<1> QED
  BY <1>1 DEF NarrowPolicy, Joined

\* The accounts of the policy a block gets.
LEMMA EffectiveLists ==
  ASSUME NEW ids, NEW outer, PolicyOK(outer, ids), NEW scope, ScopeOK(scope, ids),
         NEW f \in BudgetFields, NEW around, around = IF outer.root THEN <<>> ELSE outer[f]
  PROVE  Effective(outer, scope)[f]
           = Joined(IF scope.policy = NoPolicy THEN around ELSE Joined(around, scope.policy[f]),
                    scope.more[f])
<1> DEFINE base == IF outer.root
                     THEN [Root EXCEPT !.root = FALSE, !.perms = AllowAll,
                                       !.enforce = scope.enforce # "off"]
                     ELSE outer
           given == IF scope.policy = NoPolicy
                      THEN base
                      ELSE NarrowPolicy(base, scope.policy.perms, scope.policy)
           own == NarrowPolicy(given, scope.perms, scope.more)
<1>1. Effective(outer, scope) = [own EXCEPT !.enforce = Enforcing(outer, @, scope.enforce),
                                            !.timeout = Tighter(@, scope.timeout),
                                            !.memory = Tighter(@, scope.memory)]
  BY DEF Effective
<1>2. DOMAIN base = DOMAIN Root /\ base[f] = around
  <2>1. CASE outer.root
    <3>1. base = [Root EXCEPT !.root = FALSE, !.perms = AllowAll,
                              !.enforce = scope.enforce # "off"]
      BY <2>1
    <3>2. DOMAIN base = DOMAIN Root
      BY <3>1
    <3>3. base.quotas = <<>> /\ base.cost_budgets = <<>>
      BY <3>1 DEF Root
    <3>4. around = <<>> /\ (f = "quotas" \/ f = "cost_budgets")
      BY <2>1 DEF BudgetFields
    <3> HIDE DEF base
    <3> QED
      BY <3>2, <3>3, <3>4
  <2>2. CASE ~outer.root
    <3>1. base = outer /\ around = outer[f]
      BY <2>2
    <3> QED
      BY <3>1 DEF PolicyOK
  <2> QED
    BY <2>1, <2>2
<1> HIDE DEF base
<1>3. BudgetFields \subseteq DOMAIN Root
  BY DEF Root, BudgetFields
<1>5. /\ DOMAIN given = DOMAIN Root
      /\ given[f] = IF scope.policy = NoPolicy THEN around ELSE Joined(around, scope.policy[f])
  <2>1. CASE scope.policy = NoPolicy
    BY <1>2, <2>1
  <2>2. CASE scope.policy # NoPolicy
    <3>1. given = NarrowPolicy(base, scope.policy.perms, scope.policy)
      BY <2>2
    <3> HIDE DEF given
    <3>2. PICK perms, more : perms = scope.policy.perms /\ more = scope.policy
      OBVIOUS
    <3>3. /\ DOMAIN NarrowPolicy(base, perms, more) = DOMAIN Root
          /\ NarrowPolicy(base, perms, more)[f] = Joined(base[f], more[f])
      BY <1>2, NarrowLists
    <3>4. given = NarrowPolicy(base, perms, more)
      BY <3>1, <3>2
    <3> QED
      BY <1>2, <2>2, <3>2, <3>3, <3>4
  <2> QED
    BY <2>1, <2>2
<1> HIDE DEF given
<1>6. DOMAIN own = DOMAIN Root /\ own[f] = Joined(given[f], scope.more[f])
  <2>1. own = NarrowPolicy(given, scope.perms, scope.more)
    OBVIOUS
  <2> HIDE DEF own
  <2>2. PICK perms, more : perms = scope.perms /\ more = scope.more
    OBVIOUS
  <2>3. /\ DOMAIN NarrowPolicy(given, perms, more) = DOMAIN Root
        /\ NarrowPolicy(given, perms, more)[f] = Joined(given[f], more[f])
    BY <1>5, NarrowLists
  <2>4. own = NarrowPolicy(given, perms, more)
    BY <2>1, <2>2
  <2> QED
    BY <2>2, <2>3, <2>4
<1> HIDE DEF own
<1>7. Effective(outer, scope)[f] = own[f]
  BY <1>1, <1>3, <1>6 DEF BudgetFields
<1> QED
  BY <1>5, <1>6, <1>7

\* The block that is opened, as far as accounts are concerned.
LEMMA OpenLists ==
  ASSUME NEW t, NEW scope, NEW notes, Open(t, scope, notes),
         NEW ids, PolicyOK(Current(t), ids), ScopeOK(scope, ids)
  PROVE  \E b :
           /\ blocks' = [blocks EXCEPT ![t] = Append(@, b)] /\ inherited' = inherited
           /\ ~b.policy.root
           /\ \A f \in BudgetFields : b.policy[f] = Effective(Current(t), scope)[f]
<1> DEFINE p == Effective(Current(t), scope)
<1>1. PICK b : /\ blocks' = [blocks EXCEPT ![t] = Append(@, b)]
               /\ b.policy = p
  BY OpenedRecord
<1>2. ~p.root
  BY EffectiveOK
<1>3. inherited' = inherited
  BY DEF Open
<1> HIDE DEF p
<1> WITNESS b
<1> QED
  BY <1>1, <1>2, <1>3 DEF p

\* An opened block's policy encloses its accounts, if its lists do.
LEMMA OpenedBooks ==
  ASSUME StateOK, NEW t \in Workers, NEW b, blocks' = [blocks EXCEPT ![t] = Append(@, b)],
         inherited' = inherited, Enclosed(b.policy, accounts'), BooksOK,
         \A a \in DOMAIN accounts : accounts'[a].under = accounts[a].under,
         \A a \in DOMAIN accounts' : AccountOK(accounts'[a], DOMAIN accounts')
  PROVE  BooksOK'
<1>1. ContextOK
  BY DEF StateOK
<1>2. \A p : (PolicyOK(p, DOMAIN accounts) /\ Enclosed(p, accounts)) => Enclosed(p, accounts')
  BY EnclosedStays
<1>3. ASSUME NEW u \in Workers
      PROVE  /\ Enclosed(inherited[u].policy, accounts')
             /\ \A i \in DOMAIN blocks[u] : Enclosed(blocks[u][i].policy, accounts')
  BY <1>1, <1>2 DEF BooksOK, ContextOK, BlockOK
<1>4. ASSUME NEW u \in Workers, NEW i \in DOMAIN blocks'[u]
      PROVE  Enclosed(blocks'[u][i].policy, accounts')
  <2>1. CASE u = t
    <3>1. /\ DOMAIN blocks[t] = 1..Len(blocks[t]) /\ Len(blocks[t]) \in Nat
          /\ DOMAIN blocks'[t] = 1..(Len(blocks[t]) + 1)
          /\ \A k \in 1..Len(blocks[t]) : blocks'[t][k] = blocks[t][k]
          /\ blocks'[t][Len(blocks[t]) + 1] = b
      BY <1>1, OpenedBlocks
    <3>2. i \in 1..Len(blocks[t]) \/ i = Len(blocks[t]) + 1
      BY <1>4, <2>1, <3>1
    <3> QED
      BY <1>3, <2>1, <3>1, <3>2
  <2>2. CASE u # t
    BY <1>1, <1>3, <2>2, OpenedBlocks
  <2> QED
    BY <2>1, <2>2
<1> QED
  BY <1>3, <1>4 DEF BooksOK

\* Entering a block puts its accounts inside those around it (safely).
LEMMA EnterBooks ==
  ASSUME StateOK, BooksOK, NEW t \in Workers, NEW kw, Typed(kw), Enter(t, kw)
  PROVE  /\ BooksOK' /\ DOMAIN accounts \subseteq DOMAIN accounts'
         /\ \A b \in DOMAIN accounts : accounts'[b] = accounts[b]
         /\ \A b \in DOMAIN accounts' \ DOMAIN accounts : accounts'[b].used = Unused
<1> DEFINE outer == Current(t)
           scope == ScopeOf(kw, outer)
           more == Restrictions(kw, outer)
           ids == DOMAIN accounts'
<1>1. /\ accounts' = accounts \o NewQuotas(kw, outer) \o NewBudgets(kw, outer)
      /\ \E notes : Open(t, scope, notes)
  BY DEF Enter
<1>2. /\ IsSeq(accounts) /\ DOMAIN accounts \subseteq ids /\ MoreOK(more, ids)
      /\ Fresh(accounts', outer, more)
  BY <1>1, RestrictionsOK, EnterFresh DEF StateOK
<1>3. ScopeOK(scope, ids) /\ scope.policy = NoPolicy /\ scope.more = more
  BY <1>2, ScopeOfOK DEF ScopeOf, Scope
<1>4. /\ PolicyOK(outer, DOMAIN accounts) /\ PolicyOK(outer, ids) /\ Enclosed(outer, accounts)
  <2>1. ContextOK
    BY DEF StateOK
  <2>2. PolicyOK(outer, DOMAIN accounts) /\ Enclosed(outer, accounts)
    BY <2>1, CurrentOK DEF BooksOK
  <2> QED
    BY <1>2, <2>2, MonotonePolicyOK
<1> HIDE DEF outer, scope, more
<1>5. \A b \in DOMAIN accounts : accounts'[b] = accounts[b]
  BY <1>2 DEF Fresh
\* What the accounts of a list of the outer policy are.
<1>6. \A f \in BudgetFields : /\ outer[f] \in Seq(DOMAIN accounts)
                              /\ Objects(outer, f) \subseteq DOMAIN accounts
  BY <1>4, LenProperties, ElementOfSeq DEF PolicyOK, BudgetFields, Objects
<1>7. ASSUME NEW b \in ids \ DOMAIN accounts
      PROVE  AccountOK(accounts'[b], ids) /\ accounts'[b].used = Unused
  <2>1. PICK f \in BudgetFields, max \in [Resources -> Budgets] :
          accounts'[b] = Account(max, outer, f)
    BY <1>2, <1>7 DEF Fresh
  <2>2. \A r \in Resources : max[r] \in Int /\ (max[r] # None => 0 <= max[r])
    BY DEF Budgets, None
  <2>3. Objects(outer, f) \subseteq ids
    BY <1>2, <1>6
  <2> QED
    BY <2>1, <2>2, <2>3 DEF AccountOK, Account, Unused
<1>8. ASSUME NEW b \in ids PROVE AccountOK(accounts'[b], ids)
  <2>1. CASE b \in DOMAIN accounts
    BY <1>2, <1>5, <2>1 DEF BooksOK, AccountOK
  <2> QED
    BY <1>7, <2>1
<1>9. PICK b : /\ blocks' = [blocks EXCEPT ![t] = Append(@, b)] /\ inherited' = inherited
               /\ ~b.policy.root
               /\ \A f \in BudgetFields : b.policy[f] = Effective(outer, scope)[f]
  BY <1>1, <1>3, <1>4, OpenLists DEF outer
<1>10. ASSUME NEW f \in BudgetFields PROVE ListNested(b.policy[f], accounts')
  <2> DEFINE around == IF outer.root THEN <<>> ELSE outer[f]
  <2>1. b.policy[f] = around \o more[f]
    <3>1. PICK a : a = around
      OBVIOUS
    <3>2. a = IF outer.root THEN <<>> ELSE outer[f]
      BY <3>1
    <3> HIDE DEF around
    <3>3. Effective(outer, scope)[f]
            = Joined(IF scope.policy = NoPolicy THEN a ELSE Joined(a, scope.policy[f]), scope.more[f])
      BY <1>3, <1>4, <3>2, EffectiveLists
    <3> QED
      BY <1>3, <1>9, <3>1, <3>3 DEF Joined
  <2>2. around \in Seq(DOMAIN accounts) /\ ListNested(around, accounts)
    <3>1. CASE outer.root
      BY <3>1, NothingDue, EmptySeq
    <3>2. CASE ~outer.root
      BY <1>4, <1>6, <3>2 DEF Enclosed
    <3> QED
      BY <3>1, <3>2
  <2>3. \A i \in DOMAIN around : around[i] \in DOMAIN accounts
    BY <2>2, LenProperties, ElementOfSeq
  <2>4. around \in Seq(ids) /\ more[f] \in Seq(ids)
    BY <1>2, <2>2, SeqMonotonic DEF MoreOK, BudgetFields
  <2>5. \A x : DOMAIN <<x>> = {1} /\ <<x>>[1] = x
    OBVIOUS
  <2>a. outer.root => outer[f] = <<>>
    BY <1>4 DEF Enclosed, BudgetFields
  <2>b. ~outer.root => around = outer[f]
    OBVIOUS
  <2> HIDE DEF around
  <2>6. ASSUME NEW a \in ids, NEW o \in accounts'[a].under
        PROVE  Nested(around \o more[f], Around(a, o))
    <3>0. \A x : DOMAIN Around(x, o) = {x}
      BY DEF Around
    <3>1. CASE a \in DOMAIN accounts
      <4>1. Nested(around, Around(a, o))
        BY <1>5, <2>2, <2>6, <3>1 DEF ListNested
      <4>2. more[f] = <<>> \/ \E c \in ids \ DOMAIN accounts : more[f] = <<c>>
        BY <1>2 DEF Fresh
      <4>3. Nested(more[f], Around(a, o))
        <5>1. CASE more[f] = <<>>
          <6>1. DOMAIN more[f] = {}
            BY <5>1
          <6> QED
            BY <6>1, NestedAbsent
        <5>2. ASSUME NEW c \in ids \ DOMAIN accounts, more[f] = <<c>>
              PROVE  Nested(more[f], Around(a, o))
          <6>1. DOMAIN more[f] = {1} /\ more[f][1] = c /\ c # a
            BY <2>5, <3>1, <5>2
          <6>2. \A i \in DOMAIN more[f] : more[f][i] \notin DOMAIN Around(a, o)
            BY <3>0, <6>1
          <6> QED
            BY <6>2, NestedAbsent
        <5> QED
          BY <4>2, <5>1, <5>2
      <4> QED
        BY <2>4, <4>1, <4>3, NestedConcat
    <3>2. CASE a \notin DOMAIN accounts
      <4>1. PICK g \in BudgetFields :
              /\ more[g] = <<a>> /\ \A h \in BudgetFields : h # g => more[h] # <<a>>
              /\ \E max \in [Resources -> Budgets] : accounts'[a] = Account(max, outer, g)
        BY <1>2, <3>2 DEF Fresh
      <4>2. o \in Objects(outer, g)
        BY <2>6, <4>1 DEF Account
      <4>3. \A i \in DOMAIN around : around[i] # a
        BY <2>3, <3>2
      <4>4. CASE g = f
        <5>1. PICK k \in DOMAIN outer[f] : o = outer[f][k]
          BY <4>2, <4>4 DEF Objects
        <5>2. around = outer[f]
          <6>1. DOMAIN <<>> = {}
            OBVIOUS
          <6> QED
            BY <2>a, <2>b, <5>1, <6>1
        <5>3. Nested(around \o <<a>>, Around(a, around[k]))
          BY <2>4, <4>3, <5>1, <5>2, NestedLast
        <5> QED
          BY <4>1, <4>4, <5>1, <5>2, <5>3
      <4>5. CASE g # f
        <5>1. more[f] = <<>> \/ \E c : more[f] = <<c>> /\ c # a
          BY <1>2, <4>1, <4>5 DEF Fresh
        <5>2. Nested(more[f], Around(a, o))
          <6>1. CASE more[f] = <<>>
            <7>1. DOMAIN more[f] = {}
              BY <6>1
            <7> QED
              BY <7>1, NestedAbsent
          <6>2. ASSUME NEW c, more[f] = <<c>>, c # a
                PROVE  Nested(more[f], Around(a, o))
            <7>1. DOMAIN more[f] = {1} /\ more[f][1] = c
              BY <2>5, <6>2
            <7>2. \A i \in DOMAIN more[f] : more[f][i] \notin DOMAIN Around(a, o)
              <8>1. c \notin DOMAIN Around(a, o)
                BY <3>0, <6>2
              <8>2. \A i \in DOMAIN more[f] : more[f][i] = c
                BY <7>1
              <8> QED
                BY <8>1, <8>2
            <7> QED
              BY <7>2, NestedAbsent
          <6> QED
            BY <5>1, <6>1, <6>2
        <5>3. Nested(around, Around(a, o))
          BY <3>0, <4>3, NestedAbsent
        <5> QED
          BY <2>4, <5>2, <5>3, NestedConcat
      <4> QED
        BY <4>4, <4>5
    <3> QED
      BY <3>1, <3>2
  <2> QED
    BY <2>1, <2>6 DEF ListNested
<1>11. Enclosed(b.policy, accounts')
  BY <1>9, <1>10 DEF Enclosed
<1>12. BooksOK'
  BY <1>5, <1>8, <1>9, <1>11, OpenedBooks
<1> QED
  BY <1>2, <1>5, <1>7, <1>12

\* A block with another task's policy has that task's accounts, and its own
\* (safety_context(policy)).
LEMMA AdoptBooks ==
  ASSUME StateOK, BooksOK, NEW t \in Workers, NEW other \in Workers, Adopt(t, other)
  PROVE  BooksOK'
<1> DEFINE outer == Current(t)
           adopted == Current(other)
           scope == [Scope EXCEPT !.policy = adopted]
           ids == DOMAIN accounts
<1>1. accounts' = accounts /\ \E notes : Open(t, scope, notes)
  BY DEF Adopt, entryVars
<1>2. /\ PolicyOK(outer, ids) /\ Enclosed(outer, accounts)
      /\ PolicyOK(adopted, ids) /\ Enclosed(adopted, accounts)
  BY CurrentOK DEF StateOK, BooksOK
<1>3. ScopeOK(scope, ids) /\ scope.policy = adopted /\ scope.more = Bare
  BY <1>2, AdoptedScopeOK DEF Scope
<1> HIDE DEF outer, adopted, scope
<1>4. PICK b : /\ blocks' = [blocks EXCEPT ![t] = Append(@, b)] /\ inherited' = inherited
               /\ ~b.policy.root
               /\ \A f \in BudgetFields : b.policy[f] = Effective(outer, scope)[f]
  BY <1>1, <1>2, <1>3, OpenLists DEF outer
<1>5. ASSUME NEW f \in BudgetFields PROVE ListNested(b.policy[f], accounts)
  <2> DEFINE around == IF outer.root THEN <<>> ELSE outer[f]
             own == IF scope.policy = NoPolicy THEN around ELSE Joined(around, adopted[f])
  <2>1. b.policy[f] = Joined(own, <<>>)
    <3>1. Bare[f] = <<>>
      BY DEF Bare, BudgetFields
    <3>2. PICK a : a = around
      OBVIOUS
    <3>3. a = IF outer.root THEN <<>> ELSE outer[f]
      BY <3>2
    <3> HIDE DEF around
    <3>4. Effective(outer, scope)[f]
            = Joined(IF scope.policy = NoPolicy THEN a ELSE Joined(a, scope.policy[f]), scope.more[f])
      BY <1>2, <1>3, <3>3, EffectiveLists
    <3> QED
      BY <1>3, <1>4, <3>1, <3>2, <3>4
  <2>2. /\ around \in Seq(ids) /\ ListNested(around, accounts)
        /\ adopted[f] \in Seq(ids) /\ ListNested(adopted[f], accounts)
    BY <1>2, NothingDue, EmptySeq DEF Enclosed, PolicyOK, BudgetFields
  <2> HIDE DEF around
  <2>3. own \in Seq(ids) /\ ListNested(own, accounts)
    BY <2>2, ConcatProperties, NestedConcat DEF ListNested, Joined
  <2> HIDE DEF own
  <2>4. Joined(own, <<>>) = own
    BY <2>3, ConcatEmptySeq DEF Joined
  <2> QED
    BY <2>1, <2>3, <2>4
<1>6. Enclosed(b.policy, accounts')
  BY <1>1, <1>4, <1>5 DEF Enclosed
<1> QED
  BY <1>1, <1>4, <1>6, OpenedBooks DEF BooksOK

\* Watching the heap leaves every block its accounts.
LEMMA WatchBooks ==
  ASSUME StateOK, BooksOK, UNCHANGED accounts, NEW t \in Workers, Watch(t)
  PROVE  BooksOK'
<1>0. ContextOK
  BY DEF StateOK
<1> DEFINE n == Len(blocks[t])
<1>1. PICK b : /\ \A u \in Workers : u # t => blocks'[u] = blocks[u]
               /\ n \in Nat \ {0} /\ DOMAIN blocks[t] = 1..n /\ DOMAIN blocks'[t] = 1..n
               /\ \A i \in 1..(n - 1) : blocks'[t][i] = blocks[t][i]
               /\ blocks'[t][n] = b
               /\ \A f \in Kept : b.policy[f] = blocks[t][n].policy[f]
  BY <1>0, WatchedBlocks
<1>2. inherited' = inherited
  BY DEF Watch
<1> HIDE DEF n
<1>3. /\ b.policy.root = blocks[t][n].policy.root
      /\ b.policy.quotas = blocks[t][n].policy.quotas
      /\ b.policy.cost_budgets = blocks[t][n].policy.cost_budgets
  BY <1>1, FieldNames DEF Kept
<1>4. Enclosed(b.policy, accounts)
  <2>1. Enclosed(blocks[t][n].policy, accounts)
    <3>1. n \in DOMAIN blocks[t]
      BY <1>1
    <3> QED
      BY <3>1 DEF BooksOK
  <2>2. PICK old, new : old = blocks[t][n].policy /\ new = b.policy
    OBVIOUS
  <2>3. new.root => new.quotas = <<>> /\ new.cost_budgets = <<>>
    BY <1>3, <2>1, <2>2 DEF Enclosed
  <2>4. ListNested(old.quotas, accounts) /\ ListNested(old.cost_budgets, accounts)
    BY <2>1, <2>2 DEF Enclosed, BudgetFields
  <2>5. ListNested(new.quotas, accounts) /\ ListNested(new.cost_budgets, accounts)
    BY <1>3, <2>2, <2>4
  <2> QED
    BY <2>2, <2>3, <2>5 DEF Enclosed, BudgetFields
<1>5. ASSUME NEW u \in Workers, NEW i \in DOMAIN blocks'[u]
      PROVE  Enclosed(blocks'[u][i].policy, accounts)
  <2>1. CASE u = t
    <3>1. i \in 1..n /\ (i # n => i \in 1..(n - 1))
      BY <1>1, <1>5, <2>1
    <3> QED
      BY <1>1, <1>4, <2>1, <3>1 DEF BooksOK
  <2>2. CASE u # t
    BY <1>1, <1>5, <2>2 DEF BooksOK
  <2> QED
    BY <2>1, <2>2
<1> QED
  BY <1>2, <1>5 DEF BooksOK

-----------------------------------------------------------------------------
(* What is still owed                                                      *)

\* Of a resource, what the first k charges of a list book to the account x.
Matches(due, k, x, r) == {i \in 1..k : due[i][1] = x /\ due[i][2] = r}
Amounts(due) == [i \in DOMAIN due |-> due[i][3]]
Owed(due, k, x, r) == SumOf(Amounts(due), Matches(due, k, x, r))

\* The charges of a list are known.
LEMMA DueItems ==
  ASSUME NEW ids, NEW due \in Seq(Items(ids))
  PROVE  /\ Len(due) \in Nat /\ DOMAIN due = 1..Len(due)
         /\ \A i \in 1..Len(due) :
              /\ due[i] = <<due[i][1], due[i][2], due[i][3]>>
              /\ due[i][1] \in ids /\ due[i][2] \in Resources /\ due[i][3] \in Nat
              /\ Amounts(due)[i] = due[i][3]
<1>1. Len(due) \in Nat /\ DOMAIN due = 1..Len(due) /\ \A i \in 1..Len(due) : due[i] \in Items(ids)
  BY LenProperties, ElementOfSeq
<1>2. \A c \in Items(ids) : /\ c = <<c[1], c[2], c[3]>>
                            /\ c[1] \in ids /\ c[2] \in Resources /\ c[3] \in Nat
  BY DEF Items
<1> QED
  BY <1>1, <1>2 DEF Amounts

\* Some of the charges of a list have a sum.
LEMMA DueSummable ==
  ASSUME NEW ids, NEW due \in Seq(Items(ids)), NEW k \in Nat, k <= Len(due), NEW S,
         S \subseteq 1..k
  PROVE  Summable(Amounts(due), S)
<1>1. IsFiniteSet(1..k)
  BY FS_Interval
<1>2. IsFiniteSet(S)
  BY <1>1, FS_Subset
<1>3. \A i \in S : i \in 1..Len(due)
  BY LenProperties
<1> QED
  BY <1>2, <1>3, DueItems DEF Summable

\* What is owed is a number, and nothing for the first none of the charges.
LEMMA OwedType ==
  ASSUME NEW ids, NEW due \in Seq(Items(ids)), NEW k \in Nat, k <= Len(due), NEW x, NEW r
  PROVE  /\ Owed(due, k, x, r) \in Nat
         /\ k = 0 => Owed(due, k, x, r) = 0
         /\ x \notin ids => Owed(due, k, x, r) = 0
<1> DEFINE S == Matches(due, k, x, r)
<1>1. S \subseteq 1..k
  BY DEF Matches
<1>2. k = 0 => S = {}
  BY <1>1
<1>3. x \notin ids => S = {}
  <2>1. \A i \in 1..k : due[i][1] \in ids
    BY DueItems
  <2> QED
    BY <2>1 DEF Matches
<1> HIDE DEF S
<1>4. SumOf(Amounts(due), S) \in Nat /\ SumOf(Amounts(due), {}) = 0
  BY <1>1, DueSummable, SumType, SumEmpty
<1> QED
  BY <1>2, <1>3, <1>4 DEF Owed, S

\* What one charge books of a resource to an account.
Part(item, x, r) == IF item[1] = x /\ item[2] = r THEN item[3] ELSE 0

\* A list has a first charge, and others after it.
Starts(due, first, rest) == due # <<>> /\ first = Head(due) /\ rest = Tail(due)

\* The first charge, and those after it.
LEMMA OwedTail ==
  ASSUME NEW ids, NEW due \in Seq(Items(ids)), NEW first, NEW rest, Starts(due, first, rest),
         NEW k \in Nat, k <= Len(rest), NEW x, NEW r
  PROVE  /\ rest \in Seq(Items(ids)) /\ k + 1 <= Len(due)
         /\ Owed(due, k + 1, x, r)
              = Owed(rest, k, x, r) + Part(first, x, r)
<1> DEFINE n == Len(due)
           A == Amounts(due)
           B == Amounts(rest)
<1>1. /\ rest \in Seq(Items(ids)) /\ Len(rest) = n - 1 /\ first = due[1]
      /\ \A i \in 1..Len(rest) : rest[i] = due[i + 1]
  BY HeadTailProperties DEF Starts
<1>2. n \in Nat \ {0} /\ k + 1 <= n
  BY <1>1, EmptySeq, LenProperties DEF Starts
<1>3. \A i \in 1..n : A[i] = due[i][3] /\ A[i] \in Nat
  BY DueItems
<1>4. \A i \in 1..(n - 1) : B[i] = rest[i][3] /\ rest[i] = due[i + 1]
  BY <1>1, DueItems
<1>5. first[1] \in ids /\ first[2] \in Resources /\ first[3] \in Nat /\ A[1] = first[3]
  BY <1>1, <1>2, <1>3, DueItems
<1> DEFINE S == Matches(rest, k, x, r)
           T == {i \in 2..(k + 1) : due[i][1] = x /\ due[i][2] = r}
           W == Matches(due, k + 1, x, r)
<1>6. S \subseteq 1..k /\ T \subseteq 1..(k + 1) /\ 1 \notin T
  BY DEF Matches
<1>7. Summable(B, S) /\ Summable(A, T)
  <2>1. Summable(B, S)
    BY <1>1, <1>6, DueSummable
  <2>2. k + 1 \in Nat
    OBVIOUS
  <2>3. Summable(A, T)
    BY <1>2, <1>6, <2>2, DueSummable
  <2> QED
    BY <2>1, <2>3
<1>8. \A i : i \in S <=> i \in 1..k /\ rest[i][1] = x /\ rest[i][2] = r
  BY DEF Matches
<1>9. W = IF first[1] = x /\ first[2] = r THEN T \cup {1} ELSE T
  <2>1. 1..(k + 1) = {1} \cup 2..(k + 1)
    OBVIOUS
  <2> QED
    BY <1>1, <2>1 DEF Matches
<1>10. \A i \in 1..k : i + 1 \in 2..(k + 1) /\ i \in 1..(n - 1) /\ i + 1 \in 1..n
  BY <1>2
<1>11. \A i \in 2..(k + 1) : i - 1 \in 1..k /\ (i - 1) + 1 = i
  OBVIOUS
<1> HIDE DEF n, A, B, S, W
<1>12. SumOf(B, S) <= SumOf(A, T)
  <2> DEFINE h == [i \in S |-> i + 1]
  <2>1. ASSUME NEW i \in S PROVE h[i] \in T /\ B[i] <= A[h[i]]
    <3>1. i \in 1..k /\ rest[i][1] = x /\ rest[i][2] = r /\ h[i] = i + 1
      BY <1>8
    <3>2. i + 1 \in 2..(k + 1) /\ rest[i] = due[i + 1] /\ B[i] = due[i + 1][3]
          /\ A[i + 1] = due[i + 1][3] /\ A[i + 1] \in Nat
      BY <1>3, <1>4, <1>10, <3>1
    <3> QED
      BY <3>1, <3>2
  <2>2. \A i, j \in S : h[i] = h[j] => i = j
    BY <1>6
  <2> HIDE DEF h, T
  <2> QED
    BY <1>7, <2>1, <2>2, SumInject
<1>13. SumOf(A, T) <= SumOf(B, S)
  <2> DEFINE h == [i \in T |-> i - 1]
  <2>1. ASSUME NEW i \in T PROVE h[i] \in S /\ A[i] <= B[h[i]]
    <3>1. i \in 2..(k + 1) /\ due[i][1] = x /\ due[i][2] = r /\ h[i] = i - 1
      OBVIOUS
    <3>2. i - 1 \in 1..k /\ (i - 1) + 1 = i
      BY <1>11
    <3>3. i - 1 \in 1..(n - 1) /\ i \in 1..n
      BY <1>10, <3>2
    <3>4. rest[i - 1] = due[i] /\ B[i - 1] = due[i][3] /\ A[i] = due[i][3] /\ A[i] \in Nat
      BY <1>3, <1>4, <3>2, <3>3
    <3> QED
      BY <1>8, <3>1, <3>2, <3>4, SMTT(30)
  <2>2. \A i, j \in T : h[i] = h[j] => i = j
    BY <1>6
  <2> HIDE DEF h, T
  <2> QED
    BY <1>7, <2>1, <2>2, SumInject
<1> HIDE DEF T
<1>14. SumOf(A, T) = SumOf(B, S) /\ SumOf(A, T) \in Nat
  BY <1>7, <1>12, <1>13, SumType
<1>15. SumOf(A, T \cup {1}) = SumOf(A, T) + A[1]
  BY <1>3, <1>5, <1>6, <1>7, SumAdd
<1>16. SumOf(A, W) = SumOf(B, S) + (IF first[1] = x /\ first[2] = r THEN first[3] ELSE 0)
  <2>1. CASE first[1] = x /\ first[2] = r
    BY <1>5, <1>9, <1>14, <1>15, <2>1
  <2>2. CASE ~(first[1] = x /\ first[2] = r)
    BY <1>9, <1>14, <2>2
  <2> QED
    BY <2>1, <2>2
<1>17. Owed(due, k + 1, x, r) = SumOf(A, W) /\ Owed(rest, k, x, r) = SumOf(B, S)
  BY DEF Owed, A, B, S, W
<1> QED
  BY <1>1, <1>2, <1>5, <1>16, <1>17 DEF n, Part

\* As far as a nested list is charged, no account is owed more than those
\* around it.
LEMMA OwedNested ==
  ASSUME NEW ids, NEW due \in Seq(Items(ids)), NEW accts, DueNested(due, accts),
         NEW b \in DOMAIN accts, NEW o \in accts[b].under,
         NEW r \in Resources, NEW k \in Nat, k <= Len(due)
  PROVE  Owed(due, k, b, r) <= Owed(due, k, o, r)
<1> DEFINE A == Amounts(due)
           S == Matches(due, k, b, r)
           T == Matches(due, k, o, r)
<1>1. PICK m : \A i \in DOMAIN due : due[i] \in DOMAIN Dues(b, o) =>
                    m[i] \in DOMAIN due /\ m[i] <= i /\ due[m[i]] = Dues(b, o)[due[i]]
               /\ \A j \in DOMAIN due :
                    (due[i] \in DOMAIN Dues(b, o) /\ due[j] \in DOMAIN Dues(b, o) /\ m[i] = m[j])
                      => i = j
  BY DEF DueNested, Nested
<1>2. /\ Len(due) \in Nat /\ DOMAIN due = 1..Len(due)
      /\ \A i \in 1..Len(due) :
           /\ due[i] = <<due[i][1], due[i][2], due[i][3]>>
           /\ due[i][3] \in Nat /\ A[i] = due[i][3]
  BY DueItems
<1>3. S \subseteq 1..k /\ T \subseteq 1..k /\ \A i \in S : due[i][1] = b /\ due[i][2] = r
  BY DEF Matches
<1>4. Summable(A, S) /\ Summable(A, T)
  BY <1>3, DueSummable
<1>5. \A i \in 1..k : due[i][1] = o /\ due[i][2] = r => i \in T
  BY DEF Matches
<1> HIDE DEF A, S, T
<1>6. ASSUME NEW i \in S
      PROVE  i \in 1..Len(due) /\ due[i] \in DOMAIN Dues(b, o) /\ Dues(b, o)[due[i]] = <<o, r, A[i]>>
  <2>1. i \in 1..Len(due) /\ due[i] = <<b, r, A[i]>> /\ A[i] \in Nat
    BY <1>2, <1>3, <1>6
  <2> QED
    BY <2>1 DEF Dues
<1>7. ASSUME NEW i \in S PROVE m[i] \in T /\ A[i] <= A[m[i]]
  <2>1. m[i] \in 1..Len(due) /\ m[i] <= i /\ due[m[i]] = <<o, r, A[i]>>
    BY <1>1, <1>2, <1>6, <1>7
  <2>2. m[i] \in 1..k /\ A[i] \in Nat
    BY <1>2, <1>3, <1>6, <1>7, <2>1
  <2>3. due[m[i]][1] = o /\ due[m[i]][2] = r /\ due[m[i]][3] = A[i]
    BY <2>1
  <2> QED
    BY <1>2, <1>5, <2>1, <2>2, <2>3, SMTT(30)
<1>8. \A i, j \in S : m[i] = m[j] => i = j
  BY <1>1, <1>2, <1>6
<1>9. SumOf(A, S) <= SumOf(A, T)
  BY <1>4, <1>7, <1>8, SumInject
<1> QED
  BY <1>9 DEF Owed, A, S, T

-----------------------------------------------------------------------------
(* Calls and what is due for them                                          *)

\* What is known of a metered call.
CallOK(m, ids) ==
  /\ DOMAIN m = DOMAIN Idle
  /\ m.price \in Prices /\ m.merged \in Usages
  /\ m.phase \in Unread => m.read = 0
  /\ m.phase = "streaming" => m.reply \in Replies /\ m.read \in 0..Len(m.reply.chunks)
  /\ m.due \in Seq(Items(ids))

CallsOK == DOMAIN meter = Workers /\ \A t \in Workers : CallOK(meter[t], DOMAIN accounts)

\* A call that has not begun.
LEMMA IdleOK == \A ids, accts : CallOK(Idle, ids) /\ DueNested(Idle.due, accts)
<1>1. /\ Idle.price = NoPrice /\ Idle.merged = NoUsage /\ Idle.due = <<>> /\ Idle.phase = "idle"
      /\ Idle.read = 0
      /\ NoPrice \in Prices /\ NoUsage \in Usages
  BY DEF Idle, NoPrice, NoUsage, Usage, None, Prices, Usages
<1> QED
  BY <1>1, NothingDue DEF CallOK

\* The price of a call (_resolve_price, find_price).
LEMMA Priced == ASSUME NEW call \in ModelCalls PROVE ResolvePrice(call) \in Prices
<1>1. NoPrice \in Prices
  BY DEF NoPrice, None, Prices
<1>2. call.fixed \in Prices
  BY MeteringAssumption
<1>3. ASSUME NEW model PROVE FindPrice(model) \in Prices
  <2> DEFINE hits == {i \in DOMAIN PriceTable : NamedIn(PriceTable[i][1], model)}
             first == CHOOSE i \in hits : \A j \in hits : i <= j
  <2>1. hits \subseteq DOMAIN PriceTable
    OBVIOUS
  <2>2. FindPrice(model) = IF hits = {} THEN NoPrice ELSE PriceTable[first][2]
    BY DEF FindPrice
  <2> HIDE DEF hits
  <2>3. hits \subseteq Nat
    BY <2>1, MeteringAssumption
  <2>4. hits # {} => first \in DOMAIN PriceTable
    <3>1. hits # {} => \E i \in hits : \A j \in hits : i <= j
      BY <2>3, FirstPosition
    <3> QED
      BY <2>1, <3>1
  <2> HIDE DEF first
  <2> QED
    BY <1>1, <2>2, <2>4, MeteringAssumption
<1>4. FindPrice(call.model) \in Prices
  BY <1>3
<1> QED
  BY <1>1, <1>2, <1>4 DEF ResolvePrice

\* What a report comes to, and what the chunks up to one come to.
LEMMA Reports ==
  ASSUME NEW report, IsReport(report)
  PROVE  /\ ExtractUsage(report) \in Usages
         /\ \A m \in Usages : Merged(m, report) \in Usages
<1>1. NoUsage \in Usages
  BY DEF NoUsage, Usage, None, Usages
<1>2. ExtractUsage(report) \in Usages
  BY <1>1, ExtractCounts DEF Counts
<1>3. \A a, b \in Usages : Merge(a, b) \in Usages
  BY DEF Merge, Usage, Usages, Larger
<1> QED
  BY <1>2, <1>3 DEF Merged

\* What is due for a call after a step of it: as before, a new list that is
\* nested, or what is left once the first charge is booked.
Booked(t) ==
  /\ meter[t].due # <<>>
  /\ \E x, r, n :
       /\ x = Head(meter[t].due)[1] /\ r = Head(meter[t].due)[2] /\ n = Head(meter[t].due)[3]
       /\ ~Exceeds(accounts[x], r, n)
       /\ accounts' = [accounts EXCEPT ![x].used[r] = @ + n]

DueStep(t, m) ==
  \/ UNCHANGED accounts /\ m.due = meter[t].due
  \/ UNCHANGED accounts /\ DueNested(m.due, accounts)
  \/ Booked(t) /\ m.due = Tail(meter[t].due)

\* Whatever a metered call does, it is due what it was, nested charges, or the
\* rest after a charge that is booked.
LEMMA MeterDue ==
  ASSUME TypeInv, BooksOK, CallsOK, NEW t \in Workers, Meter(t)
  PROVE  \E m : Become(t, m) /\ CallOK(m, DOMAIN accounts) /\ DueStep(t, m)
<1> DEFINE ids == DOMAIN accounts
           Done == \E m : Become(t, m) /\ CallOK(m, ids) /\ DueStep(t, m)
<1> SUFFICES Done
  OBVIOUS
<1>g. ASSUME NEW m, Become(t, m), CallOK(m, ids), DueStep(t, m) PROVE Done
  BY <1>g
<1> HIDE DEF Done
<1>d. DOMAIN Idle = {"phase", "price", "reply", "read", "merged", "due"}
  BY DEF Idle
<1>t. /\ CallOK(meter[t], ids)
      /\ DOMAIN meter[t] = {"phase", "price", "reply", "read", "merged", "due"}
  BY <1>d DEF CallsOK, CallOK
<1>p. PolicyOK(Current(t), ids) /\ Enclosed(Current(t), accounts)
  BY CurrentOK DEF TypeInv, StateOK, BooksOK
<1>i. UNCHANGED accounts => CallOK(Idle, ids) /\ DueStep(t, Idle)
  BY IdleOK DEF DueStep
<1> HIDE DEF ids
<1>1. ASSUME NEW call \in ModelCalls, BeginCall(t, call)
      PROVE  Done
  <2> DEFINE due == Each(Current(t), "quotas", "calls", 1)
             price == ResolvePrice(call)
             m == [Idle EXCEPT !.phase = "admitting", !.price = price, !.due = due]
  <2>1. Become(t, m) /\ UNCHANGED accounts
    BY <1>1 DEF BeginCall
  <2>2. due \in Seq(Items(ids)) /\ DueNested(due, accounts)
    <3>1. "quotas" \in BudgetFields /\ "calls" \in Resources /\ 1 \in Nat
      BY DEF BudgetFields, Resources
    <3> QED
      BY <1>p, <3>1, EachNested
  <2>3. price \in Prices
    BY Priced
  <2> HIDE DEF due, price
  <2>4. /\ DOMAIN m = DOMAIN Idle /\ m.price = price /\ m.merged = Idle.merged
        /\ m.phase = "admitting" /\ m.read = Idle.read /\ m.due = due
    BY <1>d
  <2> HIDE DEF m
  <2>5. Idle.merged \in Usages /\ Idle.read = 0
    BY IdleOK DEF CallOK, Idle
  <2>6. CallOK(m, ids)
    BY <2>2, <2>3, <2>4, <2>5 DEF CallOK, Unread
  <2>7. DueStep(t, m)
    BY <2>1, <2>2, <2>4 DEF DueStep
  <2> QED
    BY <1>g, <2>1, <2>6, <2>7
<1>2. CASE Charge(t)
  <2> DEFINE m == [meter[t] EXCEPT !.due = Tail(@)]
             item == Head(meter[t].due)
  <2>1. meter[t].due # <<>>
    BY <1>2 DEF Charge
  <2>2. CASE Exceeds(accounts[item[1]], item[2], item[3])
    BY <1>2, <1>g, <1>i, <2>2 DEF Charge
  <2>3. CASE ~Exceeds(accounts[item[1]], item[2], item[3])
    <3>1. /\ Become(t, m)
          /\ accounts' = [accounts EXCEPT ![item[1]].used[item[2]] = @ + item[3]]
      BY <1>2, <2>3 DEF Charge
    <3>2. Booked(t)
      BY <2>1, <2>3, <3>1 DEF Booked
    <3>3. /\ DOMAIN m = DOMAIN Idle /\ m.price = meter[t].price /\ m.merged = meter[t].merged
          /\ m.phase = meter[t].phase /\ m.reply = meter[t].reply /\ m.read = meter[t].read
          /\ m.due = Tail(meter[t].due)
      BY <1>d, <1>t
    <3> HIDE DEF m
    <3>4. Tail(meter[t].due) \in Seq(Items(ids))
      BY <1>t, <2>1, HeadTailProperties DEF CallOK
    <3>5. CallOK(m, ids)
      BY <1>t, <3>3, <3>4 DEF CallOK
    <3> QED
      BY <1>g, <3>1, <3>2, <3>3, <3>5 DEF DueStep
  <2> QED
    BY <2>2, <2>3
<1>3. CASE Charged(t)
  <2> DEFINE m == [meter[t] EXCEPT !.phase = "calling"]
  <2>1. /\ UNCHANGED accounts
        /\ (Become(t, m) /\ meter[t].phase = "admitting") \/ Become(t, Idle)
    BY <1>3 DEF Charged, InPhase
  <2>2. /\ DOMAIN m = DOMAIN Idle /\ m.price = meter[t].price /\ m.merged = meter[t].merged
        /\ m.phase = "calling" /\ m.read = meter[t].read /\ m.due = meter[t].due
    BY <1>d, <1>t
  <2> HIDE DEF m
  <2>3. meter[t].phase = "admitting" => CallOK(m, ids)
    BY <1>t, <2>2 DEF CallOK, Unread
  <2>4. DueStep(t, m)
    BY <2>1, <2>2 DEF DueStep
  <2> QED
    BY <1>g, <1>i, <2>1, <2>3, <2>4
<1>4. CASE CallFails(t) \/ Abandon(t) \/ RefusedElsewhere(t)
  BY <1>4, <1>g, <1>i DEF CallFails, Abandon, RefusedElsewhere
<1>5. ASSUME NEW reply \in Replies, Answer(t, reply)
      PROVE  Done
  <2> DEFINE usage == ExtractUsage(reply.chunks[1])
             due == Charges(t, usage, meter[t].price)
             m == [meter[t] EXCEPT !.phase = "streaming", !.reply = reply]
             n == [meter[t] EXCEPT !.phase = "charging", !.reply = reply,
                             !.read = 1, !.merged = usage, !.due = due]
  <2>1. (IF reply.stream THEN Become(t, m) ELSE Become(t, n)) /\ UNCHANGED accounts
    BY <1>5 DEF Answer
  <2>2. CASE reply.stream
    <3>1. /\ DOMAIN m = DOMAIN Idle /\ m.price = meter[t].price /\ m.merged = meter[t].merged
          /\ m.phase = "streaming" /\ m.reply = reply /\ m.read = meter[t].read
          /\ m.due = meter[t].due
      BY <1>d, <1>t
    <3>2. Become(t, m) /\ UNCHANGED accounts
      BY <2>1, <2>2
    <3> HIDE DEF m
    <3>3. meter[t].phase = "calling" /\ meter[t].read = 0 /\ Len(reply.chunks) \in Nat
      BY <1>5, <1>t, MeteringAssumption DEF Answer, InPhase, CallOK, Unread
    <3>a. m.price \in Prices /\ m.merged \in Usages /\ m.due \in Seq(Items(ids))
      BY <1>t, <3>1 DEF CallOK
    <3>b. m.reply \in Replies /\ m.read \in 0..Len(m.reply.chunks)
      BY <3>1, <3>3
    <3>4. CallOK(m, ids)
      BY <3>1, <3>a, <3>b DEF CallOK, Unread
    <3>5. DueStep(t, m)
      BY <3>1, <3>2 DEF DueStep
    <3> QED
      BY <1>g, <3>2, <3>4, <3>5
  <2>3. CASE ~reply.stream
    <3>1. usage \in Usages
      BY <2>3, MeteringAssumption, Reports
    <3>2. due \in Seq(Items(ids)) /\ DueNested(due, accounts)
      BY <1>p, <1>t, <3>1, ChargesNested DEF CallOK
    <3>3. Become(t, n) /\ UNCHANGED accounts
      BY <2>1, <2>3
    <3> HIDE DEF usage, due
    <3>4. /\ DOMAIN n = DOMAIN Idle /\ n.price = meter[t].price /\ n.merged = usage
          /\ n.phase = "charging" /\ n.due = due
      BY <1>d, <1>t
    <3> HIDE DEF n
    <3>5. CallOK(n, ids)
      BY <1>t, <3>1, <3>2, <3>4 DEF CallOK, Unread
    <3>6. DueStep(t, n)
      BY <3>2, <3>3, <3>4 DEF DueStep
    <3> QED
      BY <1>g, <3>3, <3>5, <3>6
  <2> QED
    BY <2>2, <2>3
<1>6. CASE NextChunk(t)
  <2> DEFINE chunk == meter[t].reply.chunks[meter[t].read + 1]
             merged == Merged(meter[t].merged, chunk)
             m == [meter[t] EXCEPT !.read = @ + 1, !.merged = merged]
  <2>1. /\ Become(t, m) /\ UNCHANGED accounts /\ meter[t].phase = "streaming"
        /\ meter[t].read < Len(meter[t].reply.chunks)
    BY <1>6 DEF NextChunk, InPhase
  <2>2. /\ meter[t].reply \in Replies /\ meter[t].read \in 0..Len(meter[t].reply.chunks)
        /\ Len(meter[t].reply.chunks) \in Nat
    BY <1>t, <2>1, MeteringAssumption DEF CallOK
  <2>3. meter[t].read + 1 \in 1..Len(meter[t].reply.chunks)
    BY <2>1, <2>2
  <2>4. merged \in Usages
    BY <1>t, <2>2, <2>3, MeteringAssumption, Reports DEF CallOK
  <2> HIDE DEF merged
  <2>5. /\ DOMAIN m = DOMAIN Idle /\ m.price = meter[t].price /\ m.merged = merged
        /\ m.phase = "streaming"
        /\ m.reply = meter[t].reply /\ m.read = meter[t].read + 1 /\ m.due = meter[t].due
    BY <1>d, <1>t, <2>1
  <2> HIDE DEF m
  <2>a. m.price \in Prices /\ m.merged \in Usages /\ m.due \in Seq(Items(ids))
    BY <1>t, <2>4, <2>5 DEF CallOK
  <2>b. m.reply \in Replies /\ m.read \in 0..Len(m.reply.chunks)
    BY <2>2, <2>3, <2>5
  <2>6. CallOK(m, ids)
    BY <2>5, <2>a, <2>b DEF CallOK, Unread
  <2>7. DueStep(t, m)
    BY <2>1, <2>5 DEF DueStep
  <2> QED
    BY <1>g, <2>1, <2>6, <2>7
<1>7. CASE Exhausted(t)
  <2> DEFINE due == Charges(t, meter[t].merged, meter[t].price)
             m == [meter[t] EXCEPT !.phase = "charging", !.due = due]
  <2>1. Become(t, m) /\ UNCHANGED accounts
    BY <1>7 DEF Exhausted
  <2>2. due \in Seq(Items(ids)) /\ DueNested(due, accounts)
    BY <1>p, <1>t, ChargesNested DEF CallOK
  <2> HIDE DEF due
  <2>3. /\ DOMAIN m = DOMAIN Idle /\ m.price = meter[t].price /\ m.merged = meter[t].merged
        /\ m.phase = "charging" /\ m.due = due
    BY <1>d, <1>t
  <2> HIDE DEF m
  <2>4. CallOK(m, ids)
    BY <1>t, <2>2, <2>3 DEF CallOK, Unread
  <2>5. DueStep(t, m)
    BY <2>1, <2>2, <2>3 DEF DueStep
  <2> QED
    BY <1>g, <2>1, <2>4, <2>5
<1> QED
  BY <1>1, <1>2, <1>3, <1>4, <1>5, <1>6, <1>7 DEF Meter

-----------------------------------------------------------------------------
(* What is spent, and what the calls that are made will spend              *)

\* How many of its next charges each task may make.
Cuts(calls) == {k \in [Workers -> Nat] : \A u \in Workers : k[u] <= Len(calls[u].due)}

\* What the tasks then book to the account x.
Owing(calls, k, x, r) == [u \in Workers |-> Owed(calls[u].due, k[u], x, r)]
Total(calls, k, x, r) == SumOf(Owing(calls, k, x, r), Workers)

\* However far each task comes with its charges, an account has no more spent
\* than those around it.
SpentOrdered ==
  \A k \in Cuts(meter) : \A r \in Resources :
    \A b \in DOMAIN accounts : \A o \in accounts[b].under :
      accounts[b].used[r] + Total(meter, k, b, r) <= accounts[o].used[r] + Total(meter, k, o, r)

\* The charges before each task are known.
DuesOK(calls, ids) == \A u \in Workers : calls[u].due \in Seq(Items(ids))

\* What the tasks book is a number, and nothing to an account there is not.
LEMMA TotalType ==
  ASSUME NEW calls, NEW ids, DuesOK(calls, ids), NEW k \in Cuts(calls), NEW x, NEW r
  PROVE  /\ Summable(Owing(calls, k, x, r), Workers)
         /\ Total(calls, k, x, r) \in Nat
         /\ x \notin ids => Total(calls, k, x, r) = 0
<1> DEFINE f == Owing(calls, k, x, r)
<1>1. ASSUME NEW u \in Workers
      PROVE  f[u] \in Nat /\ (x \notin ids => f[u] = 0)
  <2>1. PICK due \in Seq(Items(ids)), n \in Nat : due = calls[u].due /\ n = k[u] /\ n <= Len(due)
    BY DEF DuesOK, Cuts
  <2>2. Owed(due, n, x, r) \in Nat /\ (x \notin ids => Owed(due, n, x, r) = 0)
    BY <2>1, OwedType
  <2> QED
    BY <2>1, <2>2 DEF Owing
<1> HIDE DEF f
<1>2. Summable(f, Workers)
  BY <1>1, BlocksAssumption DEF Summable
<1>3. x \notin ids => SumOf(f, Workers) = 0
  BY <1>1, SumNothing
<1> QED
  BY <1>2, <1>3, SumType DEF Total, f

\* One task's next charges come to n more.
LEMMA TotalRaise ==
  ASSUME NEW calls, NEW ids, DuesOK(calls, ids), NEW k \in Cuts(calls), NEW x, NEW r,
         NEW t \in Workers, NEW others, NEW l,
         \A u \in Workers : u # t => others[u].due = calls[u].due /\ l[u] = k[u],
         NEW n \in Nat,
         Owed(others[t].due, l[t], x, r) = Owed(calls[t].due, k[t], x, r) + n
  PROVE  Total(others, l, x, r) = Total(calls, k, x, r) + n
<1> DEFINE f == Owing(calls, k, x, r)
           g == Owing(others, l, x, r)
<1>1. Summable(f, Workers)
  BY TotalType
<1>2. g[t] = f[t] + n /\ \A u \in Workers : u # t => g[u] = f[u]
  BY DEF Owing
<1> HIDE DEF f, g
<1>3. SumOf(g, Workers) = SumOf(f, Workers) + n
  BY <1>1, <1>2, SumRaise
<1> QED
  BY <1>3 DEF Total, f, g

\* A task's call has new charges before it.
LEMMA OrderedNew ==
  ASSUME CallsOK, BooksOK, SpentOrdered, NEW t \in Workers, NEW m, Become(t, m),
         CallOK(m, DOMAIN accounts), DueNested(m.due, accounts), UNCHANGED accounts
  PROVE  SpentOrdered'
<1> SUFFICES ASSUME NEW k \in Cuts(meter'), NEW r \in Resources,
                    NEW b \in DOMAIN accounts, NEW o \in accounts[b].under
             PROVE  accounts[b].used[r] + Total(meter', k, b, r)
                      <= accounts[o].used[r] + Total(meter', k, o, r)
  BY DEF SpentOrdered
<1> DEFINE l == [k EXCEPT ![t] = 0]
<1>1. /\ meter'[t] = m /\ \A u \in Workers : u # t => meter'[u] = meter[u]
  BY DEF CallsOK, Become
<1>2. DuesOK(meter, DOMAIN accounts) /\ m.due \in Seq(Items(DOMAIN accounts))
  BY DEF CallsOK, CallOK, DuesOK
<1>3. k \in [Workers -> Nat] /\ \A u \in Workers : k[u] <= Len(meter'[u].due)
  BY DEF Cuts
<1>4. /\ l \in [Workers -> Nat] /\ l[t] = 0
      /\ \A u \in Workers : u # t => k[u] = l[u]
  BY <1>3
<1> HIDE DEF l
<1>5. l \in Cuts(meter)
  <2>1. ASSUME NEW u \in Workers PROVE l[u] <= Len(meter[u].due)
    <3>1. CASE u = t
      <4>1. Len(meter[t].due) \in Nat
        BY <1>2, LenProperties DEF DuesOK
      <4> QED
        BY <1>4, <3>1, <4>1
    <3>2. CASE u # t
      BY <1>1, <1>3, <1>4, <3>2
    <3> QED
      BY <3>1, <3>2
  <2> QED
    BY <1>4, <2>1 DEF Cuts
<1>6. PICK due \in Seq(Items(DOMAIN accounts)), n \in Nat : due = m.due /\ n = k[t] /\ n <= Len(due)
  BY <1>1, <1>2, <1>3
<1>7. ASSUME NEW x
      PROVE  Owed(due, n, x, r) \in Nat /\ Total(meter', k, x, r) = Total(meter, l, x, r) + Owed(due, n, x, r)
  <2>1. PICK old \in Seq(Items(DOMAIN accounts)) : old = meter[t].due
    BY <1>2 DEF DuesOK
  <2>2. PICK zero \in Nat : zero = 0
    OBVIOUS
  <2>3. Owed(old, zero, x, r) = 0
    <3>1. zero <= Len(old)
      BY <2>2, LenProperties
    <3> QED
      BY <2>2, <3>1, OwedType
  <2>4. Owed(due, n, x, r) \in Nat
    BY <1>6, OwedType
  <2>5. Owed(meter'[t].due, k[t], x, r) = Owed(meter[t].due, l[t], x, r) + Owed(due, n, x, r)
    BY <1>1, <1>4, <1>6, <2>1, <2>2, <2>3, <2>4
  <2>6. \A u \in Workers : u # t => meter'[u].due = meter[u].due /\ k[u] = l[u]
    BY <1>1, <1>4
  <2>7. Total(meter', k, x, r) = Total(meter, l, x, r) + Owed(due, n, x, r)
    BY <1>2, <1>5, <2>4, <2>5, <2>6, TotalRaise
  <2> QED
    BY <2>4, <2>7
<1>8. DueNested(due, accounts)
  BY <1>6
<1>9. Owed(due, n, b, r) <= Owed(due, n, o, r)
  BY <1>6, <1>8, OwedNested
<1>10. accounts[b].used[r] + Total(meter, l, b, r) <= accounts[o].used[r] + Total(meter, l, o, r)
  BY <1>5 DEF SpentOrdered
<1>11. accounts[b].used[r] \in Nat /\ accounts[o].used[r] \in Nat
  BY DEF BooksOK, AccountOK
<1>12. Total(meter, l, b, r) \in Nat /\ Total(meter, l, o, r) \in Nat
  BY <1>2, <1>5, TotalType
<1>13. /\ Owed(due, n, b, r) \in Nat
       /\ Total(meter', k, b, r) = Total(meter, l, b, r) + Owed(due, n, b, r)
  BY <1>7
<1>14. /\ Owed(due, n, o, r) \in Nat
       /\ Total(meter', k, o, r) = Total(meter, l, o, r) + Owed(due, n, o, r)
  BY <1>7
<1>15. PICK p \in Nat, q \in Nat, c \in Nat, d \in Nat :
         /\ p = Total(meter, l, b, r) /\ q = Total(meter, l, o, r)
         /\ c = Owed(due, n, b, r) /\ d = Owed(due, n, o, r)
  BY <1>12, <1>13, <1>14
<1>16. Total(meter', k, b, r) = p + c /\ Total(meter', k, o, r) = q + d
  BY <1>13, <1>14, <1>15
<1>17. c <= d /\ accounts[b].used[r] + p <= accounts[o].used[r] + q
  BY <1>9, <1>10, <1>15
<1>18. accounts[b].used[r] + (p + c) <= accounts[o].used[r] + (q + d)
  <2>1. PICK v \in Nat, w \in Nat : v = accounts[b].used[r] /\ w = accounts[o].used[r]
    BY <1>11
  <2>2. v + p <= w + q
    BY <1>17, <2>1
  <2>3. v + (p + c) <= w + (q + d)
    BY <1>17, <2>2
  <2> QED
    BY <2>1, <2>3
<1> QED
  BY <1>16, <1>18

\* A task's call goes on without a charge.
LEMMA OrderedSame ==
  ASSUME CallsOK, SpentOrdered, NEW t \in Workers, NEW m, Become(t, m),
         m.due = meter[t].due, UNCHANGED accounts
  PROVE  SpentOrdered'
<1>1. \A u \in Workers : meter'[u].due = meter[u].due
  BY DEF CallsOK, Become
<1>2. Cuts(meter') = Cuts(meter)
  BY <1>1 DEF Cuts
<1>3. \A k, x, r : Total(meter', k, x, r) = Total(meter, k, x, r)
  <2>1. \A k, x, r : Owing(meter', k, x, r) = Owing(meter, k, x, r)
    BY <1>1 DEF Owing
  <2> QED
    BY <2>1 DEF Total
<1> QED
  BY <1>2, <1>3 DEF SpentOrdered

\* The account that is charged, after the charge.
LEMMA AccountBooked ==
  ASSUME BooksOK, CallsOK, NEW t \in Workers, Booked(t)
  PROVE  \E x \in DOMAIN accounts, s \in Resources, n \in Nat :
           /\ x = Head(meter[t].due)[1] /\ s = Head(meter[t].due)[2] /\ n = Head(meter[t].due)[3]
           /\ DOMAIN accounts' = DOMAIN accounts
           /\ \A b \in DOMAIN accounts :
                /\ AccountOK(accounts'[b], DOMAIN accounts')
                /\ accounts'[b].under = accounts[b].under
                /\ \A r \in Resources :
                     accounts'[b].used[r]
                       = accounts[b].used[r] + (IF b = x /\ r = s THEN n ELSE 0)
<1>1. PICK x, s, n :
        /\ x = Head(meter[t].due)[1] /\ s = Head(meter[t].due)[2] /\ n = Head(meter[t].due)[3]
        /\ ~Exceeds(accounts[x], s, n)
        /\ accounts' = [accounts EXCEPT ![x].used[s] = @ + n]
  BY DEF Booked
<1>2. x \in DOMAIN accounts /\ s \in Resources /\ n \in Nat
  <2>1. meter[t].due \in Seq(Items(DOMAIN accounts)) /\ meter[t].due # <<>>
    BY DEF CallsOK, CallOK, Booked
  <2>2. Head(meter[t].due) \in Items(DOMAIN accounts)
    BY <2>1, HeadTailProperties
  <2> QED
    BY <1>1, <2>2 DEF Items
<1>3. DOMAIN accounts' = DOMAIN accounts
  BY <1>1
<1>4. \A b \in DOMAIN accounts : b # x => accounts'[b] = accounts[b]
  BY <1>1
<1> DEFINE used == [accounts[x].used EXCEPT ![s] = accounts[x].used[s] + n]
<1>5. accounts'[x] = [accounts[x] EXCEPT !.used = used]
  BY <1>1, <1>2
<1>6. AccountOK(accounts[x], DOMAIN accounts)
  BY <1>2 DEF BooksOK
<1>7. /\ DOMAIN accounts'[x] = {"max", "used", "under"}
      /\ accounts'[x].under = accounts[x].under /\ accounts'[x].max = accounts[x].max
      /\ accounts'[x].used = used
  <2> HIDE DEF used
  <2> QED
    BY <1>5, <1>6 DEF AccountOK
<1>8. /\ DOMAIN accounts'[x].used = Resources
      /\ \A r \in Resources :
           accounts'[x].used[r] = accounts[x].used[r] + (IF r = s THEN n ELSE 0)
  <2>1. DOMAIN accounts[x].used = Resources /\ \A r \in Resources : accounts[x].used[r] \in Nat
    BY <1>6 DEF AccountOK
  <2> QED
    BY <1>2, <1>7, <2>1
<1>9. AccountOK(accounts'[x], DOMAIN accounts')
  <2>1. ASSUME NEW r \in Resources
        PROVE  /\ accounts'[x].used[r] \in Nat /\ accounts'[x].max[r] \in Int
               /\ accounts'[x].max[r] # None => accounts'[x].used[r] <= accounts'[x].max[r]
    <3>1. /\ accounts[x].used[r] \in Nat /\ accounts[x].max[r] \in Int
          /\ accounts[x].max[r] # None => accounts[x].used[r] <= accounts[x].max[r]
      BY <1>6 DEF AccountOK
    <3>2. CASE r = s
      <4>1. accounts[x].max[s] # None => ~(accounts[x].used[s] + n > accounts[x].max[s])
        BY <1>1 DEF Exceeds
      <4> QED
        BY <1>2, <1>7, <1>8, <3>1, <3>2, <4>1
    <3>3. CASE r # s
      BY <1>7, <1>8, <3>1, <3>3
    <3> QED
      BY <3>2, <3>3
  <2> QED
    BY <1>3, <1>6, <1>7, <1>8, <2>1 DEF AccountOK
<1>10. ASSUME NEW b \in DOMAIN accounts
       PROVE  /\ AccountOK(accounts'[b], DOMAIN accounts')
              /\ accounts'[b].under = accounts[b].under
              /\ \A r \in Resources :
                   accounts'[b].used[r] = accounts[b].used[r] + (IF b = x /\ r = s THEN n ELSE 0)
  <2>1. CASE b = x
    BY <1>7, <1>8, <1>9, <2>1
  <2>2. CASE b # x
    <3>1. AccountOK(accounts[b], DOMAIN accounts)
      BY DEF BooksOK
    <3> QED
      BY <1>3, <1>4, <2>2, <3>1 DEF AccountOK
  <2> QED
    BY <2>1, <2>2
<1> QED
  <2> USE <1>2
  <2> WITNESS x \in DOMAIN accounts, s \in Resources, n \in Nat
  <2> QED
    BY <1>1, <1>3, <1>10

\* What is owed with the first charge, which books n of s to x.
LEMMA OwedHead ==
  ASSUME NEW ids, NEW due \in Seq(Items(ids)), NEW first, NEW rest, Starts(due, first, rest),
         NEW x, NEW s, NEW n, first[1] = x, first[2] = s, first[3] = n,
         NEW j \in Nat, j <= Len(rest)
  PROVE  /\ rest \in Seq(Items(ids)) /\ j + 1 <= Len(due)
         /\ \A y, r : Owed(due, j + 1, y, r)
                        = Owed(rest, j, y, r) + (IF x = y /\ s = r THEN n ELSE 0)
<1>1. /\ rest \in Seq(Items(ids)) /\ j + 1 <= Len(due)
      /\ \A y, r : Owed(due, j + 1, y, r) = Owed(rest, j, y, r) + Part(first, y, r)
  BY OwedTail
<1>2. \A y, r : Part(first, y, r) = IF x = y /\ s = r THEN n ELSE 0
  BY DEF Part
<1> QED
  BY <1>1, <1>2

\* The first charge is booked.
LEMMA OrderedBooked ==
  ASSUME CallsOK, BooksOK, SpentOrdered, NEW t \in Workers, NEW m, Become(t, m),
         Booked(t), m.due = Tail(meter[t].due)
  PROVE  SpentOrdered'
<1>1. PICK x \in DOMAIN accounts, s \in Resources, n \in Nat :
           /\ x = Head(meter[t].due)[1] /\ s = Head(meter[t].due)[2] /\ n = Head(meter[t].due)[3]
           /\ DOMAIN accounts' = DOMAIN accounts
           /\ \A b \in DOMAIN accounts :
                /\ AccountOK(accounts'[b], DOMAIN accounts')
                /\ accounts'[b].under = accounts[b].under
                /\ \A r \in Resources :
                     accounts'[b].used[r]
                       = accounts[b].used[r] + (IF b = x /\ r = s THEN n ELSE 0)
  BY AccountBooked
<1> SUFFICES ASSUME NEW k \in Cuts(meter'), NEW r \in Resources,
                    NEW b \in DOMAIN accounts, NEW o \in accounts[b].under
             PROVE  accounts'[b].used[r] + Total(meter', k, b, r)
                      <= accounts'[o].used[r] + Total(meter', k, o, r)
  BY <1>1 DEF SpentOrdered
<1> DEFINE l == [k EXCEPT ![t] = @ + 1]
           ids == DOMAIN accounts
<1>2. PICK due \in Seq(Items(ids)) : due = meter[t].due /\ due # <<>>
  BY DEF CallsOK, CallOK, Booked
<1>3. PICK rest, first : rest = Tail(due) /\ first = Head(due)
  OBVIOUS
<1>a. /\ meter'[t].due = rest /\ \A u \in Workers : u # t => meter'[u] = meter[u]
  BY <1>2, <1>3 DEF CallsOK, Become
<1>4. k \in [Workers -> Nat] /\ \A u \in Workers : k[u] <= Len(meter'[u].due)
  BY DEF Cuts
<1>5. PICK j \in Nat : j = k[t] /\ j <= Len(rest)
  BY <1>a, <1>4
<1>b. Starts(due, first, rest) /\ first[1] = x /\ first[2] = s /\ first[3] = n
  BY <1>1, <1>2, <1>3 DEF Starts
<1>c. j <= Len(rest)
  BY <1>5
<1>6. /\ rest \in Seq(Items(ids)) /\ j + 1 <= Len(due)
      /\ \A y : Owed(due, j + 1, y, r)
                  = Owed(rest, j, y, r) + (IF x = y /\ s = r THEN n ELSE 0)
  BY <1>b, <1>c, OwedHead
<1>7. /\ l \in [Workers -> Nat] /\ l[t] = j + 1
      /\ \A u \in Workers : u # t => l[u] = k[u]
  BY <1>4, <1>5
<1> HIDE DEF l, ids
<1>8. l \in Cuts(meter)
  <2>1. ASSUME NEW u \in Workers PROVE l[u] <= Len(meter[u].due)
    <3>1. CASE u = t
      BY <1>2, <1>6, <1>7, <3>1
    <3>2. CASE u # t
      BY <1>a, <1>4, <1>7, <3>2
    <3> QED
      BY <3>1, <3>2
  <2> QED
    BY <1>7, <2>1 DEF Cuts
<1>9. DuesOK(meter, ids) /\ DuesOK(meter', ids)
  <2>1. DuesOK(meter, ids)
    BY DEF CallsOK, CallOK, DuesOK, ids
  <2>2. ASSUME NEW u \in Workers PROVE meter'[u].due \in Seq(Items(ids))
    <3>1. CASE u = t
      BY <1>a, <1>6, <3>1
    <3>2. CASE u # t
      BY <1>a, <2>1, <3>2 DEF DuesOK
    <3> QED
      BY <3>1, <3>2
  <2> QED
    BY <2>1, <2>2 DEF DuesOK
<1>10. ASSUME NEW y \in ids
       PROVE  /\ accounts'[y].used[r] + Total(meter', k, y, r)
                   = accounts[y].used[r] + Total(meter, l, y, r)
  <2> DEFINE more == IF x = y /\ s = r THEN n ELSE 0
  <2>1. more \in Nat
    OBVIOUS
  <2>2. accounts'[y].used[r] = accounts[y].used[r] + more /\ accounts[y].used[r] \in Nat
    <3>1. AccountOK(accounts[y], DOMAIN accounts)
      BY <1>10 DEF BooksOK, ids
    <3>2. y \in DOMAIN accounts
      BY DEF ids
    <3>3. accounts'[y].used[r] = accounts[y].used[r] + (IF y = x /\ r = s THEN n ELSE 0)
      BY <1>1, <3>2
    <3> QED
      BY <3>1, <3>3 DEF AccountOK
  <2>3. Owed(meter[t].due, l[t], y, r) = Owed(meter'[t].due, k[t], y, r) + more
    BY <1>2, <1>a, <1>5, <1>6, <1>7
  <2> HIDE DEF more
  <2>4. Total(meter, l, y, r) = Total(meter', k, y, r) + more
    <3>1. \A u \in Workers : u # t => meter[u].due = meter'[u].due /\ l[u] = k[u]
      BY <1>a, <1>7
    <3>2. PICK calls : calls = meter'
      OBVIOUS
    <3>3. /\ DuesOK(calls, ids) /\ k \in Cuts(calls)
          /\ \A u \in Workers : u # t => meter[u].due = calls[u].due /\ l[u] = k[u]
          /\ Owed(meter[t].due, l[t], y, r) = Owed(calls[t].due, k[t], y, r) + more
      BY <1>9, <2>3, <3>1, <3>2
    <3>4. Total(meter, l, y, r) = Total(calls, k, y, r) + more
      BY <2>1, <3>3, TotalRaise
    <3> QED
      BY <3>2, <3>4
  <2>5. Total(meter', k, y, r) \in Nat
    BY <1>9, TotalType
  <2> QED
    BY <2>1, <2>2, <2>4, <2>5
<1>11. accounts[b].used[r] + Total(meter, l, b, r) <= accounts[o].used[r] + Total(meter, l, o, r)
  BY <1>8 DEF SpentOrdered
<1>12. b \in ids /\ o \in ids
  BY DEF BooksOK, AccountOK, ids
<1>13. /\ accounts'[b].used[r] + Total(meter', k, b, r)
            = accounts[b].used[r] + Total(meter, l, b, r)
       /\ accounts'[o].used[r] + Total(meter', k, o, r)
            = accounts[o].used[r] + Total(meter, l, o, r)
  BY <1>10, <1>12
<1> QED
  BY <1>11, <1>13

\* New accounts have nothing spent, and nothing due.
LEMMA OrderedEntered ==
  ASSUME CallsOK, BooksOK, SpentOrdered, BooksOK', UNCHANGED meter,
         DOMAIN accounts \subseteq DOMAIN accounts',
         \A b \in DOMAIN accounts : accounts'[b] = accounts[b],
         \A b \in DOMAIN accounts' \ DOMAIN accounts : accounts'[b].used = Unused
  PROVE  SpentOrdered'
<1> SUFFICES ASSUME NEW k \in Cuts(meter), NEW r \in Resources,
                    NEW b \in DOMAIN accounts', NEW o \in accounts'[b].under
             PROVE  accounts'[b].used[r] + Total(meter, k, b, r)
                      <= accounts'[o].used[r] + Total(meter, k, o, r)
  BY DEF SpentOrdered
<1>1. DuesOK(meter, DOMAIN accounts)
  BY DEF CallsOK, CallOK, DuesOK
<1>2. CASE b \in DOMAIN accounts
  <2>1. o \in accounts[b].under /\ o \in DOMAIN accounts
    BY <1>2 DEF BooksOK, AccountOK
  <2> QED
    BY <1>2, <2>1 DEF SpentOrdered
<1>3. CASE b \notin DOMAIN accounts
  <2>1. accounts'[b].used[r] = 0 /\ Total(meter, k, b, r) = 0
    BY <1>1, <1>3, TotalType DEF Unused
  <2>2. Total(meter, k, o, r) \in Nat
    BY <1>1, TotalType
  <2>3. accounts'[o].used[r] \in Nat
    BY DEF BooksOK, AccountOK
  <2> QED
    BY <2>1, <2>2, <2>3
<1> QED
  BY <1>2, <1>3

-----------------------------------------------------------------------------
(* No spending escapes an outer budget                                     *)

SpendInv == TypeInv /\ BooksOK /\ CallsOK /\ SpentOrdered

\* While no block is opened, tasks have the policies they had, or one another's.
LEMMA BooksKept ==
  ASSUME StateOK, BooksOK,
         \A b \in DOMAIN accounts : accounts'[b].under = accounts[b].under,
         \A b \in DOMAIN accounts' : AccountOK(accounts'[b], DOMAIN accounts'),
         \A u \in Workers : \/ inherited'[u] = inherited[u]
                            \/ \E v \in Workers : inherited'[u].policy = Current(v),
         \A u \in Workers : \A i \in DOMAIN blocks'[u] :
            i \in DOMAIN blocks[u] /\ blocks'[u][i] = blocks[u][i]
  PROVE  BooksOK'
<1>1. \A p : (PolicyOK(p, DOMAIN accounts) /\ Enclosed(p, accounts)) => Enclosed(p, accounts')
  BY EnclosedStays
<1>2. ASSUME NEW u \in Workers
      PROVE  PolicyOK(Current(u), DOMAIN accounts) /\ Enclosed(Current(u), accounts)
  BY CurrentOK DEF BooksOK, StateOK
<1>3. ASSUME NEW u \in Workers PROVE Enclosed(inherited'[u].policy, accounts')
  <2>1. CASE inherited'[u] = inherited[u]
    BY <1>1, <2>1 DEF BooksOK, StateOK, ContextOK
  <2>2. CASE inherited'[u] # inherited[u]
    <3>1. PICK v \in Workers : inherited'[u].policy = Current(v)
      BY <2>2
    <3> QED
      BY <1>1, <1>2, <3>1
  <2> QED
    BY <2>1, <2>2
<1>4. ASSUME NEW u \in Workers, NEW i \in DOMAIN blocks'[u]
      PROVE  Enclosed(blocks'[u][i].policy, accounts')
  <2>1. i \in DOMAIN blocks[u] /\ blocks'[u][i] = blocks[u][i]
    OBVIOUS
  <2>2. PolicyOK(blocks[u][i].policy, DOMAIN accounts) /\ Enclosed(blocks[u][i].policy, accounts)
    BY <2>1 DEF BooksOK, StateOK, ContextOK, BlockOK
  <2> QED
    BY <1>1, <2>1, <2>2
<1> QED
  BY <1>3, <1>4 DEF BooksOK

\* What is due stays known while accounts are made.
LEMMA CallsKept ==
  ASSUME CallsOK, UNCHANGED meter, DOMAIN accounts \subseteq DOMAIN accounts'
  PROVE  CallsOK'
<1>1. Items(DOMAIN accounts) \subseteq Items(DOMAIN accounts')
  BY DEF Items
<1>2. Seq(Items(DOMAIN accounts)) \subseteq Seq(Items(DOMAIN accounts'))
  BY <1>1, SeqMonotonic
<1>3. \A m : CallOK(m, DOMAIN accounts) => CallOK(m, DOMAIN accounts')
  BY <1>2 DEF CallOK
<1> QED
  BY <1>3 DEF CallsOK

\* Before anything is entered there is nothing to spend.
LEMMA SpendInit == Init => SpendInv
<1> SUFFICES ASSUME Init PROVE SpendInv
  OBVIOUS
<1>1. accounts = <<>> /\ DOMAIN accounts = {}
  <2>1. accounts = <<>>
    BY DEF Init, EntryInit
  <2> QED
    BY <2>1
<1>2. inherited = [t \in Workers |-> Outside] /\ blocks = [t \in Workers |-> <<>>]
  BY DEF Init, ContextInit
<1>3. BooksOK
  <2>1. \A u \in Workers : DOMAIN blocks[u] = {}
    BY <1>2
  <2>2. Enclosed(Root, accounts)
    <3>1. Root.quotas = <<>> /\ Root.cost_budgets = <<>>
      BY DEF Root
    <3>2. \A f \in BudgetFields : Root[f] = <<>>
      BY <3>1 DEF BudgetFields
    <3> QED
      BY <3>1, <3>2, NothingDue DEF Enclosed
  <2> QED
    BY <1>1, <1>2, <2>1, <2>2 DEF BooksOK, Outside
<1>4. CallsOK
  BY IdleOK DEF Init, MeterInit, CallsOK
<1>5. SpentOrdered
  BY <1>1 DEF SpentOrdered
<1> QED
  BY <1>3, <1>4, <1>5, TypeInit DEF SpendInv

\* Every step keeps the order of what is spent.
LEMMA SpendNext == SpendInv /\ [Next]_vars => SpendInv'
<1> SUFFICES ASSUME SpendInv, [Next]_vars PROVE SpendInv'
  OBVIOUS
<1>0. TypeInv /\ StateOK /\ ContextOK /\ BooksOK /\ CallsOK /\ SpentOrdered /\ TypeInv'
  BY TypeNext DEF SpendInv, TypeInv, StateOK
\* Steps that make no calls and leave the accounts there are alone.
<1>a. ASSUME BooksOK', UNCHANGED meter, DOMAIN accounts \subseteq DOMAIN accounts',
             \A b \in DOMAIN accounts : accounts'[b] = accounts[b],
             \A b \in DOMAIN accounts' \ DOMAIN accounts : accounts'[b].used = Unused
      PROVE  SpendInv'
  BY <1>0, <1>a, CallsKept, OrderedEntered DEF SpendInv
\* Steps that open no block either.
<1>b. ASSUME UNCHANGED <<meter, accounts>>,
             \A u \in Workers : \/ inherited'[u] = inherited[u]
                                \/ \E v \in Workers : inherited'[u].policy = Current(v),
             \A u \in Workers : \A i \in DOMAIN blocks'[u] :
                i \in DOMAIN blocks[u] /\ blocks'[u][i] = blocks[u][i]
      PROVE  SpendInv'
  <2>1. /\ \A b \in DOMAIN accounts : accounts'[b].under = accounts[b].under
        /\ \A b \in DOMAIN accounts' : AccountOK(accounts'[b], DOMAIN accounts')
    BY <1>0, <1>b DEF BooksOK
  <2>2. BooksOK'
    BY <1>0, <1>b, <2>1, BooksKept
  <2> QED
    BY <1>a, <1>b, <2>2
<1>1. CASE Entering
  <2>1. UNCHANGED meter
    BY <1>1 DEF Entering, meterVars
  <2>2. PICK t \in Workers : EnterFromSpec(t) \/ EnterDirectly(t) \/ AdoptPolicy(t)
    BY <1>1 DEF Entering
  <2>3. ASSUME NEW kw, Typed(kw), Enter(t, kw) PROVE SpendInv'
    BY <1>0, <1>a, <2>1, <2>3, EnterBooks
  <2>4. CASE EnterFromSpec(t)
    <3>1. PICK spec \in Resolvable, hooks \in Hooks : Enter(t, FromSpec(spec, hooks))
      BY <2>4 DEF EnterFromSpec
    <3>2. Typed(FromSpec(spec, hooks))
      BY <1>0, BlocksAssumption, FromSpecTyped DEF StateOK, DocumentsOK
    <3> QED
      BY <2>3, <3>1, <3>2
  <2>5. CASE EnterDirectly(t)
    <3>1. PICK kw \in Keywords : Enter(t, kw) \/ Fail(t, kw)
      BY <2>5 DEF EnterDirectly
    <3>2. CASE Enter(t, kw)
      BY <2>3, <3>2, BlocksAssumption
    <3>3. CASE Fail(t, kw)
      <4>1. UNCHANGED <<accounts, inherited, blocks>>
        BY <3>3 DEF Fail, contextVars
      <4> QED
        BY <1>b, <2>1, <4>1
    <3> QED
      BY <3>1, <3>2, <3>3
  <2>6. CASE AdoptPolicy(t)
    <3>1. PICK other \in Workers : Adopt(t, other)
      BY <2>6 DEF AdoptPolicy
    <3>2. UNCHANGED accounts
      BY <3>1 DEF Adopt, entryVars
    <3>3. BooksOK'
      BY <1>0, <3>1, AdoptBooks
    <3> QED
      BY <1>a, <2>1, <3>2, <3>3
  <2> QED
    BY <2>2, <2>4, <2>5, <2>6
<1>2. CASE Leaving
  <2>1. UNCHANGED <<meter, accounts>>
    BY <1>2 DEF Leaving, entryVars, meterVars
  <2>2. PICK t \in Workers : Close(t)
    BY <1>2 DEF Leaving
  <2>3. inherited' = inherited
    BY <2>2 DEF Close
  <2>4. ASSUME NEW u \in Workers, NEW i \in DOMAIN blocks'[u]
        PROVE  i \in DOMAIN blocks[u] /\ blocks'[u][i] = blocks[u][i]
    BY <1>0, <2>2, <2>4, ClosedBlocks
  <2> QED
    BY <1>b, <2>1, <2>3, <2>4
<1>3. CASE Spawning
  <2>1. UNCHANGED <<meter, accounts>>
    BY <1>3 DEF Spawning, entryVars, meterVars
  <2>2. PICK t \in Workers, child \in Workers : Spawn(t, child)
    BY <1>3 DEF Spawning
  <2>3. blocks' = blocks
    BY <2>2 DEF Spawn
  <2>4. ASSUME NEW u \in Workers
        PROVE  \/ inherited'[u] = inherited[u]
               \/ \E v \in Workers : inherited'[u].policy = Current(v)
    <3>1. inherited' = [inherited EXCEPT ![child] = [policy |-> Current(t), run |-> RunOf(t)]]
          /\ DOMAIN inherited = Workers
      BY <1>0, <2>2 DEF Spawn, ContextOK
    <3>2. inherited'[child].policy = Current(t) /\ (u # child => inherited'[u] = inherited[u])
      BY <3>1
    <3> QED
      BY <3>2
  <2> QED
    BY <1>b, <2>1, <2>3, <2>4
<1>4. CASE Metered
  <2>1. PICK t \in Workers : Meter(t)
    BY <1>4 DEF Metered
  <2>2. PICK m : Become(t, m) /\ CallOK(m, DOMAIN accounts) /\ DueStep(t, m)
    BY <1>0, <2>1, MeterDue
  <2>3. inherited' = inherited /\ blocks' = blocks
    BY <1>0, <2>1, MeterStep DEF contextVars
  <2>4. ASSUME DOMAIN accounts' = DOMAIN accounts PROVE CallsOK'
    <3>1. DOMAIN meter' = Workers /\ \A u \in Workers : meter'[u] = IF u = t THEN m ELSE meter[u]
      BY <1>0, <2>2 DEF Become, CallsOK
    <3> QED
      BY <1>0, <2>2, <2>4, <3>1 DEF CallsOK
  <2>5. ASSUME \A b \in DOMAIN accounts : accounts'[b].under = accounts[b].under,
               \A b \in DOMAIN accounts' : AccountOK(accounts'[b], DOMAIN accounts')
        PROVE  BooksOK'
    BY <1>0, <2>3, <2>5, BooksKept
  <2>6. ASSUME UNCHANGED accounts PROVE BooksOK' /\ CallsOK'
    BY <1>0, <2>4, <2>5, <2>6 DEF BooksOK
  <2>7. CASE UNCHANGED accounts /\ m.due = meter[t].due
    BY <1>0, <2>2, <2>6, <2>7, OrderedSame DEF SpendInv
  <2>8. CASE UNCHANGED accounts /\ DueNested(m.due, accounts)
    BY <1>0, <2>2, <2>6, <2>8, OrderedNew DEF SpendInv
  <2>9. CASE Booked(t) /\ m.due = Tail(meter[t].due)
    <3>1. /\ DOMAIN accounts' = DOMAIN accounts
          /\ \A b \in DOMAIN accounts : /\ AccountOK(accounts'[b], DOMAIN accounts')
                                        /\ accounts'[b].under = accounts[b].under
      BY <1>0, <2>9, AccountBooked
    <3>2. SpentOrdered'
      BY <1>0, <2>2, <2>9, OrderedBooked
    <3>3. BooksOK' /\ CallsOK'
      BY <2>4, <2>5, <3>1
    <3> QED
      BY <1>0, <3>2, <3>3 DEF SpendInv
  <2> QED
    BY <2>2, <2>7, <2>8, <2>9 DEF DueStep
<1>5. CASE Heap \/ PublishDocument \/ UNCHANGED vars
  <2>1. UNCHANGED <<meter, accounts, inherited, blocks>>
    BY <1>5 DEF Heap, Allocate, PublishDocument, vars, contextVars, entryVars, meterVars
  <2> QED
    BY <1>b, <2>1
<1>6. CASE Watching
  <2>1. PICK t \in Workers : Watch(t)
    BY <1>6 DEF Watching
  <2>2. UNCHANGED <<meter, accounts>>
    BY <1>6 DEF Watching, entryVars, meterVars
  <2>3. BooksOK'
    BY <1>0, <2>1, <2>2, WatchBooks
  <2> QED
    BY <1>a, <2>2, <2>3
<1> QED
  BY <1>1, <1>2, <1>3, <1>4, <1>5, <1>6 DEF Next

\* No budget of a nested block shows more spending than the budgets of the
\* blocks it was opened in, and none more than its limit (metered calls that
\* charge every budget of the policy in force, one by one, and may stop
\* between two).
THEOREM SpendingSafe == Spec => []SpendingNested
<1>1. SpendInv => SpendingNested
  <2> SUFFICES ASSUME SpendInv, NEW b \in DOMAIN accounts, NEW r \in Resources
               PROVE  /\ accounts[b].max[r] # None => accounts[b].used[r] <= accounts[b].max[r]
                      /\ \A outer \in accounts[b].under :
                            accounts[b].used[r] <= accounts[outer].used[r]
    BY DEF SpendingNested
  <2>1. /\ AccountOK(accounts[b], DOMAIN accounts)
        /\ \A a \in DOMAIN accounts : accounts[a].used[r] \in Nat
    BY DEF SpendInv, BooksOK, AccountOK
  <2> DEFINE none == [u \in Workers |-> 0]
  <2>2. DuesOK(meter, DOMAIN accounts)
    BY DEF SpendInv, CallsOK, CallOK, DuesOK
  <2>3. none \in Cuts(meter)
    BY <2>2, LenProperties DEF Cuts, DuesOK
  <2>4. \A x : Total(meter, none, x, r) = 0
    <3>1. ASSUME NEW x, NEW u \in Workers PROVE Owing(meter, none, x, r)[u] = 0
      <4>1. PICK due \in Seq(Items(DOMAIN accounts)), zero \in Nat :
              due = meter[u].due /\ zero = 0 /\ zero <= Len(due)
        BY <2>2, LenProperties DEF DuesOK
      <4>2. Owed(due, zero, x, r) = 0
        BY <4>1, OwedType
      <4> QED
        BY <4>1, <4>2 DEF Owing
    <3>2. ASSUME NEW x PROVE SumOf(Owing(meter, none, x, r), Workers) = 0
      <4>1. PICK f : f = Owing(meter, none, x, r)
        OBVIOUS
      <4>2. \A u \in Workers : f[u] = 0
        BY <3>1, <4>1
      <4>3. IsFiniteSet(Workers)
        BY BlocksAssumption
      <4>4. SumOf(f, Workers) = 0
        BY <4>2, <4>3, SumNothing
      <4> QED
        BY <4>1, <4>4
    <3> QED
      BY <3>2 DEF Total
  <2> HIDE DEF none
  <2>5. ASSUME NEW outer \in accounts[b].under
        PROVE  accounts[b].used[r] <= accounts[outer].used[r]
    <3>1. accounts[b].used[r] + Total(meter, none, b, r)
            <= accounts[outer].used[r] + Total(meter, none, outer, r)
      BY <2>3 DEF SpendInv, SpentOrdered
    <3>2. outer \in DOMAIN accounts
      BY <2>1 DEF AccountOK
    <3> QED
      BY <2>1, <2>4, <3>1, <3>2
  <2> QED
    BY <2>1, <2>5 DEF AccountOK
<1> QED
  BY <1>1, SpendInit, SpendNext, PTL DEF Spec
=============================================================================
