---------------------------- MODULE Permissions -----------------------------
(***************************************************************************)
(* Capability sets (core/permissions.py).  A name is a capability or a     *)
(* pattern; Covers[p] are the names fnmatchcase(name, p) accepts.  The     *)
(* module is stated over any such relation, so that what Intersect         *)
(* promises can be proved from what it needs of the matching alone.        *)
(***************************************************************************)
EXTENDS Integers, Sequences, FiniteSets

CONSTANTS Names,   \* capabilities and patterns, already stripped
          Blank,   \* the empty name
          Star,    \* the pattern "*"
          Covers   \* pattern -> the names it matches

ASSUME NamesAssumption ==
  /\ {Blank, Star} \subseteq Names
  /\ Covers \in [Names -> SUBSET Names]
  /\ Covers[Star] = Names

\* A pattern that is matched, as a text, by another one matches no more than it.
\* Globs of plain text and "*" are such; "?" and brackets need not be: "*" is
\* matched by "?" and matches more.
Transitive == \A p, q \in Names : p \in Covers[q] => Covers[p] \subseteq Covers[q]

PermissionSet == [allow : SUBSET Names, deny : SUBSET Names]

\* of(): _freeze drops what is empty once stripped.
Of(allow, deny) == [allow |-> allow \ {Blank}, deny |-> deny \ {Blank}]

AllowAll == [allow |-> {Star}, deny |-> {}]
DenyAll == [allow |-> {}, deny |-> {}]

Matched(name, patterns) == \E p \in patterns : name \in Covers[p]

\* allows(): deny wins, and what no pattern allows is denied.
Allows(perms, cap) ==
  cap # Blank /\ ~Matched(cap, perms.deny) /\ Matched(cap, perms.allow)

AllowsPattern(perms, p) ==
  IF Star \in perms.allow THEN ~Matched(p, perms.deny)
                          ELSE Allows(perms, p) \/ p \in perms.allow

\* intersect(): patterns of each side that the other side would allow too.
Intersect(s, other) ==
  [allow |-> {p \in s.allow : AllowsPattern(other, p)}
             \cup {p \in other.allow : AllowsPattern(s, p)},
   deny  |-> s.deny \cup other.deny]

WithDenied(perms, caps) == [perms EXCEPT !.deny = @ \cup (caps \ {Blank})]

\* What a set lets an agent do.
Authority(perms) == {c \in Names : Allows(perms, c)}
=============================================================================
