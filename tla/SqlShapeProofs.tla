----------------------------- MODULE SqlShapeProofs -----------------------------
(***************************************************************************)
(* Proofs about the structural gate, for any names, statements and number   *)
(* of edits: the tables the parser collects are those the database reads,   *)
(* as long as no WITH has the name of a relation.                           *)
(***************************************************************************)
EXTENDS SqlShape, SequenceTheorems, TLAPS

--------------------------------------------------------------------------------
(* Statements. *)

Ctes == [name : WithNames, targets : Seq(Targets), reads : SUBSET Names, ordered : BOOLEAN]
Branches == [targets : Seq(Targets), reads : SUBSET Names, sub : SUBSET Names,
             subWith : Seq(Ctes), ordered : BOOLEAN]
Statements == [selects : Seq(Branches) \ {<<>>}, with : Seq(Ctes), ordered : BOOLEAN]

\* Folded, the names of relations; and that no WITH bears one.  A WITH that does hides
\* the relation from the statement, and the parser drops the relation from its tables.
Relations == Lower(TableNames)
SeparateNames == Relations \cap Lower(WithNames) = {}

\* A name of no relation is the name of a WITH in whose scope it stands.
WithInScope(with, outer) ==
    \A k \in DOMAIN with : Lower(with[k].reads) \subseteq Relations \cup Hidden(with, k) \cup outer
BranchInScope(s, outer) ==
    /\ Lower(s.reads) \subseteq Relations \cup outer
    /\ Lower(s.sub) \subseteq Relations \cup NamesOf(s.subWith) \cup outer
    /\ WithInScope(s.subWith, outer)
InScope(st) ==
    /\ WithInScope(st.with, {})
    /\ \A i \in DOMAIN st.selects : BranchInScope(st.selects[i], NamesOf(st.with))

\* The statements a database accepts, which are those the service is given.
Valid(st) == st \in Statements /\ InScope(st)

\* In PostgreSQL the names of a subquery's WITH are counted as tables.
NoNestedWith(st) == \A i \in DOMAIN st.selects : st.selects[i].subWith = <<>>

--------------------------------------------------------------------------------
(* What is collected and what is read. *)

LEMMA BranchHas ==
    ASSUME NEW s \in Branches
    PROVE  /\ s = [targets |-> s.targets, reads |-> s.reads, sub |-> s.sub,
                   subWith |-> s.subWith, ordered |-> s.ordered]
           /\ s.targets \in Seq(Targets) /\ s.reads \subseteq Names /\ s.sub \subseteq Names
           /\ s.subWith \in Seq(Ctes) /\ s.ordered \in BOOLEAN
BY DEF Branches

LEMMA LowerOf ==
    ASSUME NEW A, NEW B
    PROVE  /\ \A n \in A : Fold[n] \in Lower(A)
           /\ A \subseteq B => Lower(A) \subseteq Lower(B)
           /\ Lower(A \cup B) = Lower(A) \cup Lower(B)
           /\ Lower({}) = {}
BY DEF Lower

LEMMA WithHas ==
    ASSUME NEW with \in Seq(Ctes)
    PROVE  /\ DOMAIN with = 1 .. Len(with) /\ Len(with) \in Nat
           /\ \A k \in DOMAIN with : with[k].name \in WithNames /\ with[k].reads \subseteq Names
           /\ NamesOf(with) = {Fold[with[k].name] : k \in DOMAIN with}
           /\ NamesOf(with) \subseteq Lower(WithNames)
           /\ \A k \in DOMAIN with : Hidden(with, k) \subseteq NamesOf(with)
<1>1. DOMAIN with = 1 .. Len(with) /\ Len(with) \in Nat
    OBVIOUS
<1>2. ASSUME NEW k \in DOMAIN with
      PROVE  with[k].name \in WithNames /\ with[k].reads \subseteq Names
    <2>1. with[k] \in Ctes
        BY <1>1
    <2> QED
        BY <2>1 DEF Ctes
<1>3. NamesOf(with) = {Fold[with[k].name] : k \in DOMAIN with}
    BY DEF NamesOf, Lower, RangeOf
<1>4. NamesOf(with) \subseteq Lower(WithNames)
    BY <1>2, <1>3 DEF Lower
<1>5. ASSUME NEW k \in DOMAIN with
      PROVE  Hidden(with, k) \subseteq NamesOf(with)
    <2>1. \A j \in 1 .. (k - 1) : j \in DOMAIN with
        BY <1>1
    <2> QED
        BY <1>3, <2>1 DEF Hidden
<1> QED
    BY <1>1, <1>2, <1>3, <1>4, <1>5

\* The relations the statements of a WITH name, and those they read, outer names apart.
WithMentions(with) == UNION {Lower(with[k].reads) : k \in DOMAIN with}
LEMMA WithReads ==
    ASSUME SeparateNames, NEW with \in Seq(Ctes), NEW outer, outer \subseteq Lower(WithNames),
           WithInScope(with, outer)
    PROVE  /\ Resolved(with) \ outer = WithMentions(with) \cap Relations
           /\ Resolved(with) \cap Relations = WithMentions(with) \cap Relations
           /\ WithMentions(with) \subseteq Relations \cup NamesOf(with) \cup outer
<1>1. \A k \in DOMAIN with : Hidden(with, k) \subseteq Lower(WithNames)
    BY WithHas
<1>2. \A k \in DOMAIN with :
          Lower(with[k].reads) \subseteq Relations \cup Hidden(with, k) \cup outer
    BY DEF WithInScope
<1>3. WithMentions(with) \subseteq Relations \cup NamesOf(with) \cup outer
    BY <1>2, WithHas DEF WithMentions
<1>4. ASSUME NEW x
      PROVE  /\ x \in Resolved(with) /\ x \notin outer => x \in WithMentions(with) /\ x \in Relations
             /\ x \in WithMentions(with) /\ x \in Relations => x \in Resolved(with) /\ x \notin outer
             /\ x \in Resolved(with) => x \in WithMentions(with)
    <2>1. x \in Resolved(with) <=>
              \E k \in DOMAIN with : x \in Lower(with[k].reads) /\ x \notin Hidden(with, k)
        BY DEF Resolved
    <2>2. x \in WithMentions(with) <=> \E k \in DOMAIN with : x \in Lower(with[k].reads)
        BY DEF WithMentions
    <2>3. x \in Relations => x \notin Lower(WithNames)
        BY DEF SeparateNames
    <2> QED
        BY <1>1, <1>2, <2>1, <2>2, <2>3
<1> QED
    BY <1>3, <1>4

\* What a branch names and what it reads.
BranchMentions(s) == Lower(s.reads) \cup Lower(s.sub) \cup WithMentions(s.subWith)
BranchReads(s) ==
    Lower(s.reads) \cup (Lower(s.sub) \ NamesOf(s.subWith)) \cup Resolved(s.subWith)
LEMMA BranchReadsTables ==
    ASSUME SeparateNames, NEW s \in Branches, NEW outer, outer \subseteq Lower(WithNames),
           BranchInScope(s, outer)
    PROVE  /\ BranchReads(s) \ outer = BranchMentions(s) \cap Relations
           /\ BranchMentions(s) \subseteq Relations \cup NamesOf(s.subWith) \cup outer
<1>1. s.subWith \in Seq(Ctes)
    BY DEF Branches
<1>2. /\ Resolved(s.subWith) \ outer = WithMentions(s.subWith) \cap Relations
      /\ WithMentions(s.subWith) \subseteq Relations \cup NamesOf(s.subWith) \cup outer
    BY <1>1, WithReads DEF BranchInScope
<1>3. NamesOf(s.subWith) \subseteq Lower(WithNames)
    BY <1>1, WithHas
<1>4. /\ Relations \cap outer = {} /\ Relations \cap NamesOf(s.subWith) = {}
    BY <1>3 DEF SeparateNames
<1> QED
    BY <1>2, <1>4 DEF BranchInScope, BranchMentions, BranchReads

LEMMA MentionedParts ==
    ASSUME NEW st \in Statements
    PROVE  Mentioned(st) = WithMentions(st.with)
                              \cup UNION {BranchMentions(st.selects[i]) : i \in DOMAIN st.selects}
<1> DEFINE B(s) == s.reads \cup s.sub \cup ReadsOf(s.subWith)
           All == UNION {B(s) : s \in RangeOf(st.selects)}
<1>1. \A with : Lower(ReadsOf(with)) = WithMentions(with)
    BY DEF ReadsOf, Lower, RangeOf, WithMentions
<1>2. Mentioned(st) = Lower(All \cup ReadsOf(st.with))
    BY DEF Mentioned
<1>3. ASSUME NEW s
      PROVE  Lower(B(s)) = BranchMentions(s)
    <2>1. Lower(B(s)) = Lower(s.reads \cup s.sub) \cup Lower(ReadsOf(s.subWith))
        BY LowerOf
    <2>2. Lower(s.reads \cup s.sub) = Lower(s.reads) \cup Lower(s.sub)
        BY LowerOf
    <2> QED
        BY <1>1, <2>1, <2>2 DEF BranchMentions
<1> HIDE DEF B
<1>4. Lower(All) = UNION {Lower(B(st.selects[i])) : i \in DOMAIN st.selects}
    BY DEF Lower, RangeOf
<1>5. Lower(All) = UNION {BranchMentions(st.selects[i]) : i \in DOMAIN st.selects}
    BY <1>3, <1>4
<1> HIDE DEF All
<1>6. Lower(All \cup ReadsOf(st.with)) = Lower(All) \cup Lower(ReadsOf(st.with))
    BY LowerOf
<1> QED
    BY <1>1, <1>2, <1>5, <1>6

LEMMA RealTablesParts ==
    ASSUME NEW st \in Statements
    PROVE  RealTables(st) = Resolved(st.with)
              \cup UNION {BranchReads(st.selects[i]) \ NamesOf(st.with) : i \in DOMAIN st.selects}
<1> DEFINE main == UNION {BranchReads(s) : s \in RangeOf(st.selects)}
<1>1. RealTables(st) = Resolved(st.with) \cup (main \ NamesOf(st.with))
    BY DEF RealTables, BranchReads
<1>2. main = UNION {BranchReads(st.selects[i]) : i \in DOMAIN st.selects}
    BY DEF RangeOf
<1>3. (UNION {BranchReads(st.selects[i]) : i \in DOMAIN st.selects}) \ NamesOf(st.with)
          = UNION {BranchReads(st.selects[i]) \ NamesOf(st.with) : i \in DOMAIN st.selects}
    OBVIOUS
<1> QED
    BY <1>1, <1>2, <1>3

\* The database reads the relations that are mentioned, wherever that is.
LEMMA ReadsAreMentioned ==
    ASSUME SeparateNames, NEW st, Valid(st)
    PROVE  RealTables(st) = Mentioned(st) \cap Relations
<1>1. st \in Statements /\ st.with \in Seq(Ctes)
    BY DEF Valid, Statements
<1>2. NamesOf(st.with) \subseteq Lower(WithNames)
    BY <1>1, WithHas
<1>3. Resolved(st.with) = WithMentions(st.with) \cap Relations
    <2>1. Resolved(st.with) \ {} = WithMentions(st.with) \cap Relations
        BY <1>1, WithReads DEF Valid, InScope
    <2> QED
        BY <2>1
<1>4. \A i \in DOMAIN st.selects : st.selects[i] \in Branches
    BY <1>1 DEF Statements
<1>5. \A i \in DOMAIN st.selects : BranchReads(st.selects[i]) \ NamesOf(st.with)
                                      = BranchMentions(st.selects[i]) \cap Relations
    BY <1>2, <1>4, BranchReadsTables DEF Valid, InScope
<1> QED
    BY <1>1, <1>3, <1>5, MentionedParts, RealTablesParts

\* The parser drops no relation from what is mentioned ...
LEMMA TablesAreRead ==
    ASSUME SeparateNames, NEW st, Valid(st)
    PROVE  Tables(st) \cap Relations = RealTables(st)
<1>1. st \in Statements /\ st.with \in Seq(Ctes)
    BY DEF Valid, Statements
<1>2. \A i \in DOMAIN st.selects : st.selects[i].subWith \in Seq(Ctes)
    <2>1. \A i \in DOMAIN st.selects : st.selects[i] \in Branches
        BY <1>1 DEF Statements
    <2> QED
        BY <2>1 DEF Branches
<1>3. NamesOf(st.with) \subseteq Lower(WithNames)
    BY <1>1, WithHas
<1>4. \A i \in DOMAIN st.selects : NamesOf(st.selects[i].subWith) \subseteq Lower(WithNames)
    BY <1>2, WithHas
<1>5. CTENames(st) \subseteq Lower(WithNames)
    BY <1>3, <1>4 DEF CTENames, RangeOf
<1>6. CTENames(st) \cap Relations = {}
    BY <1>5 DEF SeparateNames
<1> QED
    BY <1>6, ReadsAreMentioned DEF Tables

\* ... and collects nothing that is not read, except the names of nested WITHs in
\* PostgreSQL; a WITH with the name of a relation makes it collect less, never more.
LEMMA CollectedIsRead ==
    ASSUME NEW st \in Statements, dialect # "mysql" => NoNestedWith(st)
    PROVE  Tables(st) \subseteq RealTables(st)
<1>1. st.with \in Seq(Ctes)
    BY DEF Statements
<1>2. NamesOf(st.with) \subseteq CTENames(st)
    BY DEF CTENames
<1>3. \A i \in DOMAIN st.selects : st.selects[i] \in Branches
    BY DEF Statements
<1>4. ASSUME NEW i \in DOMAIN st.selects
      PROVE  NamesOf(st.selects[i].subWith) \subseteq CTENames(st)
    <2>1. CASE dialect = "mysql"
        BY <2>1 DEF CTENames, RangeOf
    <2>2. CASE dialect # "mysql"
        <3>1. st.selects[i].subWith = <<>>
            BY <2>2 DEF NoNestedWith
        <3>2. NamesOf(<<>>) = {}
            BY DEF NamesOf, Lower, RangeOf
        <3> QED
            BY <3>1, <3>2
    <2> QED
        BY <2>1, <2>2
<1>5. ASSUME NEW with \in Seq(Ctes), NEW x \in WithMentions(with), x \notin NamesOf(with)
      PROVE  x \in Resolved(with)
    <2>1. PICK k \in DOMAIN with : x \in Lower(with[k].reads)
        BY <1>5 DEF WithMentions
    <2>2. x \notin Hidden(with, k)
        BY <1>5, WithHas
    <2> QED
        BY <2>1, <2>2 DEF Resolved
<1>6. ASSUME NEW i \in DOMAIN st.selects, NEW x \in BranchMentions(st.selects[i]),
             x \notin CTENames(st)
      PROVE  x \in BranchReads(st.selects[i]) \ NamesOf(st.with)
    <2>1. st.selects[i].subWith \in Seq(Ctes)
        BY <1>3, BranchHas
    <2> QED
        BY <1>2, <1>4, <1>5, <1>6, <2>1 DEF BranchMentions, BranchReads
<1>7. ASSUME NEW x \in WithMentions(st.with), x \notin CTENames(st)
      PROVE  x \in Resolved(st.with)
    BY <1>1, <1>2, <1>5, <1>7
<1>8. ASSUME NEW x \in Tables(st)
      PROVE  x \in RealTables(st)
    <2>1. x \in Mentioned(st) /\ x \notin CTENames(st)
        BY <1>8 DEF Tables
    <2>2. x \in WithMentions(st.with)
          \/ \E i \in DOMAIN st.selects : x \in BranchMentions(st.selects[i])
        BY <2>1, MentionedParts
    <2>3. x \in Resolved(st.with)
          \/ \E i \in DOMAIN st.selects : x \in BranchReads(st.selects[i]) \ NamesOf(st.with)
        BY <1>6, <1>7, <2>1, <2>2
    <2> QED
        BY <2>3, RealTablesParts
<1> QED
    BY <1>8

LEMMA OnlyTablesCollected ==
    ASSUME SeparateNames, NEW st, Valid(st), dialect # "mysql" => NoNestedWith(st)
    PROVE  Tables(st) = RealTables(st)
BY CollectedIsRead, TablesAreRead DEF Valid

--------------------------------------------------------------------------------
(* Edits. *)

\* A name stays in scope when more names are.
LEMMA ScopeGrows ==
    ASSUME NEW s, NEW outer, NEW wider, outer \subseteq wider, BranchInScope(s, outer)
    PROVE  BranchInScope(s, wider)
BY DEF BranchInScope, WithInScope

LEMMA StatementHas ==
    ASSUME NEW st, Valid(st)
    PROVE  /\ st = [selects |-> st.selects, with |-> st.with, ordered |-> st.ordered]
           /\ st.selects \in Seq(Branches) /\ st.with \in Seq(Ctes) /\ st.ordered \in BOOLEAN
           /\ DOMAIN st.selects = 1 .. Len(st.selects) /\ Len(st.selects) \in Nat \ {0}
           /\ \A i \in DOMAIN st.selects : st.selects[i] \in Branches
           /\ st.selects[1] \in Branches
           /\ BranchInScope(st.selects[1], NamesOf(st.with))
<1>1. st \in Statements
    BY DEF Valid
<1>2. /\ st = [selects |-> st.selects, with |-> st.with, ordered |-> st.ordered]
      /\ st.selects \in Seq(Branches) /\ st.selects # <<>>
      /\ st.with \in Seq(Ctes) /\ st.ordered \in BOOLEAN
    BY <1>1 DEF Statements
<1>3. DOMAIN st.selects = 1 .. Len(st.selects) /\ Len(st.selects) \in Nat \ {0}
    BY <1>2
<1>4. \A i \in DOMAIN st.selects : st.selects[i] \in Branches
    BY <1>2
<1>5. 1 \in DOMAIN st.selects
    BY <1>3
<1> QED
    BY <1>2, <1>3, <1>4, <1>5 DEF Valid, InScope

\* A statement whose first branch and WITH list are rewritten, more names being in scope.
LEMMA FirstRewritten ==
    ASSUME NEW st, Valid(st), NEW s \in Branches, NEW with \in Seq(Ctes),
           WithInScope(with, {}), NamesOf(st.with) \subseteq NamesOf(with),
           BranchInScope(s, NamesOf(with)), NEW c,
           c = [selects |-> [st.selects EXCEPT ![1] = s], with |-> with,
                ordered |-> st.ordered]
    PROVE  /\ Valid(c)
           /\ NoNestedWith(st) /\ s.subWith = <<>> => NoNestedWith(c)
<1> DEFINE sels == [st.selects EXCEPT ![1] = s]
<1>1. /\ st.selects \in Seq(Branches) /\ 1 \in 1 .. Len(st.selects) /\ st.ordered \in BOOLEAN
      /\ DOMAIN st.selects = 1 .. Len(st.selects) /\ Len(st.selects) \in Nat \ {0}
    BY StatementHas
<1>2. /\ sels \in Seq(Branches) /\ DOMAIN sels = DOMAIN st.selects /\ sels # <<>>
      /\ \A i \in DOMAIN st.selects : sels[i] = IF i = 1 THEN s ELSE st.selects[i]
    <2>1. sels \in Seq(Branches) /\ Len(sels) = Len(st.selects)
        BY <1>1, ExceptSeq
    <2>2. /\ DOMAIN sels = DOMAIN st.selects
          /\ \A i \in DOMAIN st.selects : sels[i] = IF i = 1 THEN s ELSE st.selects[i]
        BY <1>1
    <2>3. sels # <<>>
        BY <1>1, <2>1
    <2> QED
        BY <2>1, <2>2, <2>3
<1> HIDE DEF sels
<1>3. c.selects = sels /\ c.with = with /\ c.ordered = st.ordered
    BY DEF sels
<1>4. c \in Statements
    BY <1>1, <1>2 DEF Statements, sels
<1>5. ASSUME NEW i \in DOMAIN sels
      PROVE  BranchInScope(sels[i], NamesOf(with))
    <2>1. CASE i = 1
        BY <1>2, <2>1
    <2>2. CASE i # 1
        BY <1>2, <2>2, ScopeGrows DEF Valid, InScope
    <2> QED
        BY <2>1, <2>2
<1>6. InScope(c)
    BY <1>3, <1>5 DEF InScope
<1> QED
    BY <1>2, <1>3, <1>4, <1>6 DEF Valid, NoNestedWith

\* The same, with the WITH list left alone.
LEMMA FirstReplaced ==
    ASSUME NEW st, Valid(st), NEW s \in Branches, BranchInScope(s, NamesOf(st.with)), NEW c,
           c = [st EXCEPT !.selects[1] = s]
    PROVE  /\ Valid(c)
           /\ NoNestedWith(st) /\ s.subWith = <<>> => NoNestedWith(c)
<1>1. c = [selects |-> [st.selects EXCEPT ![1] = s], with |-> st.with,
           ordered |-> st.ordered]
    <2>1. st = [selects |-> st.selects, with |-> st.with, ordered |-> st.ordered]
        BY StatementHas
    <2> QED
        BY <2>1
<1>2. st.with \in Seq(Ctes) /\ WithInScope(st.with, {})
    BY StatementHas DEF Valid, InScope
<1> QED
    BY <1>1, <1>2, FirstRewritten

\* A relation, or a name in scope, is read through one more WITH.
LEMMA WithAppended ==
    ASSUME NEW with \in Seq(Ctes), NEW outer, WithInScope(with, outer),
           NEW w \in WithNames, NEW n \in Names, NEW targets \in Seq(Targets),
           Fold[n] \in Relations \cup NamesOf(with) \cup outer
    PROVE  /\ Append(with, Cte(w, n, targets)) \in Seq(Ctes)
           /\ WithInScope(Append(with, Cte(w, n, targets)), outer)
           /\ NamesOf(Append(with, Cte(w, n, targets))) = NamesOf(with) \cup {Fold[w]}
<1> DEFINE x == Cte(w, n, targets)
           new == Append(with, x)
<1>1. x \in Ctes /\ x.name = w /\ x.reads = {n}
    BY DEF Cte, Ctes
<1> HIDE DEF x
<1>2. /\ new \in Seq(Ctes) /\ Len(with) \in Nat /\ DOMAIN with = 1 .. Len(with)
      /\ DOMAIN new = 1 .. (Len(with) + 1)
      /\ \A k \in 1 .. Len(with) : new[k] = with[k]
      /\ new[Len(with) + 1] = x
    BY <1>1
<1> HIDE DEF new
<1>3. NamesOf(with) = {Fold[with[k].name] : k \in DOMAIN with}
      /\ NamesOf(new) = {Fold[new[k].name] : k \in DOMAIN new}
    BY <1>2, WithHas
<1>4. NamesOf(new) = NamesOf(with) \cup {Fold[w]}
    <2>1. ASSUME NEW y \in NamesOf(new)
          PROVE  y \in NamesOf(with) \cup {Fold[w]}
        <3>1. PICK k \in 1 .. (Len(with) + 1) : y = Fold[new[k].name]
            BY <1>2, <1>3
        <3> QED
            BY <1>1, <1>2, <1>3, <3>1
    <2>2. NamesOf(with) \subseteq NamesOf(new)
        BY <1>2, <1>3
    <2>3. Fold[w] \in NamesOf(new)
        BY <1>1, <1>2, <1>3
    <2> QED
        BY <2>1, <2>2, <2>3
<1>5. ASSUME NEW k \in DOMAIN new
      PROVE  Lower(new[k].reads) \subseteq Relations \cup Hidden(new, k) \cup outer
    <2>1. CASE k \in DOMAIN with
        <3>1. Hidden(new, k) = Hidden(with, k)
            BY <1>2, <2>1 DEF Hidden
        <3> QED
            BY <1>2, <2>1, <3>1 DEF WithInScope
    <2>2. CASE k = Len(with) + 1
        <3>1. Hidden(new, k) = NamesOf(with)
            BY <1>2, <1>3, <2>2 DEF Hidden
        <3>2. Lower(new[k].reads) = {Fold[n]}
            BY <1>1, <1>2, <2>2 DEF Lower
        <3> QED
            BY <3>1, <3>2
    <2> QED
        BY <1>2, <2>1, <2>2
<1> QED
    BY <1>2, <1>4, <1>5 DEF WithInScope, new, x

--------------------------------------------------------------------------------
(* The inductive invariant. *)

OriginalsAreValid == \A st \in Originals : Valid(st)
NothingNested ==
    "postgres" \in Dialects =>
        "nest" \notin Edits["postgres"] /\ \A st \in Originals : NoNestedWith(st)

\* Both statements are valid, and a rewrite nests a WITH if its author may.
ValidStatements == dialect \in Dialects /\ Valid(original) /\ Valid(candidate)
NestedIfMeant ==
    dialect # "mysql" /\ NothingNested => NoNestedWith(original) /\ NoNestedWith(candidate)

\* What an edit does to the branch it changes.
LEMMA FirstChanged ==
    ASSUME Valid(candidate), NEW s, candidate' = WithFirst(s),
           s \in Branches, BranchInScope(s, NamesOf(candidate.with))
    PROVE  /\ Valid(candidate')
           /\ NoNestedWith(candidate) /\ s.subWith = <<>> => NoNestedWith(candidate')
BY FirstReplaced DEF WithFirst

\* What an edit keeps: both facts of the invariant.
Kept == Valid(candidate') /\ (NoNestedWith(candidate) => NoNestedWith(candidate'))

LEMMA ColumnsMayChange ==
    ASSUME Valid(candidate), NEW targets \in Seq(Targets),
           candidate' = WithFirst([First EXCEPT !.targets = targets])
    PROVE  Kept
<1> DEFINE s == [First EXCEPT !.targets = targets]
<1>1. First \in Branches /\ BranchInScope(First, NamesOf(candidate.with))
    BY StatementHas DEF First
<1>2. s = [targets |-> targets, reads |-> First.reads, sub |-> First.sub,
           subWith |-> First.subWith, ordered |-> First.ordered]
    BY <1>1, BranchHas
<1>3. /\ s \in Branches /\ s.reads = First.reads /\ s.sub = First.sub
      /\ s.subWith = First.subWith
    BY <1>1, <1>2, BranchHas DEF Branches
<1> HIDE DEF s
<1>4. BranchInScope(s, NamesOf(candidate.with))
    BY <1>1, <1>3 DEF BranchInScope
<1>5. NoNestedWith(candidate) => s.subWith = <<>>
    BY <1>3, StatementHas DEF NoNestedWith, First
<1> QED
    BY <1>3, <1>4, <1>5, FirstChanged DEF Kept, s

LEMMA OneColumnMayChange ==
    ASSUME Valid(candidate), NEW i \in DOMAIN First.targets, NEW t \in Targets,
           candidate' = WithFirst([First EXCEPT !.targets[i] = t])
    PROVE  Kept
<1> DEFINE targets == [First.targets EXCEPT ![i] = t]
<1>1. First \in Branches
    BY StatementHas DEF First
<1>2. First.targets \in Seq(Targets) /\ DOMAIN First.targets = 1 .. Len(First.targets)
    BY <1>1, BranchHas
<1>3. targets \in Seq(Targets)
    BY <1>2, ExceptSeq
<1>4. [First EXCEPT !.targets[i] = t] = [First EXCEPT !.targets = targets]
    BY <1>1, BranchHas
<1> HIDE DEF targets
<1> QED
    BY <1>3, <1>4, ColumnsMayChange

\* The relations and the subquery of a branch may change, as names of the scope.
LEMMA ReadsMayChange ==
    ASSUME Valid(candidate), NEW reads \in SUBSET Names, NEW sub \in SUBSET Names,
           NEW ordered \in BOOLEAN,
           Lower(reads) \subseteq Relations \cup NamesOf(candidate.with),
           Lower(sub) \subseteq
               Relations \cup NamesOf(First.subWith) \cup NamesOf(candidate.with),
           NEW s, candidate' = WithFirst(s),
           s = [targets |-> First.targets, reads |-> reads, sub |-> sub,
                subWith |-> First.subWith, ordered |-> ordered]
    PROVE  Kept
<1>1. First \in Branches /\ BranchInScope(First, NamesOf(candidate.with))
    BY StatementHas DEF First
<1>2. s \in Branches /\ s.reads = reads /\ s.sub = sub /\ s.subWith = First.subWith
    BY <1>1, BranchHas DEF Branches
<1>3. BranchInScope(s, NamesOf(candidate.with))
    BY <1>1, <1>2 DEF BranchInScope
<1>4. NoNestedWith(candidate) => s.subWith = <<>>
    BY <1>2, StatementHas DEF NoNestedWith, First
<1> QED
    BY <1>2, <1>3, <1>4, FirstChanged DEF Kept

\* The fields of a branch with other relations.
LEMMA FieldsOfFirst ==
    ASSUME Valid(candidate), NEW reads, NEW sub, NEW ordered
    PROVE  /\ [First EXCEPT !.reads = reads] =
                 [targets |-> First.targets, reads |-> reads, sub |-> First.sub,
                  subWith |-> First.subWith, ordered |-> First.ordered]
           /\ [First EXCEPT !.reads = reads, !.sub = sub] =
                 [targets |-> First.targets, reads |-> reads, sub |-> sub,
                  subWith |-> First.subWith, ordered |-> First.ordered]
           /\ [First EXCEPT !.ordered = ordered] =
                 [targets |-> First.targets, reads |-> First.reads, sub |-> First.sub,
                  subWith |-> First.subWith, ordered |-> ordered]
           /\ First.reads \in SUBSET Names /\ First.sub \in SUBSET Names
           /\ First.ordered \in BOOLEAN /\ First.subWith \in Seq(Ctes)
           /\ First.targets \in Seq(Targets)
           /\ BranchInScope(First, NamesOf(candidate.with))
           /\ First \in Branches
<1>1. First \in Branches /\ BranchInScope(First, NamesOf(candidate.with))
    BY StatementHas DEF First
<1>2. /\ First.reads \in SUBSET Names /\ First.sub \in SUBSET Names
      /\ First.ordered \in BOOLEAN /\ First.subWith \in Seq(Ctes)
      /\ First.targets \in Seq(Targets)
    BY <1>1, BranchHas
<1>3. First = [targets |-> First.targets, reads |-> First.reads, sub |-> First.sub,
               subWith |-> First.subWith, ordered |-> First.ordered]
    BY <1>1, BranchHas
<1>4. [First EXCEPT !.reads = reads] =
          [targets |-> First.targets, reads |-> reads, sub |-> First.sub,
           subWith |-> First.subWith, ordered |-> First.ordered]
    BY <1>3
<1>5. [First EXCEPT !.reads = reads, !.sub = sub] =
          [targets |-> First.targets, reads |-> reads, sub |-> sub,
           subWith |-> First.subWith, ordered |-> First.ordered]
    <2> DEFINE s == [First EXCEPT !.reads = reads]
    <2>1. s = [targets |-> First.targets, reads |-> reads, sub |-> First.sub,
               subWith |-> First.subWith, ordered |-> First.ordered]
        BY <1>4
    <2>2. [First EXCEPT !.reads = reads, !.sub = sub] = [s EXCEPT !.sub = sub]
        OBVIOUS
    <2> HIDE DEF s
    <2>3. [s EXCEPT !.sub = sub] =
              [targets |-> First.targets, reads |-> reads, sub |-> sub,
               subWith |-> First.subWith, ordered |-> First.ordered]
        BY <2>1
    <2> QED
        BY <2>2, <2>3
<1>6. [First EXCEPT !.ordered = ordered] =
          [targets |-> First.targets, reads |-> First.reads, sub |-> First.sub,
           subWith |-> First.subWith, ordered |-> ordered]
    BY <1>3
<1> QED
    BY <1>1, <1>2, <1>4, <1>5, <1>6

LEMMA RelationsMayChange ==
    ASSUME Valid(candidate), NEW reads \in SUBSET Names,
           Lower(reads) \subseteq Relations \cup NamesOf(candidate.with),
           candidate' = WithFirst([First EXCEPT !.reads = reads])
    PROVE  Kept
<1>1. Lower(First.sub) \subseteq
          Relations \cup NamesOf(First.subWith) \cup NamesOf(candidate.with)
    BY FieldsOfFirst DEF BranchInScope
<1> DEFINE s == [First EXCEPT !.reads = reads]
<1>2. /\ s = [targets |-> First.targets, reads |-> reads, sub |-> First.sub,
               subWith |-> First.subWith, ordered |-> First.ordered]
      /\ First.sub \in SUBSET Names /\ First.ordered \in BOOLEAN
    BY FieldsOfFirst
<1>3. candidate' = WithFirst(s)
    OBVIOUS
<1> HIDE DEF s
<1> QED
    BY <1>1, <1>2, <1>3, ReadsMayChange

LEMMA TableNamesAreRelations ==
    ASSUME NEW n \in TableNames
    PROVE  n \in Names /\ Fold[n] \in Relations
BY DEF Names, Relations, Lower

LEMMA EditOfColumnsKeeps ==
    ASSUME Valid(candidate),
           \/ \E i \in DOMAIN First.targets, t \in Targets : Rename(i, t) \/ RespellColumn(i, t)
           \/ \E t \in Targets : AddColumn(t)
           \/ DropColumn
    PROVE  Kept
<1>1. First.targets \in Seq(Targets)
    BY FieldsOfFirst
<1>2. ASSUME NEW i \in DOMAIN First.targets, NEW t \in Targets, Rename(i, t) \/ RespellColumn(i, t)
      PROVE  Kept
    <2>1. candidate' = WithFirst([First EXCEPT !.targets[i] = t])
        BY <1>2 DEF Rename, RespellColumn, Edit
    <2> QED
        BY <2>1, OneColumnMayChange
<1>3. ASSUME NEW t \in Targets, AddColumn(t)
      PROVE  Kept
    <2>1. candidate' = WithFirst([First EXCEPT !.targets = Append(First.targets, t)])
        BY <1>3 DEF AddColumn, Edit
    <2>2. Append(First.targets, t) \in Seq(Targets)
        BY <1>1
    <2> QED
        BY <2>1, <2>2, ColumnsMayChange
<1>4. ASSUME DropColumn
      PROVE  Kept
    <2>1. candidate' = WithFirst([First EXCEPT !.targets = Tail(First.targets)])
          /\ Len(First.targets) > 1
        BY <1>4 DEF DropColumn, Edit
    <2>2. Tail(First.targets) \in Seq(Targets)
        BY <1>1, <2>1
    <2> QED
        BY <2>1, <2>2, ColumnsMayChange
<1> QED
    BY <1>2, <1>3, <1>4

LEMMA EditOfTablesKeeps ==
    ASSUME Valid(candidate),
           \/ \E n, m \in TableNames : Respell(n, m)
           \/ \E n \in TableNames : Join(n) \/ Remove(n) \/ IntoSubquery(n)
    PROVE  Kept
<1> DEFINE scope == Relations \cup NamesOf(candidate.with)
<1>1. Lower(First.reads) \subseteq scope /\ First.reads \in SUBSET Names
    BY FieldsOfFirst DEF BranchInScope
<1>2. ASSUME NEW n \in TableNames, NEW m \in TableNames, Respell(n, m)
      PROVE  Kept
    <2>1. candidate' = WithFirst([First EXCEPT !.reads = (First.reads \ {n}) \cup {m}])
        BY <1>2 DEF Respell, Edit
    <2>2. (First.reads \ {n}) \cup {m} \in SUBSET Names
        BY <1>1, TableNamesAreRelations
    <2>3. Lower((First.reads \ {n}) \cup {m}) \subseteq scope
        BY <1>1, TableNamesAreRelations DEF Lower
    <2> QED
        BY <2>1, <2>2, <2>3, RelationsMayChange
<1>3. ASSUME NEW n \in TableNames, Join(n)
      PROVE  Kept
    <2>1. candidate' = WithFirst([First EXCEPT !.reads = First.reads \cup {n}])
        BY <1>3 DEF Join, Edit
    <2>2. First.reads \cup {n} \in SUBSET Names
        BY <1>1, TableNamesAreRelations
    <2>3. Lower(First.reads \cup {n}) \subseteq scope
        BY <1>1, TableNamesAreRelations DEF Lower
    <2> QED
        BY <2>1, <2>2, <2>3, RelationsMayChange
<1>4. ASSUME NEW n \in TableNames, Remove(n)
      PROVE  Kept
    <2>1. candidate' = WithFirst([First EXCEPT !.reads = First.reads \ {n}])
        BY <1>4 DEF Remove, Edit
    <2>2. First.reads \ {n} \in SUBSET Names
        BY <1>1
    <2>3. Lower(First.reads \ {n}) \subseteq scope
        BY <1>1 DEF Lower
    <2> QED
        BY <2>1, <2>2, <2>3, RelationsMayChange
<1>5. ASSUME NEW n \in TableNames, IntoSubquery(n)
      PROVE  Kept
    <2> DEFINE reads == First.reads \ {n}
               sub == First.sub \cup {n}
    <2>1. candidate' = WithFirst([First EXCEPT !.reads = reads, !.sub = sub])
        BY <1>5 DEF IntoSubquery, Edit
    <2>2. reads \in SUBSET Names /\ Lower(reads) \subseteq scope
        BY <1>1 DEF Lower
    <2>3. Lower(First.sub) \subseteq
              Relations \cup NamesOf(First.subWith) \cup NamesOf(candidate.with)
          /\ First.sub \in SUBSET Names
        BY FieldsOfFirst DEF BranchInScope
    <2>4. sub \in SUBSET Names
        BY <2>3, TableNamesAreRelations
    <2>5. Lower(sub) \subseteq
              Relations \cup NamesOf(First.subWith) \cup NamesOf(candidate.with)
        BY <2>3, TableNamesAreRelations DEF Lower
    <2> HIDE DEF reads, sub
    <2> DEFINE s == [First EXCEPT !.reads = reads, !.sub = sub]
    <2>6. /\ s = [targets |-> First.targets, reads |-> reads, sub |-> sub,
                   subWith |-> First.subWith, ordered |-> First.ordered]
          /\ First.ordered \in BOOLEAN
        BY FieldsOfFirst
    <2>7. candidate' = WithFirst(s)
        BY <2>1
    <2> HIDE DEF s
    <2> QED
        BY <2>2, <2>4, <2>5, <2>6, <2>7, ReadsMayChange
<1> QED
    BY <1>2, <1>3, <1>4, <1>5

LEMMA OrderFirstKeeps == ASSUME Valid(candidate), OrderFirst PROVE Kept
<1>1. candidate' = WithFirst([First EXCEPT !.ordered = TRUE])
    BY DEF OrderFirst, Edit
<1>2. /\ Lower(First.reads) \subseteq Relations \cup NamesOf(candidate.with)
      /\ Lower(First.sub) \subseteq
             Relations \cup NamesOf(First.subWith) \cup NamesOf(candidate.with)
    BY FieldsOfFirst DEF BranchInScope
<1> QED
    BY <1>1, <1>2, FieldsOfFirst, ReadsMayChange

LEMMA OrderWholeKeeps == ASSUME Valid(candidate), OrderWhole PROVE Kept
<1>1. candidate' = [candidate EXCEPT !.ordered = TRUE]
    BY DEF OrderWhole, Edit
<1>2. candidate' = [selects |-> candidate.selects, with |-> candidate.with, ordered |-> TRUE]
    <2>1. candidate = [selects |-> candidate.selects, with |-> candidate.with,
                       ordered |-> candidate.ordered]
        BY StatementHas
    <2> QED
        BY <1>1, <2>1
<1>3. candidate' \in Statements
    BY <1>2, StatementHas DEF Statements, Valid
<1>4. candidate'.selects = candidate.selects /\ candidate'.with = candidate.with
    BY <1>2
<1> QED
    BY <1>3, <1>4 DEF Kept, Valid, InScope, NoNestedWith

LEMMA AddBranchKeeps ==
    ASSUME Valid(candidate), NEW n \in TableNames, AddBranch(n)
    PROVE  Kept
<1> DEFINE b == Plain(First.targets, {n})
           sels == Append(candidate.selects, b)
<1>1. candidate' = [candidate EXCEPT !.selects = sels]
    BY DEF AddBranch, Edit
<1>2. candidate' = [selects |-> sels, with |-> candidate.with, ordered |-> candidate.ordered]
    <2>1. candidate = [selects |-> candidate.selects, with |-> candidate.with,
                       ordered |-> candidate.ordered]
        BY StatementHas
    <2> HIDE DEF sels
    <2> QED
        BY <1>1, <2>1
<1>3. /\ b.reads = {n} /\ b.sub = {} /\ b.subWith = <<>> /\ b \in Branches
    <2>1. First.targets \in Seq(Targets) /\ {n} \subseteq Names
        BY FieldsOfFirst, TableNamesAreRelations
    <2>2. <<>> \in Seq(Ctes)
        OBVIOUS
    <2>3. b = [targets |-> First.targets, reads |-> {n}, sub |-> {}, subWith |-> <<>>,
               ordered |-> FALSE]
        BY DEF Plain
    <2> HIDE DEF b
    <2> QED
        BY <2>1, <2>2, <2>3 DEF Branches
<1>4. BranchInScope(b, NamesOf(candidate.with))
    <2> HIDE DEF b
    <2>1. Lower({n}) \subseteq Relations /\ Lower({}) = {}
        BY TableNamesAreRelations DEF Lower
    <2>2. \A outer : WithInScope(<<>>, outer)
        BY DEF WithInScope
    <2> QED
        BY <1>3, <2>1, <2>2 DEF BranchInScope
<1> HIDE DEF b
<1>5. /\ sels \in Seq(Branches) /\ sels # <<>>
      /\ DOMAIN sels = 1 .. (Len(candidate.selects) + 1)
      /\ \A i \in DOMAIN candidate.selects : sels[i] = candidate.selects[i]
      /\ sels[Len(candidate.selects) + 1] = b
    BY <1>3, StatementHas
<1>6. \A i \in DOMAIN sels : i \in DOMAIN candidate.selects \/ sels[i] = b
    BY <1>5, StatementHas
<1> HIDE DEF sels
<1>7. candidate'.selects = sels /\ candidate'.with = candidate.with
    BY <1>2
<1>8. candidate' \in Statements
    BY <1>2, <1>5, StatementHas DEF Statements
<1>9. InScope(candidate')
    BY <1>4, <1>5, <1>6, <1>7 DEF Valid, InScope
<1> QED
    BY <1>3, <1>5, <1>6, <1>7, <1>8, <1>9 DEF Kept, Valid, NoNestedWith

LEMMA StarIsTarget == <<Star>> \in Seq(Targets)
<1>1. Star \in Targets
    BY DEF Targets
<1> QED
    BY <1>1

LEMMA ExtractKeeps ==
    ASSUME Valid(candidate), NEW n \in Names, NEW w \in WithNames,
           NEW targets \in Seq(Targets), Extract(n, w, targets)
    PROVE  Kept
<1> DEFINE reads == (First.reads \ {n}) \cup {w}
           s == [First EXCEPT !.reads = reads]
           with == Append(candidate.with, Cte(w, n, targets))
<1>1. /\ n \in First.reads
      /\ candidate' = [WithFirst(s) EXCEPT !.with = Append(@, Cte(w, n, targets))]
    BY DEF Extract, Edit
<1>2. /\ Lower(First.reads) \subseteq Relations \cup NamesOf(candidate.with)
      /\ Lower(First.sub) \subseteq
             Relations \cup NamesOf(First.subWith) \cup NamesOf(candidate.with)
      /\ WithInScope(First.subWith, NamesOf(candidate.with))
    BY FieldsOfFirst DEF BranchInScope
<1>3. Fold[n] \in Relations \cup NamesOf(candidate.with) \cup {}
    BY <1>1, <1>2 DEF Lower
<1>4. candidate.with \in Seq(Ctes) /\ WithInScope(candidate.with, {})
    BY StatementHas DEF Valid, InScope
<1>5. /\ with \in Seq(Ctes) /\ WithInScope(with, {})
      /\ NamesOf(with) = NamesOf(candidate.with) \cup {Fold[w]}
    BY <1>3, <1>4, WithAppended
<1>6. reads \in SUBSET Names /\ Lower(reads) \subseteq Relations \cup NamesOf(with)
    <2>1. First.reads \in SUBSET Names /\ w \in Names
        BY FieldsOfFirst DEF Names
    <2> HIDE DEF with
    <2> QED
        BY <1>2, <1>5, <2>1 DEF Lower
<1> HIDE DEF reads
<1>7. s = [targets |-> First.targets, reads |-> reads, sub |-> First.sub,
           subWith |-> First.subWith, ordered |-> First.ordered]
    BY FieldsOfFirst
<1> HIDE DEF s
<1>8. s \in Branches /\ s.reads = reads /\ s.sub = First.sub /\ s.subWith = First.subWith
    BY <1>6, <1>7, FieldsOfFirst DEF Branches
<1>9. candidate' = [selects |-> [candidate.selects EXCEPT ![1] = s], with |-> with,
                    ordered |-> candidate.ordered]
    <2>1. candidate = [selects |-> candidate.selects, with |-> candidate.with,
                       ordered |-> candidate.ordered]
        BY StatementHas
    <2>2. WithFirst(s) = [selects |-> [candidate.selects EXCEPT ![1] = s],
                          with |-> candidate.with, ordered |-> candidate.ordered]
        BY <2>1 DEF WithFirst
    <2>3. candidate' = [WithFirst(s) EXCEPT !.with = Append(WithFirst(s).with, Cte(w, n, targets))]
        BY <1>1
    <2>4. WithFirst(s).with = candidate.with
        BY <2>2
    <2>5. candidate' = [WithFirst(s) EXCEPT !.with = with]
        BY <2>3, <2>4
    <2> HIDE DEF with
    <2> QED
        BY <2>2, <2>5
<1> HIDE DEF with
<1>10. BranchInScope(s, NamesOf(with))
    <2>1. BranchInScope(First, NamesOf(with))
        BY <1>5, FieldsOfFirst, ScopeGrows
    <2> QED
        BY <1>6, <1>8, <2>1 DEF BranchInScope
<1>11. NoNestedWith(candidate) => s.subWith = <<>>
    BY <1>8, StatementHas DEF NoNestedWith, First
<1> QED
    BY <1>5, <1>8, <1>9, <1>10, <1>11, FirstRewritten DEF Kept

LEMMA NestIsValid ==
    ASSUME Valid(candidate), NEW n \in Names, NEW w \in WithNames, Nest(n, w)
    PROVE  Valid(candidate') /\ "nest" \in Edits[dialect]
<1> DEFINE targets == <<Star>>
           sub == (First.sub \ {n}) \cup {w}
           subWith == Append(First.subWith, Cte(w, n, targets))
           s == [First EXCEPT !.sub = sub, !.subWith = Append(@, Cte(w, n, targets))]
           outer == NamesOf(candidate.with)
<1>1. n \in First.sub /\ candidate' = WithFirst(s) /\ "nest" \in Edits[dialect]
    BY DEF Nest, Edit
<1>T. targets \in Seq(Targets)
    BY StarIsTarget
<1> HIDE DEF targets
<1>2. First \in Branches /\ BranchInScope(First, outer)
    BY FieldsOfFirst
<1>3. /\ First = [targets |-> First.targets, reads |-> First.reads, sub |-> First.sub,
                  subWith |-> First.subWith, ordered |-> First.ordered]
      /\ First.targets \in Seq(Targets) /\ First.reads \subseteq Names
      /\ First.sub \subseteq Names /\ First.subWith \in Seq(Ctes) /\ First.ordered \in BOOLEAN
    BY <1>2, BranchHas
<1>4. Fold[n] \in Relations \cup NamesOf(First.subWith) \cup outer
    BY <1>1, <1>2 DEF BranchInScope, Lower
<1>5. /\ subWith \in Seq(Ctes) /\ WithInScope(subWith, outer)
      /\ NamesOf(subWith) = NamesOf(First.subWith) \cup {Fold[w]}
    BY <1>2, <1>3, <1>4, <1>T, WithAppended DEF BranchInScope
<1>6. sub \subseteq Names /\ Lower(sub) \subseteq Relations \cup NamesOf(subWith) \cup outer
    <2>1. w \in Names /\ Lower(First.sub) \subseteq Relations \cup NamesOf(First.subWith) \cup outer
        BY <1>2 DEF BranchInScope, Names
    <2> HIDE DEF subWith
    <2> QED
        BY <1>3, <1>5, <2>1 DEF Lower
<1> HIDE DEF sub
<1>7. s = [targets |-> First.targets, reads |-> First.reads, sub |-> sub,
           subWith |-> subWith, ordered |-> First.ordered]
    <2> DEFINE t == [First EXCEPT !.sub = sub]
    <2>1. t = [targets |-> First.targets, reads |-> First.reads, sub |-> sub,
               subWith |-> First.subWith, ordered |-> First.ordered]
        BY <1>3
    <2>2. s = [t EXCEPT !.subWith = Append(t.subWith, Cte(w, n, targets))]
        OBVIOUS
    <2> HIDE DEF t
    <2>3. t.subWith = First.subWith
        BY <2>1
    <2>4. s = [t EXCEPT !.subWith = subWith]
        BY <2>2, <2>3
    <2> HIDE DEF s, subWith
    <2> QED
        BY <2>1, <2>4
<1> HIDE DEF s, subWith
<1>8. /\ s \in Branches
      /\ s.reads = First.reads /\ s.sub = sub /\ s.subWith = subWith
    BY <1>3, <1>5, <1>6, <1>7 DEF Branches
<1>9. BranchInScope(s, outer)
    BY <1>2, <1>5, <1>6, <1>8 DEF BranchInScope
<1> HIDE DEF outer
<1> QED
    BY <1>1, <1>8, <1>9, FirstChanged DEF outer

LEMMA ValidInit ==
    ASSUME OriginalsAreValid, Init
    PROVE  ValidStatements /\ NestedIfMeant
<1>1. dialect \in Dialects /\ original \in Originals /\ candidate = original
    BY DEF Init
<1>2. dialect # "mysql" => dialect = "postgres"
    BY <1>1, DialectAssumption
<1> QED
    BY <1>1, <1>2 DEF OriginalsAreValid, ValidStatements, NestedIfMeant, NothingNested

LEMMA ValidStep ==
    ASSUME ValidStatements, NestedIfMeant, [Next]_vars
    PROVE  ValidStatements' /\ NestedIfMeant'
<1>1. CASE UNCHANGED vars
    BY <1>1 DEF vars, ValidStatements, NestedIfMeant
<1>2. CASE Next
    <2>1. UNCHANGED <<dialect, original>>
        BY <1>2 DEF Next, Rename, RespellColumn, AddColumn, DropColumn, Respell, Join, Remove,
                    IntoSubquery, AddBranch, Extract, Nest, OrderFirst, OrderWhole, Edit
    <2>2. <<Star>> \in Seq(Targets) /\ First.targets \in Seq(Targets)
        BY FieldsOfFirst, StarIsTarget DEF ValidStatements
    <2>3. Kept \/ (Valid(candidate') /\ "nest" \in Edits[dialect])
        BY <1>2, <2>2, EditOfColumnsKeeps, EditOfTablesKeeps, AddBranchKeeps, ExtractKeeps,
           NestIsValid, OrderFirstKeeps, OrderWholeKeeps DEF Next, ValidStatements
    <2>4. dialect # "mysql" => dialect = "postgres"
        BY DialectAssumption DEF ValidStatements
    <2> QED
        BY <2>1, <2>3, <2>4 DEF Kept, ValidStatements, NestedIfMeant, NothingNested
<1> QED
    BY <1>1, <1>2

LEMMA AlwaysValid ==
    ASSUME OriginalsAreValid
    PROVE  Spec => [](ValidStatements /\ NestedIfMeant)
<1>1. Init => ValidStatements /\ NestedIfMeant
    BY ValidInit
<1>2. (ValidStatements /\ NestedIfMeant) /\ [Next]_vars
          => (ValidStatements /\ NestedIfMeant)'
    BY ValidStep
<1> QED
    BY <1>1, <1>2, PTL DEF Spec

--------------------------------------------------------------------------------

\* SameShapeAs (sqlparse.go:152): for any statements, and a rewrite of any length, nested
\* WITHs included, what passes the gate reads the relations of the original, no other and
\* no fewer, if no WITH bears the name of a relation.
THEOREM TablesAreKept ==
    ASSUME SeparateNames, OriginalsAreValid
    PROVE  Spec => []GateKeepsTables
<1>1. ValidStatements => GateKeepsTables
    <2>1. ASSUME ValidStatements, SameShapeAs(original, candidate)
          PROVE  RealTables(original) = RealTables(candidate)
        <3>1. Tables(original) = Tables(candidate)
            BY <2>1 DEF SameShapeAs, SameTables
        <3> QED
            BY <2>1, <3>1, TablesAreRead DEF ValidStatements
    <2> QED
        BY <2>1 DEF GateKeepsTables
<1> QED
    BY <1>1, AlwaysValid, PTL

\* Parse and ParseMySQL (sqlparse.go:81, mysql.go:29): for any statements every table
\* collected is a relation the database reads, so that introspection finds it, whatever
\* the names of WITHs, unless a rewrite for PostgreSQL nests one.
THEOREM CollectedAreReal ==
    ASSUME OriginalsAreValid, NothingNested
    PROVE  Spec => []CollectedExist
<1>1. ValidStatements /\ NestedIfMeant => CollectedExist
    BY CollectedIsRead DEF ValidStatements, Valid, NestedIfMeant, CollectedExist
<1> QED
    BY <1>1, AlwaysValid, PTL

\* SameShapeAs (sqlparse.go:152): for any statements the gate refuses no rewrite that only
\* moves relations into subqueries and WITHs or spells names differently, unless one for
\* PostgreSQL nests a WITH, or one of the two is a WITH on a UNION for MySQL, whose columns
\* the visitor takes from the SELECT in the WITH.
THEOREM RestructuringIsPassed ==
    ASSUME SeparateNames, OriginalsAreValid, NothingNested
    PROVE  Spec => []RestructuringPasses
<1>1. ASSUME ValidStatements, NestedIfMeant
      PROVE  RestructuringPasses
    <2>1. /\ Tables(original) = RealTables(original)
          /\ Tables(candidate) = RealTables(candidate)
        BY <1>1, OnlyTablesCollected DEF ValidStatements, NestedIfMeant
    <2>2. \A a, b : a = b \/ (a \in Columns /\ b \in Columns /\ Fold[a] = Fold[b])
                        => SameName(a, b)
        BY DEF SameName
    <2>3. ASSUME NEW st, ~TopIsOfWith(st)
          PROVE  OutputCols(st) = Produced(st)
        BY <2>3 DEF OutputCols, Top, Produced
    <2>4. ASSUME ~TopIsOfWith(original), ~TopIsOfWith(candidate),
                 SpeltAlike(Produced(original), Produced(candidate))
          PROVE  SameColumns(original, candidate)
        BY <2>2, <2>3, <2>4 DEF SpeltAlike, SameColumns
    <2> QED
        BY <2>1, <2>4 DEF RestructuringPasses, SameShapeAs, SameTables
<1>2. ValidStatements /\ NestedIfMeant => RestructuringPasses
    BY <1>1
<1> QED
    BY <1>2, AlwaysValid, PTL
================================================================================
