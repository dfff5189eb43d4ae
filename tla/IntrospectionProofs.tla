--------------------------- MODULE IntrospectionProofs ---------------------------
(***************************************************************************)
(* Proofs about the reading of the catalogue, for any catalogues, names and *)
(* number of changes.                                                       *)
(***************************************************************************)
EXTENDS Introspection, FiniteSetTheorems, SequenceTheorems, TLAPS

\* An index whose leading part is printed in a way indexColumns undoes: alone, or with one
\* suffix behind it.  What is printed as "a DESC NULLS LAST" keeps a suffix.
Suffixes == {"DESC", "ASC", "NULLS FIRST", "NULLS LAST"}
LeadsReadably(i) ==
    \/ Len(i.parts[1]) = 1
    \/ Len(i.parts[1]) = 2 /\ i.parts[1][2] \in Suffixes

\* For MySQL, an index that leads with an expression has no part that is a column: its
\* first column would be taken for the leading one.
LeadsAsKept(i) ==
    i.parts[1][1] \in Expressions =>
        \A m \in DOMAIN i.parts : i.parts[m][1] \in Expressions

Readable == \A c \in Catalogs : \A r \in c : \A i \in r.indexes : LeadsReadably(i)
KeptReadably == \A c \in Catalogs : \A r \in c : \A i \in r.indexes : LeadsAsKept(i)

--------------------------------------------------------------------------------
(* The part an index leads with. *)

\* A part is a nonempty sequence of strings.
LEMMA PartsAreSequences ==
    ASSUME NEW c \in Catalogs, NEW r \in c, NEW i \in r.indexes
    PROVE  /\ DOMAIN i.parts = 1 .. Len(i.parts) /\ Len(i.parts) \in Nat \ {0}
           /\ \A m \in DOMAIN i.parts :
                 /\ i.parts[m] \in Seq(STRING)
                 /\ DOMAIN i.parts[m] = 1 .. Len(i.parts[m])
                 /\ Len(i.parts[m]) \in Nat \ {0}
<1>1. i.parts \in Seq(Seq(STRING) \ {<<>>}) /\ i.parts # <<>>
    BY CatalogsAssumption
<1>2. DOMAIN i.parts = 1 .. Len(i.parts) /\ Len(i.parts) \in Nat
      /\ \A m \in 1 .. Len(i.parts) : i.parts[m] \in Seq(STRING) \ {<<>>}
    BY <1>1
<1>3. Len(i.parts) # 0
    BY <1>1, <1>2
<1>4. ASSUME NEW p \in Seq(STRING), p # <<>>
      PROVE  DOMAIN p = 1 .. Len(p) /\ Len(p) \in Nat \ {0}
    BY <1>4
<1> QED
    BY <1>2, <1>3, <1>4

\* What indexColumns makes of a part with at most one suffix: the column alone.
LEMMA OneSuffixIsCutOff ==
    ASSUME NEW p \in Seq(STRING),
           \/ Len(p) = 1
           \/ Len(p) = 2 /\ p[2] \in Suffixes
    PROVE  IndexColumn(p) = <<p[1]>>
<1>0. ASSUME NEW q \in Seq(STRING), Len(q) = 1
      PROVE  q = <<q[1]>>
    BY <1>0
<1>1. ASSUME NEW q \in Seq(STRING), Len(q) = 1, NEW x
      PROVE  Without(q, x) = q
    BY <1>1 DEF Without
<1>2. ASSUME NEW q \in Seq(STRING), Len(q) = 2, NEW x
      PROVE  Without(q, x) = IF q[2] = x THEN <<q[1]>> ELSE q
    <2>1. /\ SubSeq(q, 1, 1) \in Seq(STRING) /\ Len(SubSeq(q, 1, 1)) = 1
          /\ SubSeq(q, 1, 1)[1] = q[1]
        BY <1>2, SubSeqProperties
    <2>2. SubSeq(q, 1, 1) = <<q[1]>>
        BY <1>0, <2>1
    <2>3. Len(q) > 1 /\ Len(q) - 1 = 1
        BY <1>2
    <2> QED
        BY <1>2, <2>2, <2>3 DEF Without
<1>3. CASE Len(p) = 1
    <2>1. p = <<p[1]>>
        BY <1>0, <1>3
    <2> QED
        BY <1>1, <1>3, <2>1 DEF IndexColumn
<1>4. CASE Len(p) = 2 /\ p[2] \in Suffixes
    <2>1. <<p[1]>> \in Seq(STRING) /\ Len(<<p[1]>>) = 1
        BY <1>4
    <2>2. \A x : Without(<<p[1]>>, x) = <<p[1]>>
        BY <1>1, <2>1
    <2>3. \A x : Without(p, x) = IF p[2] = x THEN <<p[1]>> ELSE p
        BY <1>2, <1>4
    <2> QED
        BY <1>4, <2>2, <2>3 DEF IndexColumn, Suffixes
<1> QED
    BY <1>3, <1>4

\* The first part leads the index, if it is kept.
LEMMA FirstPartLeads ==
    ASSUME NEW c \in Catalogs, NEW r \in c, NEW i \in r.indexes, LeadsReadably(i),
           engine = "mysql" => i.parts[1][1] \notin Expressions
    PROVE  Lead(i) = {<<i.parts[1][1]>>}
<1>1. DOMAIN i.parts = 1 .. Len(i.parts) /\ Len(i.parts) \in Nat \ {0}
    BY PartsAreSequences
<1>2. 1 \in Kept(i) /\ Kept(i) \subseteq Nat \ {0}
    BY <1>1 DEF Kept
<1>3. {m \in Kept(i) : \A l \in Kept(i) : m <= l} = {1}
    BY <1>2
<1>4. Held(i.parts[1]) = <<i.parts[1][1]>>
    <2>1. i.parts[1] \in Seq(STRING)
        BY PartsAreSequences, <1>1
    <2> QED
        BY <2>1, OneSuffixIsCutOff DEF Held, LeadsReadably
<1> QED
    BY <1>3, <1>4 DEF Lead

\* Of an index that has only expressions MySQL tells nothing.
LEMMA ExpressionsLeadNothing ==
    ASSUME NEW i, engine = "mysql",
           \A m \in DOMAIN i.parts : i.parts[m][1] \in Expressions
    PROVE  Lead(i) = {}
BY DEF Lead, Kept

--------------------------------------------------------------------------------
(* What was there all the time. *)

\* A relation the statement may mean, wherever the catalogue is at.
Wanted(r) ==
    /\ r.name \in Requested /\ (engine = "mysql" => r.schema = Current) /\ Stayed(r)
    /\ engine = "postgres" => r.schema \notin SystemSchemas

InList(r) ==
    pc \in {"columns", "indexes", "done"} /\ (engine = "mysql" \/ r.kind = "table") =>
        Fold[r.name] \in DOMAIN byName
WithColumns(r) ==
    pc \in {"indexes", "done"} =>
        /\ Fold[r.name] \in DOMAIN byName
        /\ \A k \in r.cols : HadColumn(r, k) => k \in byName[Fold[r.name]].cols
WithIndexes(r) ==
    pc = "done" => \A i \in r.indexes :
        HadIndex(r, i) /\ i.parts[1][1] \notin Expressions =>
            <<i.parts[1][1]>> \in Leads(byName[Fold[r.name]])

PastIsPast == catalog \in past /\ past \subseteq Catalogs
Tables == \A n \in DOMAIN byName :
    byName[n] = [rows |-> byName[n].rows, cols |-> byName[n].cols,
                 indexes |-> byName[n].indexes, distinct |-> byName[n].distinct]

\* The inductive invariant.
Read ==
    /\ PastIsPast /\ Tables
    /\ \A r \in UNION Catalogs :
          Wanted(r) => InList(r) /\ WithColumns(r) /\ WithIndexes(r)

\* A relation that stayed is in the catalogue a query finds.
LEMMA StayedIsFound ==
    ASSUME PastIsPast, NEW r, Wanted(r)
    PROVE  \E s \in Asked :
               /\ s \in Was(catalog, r)
               /\ Fold[s.name] = Fold[r.name] /\ s.kind = r.kind
               /\ s \in NamedIn(Asked, Fold[r.name])
               /\ s \in Described /\ s \in NamedIn(Described, Fold[r.name])
               /\ engine = "mysql" \/ r.kind = "table" => s \in Listed
<1>1. PICK s \in Was(catalog, r) : TRUE
    BY DEF PastIsPast, Wanted, Stayed
<1>2. s \in catalog /\ s.name = r.name /\ s.schema = r.schema /\ s.kind = r.kind
    BY <1>1 DEF Was
<1>3. s \in Asked
    BY <1>2 DEF Wanted, Asked
<1> QED
    BY <1>1, <1>2, <1>3 DEF Listed, NamedIn, Described, Wanted

LEMMA ReadInit == Init => Read
BY DEF Init, Read, PastIsPast, Tables, Wanted, InList, WithColumns, WithIndexes

\* What has stayed had stayed before.
LEMMA AlterKeepsRead ==
    ASSUME Read, Alter
    PROVE  Read'
<1>1. /\ PastIsPast' /\ past \subseteq past'
      /\ engine' = engine /\ pc' = pc /\ byName' = byName
    BY DEF Alter, Read, PastIsPast
<1>2. Tables'
    BY <1>1 DEF Read, Tables
<1>3. ASSUME NEW r \in UNION Catalogs, Wanted(r)'
      PROVE  InList(r)' /\ WithColumns(r)' /\ WithIndexes(r)'
    <2>1. Wanted(r)
        BY <1>1, <1>3 DEF Wanted, Stayed, Was
    <2>2. \A k : HadColumn(r, k)' => HadColumn(r, k)
        BY <1>1 DEF HadColumn, Was
    <2>3. \A i : HadIndex(r, i)' => HadIndex(r, i)
        BY <1>1 DEF HadIndex, Was
    <2>4. InList(r) /\ WithColumns(r) /\ WithIndexes(r)
        BY <2>1 DEF Read
    <2>5. InList(r)'
        BY <1>1, <2>4 DEF InList
    <2>6. WithColumns(r)'
        BY <1>1, <2>2, <2>4 DEF WithColumns
    <2>7. WithIndexes(r)'
        BY <1>1, <2>3, <2>4 DEF WithIndexes, Leads
    <2> QED
        BY <2>5, <2>6, <2>7
<1> QED
    BY <1>1, <1>2, <1>3 DEF Read

\* While nothing changes, neither does what has stayed.
LEMMA StayedStays ==
    ASSUME UNCHANGED <<engine, catalog, past>>, NEW r
    PROVE  /\ Wanted(r)' <=> Wanted(r)
           /\ \A k : HadColumn(r, k)' <=> HadColumn(r, k)
           /\ \A i : HadIndex(r, i)' <=> HadIndex(r, i)
BY DEF Wanted, Stayed, HadColumn, HadIndex, Was

LEMMA ReadTablesKeepsRead ==
    ASSUME Read, ReadTables
    PROVE  Read'
<1>1. UNCHANGED <<engine, catalog, past>> /\ DOMAIN byName' = Names(Listed)
      /\ \A n \in DOMAIN byName' : \E k : byName'[n] = Entry(k)
      /\ pc' = IF engine = "mysql" /\ Listed = {} THEN "done" ELSE "columns"
    BY DEF ReadTables
<1>2. PastIsPast'
    BY <1>1 DEF Read, PastIsPast
<1>3. Tables'
    BY <1>1 DEF Tables, Entry
<1>4. ASSUME NEW r \in UNION Catalogs, Wanted(r)'
      PROVE  InList(r)' /\ WithColumns(r)' /\ WithIndexes(r)'
    <2>1. Wanted(r)
        BY <1>1, <1>4, StayedStays
    <2>2. PICK s \in Asked :
              /\ Fold[s.name] = Fold[r.name]
              /\ engine = "mysql" \/ r.kind = "table" => s \in Listed
        BY <2>1, StayedIsFound DEF Read
    <2>3. pc' = "columns"
        <3>1. engine = "mysql" => Listed # {}
            BY <2>2
        <3> QED
            BY <3>1 DEF ReadTables
    <2>4. engine = "mysql" \/ r.kind = "table" => Fold[r.name] \in DOMAIN byName'
        <3>1. \A t \in Listed : Fold[t.name] \in Names(Listed)
            BY DEF Names
        <3>2. DOMAIN byName' = Names(Listed)
            BY <1>1
        <3> QED
            BY <2>2, <3>1, <3>2
    <2> QED
        BY <1>1, <2>3, <2>4 DEF InList, WithColumns, WithIndexes
<1> QED
    BY <1>2, <1>3, <1>4 DEF Read

\* A table keeps its rows and gets its columns; a table of a view is made on the way.
LEMMA ReadColumnsEffect ==
    ASSUME Tables, ReadColumns, NEW n \in Known
    PROVE  /\ byName'[n] = [rows |-> byName'[n].rows, cols |-> byName'[n].cols,
                  indexes |-> byName'[n].indexes, distinct |-> byName'[n].distinct]
           /\ byName'[n].cols = UNION {r.cols : r \in NamedIn(Described, n)}
           /\ byName'[n].rows = IF n \in DOMAIN byName THEN byName[n].rows ELSE 0
<1> DEFINE e == IF n \in DOMAIN byName THEN byName[n] ELSE Entry(0)
           C == UNION {r.cols : r \in NamedIn(Described, n)}
           D == Analyzed(NamedIn(Described, n))
<1>1. byName'[n] = [e EXCEPT !.cols = C, !.distinct = D]
    BY DEF ReadColumns
<1>2. e = [rows |-> e.rows, cols |-> e.cols, indexes |-> e.indexes,
           distinct |-> e.distinct]
    BY DEF Tables, Entry
<1>3. e.rows = IF n \in DOMAIN byName THEN byName[n].rows ELSE 0
    BY DEF Entry
<1> HIDE DEF e, C, D
<1>4. byName'[n] = [rows |-> e.rows, cols |-> C, indexes |-> e.indexes, distinct |-> D]
    BY <1>1, <1>2
<1>5. /\ byName'[n].rows = e.rows /\ byName'[n].cols = C
      /\ byName'[n].indexes = e.indexes /\ byName'[n].distinct = D
    BY <1>4
<1> QED
    BY <1>3, <1>4, <1>5 DEF C

LEMMA ReadColumnsKeepsRead ==
    ASSUME Read, ReadColumns
    PROVE  Read'
<1>1. /\ UNCHANGED <<engine, catalog, past>> /\ DOMAIN byName' = Known
      /\ pc = "columns" /\ pc' = "indexes"
    BY DEF ReadColumns
<1>2. ASSUME NEW n \in Known
      PROVE  /\ byName'[n] = [rows |-> byName'[n].rows, cols |-> byName'[n].cols,
                    indexes |-> byName'[n].indexes, distinct |-> byName'[n].distinct]
             /\ byName'[n].cols = UNION {r.cols : r \in NamedIn(Described, n)}
    BY ReadColumnsEffect DEF Read
<1>3. PastIsPast'
    BY <1>1 DEF Read, PastIsPast
<1>4. Tables'
    BY <1>1, <1>2 DEF Tables
<1>5. ASSUME NEW r \in UNION Catalogs, Wanted(r)'
      PROVE  InList(r)' /\ WithColumns(r)' /\ WithIndexes(r)'
    <2>1. Wanted(r)
        BY <1>1, <1>5, StayedStays
    <2>2. PICK s \in Asked :
              /\ s \in Was(catalog, r) /\ Fold[s.name] = Fold[r.name] /\ s.kind = r.kind
              /\ s \in Described /\ s \in NamedIn(Described, Fold[r.name])
        BY <2>1, StayedIsFound DEF Read
    <2>3. Fold[r.name] \in DOMAIN byName'
        <3>1. CASE engine = "mysql"
            BY <1>1, <2>1, <3>1 DEF Read, InList, Known
        <3>2. CASE engine # "mysql"
            BY <1>1, <2>2, <3>2 DEF Known, Names
        <3> QED
            BY <3>1, <3>2
    <2>4. ASSUME NEW k \in r.cols, HadColumn(r, k)
          PROVE  k \in byName'[Fold[r.name]].cols
        <3>1. k \in s.cols
            BY <2>2, <2>4 DEF HadColumn, Read, PastIsPast
        <3> QED
            BY <1>1, <1>2, <2>2, <2>3, <3>1
    <2>5. WithColumns(r)'
        BY <1>1, <2>3, <2>4, StayedStays DEF WithColumns
    <2> QED
        BY <1>1, <2>3, <2>5 DEF InList, WithIndexes
<1> QED
    BY <1>3, <1>4, <1>5 DEF Read

\* A table keeps its rows and columns and gets the indexes of all relations of its name.
LEMMA ReadIndexesEffect ==
    ASSUME Tables, ReadIndexes, NEW n \in DOMAIN byName
    PROVE  /\ byName'[n] = [rows |-> byName'[n].rows, cols |-> byName'[n].cols,
                  indexes |-> byName'[n].indexes, distinct |-> byName'[n].distinct]
           /\ byName'[n].rows = byName[n].rows /\ byName'[n].cols = byName[n].cols
           /\ byName'[n].indexes =
                 UNION {{[name |-> i.name, lead |-> Lead(i)] : i \in r.indexes}
                           : r \in NamedIn(Asked, n)}
<1> DEFINE e == byName[n]
           I == UNION {{[name |-> i.name, lead |-> Lead(i)] : i \in r.indexes}
                          : r \in NamedIn(Asked, n)}
           D == e.distinct \cup (Cardinalities(NamedIn(Asked, n)) \cap e.cols)
<1>1. byName'[n] = [e EXCEPT !.indexes = I, !.distinct = D]
    BY DEF ReadIndexes, Owners
<1>2. e = [rows |-> e.rows, cols |-> e.cols, indexes |-> e.indexes,
           distinct |-> e.distinct]
    BY DEF Tables
<1> HIDE DEF e, I, D
<1>3. byName'[n] = [rows |-> e.rows, cols |-> e.cols, indexes |-> I, distinct |-> D]
    BY <1>1, <1>2
<1>4. /\ byName'[n].rows = e.rows /\ byName'[n].cols = e.cols
      /\ byName'[n].indexes = I /\ byName'[n].distinct = D
    BY <1>3
<1> QED
    BY <1>3, <1>4 DEF e, I

LEMMA ReadIndexesKeepsRead ==
    ASSUME Readable, Read, ReadIndexes
    PROVE  Read'
<1>1. /\ UNCHANGED <<engine, catalog, past>> /\ DOMAIN byName' = DOMAIN byName
      /\ pc = "indexes" /\ pc' = "done"
    BY DEF ReadIndexes
<1>2. PastIsPast'
    BY <1>1 DEF Read, PastIsPast
<1>3. Tables'
    BY <1>1, ReadIndexesEffect DEF Read, Tables
<1>4. ASSUME NEW r \in UNION Catalogs, Wanted(r)'
      PROVE  InList(r)' /\ WithColumns(r)' /\ WithIndexes(r)'
    <2>1. Wanted(r)
        BY <1>1, <1>4, StayedStays
    <2>2. PICK s \in Asked : s \in Was(catalog, r) /\ s \in NamedIn(Asked, Fold[r.name])
        BY <2>1, StayedIsFound DEF Read
    <2>3. /\ Fold[r.name] \in DOMAIN byName
          /\ \A k \in r.cols : HadColumn(r, k) => k \in byName[Fold[r.name]].cols
        BY <1>1, <2>1 DEF Read, WithColumns
    <2>4. ASSUME NEW i \in r.indexes, HadIndex(r, i), i.parts[1][1] \notin Expressions
          PROVE  <<i.parts[1][1]>> \in Leads(byName[Fold[r.name]])'
        <3>1. i \in s.indexes
            BY <2>2, <2>4 DEF HadIndex, Read, PastIsPast
        <3>2. Lead(i) = {<<i.parts[1][1]>>}
            BY <2>4, FirstPartLeads DEF Readable
        <3>3. [name |-> i.name, lead |-> Lead(i)] \in byName'[Fold[r.name]].indexes
            <4>1. byName'[Fold[r.name]].indexes =
                     UNION {{[name |-> j.name, lead |-> Lead(j)] : j \in t.indexes}
                               : t \in NamedIn(Asked, Fold[r.name])}
                BY <2>3, ReadIndexesEffect DEF Read
            <4>2. [name |-> i.name, lead |-> Lead(i)]
                     \in {[name |-> j.name, lead |-> Lead(j)] : j \in s.indexes}
                BY <3>1
            <4> QED
                BY <2>2, <4>1, <4>2
        <3>4. Lead(i) \subseteq UNION {x.lead : x \in byName'[Fold[r.name]].indexes}
            BY <3>3
        <3> QED
            BY <3>2, <3>4 DEF Leads
    <2>5. WithIndexes(r)'
        BY <1>1, <2>4, StayedStays DEF WithIndexes
    <2>6. WithColumns(r)'
        BY <1>1, <2>3, ReadIndexesEffect, StayedStays DEF Read, WithColumns
    <2> QED
        BY <1>1, <2>3, <2>5, <2>6 DEF InList
<1> QED
    BY <1>2, <1>3, <1>4 DEF Read

LEMMA FailKeepsRead ==
    ASSUME Read, Fail
    PROVE  Read'
<1>1. UNCHANGED <<engine, catalog, past, byName>> /\ pc' = "error"
    BY DEF Fail
<1>2. PastIsPast' /\ Tables'
    BY <1>1 DEF Read, PastIsPast, Tables
<1> QED
    BY <1>1, <1>2 DEF Read, InList, WithColumns, WithIndexes

LEMMA ReadStep ==
    ASSUME Readable, Read, [Next]_vars
    PROVE  Read'
<1>1. CASE Next
    BY <1>1, AlterKeepsRead, ReadTablesKeepsRead, ReadColumnsKeepsRead,
       ReadIndexesKeepsRead, FailKeepsRead DEF Next
<1>2. CASE UNCHANGED vars
    <2>1. UNCHANGED <<engine, catalog, past, pc, byName>>
        BY <1>2 DEF vars
    <2>2. \A r : InList(r)' = InList(r) /\ WithColumns(r)' = WithColumns(r)
                 /\ WithIndexes(r)' = WithIndexes(r) /\ Wanted(r)' = Wanted(r)
        BY <2>1 DEF InList, WithColumns, WithIndexes, Wanted, Stayed, HadColumn, HadIndex,
                    Was, Leads
    <2> QED
        BY <2>1, <2>2 DEF Read, PastIsPast, Tables
<1> QED
    BY <1>1, <1>2

LEMMA ReadIsStable ==
    ASSUME Read
    PROVE  StableFactsAreRead
<1>1. ASSUME Done, NEW r \in Described, Stayed(r)
      PROVE  LET n == Fold[r.name] IN
             /\ n \in DOMAIN byName
             /\ \A k \in r.cols : HadColumn(r, k) => k \in byName[n].cols
             /\ \A i \in r.indexes : HadIndex(r, i) /\ i.parts[1][1] \notin Expressions =>
                   <<i.parts[1][1]>> \in Leads(byName[n])
    <2>1. r \in UNION Catalogs /\ Wanted(r)
        BY <1>1 DEF Read, PastIsPast, Described, Asked, Wanted
    <2>2. WithColumns(r) /\ WithIndexes(r)
        BY <2>1 DEF Read
    <2> QED
        BY <1>1, <2>2 DEF Done, WithColumns, WithIndexes
<1> QED
    BY <1>1 DEF StableFactsAreRead

\* Introspect (postgres.go:90, mysql.go:132): what is there all the time the catalogue is
\* read is in the schema, for any catalogues and any changes between the queries, if
\* indexColumns undoes how the leading part of each index is printed.
THEOREM StableFactsRead ==
    ASSUME Readable
    PROVE  Spec => []StableFactsAreRead
<1>1. Read /\ [Next]_vars => Read'
    BY ReadStep
<1>2. Read => StableFactsAreRead
    BY ReadIsStable
<1> QED
    BY ReadInit, <1>1, <1>2, PTL DEF Spec

--------------------------------------------------------------------------------
(* A catalogue nobody changes. *)

\* The inductive invariant: what each query has found of the one catalogue there was.
RowsOfOne(n) == \E s \in NamedIn(Asked, n) : byName[n].rows = RowEstimate(s)
ColumnsOfAll(n) == byName[n].cols = UNION {s.cols : s \in NamedIn(Described, n)}
IndexesOfAll(n) == byName[n].indexes =
    UNION {{[name |-> i.name, lead |-> Lead(i)] : i \in s.indexes} : s \in NamedIn(Asked, n)}
ExactSoFar ==
    /\ PastIsPast /\ Tables
    /\ past = {catalog} =>
          /\ pc \in {"columns", "indexes", "done"} => \A n \in DOMAIN byName : RowsOfOne(n)
          /\ pc = "columns" => DOMAIN byName = Names(Listed)
          /\ pc \in {"indexes", "done"} => \A n \in DOMAIN byName : ColumnsOfAll(n)
          /\ pc = "done" => \A n \in DOMAIN byName : IndexesOfAll(n)

LEMMA FindingsOfTheSame ==
    ASSUME UNCHANGED <<engine, catalog>>
    PROVE  /\ Names(Listed)' = Names(Listed)
           /\ \A n : NamedIn(Asked, n)' = NamedIn(Asked, n)
           /\ \A n : NamedIn(Described, n)' = NamedIn(Described, n)
           /\ \A i : Lead(i)' = Lead(i)
BY DEF Names, Listed, Asked, Described, NamedIn, Lead, Kept, Held

LEMMA SameFindings ==
    ASSUME UNCHANGED <<engine, catalog, byName>>, NEW n
    PROVE  /\ RowsOfOne(n)' <=> RowsOfOne(n)
           /\ ColumnsOfAll(n)' <=> ColumnsOfAll(n)
           /\ IndexesOfAll(n)' <=> IndexesOfAll(n)
<1>1. RowsOfOne(n)' <=> RowsOfOne(n)
    BY FindingsOfTheSame DEF RowsOfOne, RowEstimate
<1>2. ColumnsOfAll(n)' <=> ColumnsOfAll(n)
    BY FindingsOfTheSame DEF ColumnsOfAll
<1>3. IndexesOfAll(n)' <=> IndexesOfAll(n)
    BY FindingsOfTheSame DEF IndexesOfAll
<1> QED
    BY <1>1, <1>2, <1>3

LEMMA ExactInit == Init => ExactSoFar
BY DEF Init, ExactSoFar, PastIsPast, Tables

\* Who leaves the past alone has left the catalogue alone.
LEMMA AlterKeepsExact ==
    ASSUME ExactSoFar, Alter
    PROVE  ExactSoFar'
<1>1. /\ PastIsPast' /\ past' = past \cup {catalog'}
      /\ engine' = engine /\ pc' = pc /\ byName' = byName
    BY DEF Alter, ExactSoFar, PastIsPast
<1>2. Tables'
    BY <1>1 DEF ExactSoFar, Tables
<1>3. CASE past' # {catalog'}
    BY <1>1, <1>2, <1>3 DEF ExactSoFar
<1>4. CASE past' = {catalog'}
    <2>1. catalog' = catalog /\ past = {catalog}
        BY <1>1, <1>4 DEF ExactSoFar, PastIsPast
    <2> QED
        BY <1>1, <1>2, <2>1, SameFindings, FindingsOfTheSame DEF ExactSoFar
<1> QED
    BY <1>3, <1>4

LEMMA ReadTablesKeepsExact ==
    ASSUME ExactSoFar, ReadTables
    PROVE  ExactSoFar'
<1>1. UNCHANGED <<engine, catalog, past>>
    BY DEF ReadTables
<1>2. PICK chosen \in [Names(Listed) -> Listed] :
          /\ \A n \in Names(Listed) : Fold[chosen[n].name] = n
          /\ byName' = [n \in Names(Listed) |-> Entry(RowEstimate(chosen[n]))]
    BY DEF ReadTables
<1>3. DOMAIN byName' = Names(Listed) /\ Names(Listed)' = Names(Listed)
    BY <1>1, <1>2 DEF Names, Listed, Asked
<1>4. ASSUME NEW n \in DOMAIN byName'
      PROVE  /\ RowsOfOne(n)'
             /\ byName'[n] = [rows |-> byName'[n].rows, cols |-> byName'[n].cols,
                    indexes |-> byName'[n].indexes, distinct |-> byName'[n].distinct]
    <2>1. byName'[n] = Entry(RowEstimate(chosen[n])) /\ chosen[n] \in Listed
          /\ Fold[chosen[n].name] = n
        BY <1>2, <1>3, <1>4
    <2>2. chosen[n] \in NamedIn(Asked, n)
        BY <2>1 DEF NamedIn, Listed
    <2>3. NamedIn(Asked, n)' = NamedIn(Asked, n)
        BY <1>1 DEF NamedIn, Asked
    <2>4. byName'[n].rows = RowEstimate(chosen[n])
        BY <2>1 DEF Entry
    <2> QED
        BY <2>1, <2>2, <2>3, <2>4 DEF RowsOfOne, Entry, RowEstimate
<1>5. Tables'
    BY <1>4 DEF Tables
<1>6. PastIsPast'
    BY <1>1 DEF ExactSoFar, PastIsPast
<1>7. CASE engine = "mysql" /\ Listed = {}
    <2>1. DOMAIN byName' = {} /\ pc' = "done"
        BY <1>3, <1>7 DEF Names, ReadTables
    <2> QED
        BY <1>5, <1>6, <2>1 DEF ExactSoFar
<1>8. CASE ~ (engine = "mysql" /\ Listed = {})
    <2>1. pc' = "columns"
        BY <1>8 DEF ReadTables
    <2> QED
        BY <1>3, <1>4, <1>5, <1>6, <2>1 DEF ExactSoFar
<1> QED
    BY <1>7, <1>8

LEMMA ReadColumnsKeepsExact ==
    ASSUME ExactSoFar, ReadColumns
    PROVE  ExactSoFar'
<1>1. /\ UNCHANGED <<engine, catalog, past>> /\ DOMAIN byName' = Known
      /\ pc = "columns" /\ pc' = "indexes"
    BY DEF ReadColumns
<1>2. PastIsPast'
    BY <1>1 DEF ExactSoFar, PastIsPast
<1>3. Tables'
    BY <1>1, ReadColumnsEffect DEF ExactSoFar, Tables
<1>4. /\ \A n : NamedIn(Asked, n)' = NamedIn(Asked, n)
      /\ \A n : NamedIn(Described, n)' = NamedIn(Described, n)
    BY <1>1, FindingsOfTheSame
<1>5. ASSUME past = {catalog}, NEW n \in DOMAIN byName'
      PROVE  RowsOfOne(n)' /\ ColumnsOfAll(n)'
    <2>1. ColumnsOfAll(n)'
        BY <1>1, <1>4, <1>5, ReadColumnsEffect DEF ExactSoFar, ColumnsOfAll
    <2>2. byName'[n].rows = IF n \in DOMAIN byName THEN byName[n].rows ELSE 0
        BY <1>1, <1>5, ReadColumnsEffect DEF ExactSoFar
    <2>3. CASE n \in DOMAIN byName
        <3>1. PICK s \in NamedIn(Asked, n) : byName[n].rows = RowEstimate(s)
            BY <1>1, <1>5, <2>3 DEF ExactSoFar, RowsOfOne
        <3>2. byName'[n].rows = RowEstimate(s)
            BY <2>2, <2>3, <3>1
        <3> QED
            BY <1>4, <2>1, <3>2 DEF RowsOfOne, RowEstimate
    <2>4. CASE n \notin DOMAIN byName
        <3>1. engine # "mysql" /\ n \in Names(Described) /\ n \notin Names(Listed)
            BY <1>1, <1>5, <2>4 DEF ExactSoFar, Known
        <3>2. PICK s \in Asked : Fold[s.name] = n
            BY <3>1 DEF Names, Described
        <3>3. s \notin Listed
            BY <3>1, <3>2 DEF Names
        <3>4. s.kind # "table"
            BY <3>2, <3>3 DEF Listed
        <3>5. s.kind \in {"table", "view"}
            BY CatalogsAssumption DEF ExactSoFar, PastIsPast, Asked, Kinds
        <3>6. RowEstimate(s) = 0
            BY <3>4, <3>5 DEF RowEstimate
        <3>7. s \in NamedIn(Asked, n)
            BY <3>2 DEF NamedIn
        <3> QED
            <4>1. byName'[n].rows = RowEstimate(s)
                BY <2>2, <2>4, <3>6
            <4> QED
                BY <1>4, <2>1, <3>7, <4>1 DEF RowsOfOne, RowEstimate
    <2> QED
        BY <2>1, <2>3, <2>4
<1> QED
    BY <1>1, <1>2, <1>3, <1>5 DEF ExactSoFar

LEMMA ReadIndexesKeepsExact ==
    ASSUME ExactSoFar, ReadIndexes
    PROVE  ExactSoFar'
<1>1. /\ UNCHANGED <<engine, catalog, past>> /\ DOMAIN byName' = DOMAIN byName
      /\ pc = "indexes" /\ pc' = "done"
    BY DEF ReadIndexes
<1>2. PastIsPast'
    BY <1>1 DEF ExactSoFar, PastIsPast
<1>3. Tables'
    BY <1>1, ReadIndexesEffect DEF ExactSoFar, Tables
<1>4. /\ \A n : NamedIn(Asked, n)' = NamedIn(Asked, n)
      /\ \A n : NamedIn(Described, n)' = NamedIn(Described, n)
      /\ \A i : Lead(i)' = Lead(i)
    BY <1>1, FindingsOfTheSame
<1>5. ASSUME past = {catalog}, NEW n \in DOMAIN byName'
      PROVE  RowsOfOne(n)' /\ ColumnsOfAll(n)' /\ IndexesOfAll(n)'
    <2>1. RowsOfOne(n) /\ ColumnsOfAll(n)
        BY <1>1, <1>5 DEF ExactSoFar
    <2>2. byName'[n].rows = byName[n].rows /\ byName'[n].cols = byName[n].cols
        BY <1>1, <1>5, ReadIndexesEffect DEF ExactSoFar
    <2>3. IndexesOfAll(n)'
        BY <1>1, <1>4, <1>5, ReadIndexesEffect DEF ExactSoFar, IndexesOfAll
    <2>4. RowsOfOne(n)'
        BY <1>4, <2>1, <2>2 DEF RowsOfOne, RowEstimate
    <2>5. ColumnsOfAll(n)'
        BY <1>4, <2>1, <2>2 DEF ColumnsOfAll
    <2> QED
        BY <2>3, <2>4, <2>5
<1> QED
    BY <1>1, <1>2, <1>3, <1>5 DEF ExactSoFar

LEMMA ExactStep ==
    ASSUME ExactSoFar, [Next]_vars
    PROVE  ExactSoFar'
<1>1. CASE Fail
    <2>1. UNCHANGED <<engine, catalog, past, byName>> /\ pc' = "error"
        BY <1>1 DEF Fail
    <2> QED
        BY <2>1 DEF ExactSoFar, PastIsPast, Tables
<1>2. CASE UNCHANGED vars
    <2>1. UNCHANGED <<engine, catalog, past, pc, byName>>
        BY <1>2 DEF vars
    <2> QED
        BY <2>1, SameFindings, FindingsOfTheSame DEF ExactSoFar, PastIsPast, Tables
<1> QED
    BY <1>1, <1>2, AlterKeepsExact, ReadTablesKeepsExact, ReadColumnsKeepsExact,
       ReadIndexesKeepsExact DEF Next

\* Indexes of one relation have names of their own, so that as many are read as there are.
LEMMA AsManyIndexes ==
    ASSUME NEW c \in Catalogs, NEW r \in c
    PROVE  Cardinality({[name |-> i.name, lead |-> Lead(i)] : i \in r.indexes})
               = Cardinality(r.indexes)
<1> DEFINE Read1(i) == [name |-> i.name, lead |-> Lead(i)]
           T == {Read1(i) : i \in r.indexes}
           f == [i \in r.indexes |-> Read1(i)]
<1>1. IsFiniteSet(r.indexes) /\ \A i, j \in r.indexes : i.name = j.name => i = j
    BY CatalogsAssumption
<1>2. \A i, j \in r.indexes : Read1(i) = Read1(j) => i = j
    <2>1. \A i : Read1(i).name = i.name
        OBVIOUS
    <2> HIDE DEF Read1
    <2> QED
        BY <1>1, <2>1
<1> HIDE DEF Read1
<1>3. f \in Injection(r.indexes, T) /\ f \in Surjection(r.indexes, T)
    BY <1>2 DEF Injection, Surjection, IsInjective
<1>4. Cardinality(T) = Cardinality(r.indexes)
    BY <1>1, <1>3, FS_Surjection
<1> QED
    BY <1>4 DEF Read1

\* A column leads an index of the schema if it leads one of the relation.
LEMMA LeadsOfColumns ==
    ASSUME Readable, KeptReadably, NEW c \in Catalogs, NEW r \in c, NEW k \in r.cols,
           NEW i \in r.indexes
    PROVE  <<k>> \in Lead(i) <=> i.parts[1][1] = k
<1>1. k \notin Expressions
    BY CatalogsAssumption
<1>2. CASE engine = "mysql" /\ i.parts[1][1] \in Expressions
    <2>1. Lead(i) = {}
        BY <1>2, ExpressionsLeadNothing DEF KeptReadably, LeadsAsKept
    <2> QED
        BY <1>1, <1>2, <2>1
<1>3. CASE engine = "mysql" => i.parts[1][1] \notin Expressions
    <2>1. Lead(i) = {<<i.parts[1][1]>>}
        BY <1>3, FirstPartLeads DEF Readable
    <2>2. <<k>> = <<i.parts[1][1]>> <=> k = i.parts[1][1]
        OBVIOUS
    <2> QED
        BY <2>1, <2>2
<1> QED
    BY <1>2, <1>3

LEMMA ExactWhenQuiet ==
    ASSUME Readable, KeptReadably, ExactSoFar
    PROVE  QuietSchemaIsExact
<1>1. ASSUME Done, past = {catalog}, NEW n \in DOMAIN byName,
             NEW r \in NamedIn(Described, n),
             NamedIn(Asked, n) = {r}
      PROVE  /\ byName[n].rows = RowEstimate(r) /\ byName[n].cols = r.cols
             /\ \A i \in r.indexes : \E x \in byName[n].indexes : x.name = i.name
             /\ Cardinality(byName[n].indexes) = Cardinality(r.indexes)
             /\ \A k \in r.cols :
                   <<k>> \in Leads(byName[n]) <=> \E i \in r.indexes : i.parts[1][1] = k
    <2> DEFINE I == {[name |-> i.name, lead |-> Lead(i)] : i \in r.indexes}
    <2>1. RowsOfOne(n) /\ ColumnsOfAll(n) /\ IndexesOfAll(n)
        BY <1>1 DEF ExactSoFar, Done
    <2>2. catalog \in Catalogs /\ r \in catalog
        BY <1>1 DEF ExactSoFar, PastIsPast, NamedIn, Described, Asked
    <2>3. byName[n].rows = RowEstimate(r)
        BY <1>1, <2>1 DEF RowsOfOne
    <2>4. byName[n].cols = r.cols
        <3>1. NamedIn(Described, n) = {r}
            BY <1>1 DEF NamedIn, Described
        <3> QED
            BY <2>1, <3>1 DEF ColumnsOfAll
    <2>5. byName[n].indexes = I
        BY <1>1, <2>1 DEF IndexesOfAll
    <2>6. ASSUME NEW i \in r.indexes
          PROVE  \E x \in I : x.name = i.name
        <3>1. [name |-> i.name, lead |-> Lead(i)] \in I
            OBVIOUS
        <3>2. [name |-> i.name, lead |-> Lead(i)].name = i.name
            OBVIOUS
        <3> HIDE DEF I
        <3> QED
            BY <3>1, <3>2
    <2>7. Cardinality(I) = Cardinality(r.indexes)
        BY <2>2, AsManyIndexes
    <2>8. UNION {x.lead : x \in I} = UNION {Lead(i) : i \in r.indexes}
        <3>1. \A x \in I : \E i \in r.indexes : x.lead = Lead(i)
            OBVIOUS
        <3>2. ASSUME NEW i \in r.indexes
              PROVE  \E x \in I : x.lead = Lead(i)
            <4>1. [name |-> i.name, lead |-> Lead(i)] \in I
                OBVIOUS
            <4>2. [name |-> i.name, lead |-> Lead(i)].lead = Lead(i)
                OBVIOUS
            <4> HIDE DEF I
            <4> QED
                BY <4>1, <4>2
        <3> HIDE DEF I
        <3>3. UNION {x.lead : x \in I} \subseteq UNION {Lead(i) : i \in r.indexes}
            BY <3>1
        <3>4. UNION {Lead(i) : i \in r.indexes} \subseteq UNION {x.lead : x \in I}
            BY <3>2
        <3> QED
            BY <3>3, <3>4
    <2>9. Leads(byName[n]) = UNION {Lead(i) : i \in r.indexes}
        BY <2>5, <2>8 DEF Leads
    <2> HIDE DEF I
    <2>10. \A k \in r.cols :
               <<k>> \in Leads(byName[n]) <=> \E i \in r.indexes : i.parts[1][1] = k
        BY <2>2, <2>9, LeadsOfColumns
    <2> QED
        BY <2>3, <2>4, <2>5, <2>6, <2>7, <2>10
<1> QED
    BY <1>1 DEF QuietSchemaIsExact

\* Introspect (postgres.go:90, mysql.go:132): of a catalogue nobody changes, a name that one
\* relation bears gets the rows, columns and indexes of that relation, for any catalogues,
\* if the leading part of each index survives printing and leaving out expressions.
THEOREM QuietSchemaExact ==
    ASSUME Readable, KeptReadably
    PROVE  Spec => []QuietSchemaIsExact
<1>1. ExactSoFar /\ [Next]_vars => ExactSoFar'
    BY ExactStep
<1>2. ExactSoFar => QuietSchemaIsExact
    BY ExactWhenQuiet
<1> QED
    BY ExactInit, <1>1, <1>2, PTL DEF Spec
================================================================================
