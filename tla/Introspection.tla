------------------------------ MODULE Introspection ------------------------------
(***************************************************************************)
(* How the engines read the catalogue of the target (postgres.go, mysql.go, *)
(* Introspect): three queries, each a snapshot of its own, merged under the  *)
(* lower-cased bare name of the relation, while other clients create, alter  *)
(* and drop relations and indexes.                                          *)
(*                                                                         *)
(* A part of an index is a column or an expression, followed by what         *)
(* pg_get_indexdef prints after it, as in <<"a", "DESC">>.  Of what the     *)
(* schema says of an index only the name and the leading column are kept:    *)
(* the rules look at no other (rules.go, indexLeadsWith).                  *)
(***************************************************************************)
EXTENDS Integers, Sequences, FiniteSets

CONSTANTS
    Engines,        \* among "postgres", "mysql"
    Catalogs,       \* the catalogues there may be: sets of relations
    Current,        \* the schema DATABASE() names
    Requested,      \* the bare names of the statement's tables
    Fold,           \* strings.ToLower of each relation name
    Expressions,    \* the index parts that are no columns
    MaxChanges      \* bound: changes of the catalogue while it is read

Kinds == {"table", "view"}
ASSUME CatalogsAssumption ==
    \A c \in Catalogs : \A r \in c :
        /\ r.kind \in Kinds /\ r.rows \in Nat /\ r.name \in DOMAIN Fold
        /\ r.cols \cap Expressions = {}
        /\ IsFiniteSet(r.indexes)
        /\ \A i \in r.indexes :
              /\ i.parts \in Seq(Seq(STRING) \ {<<>>}) \ {<<>>}
              /\ \A j \in r.indexes : i.name = j.name => i = j
ASSUME IntrospectionAssumption == Engines \subseteq {"postgres", "mysql"} /\ MaxChanges \in Nat

VARIABLES
    engine,
    catalog,        \* of the target, now
    past,           \* every catalogue since the call began
    pc,             \* the next query
    byName          \* the tables read so far, by folded name

vars == <<engine, catalog, past, pc, byName>>

Init ==
    /\ engine \in Engines
    /\ catalog \in Catalogs /\ past = {catalog}
    /\ pc = "tables"
    /\ byName = [n \in {} |-> <<>>]

\* Another client commits DDL, or the statistics are refreshed.
Alter ==
    /\ Cardinality(past) <= MaxChanges
    /\ \E c \in Catalogs : catalog' = c /\ past' = past \cup {c}
    /\ UNCHANGED <<engine, pc, byName>>

--------------------------------------------------------------------------------
(* What the queries find. *)

\* PostgreSQL is asked for the bare name only, which a relation of another schema
\* may have too.
Asked == {r \in catalog : r.name \in Requested /\ (engine = "mysql" => r.schema = Current)}

\* columnsSQL, and it alone, leaves out the relations of PostgreSQL's own schemas.
SystemSchemas == {"pg_catalog", "information_schema"}
Described == {r \in Asked : engine = "postgres" => r.schema \notin SystemSchemas}

NamedIn(R, n) == {r \in R : Fold[r.name] = n}
Names(R) == {Fold[r.name] : r \in R}

\* tableStatsSQL leaves out views; information_schema.TABLES has no rows for them.
Listed == {r \in Asked : engine = "mysql" \/ r.kind = "table"}

Entry(rows) == [rows |-> rows, cols |-> {}, indexes |-> {}, distinct |-> {}]
RowEstimate(r) == IF r.kind = "view" THEN 0 ELSE r.rows

\* Of two relations with one folded name, the row that comes last stays.
ReadTables ==
    /\ pc = "tables"
    /\ \E chosen \in [Names(Listed) -> Listed] :
          /\ \A n \in Names(Listed) : Fold[chosen[n].name] = n
          /\ byName' = [n \in Names(Listed) |-> Entry(RowEstimate(chosen[n]))]
    /\ pc' = IF engine = "mysql" /\ Listed = {} THEN "done" ELSE "columns"
    /\ UNCHANGED <<engine, catalog, past>>

\* PostgreSQL makes a table of a name that has columns only; MySQL drops them.
Known == IF engine = "mysql" THEN DOMAIN byName ELSE DOMAIN byName \cup Names(Described)

\* pg_stats, read along with the columns.
Analyzed(R) == IF engine = "mysql" THEN {} ELSE UNION {r.analyzed : r \in R}

ReadColumns ==
    /\ pc = "columns"
    /\ byName' = [n \in Known |->
          [(IF n \in DOMAIN byName THEN byName[n] ELSE Entry(0))
              EXCEPT !.cols = UNION {r.cols : r \in NamedIn(Described, n)},
                     !.distinct = Analyzed(NamedIn(Described, n))]]
    /\ pc' = "indexes"
    /\ UNCHANGED <<engine, catalog, past>>

\* indexColumns: each suffix is looked for once, in this order.
Without(part, suffix) ==
    IF Len(part) > 1 /\ part[Len(part)] = suffix THEN SubSeq(part, 1, Len(part) - 1) ELSE part
IndexColumnAsPrinted(part) == part   \* slip: the suffixes stay
IndexColumn(part) ==
    Without(Without(Without(Without(part, "DESC"), "ASC"), "NULLS FIRST"), "NULLS LAST")

\* The part an index leads with, as the schema holds it; STATISTICS has no name for an
\* expression, and the part is left out.
Kept(i) == {k \in DOMAIN i.parts : engine = "mysql" => i.parts[k][1] \notin Expressions}
Held(part) == IF engine = "mysql" THEN <<part[1]>> ELSE IndexColumn(part)
Lead(i) == {Held(i.parts[k]) : k \in {m \in Kept(i) : \A l \in Kept(i) : m <= l}}

IndexesByTheirName(n) ==   \* slip: as if index names were unique in a database
    {r \in NamedIn(Asked, n) : \A s \in Asked : s = r \/
        {i.name : i \in s.indexes} \cap {i.name : i \in r.indexes} = {}}
Owners(n) == NamedIn(Asked, n)

\* Only an index tells MySQL how many values a column has.
LeadingColumns(R) ==
    {i.parts[1][1] : i \in UNION {r.indexes : r \in R}} \ Expressions
Cardinalities(R) == IF engine = "mysql" THEN LeadingColumns(R) ELSE {}

ReadIndexes ==
    /\ pc = "indexes"
    /\ byName' = [n \in DOMAIN byName |->
          [byName[n] EXCEPT
              !.indexes = UNION {{[name |-> i.name, lead |-> Lead(i)] : i \in r.indexes}
                                    : r \in Owners(n)},
              !.distinct = @ \cup (Cardinalities(NamedIn(Asked, n)) \cap byName[n].cols)]]
    /\ pc' = "done"
    /\ UNCHANGED <<engine, catalog, past>>

\* Any of the queries fails, and with it the job's run.
Fail ==
    /\ pc \in {"tables", "columns", "indexes"}
    /\ pc' = "error"
    /\ UNCHANGED <<engine, catalog, past, byName>>

Next == Alter \/ ReadTables \/ ReadColumns \/ ReadIndexes \/ Fail

Spec == Init /\ [][Next]_vars

--------------------------------------------------------------------------------

Done == pc = "done"
Leads(entry) == UNION {i.lead : i \in entry.indexes}

\* The relation r as c has it: the same one, under its name and in its schema.
Was(c, r) ==
    {s \in c : s.oid = r.oid /\ s.name = r.name /\ s.schema = r.schema /\ s.kind = r.kind}
Stayed(r) == \A c \in past : Was(c, r) # {}
HadColumn(r, k) == \A c \in past : \A s \in Was(c, r) : k \in s.cols
HadIndex(r, i) == \A c \in past : \A s \in Was(c, r) : i \in s.indexes

\* A relation, column or leading column of an index that was there all the time the
\* catalogue was read is in the schema, whatever other clients did meanwhile
\* (rules.go would suggest an index that exists, or none where it is needed).  Relations
\* of PostgreSQL's own schemas are excepted: their columns are not read.
StableFactsAreRead ==
    Done => \A r \in Described : Stayed(r) =>
        LET n == Fold[r.name] IN
        /\ n \in DOMAIN byName
        /\ \A k \in r.cols : HadColumn(r, k) => k \in byName[n].cols
        /\ \A i \in r.indexes : HadIndex(r, i) /\ i.parts[1][1] \notin Expressions =>
              <<i.parts[1][1]>> \in Leads(byName[n])

\* While nobody changes the catalogue, a name that one relation bears gets what the
\* catalogue says of that relation, and nothing of another (again but for PostgreSQL's own).
QuietSchemaIsExact ==
    Done /\ past = {catalog} => \A n \in DOMAIN byName : \A r \in NamedIn(Described, n) :
        NamedIn(Asked, n) = {r} =>
            /\ byName[n].rows = RowEstimate(r) /\ byName[n].cols = r.cols
            /\ \A i \in r.indexes : \E x \in byName[n].indexes : x.name = i.name
            /\ Cardinality(byName[n].indexes) = Cardinality(r.indexes)
            /\ \A k \in r.cols :
                  <<k>> \in Leads(byName[n]) <=> \E i \in r.indexes : i.parts[1][1] = k

--------------------------------------------------------------------------------
(* Said of the program, and not so. *)

\* postgres.go:105: "pg_class stores the bare relation name; the schema is a separate
\* join": what is read under a name is of one relation all the same.
EachTableIsOneRelation ==
    Done => \A n \in DOMAIN byName :
        \E c \in past : \E r \in c : Fold[r.name] = n /\ byName[n].cols \subseteq r.cols
================================================================================
