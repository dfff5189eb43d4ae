----------------------------- MODULE MCIntrospection -----------------------------
(* A small database, and what other clients may have made of it. *)
EXTENDS Introspection

MCFold == [n \in {"t", "T", "u"} |-> IF n = "T" THEN "t" ELSE n]
MCExpressions == {"lower(a)"}

Index(name, parts) == [name |-> name, parts |-> parts]
Relation(oid, schema, name, kind, rows, cols, indexes, analyzed) ==
    [oid |-> oid, schema |-> schema, name |-> name, kind |-> kind, rows |-> rows,
     cols |-> cols, indexes |-> indexes, analyzed |-> analyzed]

\* MySQL calls every primary key PRIMARY.
Primary == Index("PRIMARY", << <<"id">> >>)
Down == Index("down", << <<"a", "DESC">>, <<"id">> >>)
Nulls == Index("nulls", << <<"a", "NULLS FIRST">> >>)
Lower == Index("lower", << <<"lower(a)">> >>)
Mixed == Index("mixed", << <<"lower(a)">>, <<"a">> >>)
NullsLast == Index("last", << <<"a", "DESC", "NULLS LAST">> >>)

T(cols, indexes) == Relation(1, "public", "t", "table", 7, cols, indexes, {"a"})
T0 == T({"id", "a"}, {Primary, Down})
U == Relation(2, "public", "u", "table", 9, {"id", "b"}, {Primary}, {})
View == Relation(3, "public", "u", "view", 9, {"id", "b"}, {}, {})
Other == Relation(4, "other", "t", "table", 5, {"x"}, {Index("ix", << <<"x">> >>)}, {})
Quoted == Relation(5, "public", "T", "table", 3, {"y"}, {}, {})
Anew == Relation(6, "public", "t", "table", 0, {"id", "n"}, {Nulls}, {})
\* A relation of the system that bears a name the statement may mean.
System == Relation(7, "pg_catalog", "u", "table", 2, {"oid"}, {Index("sys", << <<"oid">> >>)}, {})

MCCatalogs ==
    { {T0, U}, {T({"id", "a", "n"}, {Primary, Down}), U}, {T({"id"}, {Primary}), U},
      {T({"id", "a"}, {Primary, Down, Lower, Nulls}), U}, {T({"id", "a"}, {Primary}), View},
      {U}, {Anew, U}, {T0, Other, U}, {T0, Quoted}, {T0, View},
      {T0, System}, {T0, System, U} }
WithMixed == MCCatalogs \cup { {T({"id", "a"}, {Primary, Mixed}), U} }
WithNullsLast == MCCatalogs \cup { {T({"id", "a"}, {Primary, NullsLast}), U} }
================================================================================
