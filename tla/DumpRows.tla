------------------------------ MODULE DumpRows ------------------------------
(* The rows that Il2CppDumpImporter (metadata/importer.py) makes of the      *)
(* entries of an IL2CPP dump: one type and its members per entry, and edges  *)
(* from type to type that name the member they come from.                    *)
(*                                                                           *)
(* A dump is a sequence of entries; an absent text is Absent.  A name is the *)
(* pair of its prefix ("get_", "set_" or "") and the rest.                   *)
EXTENDS Naturals, Sequences, FiniteSets, SequencesExt

Absent == ""
Unknown == "unknown"
NoSlot == <<"", "">>

\* A member row: its kind, declaring type, name, the types of its index or
\* parameters, its value or return type, and what keeps its key apart from
\* those of members with the same signature.
Member(kind, owner, name, params, type, slot) ==
    [kind |-> kind, owner |-> owner, name |-> name, params |-> params,
     type |-> type, slot |-> slot]

\* The columns of UNIQUE(snapshot_id, stable_key).
StableKey(m) == <<m.kind, m.owner, m.name, m.params, m.type, m.slot>>

Mapped(Op(_), s) == [i \in DOMAIN s |-> Op(s[i])]

\* The form of a dump: lists of entries, of methods and so on, and the declared
\* properties of a type as an object, which has one value for a name.
IsList(s) == s \in Seq(Range(s))

IsEntry(e) ==
    /\ \A list \in {"methods", "fields", "properties", "rmethods", "rproperties", "rsz"} :
          IsList(e[list])
    /\ \A i, j \in DOMAIN e.properties : e.properties[i].name = e.properties[j].name => i = j

IsDump(dump) == IsList(dump) /\ \A e \in Range(dump) : IsEntry(e)

-----------------------------------------------------------------------------
(* Members of an entry *)

\* The loop over "methods"; the slot is the id, or the key, of the method.
Methods(e) ==
    LET row(m) == Member("tdb_method", e.name, m.name, m.params, m.returns, <<"", m.id>>)
    IN  Mapped(row, e.methods)

Fields(e) ==
    LET row(f) == Member("tdb_field", e.name, f.name, <<>>, f.type, NoSlot)
    IN  Mapped(row, e.fields)

\* method_names: of the methods with a name the last one counts.
ReturnOf(e, name) ==
    LET named == {i \in DOMAIN e.methods : e.methods[i].name = name}
    IN  IF named = {} THEN Absent
        ELSE e.methods[CHOOSE i \in named : \A j \in named : j <= i].returns

Properties(e) ==
    LET row(p) == Member("tdb_property", e.name, p.name, <<>>, ReturnOf(e, p.getter), p.getter)
    IN  Mapped(row, e.properties)

IsGetter(m) == m.name[1] = "get_" /\ m.name[2] # Absent
IsSetter(m) == m.name[1] = "set_" /\ m.name[2] # Absent /\ m.params # <<>>

\* The group of an accessor: the property's name and its index types.
GroupOf(m) == <<<<"", m.name[2]>>, IF IsGetter(m) THEN m.params ELSE Front(m.params)>>

Accessors(e) == {m \in Range(e.methods) : IsGetter(m) \/ IsSetter(m)}

\* The value type of a group: a getter sets it, a setter supplies it.
ValueType(e, group) ==
    LET take(type, m) == IF IsGetter(m) THEN m.returns
                         ELSE IF type # Absent THEN type ELSE Last(m.params)
        found == FoldLeft(take, Absent,
                          SelectSeq(e.methods, LAMBDA m : m \in Accessors(e) /\ GroupOf(m) = group))
    IN  IF found = Absent THEN Unknown ELSE found

\* Seeded fault: every group gets a property, whether the dump has it or not.
GroupsAll(e) == {GroupOf(m) : m \in Accessors(e)}

\* The groups that are not properties of the dump already.
Groups(e) ==
    {g \in {GroupOf(m) : m \in Accessors(e)} :
        ~(g[2] = <<>> /\ \E p \in Range(e.properties) : p.name = g[1])}

SyntheticProperties(e) ==
    LET row(g) == Member("synthetic_property", e.name, g[1], g[2], ValueType(e, g), NoSlot)
    IN  Mapped(row, SetToSeq(Groups(e)))

Reflection(e) ==
    LET method(m) == Member("reflection_method", e.name, m.name, m.params, m.returns, NoSlot)
        property(p) == Member("reflection_property", e.name, p.name, <<>>, p.type, NoSlot)
    IN  Mapped(method, e.rmethods) \o Mapped(property, e.rproperties)

\* Values of "RSZ" without a type are skipped.
Rsz(e) ==
    LET rows(v) == IF v.type = Absent THEN <<>>
                   ELSE <<Member("rsz_field", e.name, v.name, <<>>, v.type, <<"", v.id>>)>>
    IN  FlattenSeq(Mapped(rows, e.rsz))

MembersOf(e) ==
    Methods(e) \o Fields(e) \o Properties(e) \o SyntheticProperties(e)
               \o Reflection(e) \o Rsz(e)

-----------------------------------------------------------------------------
(* Edges of an entry *)

Edge(source, target, kind, member) ==
    [source |-> source, target |-> target, kind |-> kind, member |-> member]

EdgeKind(kind) ==
    CASE kind = "tdb_method" -> "RETURN_TYPE"
      [] kind = "tdb_field" -> "FIELD_TYPE"
      [] kind \in {"tdb_property", "synthetic_property"} -> "PROPERTY_TYPE"
      [] kind = "reflection_method" -> "REFLECTION_RETURN_TYPE"
      [] kind = "reflection_property" -> "REFLECTION_PROPERTY_TYPE"
      [] kind = "rsz_field" -> "RSZ_CONTAINS"

\* Only methods of the type database have edges to their parameters.
MemberEdges(m) ==
    {Edge(m.owner, t, EdgeKind(m.kind), StableKey(m)) : t \in {m.type} \ {Absent, Unknown}}
    \cup {Edge(m.owner, t, "PARAMETER_TYPE", StableKey(m)) :
        t \in {u \in Range(m.params) : m.kind = "tdb_method" /\ u # Absent}}

TypeEdges(e) ==
    {Edge(e.name, t, "INHERITS", <<>>) : t \in {e.parent} \ {Absent}}
    \cup {Edge(o, e.name, "DECLARES_TYPE", <<>>) : o \in {e.declaring} \ {Absent}}
    \cup {Edge(e.name, t, "GENERIC_ARGUMENT", <<>>) : t \in Range(e.generics) \ {Absent}}
    \cup {Edge(e.name, t, "DESERIALIZER_USES", <<>>) : t \in Range(e.deserializers) \ {Absent}}

-----------------------------------------------------------------------------
(* Rows of a dump *)

Members(dump) == FlattenSeq(Mapped(MembersOf, dump))

Edges(dump) ==
    (UNION {TypeEdges(e) : e \in Range(dump)})
    \cup (UNION {MemberEdges(m) : m \in Range(Members(dump))})

\* A constraint of the schema rejects a row: a type or a stable key occurs twice.
Collides(dump) ==
    \/ \E i, j \in DOMAIN dump : i # j /\ dump[i].name = dump[j].name
    \/ LET ms == Members(dump)
       IN  \E i, j \in DOMAIN ms : i # j /\ StableKey(ms[i]) = StableKey(ms[j])
=============================================================================
