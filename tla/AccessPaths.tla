----------------------------- MODULE AccessPaths -----------------------------
(* The search of the access planner (planner/planner.py): from the target    *)
(* type backwards over the edges of the metadata graph to the types of the   *)
(* roots, breadth first, with limits on the edges looked at, the types       *)
(* expanded, the visits of a type, the length and the number of the paths.   *)
(*                                                                           *)
(* Types and members are numbers in the order of their names, because the    *)
(* code orders by name.  Costs are in twentieths of the code's.              *)
EXTENDS Integers, Sequences, FiniteSets, SequencesExt

CONSTANTS Types,
          Members,
          None,            \* no member, no object
          CandidateLimit,  \* _MAX_INCOMING_CANDIDATES
          IncomingLimit,   \* _MAX_INCOMING_EDGES
          ExpansionLimit,  \* _MAX_REVERSE_EXPANSIONS
          RootLimit        \* roots of one question

ASSUME LimitsOK ==
    /\ Types \subseteq Nat /\ IsFiniteSet(Types)
    /\ Members \subseteq Nat /\ None \notin Members
    /\ {CandidateLimit, IncomingLimit, ExpansionLimit, RootLimit} \subseteq Nat \ {0}

\* _ACCESSIBLE_EDGE_OPERATIONS: what a step over an edge does.
Operation ==
    [FIELD_TYPE |-> "read_field", PROPERTY_TYPE |-> "read_property",
     REFLECTION_PROPERTY_TYPE |-> "read_property", RETURN_TYPE |-> "call_method",
     REFLECTION_RETURN_TYPE |-> "call_method", INHERITS |-> "cast",
     GENERIC_ARGUMENT |-> "iterate", RSZ_CONTAINS |-> "read_field"]

Kinds == DOMAIN Operation

Calls == {"RETURN_TYPE", "REFLECTION_RETURN_TYPE"}
Getters == {"PROPERTY_TYPE", "REFLECTION_PROPERTY_TYPE"}

\* An edge of the metadata graph; the flag tells whether its member is static.
EdgeSet == [source : Types, target : Types, kind : Kinds,
            member : Members \cup {None}, static : BOOLEAN]

-----------------------------------------------------------------------------
(* Order and cost *)

Take(s, n) == SubSeq(s, 1, IF Len(s) < n THEN Len(s) ELSE n)

\* The numbers up to n that are in I, in ascending order.
Ascending(n, I) ==
    LET upTo[i \in 0..n] ==
          IF i = 0 THEN <<>>
          ELSE IF i \in I THEN Append(upTo[i - 1], i) ELSE upTo[i - 1]
    IN  upTo[n]

\* The elements of a sequence at the places I.
Chosen(s, I) ==
    LET places == Ascending(Len(s), I) IN [k \in DOMAIN places |-> s[places[k]]]

\* Lexicographic order of sequences of numbers of one length.
Precedes(a, b) ==
    \E i \in DOMAIN a : a[i] < b[i] /\ \A j \in 1..(i - 1) : a[j] = b[j]

\* Index i goes behind those of the order whose keys it does not precede.
Inserted(order, key, i) ==
    InsertAt(order, 1 + Cardinality({j \in DOMAIN order : ~Precedes(key[i], key[order[j]])}), i)

\* Python's stable sort of a sequence by the key of each index.
Sorted(s, key) ==
    LET order[i \in 0..Len(s)] == IF i = 0 THEN <<>> ELSE Inserted(order[i - 1], key, i)
        sorted == order[Len(s)]
    IN  [k \in DOMAIN s |-> s[sorted[k]]]

KindRank(kind) ==
    CASE kind = "FIELD_TYPE" -> 0 [] kind = "PROPERTY_TYPE" -> 1
      [] kind = "RETURN_TYPE" -> 2 [] OTHER -> 3

KindCost ==
    [FIELD_TYPE |-> 20, RSZ_CONTAINS |-> 22, PROPERTY_TYPE |-> 26,
     REFLECTION_PROPERTY_TYPE |-> 30, RETURN_TYPE |-> 36,
     REFLECTION_RETURN_TYPE |-> 40, GENERIC_ARGUMENT |-> 24, INHERITS |-> 16]

AtMost(n, limit) == IF n < limit THEN n ELSE limit

\* _path_cost: evidence makes an edge cheaper.
PathCost(path) ==
    FoldLeft(LAMBDA sum, e : sum + KindCost[e.kind] - AtMost(e.usage, 10)
                                                    - AtMost(2 * e.runtime, 16),
             0, path)

-----------------------------------------------------------------------------
(* The search.  A search s names the graph, the roots, the target, the       *)
(* limits and what is allowed; counts are those of the evidence tables.      *)

\* The edges a search may step over.
Allowed(s) == {kind \in Kinds : s.getters \/ kind \notin Getters}

Passable(s, e) == e.kind \in Allowed(s) /\ ~(e.static /\ e.kind \in Calls /\ ~s.statics)

EdgesInto(s, graph, type) == {e \in graph : e.target = type /\ e.kind \in Allowed(s)}

\* The row of an edge, with the evidence for its member.
Row(e, usage, runtime) ==
    [source |-> e.source, target |-> e.target, kind |-> e.kind, member |-> e.member,
     static |-> e.static,
     usage |-> IF e.member = None THEN 0 ELSE usage[e.member],
     runtime |-> IF e.member = None THEN 0 ELSE runtime[e.member]]

\* The query for the edges into a type: two orders, two limits.  The last
\* number decides where the query leaves the order open.
Incoming(s, graph, type, usage, runtime) ==
    LET number(e) == IF e.member = None THEN 0 ELSE e.member
        place(e) == <<KindRank(e.kind), e.source, number(e)>>
        merit(e) == <<-e.runtime, IF s.usage THEN -e.usage ELSE 0>> \o place(e)
        edges == SetToSeq({Row(e, usage, runtime) : e \in EdgesInto(s, graph, type)})
        candidates == Take(Sorted(edges, [i \in DOMAIN edges |-> place(edges[i])]),
                           CandidateLimit)
    IN  Take(Sorted(candidates, [i \in DOMAIN candidates |-> merit(candidates[i])]),
             IncomingLimit)

\* What tells two paths of one root apart.
PathKey(path) == [i \in DOMAIN path |-> <<path[i].kind, path[i].member, path[i].target>>]

RootsOf(s, type) == {i \in DOMAIN s.roots : s.roots[i].type = type}

\* The paths a longer path adds to those found, up to the limit.
Found(s, st, path) ==
    LET new == {i \in RootsOf(s, path[1].source) : \A k \in DOMAIN st.found :
                  ~(st.found[k].root = i /\ PathKey(st.found[k].path) = PathKey(path))}
        roots == Ascending(Len(s.roots), new)
    IN  Take(st.found \o [k \in DOMAIN roots |-> [root |-> roots[k], path |-> path]], s.paths)

\* A type is entered at most twice.
MayVisit(st, type) == st.visits[type] < 2

\* The path would go through a type twice.
LeadsBack(item, e) == e.source \in item.visited

\* Seeded fault: the edge just taken is counted twice.
AtDepthEarly(s, path) == Len(path) + 1 >= s.depth

\* The path may not get longer.
AtDepth(s, path) == Len(path) >= s.depth

\* The body of the loop over the rows; breaking out leaves the state alone.
Visit(s, item, st, e) ==
    LET path == <<e>> \o item.suffix
        found == Found(s, st, path)
        full == Len(found) >= s.paths
    IN  IF Len(st.found) >= s.paths \/ ~Passable(s, e) \/ LeadsBack(item, e)
        THEN st
        ELSE IF full \/ AtDepth(s, path) \/ ~MayVisit(st, e.source)
        THEN [st EXCEPT !.found = found]
        ELSE [found |-> found, expanded |-> st.expanded,
              visits |-> [st.visits EXCEPT ![e.source] = @ + 1],
              queue |-> Append(st.queue, [type |-> e.source, suffix |-> path,
                                          visited |-> item.visited \cup {e.source}])]

\* The loop over the rows.
VisitAll(s, item, st, rows) ==
    LET after[k \in 0..Len(rows)] ==
          IF k = 0 THEN st ELSE Visit(s, item, after[k - 1], rows[k])
    IN  after[Len(rows)]

\* The first item has left the queue and is expanded.
Popped(st) == [found |-> st.found, queue |-> Tail(st.queue), visits |-> st.visits,
               expanded |-> st.expanded + 1]

\* One turn of the while loop.
Expand(s, graph, usage, runtime, st) ==
    LET item == Head(st.queue)
    IN  IF AtDepth(s, item.suffix) THEN [st EXCEPT !.queue = Tail(@)]
        ELSE VisitAll(s, item, Popped(st), Incoming(s, graph, item.type, usage, runtime))

Goes(s, st) == st.queue # <<>> /\ Len(st.found) < s.paths /\ st.expanded < ExpansionLimit

Start(s) ==
    LET here == Take(Ascending(Len(s.roots), RootsOf(s, s.target)), s.paths)
    IN  [found |-> [k \in DOMAIN here |-> [root |-> here[k], path |-> <<>>]],
         queue |-> <<[type |-> s.target, suffix |-> <<>>, visited |-> {s.target}]>>,
         visits |-> [t \in Types |-> IF t = s.target THEN 1 ELSE 0],
         expanded |-> 0]

\* What is returned of the state the loop ends in: the cheapest paths first.
Outcome(st) ==
    LET rank(f) == <<PathCost(f.path), f.root>>
    IN  [found |-> Sorted(st.found, [k \in DOMAIN st.found |-> rank(st.found[k])]),
         truncated |-> st.queue # <<>> /\ st.expanded >= ExpansionLimit]

\* The while loop.  No type is queued at the depth where nothing is expanded,
\* so every turn expands one, and there are no more turns than expansions.
Turn(s, graph, usage, runtime, st) ==
    IF Goes(s, st) THEN Expand(s, graph, usage, runtime, st) ELSE st

Loop(s, graph, usage, runtime) ==
    LET after[n \in 0..ExpansionLimit] ==
          IF n = 0 THEN Start(s) ELSE Turn(s, graph, usage, runtime, after[n - 1])
    IN  after[ExpansionLimit]

\* _reverse_bfs.
ReverseBfs(s, graph, usage, runtime) == Outcome(Loop(s, graph, usage, runtime))

-----------------------------------------------------------------------------
(* What a search should find, defined without it *)

IsStep(graph, s, e) ==
    /\ Passable(s, e)
    /\ \E x \in graph : <<x.source, x.target, x.kind, x.member, x.static>>
                        = <<e.source, e.target, e.kind, e.member, e.static>>

\* A chain of passable edges from a root to the target that meets no type twice.
IsPath(graph, s, root, path) ==
    /\ Len(path) <= s.depth
    /\ \A i \in DOMAIN path : IsStep(graph, s, path[i])
    /\ \A i \in 1..Len(path) - 1 : path[i].target = path[i + 1].source
    /\ \A i, j \in DOMAIN path : path[i].source = path[j].source => i = j
    /\ \A i \in DOMAIN path : path[i].source # s.target
    /\ IF path = <<>> THEN root.type = s.target
       ELSE path[1].source = root.type /\ Last(path).target = s.target

\* The types from which the target can be reached in at most n steps.
Within(graph, s) ==
    LET reach[n \in 0..s.depth] ==
          IF n = 0 THEN {s.target}
          ELSE reach[n - 1] \cup {e.source : e \in {x \in graph :
                                     Passable(s, x) /\ x.target \in reach[n - 1]}}
    IN  reach

\* No type has more edges into it than the search looks at.
NoLimitBites(graph, s) ==
    \A t \in Types :
        LET into == Cardinality(EdgesInto(s, graph, t))
        IN  into <= IncomingLimit /\ into <= CandidateLimit
=============================================================================
