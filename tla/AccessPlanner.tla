---------------------------- MODULE AccessPlanner ----------------------------
(* The access planner as a tool of the host: it collects roots from the      *)
(* caller, the runtime graph and the index of MOD projects, searches paths   *)
(* to the target (AccessPaths) through a cache, makes a plan of every path   *)
(* with a branch for each argument, ranks and saves the plans, and drafts    *)
(* Lua from a saved plan (planner/planner.py, lua/draft.py).                 *)
(*                                                                           *)
(* Tool calls run one at a time in the server.  Between them projects are    *)
(* indexed, also by the command line, and objects and calls are observed.    *)
(* Questions are about a snapshot that is imported and about one runtime.    *)
EXTENDS AccessPaths

CONSTANTS Graphs,        \* metadata graphs a snapshot may hold
          Questions,     \* arguments of find_access_paths
          Signature,     \* declared kind, parameters, type of the members
          Primitives,    \* types a constant is written down for
          Containers,    \* lists, arrays and dictionaries
          LiveItems,     \* objects the runtime graph may come to hold
          CacheEntries,  \* _MAX_PATH_CACHE_ENTRIES
          MaxQuestions,  \* bound on the questions asked
          MaxEvidence    \* bound on what is indexed and observed

\* Kinds of roots, as they are ordered, and of objects in the runtime graph.
KindOrder == <<"hook_this", "managed_singleton", "provided_object", "static_type">>
RootKinds == {KindOrder[n] : n \in DOMAIN KindOrder}

QuestionSet ==
    [target : Types, member : Members \cup {None}, roots : Seq(Types),
     kinds : SUBSET RootKinds, depth : Int, paths : Int, getters : BOOLEAN,
     statics : BOOLEAN, hooks : BOOLEAN, usage : BOOLEAN, current : BOOLEAN]

SignatureSet ==
    [kind : {"field", "property", "method"}, static : BOOLEAN, params : Seq(Types), type : Types]

\* The importer writes every edge but inheritance and generic arguments for a
\* member, and parameters for methods only.
GraphsOK ==
    \A g \in Graphs : /\ g \subseteq EdgeSet /\ IsFiniteSet(g)
                      /\ \A e \in g : e.kind \notin {"INHERITS", "GENERIC_ARGUMENT"}
                                        => e.member # None

ASSUME ConstantsOK ==
    /\ GraphsOK /\ Questions \subseteq QuestionSet
    /\ Signature \in [Members -> SignatureSet]
    /\ \A m \in Members : Signature[m].kind # "method" => Signature[m].params = <<>>
    /\ \A x \in LiveItems : x.type \in Types
    /\ {CacheEntries, MaxQuestions, MaxEvidence} \subseteq Nat \ {0}

VARIABLES graph,    \* type_edges of the snapshot
          usage,    \* usage_sites: how often indexed projects use each member
          runtime,  \* runtime_edges: how often calls of each member were seen
          hints,    \* root_hints: how often projects get a singleton of each type
          live,     \* what candidate_roots of the runtime graph yields
          cache,    \* _path_cache, oldest entry first
          saved,    \* access_plans
          answer,   \* of the last question: question, roots and ranked plans
          draft,    \* the last draft
          asked, observed

vars == <<graph, usage, runtime, hints, live, cache, saved, answer, draft, asked, observed>>

-----------------------------------------------------------------------------
(* Roots *)

KindNumber(kind) == CHOOSE n \in DOMAIN KindOrder : KindOrder[n] = kind

Root(type, kind, ref, confidence, verified) ==
    [type |-> type, kind |-> kind, ref |-> ref,
     confidence |-> confidence, verified |-> verified]

\* The roots a caller names; _root_kind asks the hints about their kind.
Given(types) ==
    [i \in DOMAIN types |->
        Root(types[i], IF hints[types[i]] > 0 THEN "managed_singleton" ELSE "static_type",
             None, 80, FALSE)]

\* An item of the runtime graph as a root: only a captured object whose hook is
\* known is resolved through the hook, and a singleton needs no object.
LiveRoot(item) ==
    CASE item.node = "singleton" -> Root(item.type, "managed_singleton", None, 98, TRUE)
      [] item.node = "hook" /\ item.hooked -> Root(item.type, "hook_this", item.ref, 92, TRUE)
      [] OTHER -> Root(item.type, "provided_object", item.ref, 92, TRUE)

HintRoots ==
    LET hinted == SetToSeq({t \in Types : hints[t] > 0})
        types == Sorted(hinted, [i \in DOMAIN hinted |-> <<-hints[hinted[i]], hinted[i]>>])
    IN  [i \in DOMAIN types |->
            Root(types[i], "managed_singleton", None, AtMost(62 + 5 * hints[types[i]], 90), FALSE)]

\* The first of each type, kind and object.
Deduplicated(roots) ==
    LET same(i, j) == <<roots[i].type, roots[i].kind, roots[i].ref>>
                      = <<roots[j].type, roots[j].kind, roots[j].ref>>
    IN  Chosen(roots, {i \in DOMAIN roots : \A j \in 1..(i - 1) : ~same(i, j)})

RootCandidates(q) ==
    LET items == Chosen(live, {i \in DOMAIN live : q.hooks \/ live[i].node # "hook"})
        found == Deduplicated([i \in DOMAIN items |-> LiveRoot(items[i])] \o
                              (IF q.current THEN <<>> ELSE HintRoots))
        place(r) == <<-r.confidence, r.type, KindNumber(r.kind)>>
    IN  IF q.roots # <<>> THEN Given(q.roots)
        ELSE Take(Sorted(found, [i \in DOMAIN found |-> place(found[i])]), RootLimit)

\* allowed_root_kinds, when given.
Eligible(q) ==
    LET roots == RootCandidates(q)
    IN  Chosen(roots, {i \in DOMAIN roots : q.kinds = {} \/ roots[i].kind \in q.kinds})

-----------------------------------------------------------------------------
(* Paths through the cache.  A lookup returns the cache and the paths.       *)

\* Seeded fault: the key leaves out whether static methods may be called.
KeyWithoutStatics(s) == [s EXCEPT !.statics = TRUE]

\* The key of a search: everything it is given, and nothing it reads.
Key(s) == s

\* A new result takes the place of the oldest.
Remembered(entries, s, result) ==
    LET room == IF Len(entries) >= CacheEntries THEN Tail(entries) ELSE entries
    IN  [cache |-> Append(room, [key |-> Key(s), result |-> result]), result |-> result]

RootedPaths(entries, s) ==
    LET hits == {i \in DOMAIN entries : entries[i].key = Key(s)}
    IN  IF hits # {} THEN [cache |-> entries, result |-> entries[CHOOSE i \in hits : TRUE].result]
        ELSE Remembered(entries, s, ReverseBfs(s, graph, usage, runtime))

Clamp(n, low, high) == IF n < low THEN low ELSE AtMost(n, high)

MainSearch(q, roots) ==
    [roots |-> roots, target |-> q.target, depth |-> Clamp(q.depth, 1, 10),
     paths |-> Clamp(q.paths, 1, 50), getters |-> q.getters, statics |-> q.statics,
     usage |-> q.usage]

\* _argument_root_and_path looks for one path, whatever the question allows.
ArgumentSearch(q, roots, type) ==
    [roots |-> Take(roots, 30), target |-> type, depth |-> Clamp(q.depth, 1, 8),
     paths |-> 1, getters |-> TRUE, statics |-> TRUE, usage |-> TRUE]

-----------------------------------------------------------------------------
(* Plans.  Confidences are in thousandths; a verified one counts 150 more.   *)

RootNode(id, root) ==
    [id |-> id, op |-> "resolve_root", inputs |-> <<>>, arguments |-> <<>>, type |-> root.type,
     member |-> None, placeholder |-> FALSE,
     evidence |-> <<10 * root.confidence + (IF root.verified THEN 150 ELSE 0)>>]

PathEvidence(e) ==
    <<800>> \o (IF e.usage > 0 THEN <<AtMost(650 + 40 * e.usage, 920)>> ELSE <<>>)
            \o (IF e.runtime > 0 THEN <<980 + 150>> ELSE <<>>)

\* _append_path_nodes: each node takes the node before it as its input.
PathNodes(path, prefix, i, from) ==
    [k \in DOMAIN path |->
        [id |-> <<prefix, i, k>>, op |-> Operation[path[k].kind],
         inputs |-> <<IF k = 1 THEN from ELSE <<prefix, i, k - 1>>>>, arguments |-> <<>>,
         type |-> path[k].target, member |-> path[k].member, placeholder |-> FALSE,
         evidence |-> PathEvidence(path[k])]]

\* A root and the path from it to the target.
Reached(root, path, first, step, i) ==
    <<RootNode(<<first, i, 0>>, root)>> \o PathNodes(path, step, i, <<first, i, 0>>)

Value(i, op, type, placeholder, confidence) ==
    <<[id |-> <<"arg", i, 0>>, op |-> op, inputs |-> <<>>, arguments |-> <<>>, type |-> type,
       member |-> None, placeholder |-> placeholder, evidence |-> <<confidence>>]>>

\* An object is reached from the root that was found, or has to be constructed.
ObjectNodes(roots, i, type, paths) ==
    IF paths = <<>> THEN Value(i, "construct_object", type, TRUE, 300)
    ELSE Reached(roots[paths[1].root], paths[1].path, "arg_root", "arg_step", i)

\* The nodes for one more argument; the last of them is the argument.
WithArgument(acc, nodes, entries) ==
    [cache |-> entries, nodes |-> acc.nodes \o nodes, ids |-> Append(acc.ids, Last(nodes).id)]

WithObject(acc, roots, i, type, looked) ==
    WithArgument(acc, ObjectNodes(roots, i, type, looked.result.found), looked.cache)

Branch(acc, q, roots, i, type) ==
    IF type \in Containers
    THEN WithArgument(acc, Value(i, "construct_list", type, FALSE, 600), acc.cache)
    ELSE IF type \in Primitives
    THEN WithArgument(acc, Value(i, "bind_constant", type, TRUE, 550), acc.cache)
    ELSE WithObject(acc, roots, i, type, RootedPaths(acc.cache, ArgumentSearch(q, roots, type)))

Branches(entries, q, roots) ==
    LET params == Signature[q.member].params
        upTo[i \in 0..Len(params)] ==
          IF i = 0 THEN [cache |-> entries, nodes |-> <<>>, ids |-> <<>>]
          ELSE Branch(upTo[i - 1], q, roots, i, params[i])
    IN  upTo[Len(params)]

\* The node for the member the question is about.
TargetNode(m, from, ids) ==
    LET sig == Signature[m]
        op == CASE sig.kind = "field" -> "read_field" [] sig.kind = "property" -> "read_property"
                [] sig.kind = "method" /\ sig.static -> "call_static" [] OTHER -> "call_method"
    IN  [id |-> <<"target", 0, 0>>, op |-> op, type |-> sig.type, member |-> m,
         inputs |-> IF op = "call_static" THEN <<>> ELSE <<from>>, arguments |-> ids,
         placeholder |-> FALSE, evidence |-> <<900>>]

\* Seeded fault: only constants count as left open.
OpenConstants(nodes, ids) ==
    {i \in DOMAIN ids : \E n \in Range(nodes) : n.id = ids[i] /\ n.op = "bind_constant"}

\* requires_argument_binding: the positions of the arguments left open.
Open(nodes, ids) ==
    {i \in DOMAIN ids : \E n \in Range(nodes) : n.id = ids[i] /\ n.placeholder}

\* Nodes that add an assumption to the plan.
IsAssumed(n) ==
    n.op \in {"call_method", "call_static", "construct_list", "bind_constant", "construct_object"}
    \/ (n.op = "read_property" /\ n.id[1] # "target")

\* The path, the arguments, and the node that uses both.
WithTarget(m, path, args) ==
    LET nodes == path \o args.nodes
    IN  [cache |-> args.cache,
         plan |-> [nodes |-> Append(nodes, TargetNode(m, Last(path).id, args.ids)),
                   open |-> Open(nodes, args.ids)]]

\* _build_plan, with the cache its searches leave behind.
BuildPlan(entries, q, roots, f) ==
    LET path == Reached(roots[f.root], f.path, "root", "step", 0)
    IN  IF q.member = None THEN [cache |-> entries, plan |-> [nodes |-> path, open |-> {}]]
        ELSE WithTarget(q.member, path, Branches(entries, q, roots))

Sum(numbers) == FoldLeft(LAMBDA a, b : a + b, 0, numbers)

\* _plan_score, in parts of 1 / (1000 * ScoreUnit); a mean of up to 12
\* confidences is a whole number of them.
ScoreUnit == 27720

PlanScore(plan) ==
    LET evidence == FoldLeft(LAMBDA s, n : s \o n.evidence, <<>>, plan.nodes)
        calls == Len(SelectSeq(plan.nodes, LAMBDA n : n.op \in {"call_method", "call_static"}))
        assumed == Len(SelectSeq(plan.nodes, IsAssumed))
        mean == (Sum(evidence) * ScoreUnit) \div Len(evidence)
        penalty == 80 * calls + AtMost(35 * assumed, 400) + 12 * (Len(plan.nodes) - 1)
    IN  Clamp(mean - penalty * ScoreUnit, 0, 1000 * ScoreUnit)

\* A plan for each path, one after the other.
Offer(acc, q, roots, f) ==
    LET built == BuildPlan(acc.cache, q, roots, f)
    IN  [cache |-> built.cache,
         plans |-> Append(acc.plans, [from |-> f.root, root |-> roots[f.root],
                                      path |-> f.path, plan |-> built.plan])]

PlansFor(q, roots, looked) ==
    LET found == looked.result.found
        upTo[k \in 0..Len(found)] ==
          IF k = 0 THEN [cache |-> looked.cache, plans |-> <<>>]
          ELSE Offer(upTo[k - 1], q, roots, found[k])
    IN  upTo[Len(found)]

Ranked(plans) == Sorted(plans, [k \in DOMAIN plans |-> <<-PlanScore(plans[k].plan)>>])

-----------------------------------------------------------------------------
(* Lua drafts: the line that declares the variable of each node *)

\* The variables in the line of a node.
Uses(n) ==
    CASE n.op \in {"resolve_root", "bind_constant"} -> {}
      [] n.op \in {"call_static", "construct_list"} -> Range(n.arguments)
      [] n.op = "call_method" -> {n.inputs[1]} \cup Range(n.arguments)
      [] n.op \in {"read_field", "read_property", "cast", "iterate"} -> {n.inputs[1]}
      [] OTHER -> Range(n.inputs)

\* draft: a line for every node, and emit for the last one.
Draft(plan) ==
    [plan |-> plan,
     lines |-> [i \in DOMAIN plan.nodes |->
                  [declares |-> plan.nodes[i].id, uses |-> Uses(plan.nodes[i])]],
     emits |-> Last(plan.nodes).id]

-----------------------------------------------------------------------------
Init ==
    /\ graph \in Graphs
    /\ usage = [m \in Members |-> 0] /\ runtime = [m \in Members |-> 0]
    /\ hints = [t \in Types |-> 0] /\ live = <<>>
    /\ cache = <<>> /\ saved = {} /\ answer = None /\ draft = None
    /\ asked = 0 /\ observed = 0

\* find_paths refuses a question without an eligible root.
NoRoots(q) ==
    /\ asked < MaxQuestions /\ Eligible(q) = <<>>
    /\ answer' = None /\ asked' = asked + 1
    /\ UNCHANGED <<graph, usage, runtime, hints, live, cache, saved, draft, observed>>

\* What find_paths leaves behind and answers.
Answer(q, roots, looked, built) ==
    /\ cache' = built.cache
    /\ answer' = [question |-> q, roots |-> roots, plans |-> Ranked(built.plans),
                  truncated |-> looked.result.truncated]
    /\ saved' = saved \cup {p.plan : p \in Range(built.plans)}

FindPaths(q) ==
    /\ asked < MaxQuestions /\ Eligible(q) # <<>>
    /\ \E roots \in {Eligible(q)} :
          \E looked \in {RootedPaths(cache, MainSearch(q, roots))} :
             Answer(q, roots, looked, PlansFor(q, roots, looked))
    /\ asked' = asked + 1
    /\ UNCHANGED <<graph, usage, runtime, hints, live, draft, observed>>

\* draft_lua_probe of a saved plan.
DraftLua(plan) ==
    /\ draft' = Draft(plan)
    /\ UNCHANGED <<graph, usage, runtime, hints, live, cache, saved, answer, asked, observed>>

\* A project that calls the member, or gets a singleton of the type, is indexed.
IndexUsage(m) ==
    /\ observed < MaxEvidence /\ observed' = observed + 1
    /\ usage' = [usage EXCEPT ![m] = @ + 1]
    /\ UNCHANGED <<graph, runtime, hints, live, cache, saved, answer, draft, asked>>

IndexHint(t) ==
    /\ observed < MaxEvidence /\ observed' = observed + 1
    /\ hints' = [hints EXCEPT ![t] = @ + 1]
    /\ UNCHANGED <<graph, usage, runtime, live, cache, saved, answer, draft, asked>>

\* The runtime graph learns of a call, or of an object.
ObserveCall(m) ==
    /\ observed < MaxEvidence /\ observed' = observed + 1
    /\ runtime' = [runtime EXCEPT ![m] = @ + 1]
    /\ UNCHANGED <<graph, usage, hints, live, cache, saved, answer, draft, asked>>

ObserveObject(item) ==
    /\ observed < MaxEvidence /\ observed' = observed + 1
    /\ live' = <<item>> \o live
    /\ UNCHANGED <<graph, usage, runtime, hints, cache, saved, answer, draft, asked>>

Next ==
    \/ \E q \in Questions : NoRoots(q) \/ FindPaths(q)
    \/ \E plan \in saved : DraftLua(plan)
    \/ \E m \in Members : IndexUsage(m) \/ ObserveCall(m)
    \/ \E t \in Types : IndexHint(t)
    \/ \E item \in LiveItems : ObserveObject(item)

Spec == Init /\ [][Next]_vars

-----------------------------------------------------------------------------
(* Properties *)

Asked == MainSearch(answer.question, answer.roots)

\* Every path offered exists in the snapshot, starts at a root that may be
\* used, ends at the target, keeps to what the question allows, also when it
\* comes from the cache, and is offered once for each root.
PathsAreReal ==
    answer # None =>
        /\ Len(answer.plans) <= Asked.paths
        /\ \A p \in Range(answer.plans) :
              p.root \in Range(answer.roots) /\ IsPath(graph, Asked, p.root, p.path)
        /\ \A i, j \in DOMAIN answer.plans : i # j =>
              \/ answer.plans[i].from # answer.plans[j].from
              \/ PathKey(answer.plans[i].path) # PathKey(answer.plans[j].path)

\* The nearest roots are found: one that is not offered although it reaches the
\* target only stands back behind as many paths as were wanted, none of them
\* longer, and one that is offered comes with a shortest path of its own.
NearestAreFound ==
    answer # None /\ ~answer.truncated /\ NoLimitBites(graph, Asked) =>
        LET within == Within(graph, Asked)
            lengths(r) == {Len(p.path) : p \in {x \in Range(answer.plans) : x.root = r}}
        IN  \A r \in Range(answer.roots) : \A n \in DOMAIN within :
                r.type \in within[n] /\ (n > 0 => r.type \notin within[n - 1]) =>
                    \/ n \in lengths(r)
                    \/ /\ lengths(r) = {} /\ Len(answer.plans) = Asked.paths
                       /\ \A p \in Range(answer.plans) : Len(p.path) <= n

\* A plan is a program: every node comes after those it takes its input and
\* arguments from, nodes that use a member have one, and each argument is of
\* the parameter's type, listed as open, or an empty container to be filled.
IsProgram(plan) ==
    /\ \A i, j \in DOMAIN plan.nodes : plan.nodes[i].id = plan.nodes[j].id => i = j
    /\ \A i \in DOMAIN plan.nodes :
          LET n == plan.nodes[i]
              earlier == {plan.nodes[k].id : k \in 1..(i - 1)}
          IN  /\ Range(n.inputs) \cup Range(n.arguments) \subseteq earlier
              /\ n.op \in {"read_field", "read_property", "call_method", "call_static"}
                    => n.member # None
    /\ LET target == Last(plan.nodes)
       IN  \A a \in DOMAIN target.arguments : \A n \in Range(plan.nodes) :
              n.id = target.arguments[a] =>
                 /\ n.type = Signature[target.member].params[a]
                 /\ (a \in plan.open) <=> n.op \in {"bind_constant", "construct_object"}

\* A draft declares each variable before it uses it, passes on every argument,
\* and ends by emitting one it has declared.
IsClosed(d) ==
    LET declared(i) == {d.lines[k].declares : k \in 1..(i - 1)}
    IN  /\ \A i \in DOMAIN d.lines : d.lines[i].uses \subseteq declared(i)
        /\ d.emits \in declared(Len(d.lines) + 1)
        /\ Range(Last(d.plan.nodes).arguments) \subseteq Last(d.lines).uses

\* Every saved plan is a program, and the Lua drafted from it is closed.
PlansArePrograms ==
    /\ \A plan \in saved : IsProgram(plan)
    /\ draft # None => IsClosed(draft)
=============================================================================
