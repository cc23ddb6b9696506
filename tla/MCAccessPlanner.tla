-------------------------- MODULE MCAccessPlanner ---------------------------
(* Constants for checking AccessPlanner with TLC: four types, four members,  *)
(* every graph made of a pool of edges between them.                         *)
EXTENDS AccessPlanner

MCTypes == 1..4
MCMembers == 1..4

E(source, target, kind, member, static) ==
    [source |-> source, target |-> target, kind |-> kind, member |-> member, static |-> static]

\* 1 is the target; 2 and 3 refer to each other; 4 inherits from 3 and is a
\* third type that leads to 1, one more than a query looks at.
EdgePool == {E(2, 1, "FIELD_TYPE", 1, FALSE), E(3, 1, "RETURN_TYPE", 2, TRUE),
             E(3, 2, "PROPERTY_TYPE", 3, FALSE), E(2, 3, "RSZ_CONTAINS", 4, FALSE),
             E(4, 3, "INHERITS", None, FALSE), E(4, 1, "GENERIC_ARGUMENT", None, FALSE)}

MCGraphs == SUBSET EdgePool

\* Member 2 is the method questions are about; it takes a 2, a
\* constant and a container.
MCSignature ==
    [m \in MCMembers |->
        CASE m = 2 -> [kind |-> "method", static |-> TRUE, params |-> <<2, 4, 3>>, type |-> 1]
          [] m = 3 -> [kind |-> "property", static |-> FALSE, params |-> <<>>, type |-> 2]
          [] OTHER -> [kind |-> "field", static |-> FALSE, params |-> <<>>, type |-> 1]]

Question(target, member, roots) ==
    [target |-> target, member |-> member, roots |-> roots, kinds |-> {}, depth |-> 3,
     paths |-> 2, getters |-> TRUE, statics |-> TRUE, hooks |-> TRUE, usage |-> TRUE,
     current |-> FALSE]

MCQuestions ==
    {Question(1, None, <<4, 3>>),
     [Question(1, None, <<4, 3>>) EXCEPT !.statics = FALSE],
     [Question(1, None, <<4, 2, 2>>) EXCEPT !.paths = 5, !.getters = FALSE],
     [Question(1, None, <<>>) EXCEPT !.kinds = {"managed_singleton", "hook_this"}],
     [Question(1, None, <<>>) EXCEPT !.depth = 1, !.hooks = FALSE, !.current = TRUE],
     Question(3, 2, <<4>>), Question(3, 2, <<3, 2>>)}

MCLiveItems == {[type |-> 2, node |-> "hook", hooked |-> TRUE, ref |-> 1],
                [type |-> 3, node |-> "hook", hooked |-> FALSE, ref |-> 2],
                [type |-> 4, node |-> "singleton", hooked |-> FALSE, ref |-> 3]}
=============================================================================
