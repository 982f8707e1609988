------------------------------ MODULE MCAppStates ------------------------------
(***************************************************************************)
(* AppStates with two parents p and q of one child c, in every order, any  *)
(* of them hidden, one parent without a route, and three changes: c and p  *)
(* are opened, and p becomes a favourite.                                  *)
(***************************************************************************)
EXTENDS AppStates

CONSTANTS p, q, c, opensChild, opensParent, favours

MCAppNames == {p, q, c}

MCChanges == {opensChild, opensParent, favours}

MCChangeOf == [change \in MCChanges |->
    CASE change = opensChild  -> [app |-> c, property |-> "lastOpened", value |-> FALSE]
      [] change = opensParent -> [app |-> p, property |-> "lastOpened", value |-> FALSE]
      [] change = favours     -> [app |-> p, property |-> "isFavorite", value |-> TRUE]]

App(name, childNames, hidden, route, groups) ==
    [name |-> name, childNames |-> childNames, hidden |-> hidden, route |-> route,
     groups |-> groups, isChild |-> FALSE, isFavorite |-> FALSE]

MCGroupNames == {"prod", "cat", "secret"}

\* The hidden apps, if any, and whether q shares the child of p.
AppsOf(hidden, shared) ==
    {App(p, <<c>>, p \in hidden, <<"p">>, {"prod"}),
     App(q, IF shared THEN <<c>> ELSE <<>>, q \in hidden, <<>>, {"secret", "cat"}),
     App(c, <<>>, c \in hidden, <<"c">>, {})}

MCAppLists ==
    UNION {SetToSeqs(AppsOf(hidden, shared)) :
              hidden \in {{}, {p}, {c}}, shared \in BOOLEAN}

MCSegments == {"p", "c", Undefined}

\* The names, the categories and the initials, with q before p.
MCInitial == [name \in MCAppNames |-> IF name = q THEN "A" ELSE "Z"]

MCCollation == <<"A", q, c, "others", "cat", p, "prod", "secret", "Z">>

MCGroups ==
    {[name |-> "prod",   type |-> "product",  groups |-> {},       hidden |-> FALSE],
     [name |-> "cat",    type |-> "category", groups |-> {"prod"}, hidden |-> FALSE],
     [name |-> "secret", type |-> "category", groups |-> {"prod"}, hidden |-> TRUE]}
================================================================================
