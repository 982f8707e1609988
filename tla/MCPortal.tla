-------------------------------- MODULE MCPortal --------------------------------
(***************************************************************************)
(* Portal with one product, a parent app of this product with a child, the *)
(* launcher and the error app, after no or one earlier login.              *)
(***************************************************************************)
EXTENDS Portal

Entry(name, parent, children, groups) ==
    [name |-> name, parent |-> parent, children |-> children, groups |-> groups]

MCRouteMap ==
    {Entry("launcher", "none", {}, <<>>),
     Entry("session-expiration", "none", {}, <<>>),
     Entry("app", "none", {"child", "removed"}, <<"category", "product">>),
     Entry("child", "app", {}, <<>>)}

MCGroups ==
    {[name |-> "product", type |-> "product", hidden |-> FALSE],
     [name |-> "category", type |-> "category", hidden |-> FALSE]}

MCBookmarks ==
    {AppUrl("launcher"), AppUrl("child"), ProductUrl("product", FALSE),
     ProductUrl("product", TRUE), ProductUrl("all", FALSE)}

MCInitialStores ==
    {[last |-> 0, previous |-> 0, theme |-> NoTheme],
     [last |-> 1, previous |-> 0, theme |-> "light"]}

MCWrapped == [app \in {"child"} |-> "url"]

MCBudgets ==
    {[session |-> 3, navigation |-> 0, flyout |-> 0, failures |-> 0],
     [session |-> 1, navigation |-> 1, flyout |-> 0, failures |-> 0],
     [session |-> 0, navigation |-> 2, flyout |-> 0, failures |-> 1],
     [session |-> 0, navigation |-> 3, flyout |-> 0, failures |-> 0],
     [session |-> 0, navigation |-> 0, flyout |-> 1, failures |-> 1],
     [session |-> 0, navigation |-> 0, flyout |-> 3, failures |-> 0]}

\* Bound: a tab with events of the session begins at the launcher.
MCInit == Init /\ (budget.session > 0 => url = AppUrl("launcher"))

MCSpec == MCInit /\ [][Next]_vars /\ Fairness
================================================================================
