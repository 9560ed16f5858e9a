--------------------------- MODULE MCSessionStart ---------------------------
EXTENDS SessionStart

CONSTANTS p1, p2, planned, other, none

Mill    == [resource |-> "mill", declaration |-> "d1", recipe |-> "r1"]
Mill2   == [resource |-> "mill", declaration |-> "d1", recipe |-> "r2"]
Farm    == [resource |-> "farm", declaration |-> "d1", recipe |-> "r3"]
Field   == [resource |-> "field", declaration |-> "d1", recipe |-> none]

MCPeers == {p1, p2}
Both(v) == [p \in MCPeers |-> v]
Split(v, w) == [p \in MCPeers |-> IF p = p1 THEN v ELSE w]

Scene(k, w, s) == [kind |-> k, world |-> w, content |-> s]

Good(k)        == Scene(k, Both(planned), Both({Mill}))
WrongClient(k) == Scene(k, Split(planned, other), Both({Mill}))
WrongHost(k)   == Scene(k, Split(other, planned), Both({Mill}))
MoreContent(k) == Scene(k, Both(planned), Split({Mill, Field}, {Mill}))
OtherContent(k) == Scene(k, Both(planned), Split({Mill}, {Mill, Farm}))
TwoRecipes(k)  == Scene(k, Both(planned), Split({Mill}, {Mill, Mill2}))

\* In each scene one thing at most is wrong.
MCScenes ==
    {MoreContent("open"), TwoRecipes("open"),
     Good("fresh"), WrongClient("fresh"), OtherContent("fresh"),
     Good("plan"), WrongClient("plan"), WrongHost("plan"), Good("continue")}
=============================================================================
