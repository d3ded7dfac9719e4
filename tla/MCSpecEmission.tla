--------------------------- MODULE MCSpecEmission ---------------------------
(***************************************************************************)
(* Projects of up to three routes over three slots, for SpecEmission.  The *)
(* routes are chosen so that ids collide (a handler name, an explicit name *)
(* and a suffixed name are the same text), registrations repeat a slot,    *)
(* and every kind of request and response meets every kind of type.        *)
(***************************************************************************)
EXTENDS SpecEmission

CONSTANTS
    Slots,     \* the slots routes register
    Unrooted   \* those a project may give a path without a leading slash

MCError == <<91>>
MCRaw == <<92>>
MCJose == <<93>>
MCSuccess == <<94>>

List == <<10>>      \* a handler name
List2 == <<10, 2>>  \* the name its second operation gets

Order == <<1>>  \* body fields, one of type Line
Line == <<2>>   \* body fields
Query == <<3>>  \* parameters only, one of struct type Marker
Marker == <<4>> \* no fields
Sealed == <<5>> \* a jose-tagged struct

None == [name |-> <<>>, jose |-> FALSE, resolved |-> FALSE, refs |-> {}, paramRefs |-> {}]
Of(n) == [None EXCEPT !.name = n]

MCTypes ==
    LET body(refs) == [body |-> TRUE, params |-> FALSE, jose |-> FALSE,
                       bodyRefs |-> refs, paramRefs |-> {}]
    IN  [n \in {Order, Line, Query, Marker, Sealed} |->
           CASE n = Order  -> body({Line})
             [] n = Line   -> body({})
             [] n = Query  -> [body({}) EXCEPT !.body = FALSE, !.params = TRUE,
                                               !.paramRefs = {Marker}]
             [] n = Marker -> [body({}) EXCEPT !.body = FALSE]
             [] n = Sealed -> [body({}) EXCEPT !.jose = TRUE]]

\* Only what the routes reach is registered.
Reach(routes) ==
    LET named == {routes[i].request.name : i \in DOMAIN routes}
                   \cup {routes[i].response.name : i \in DOMAIN routes}
                   \cup UNION {routes[i].request.paramRefs \cup routes[i].response.refs :
                                 i \in DOMAIN routes}
        direct == named \cap DOMAIN MCTypes
    IN  direct \cup UNION {MCTypes[n].bodyRefs \cup MCTypes[n].paramRefs : n \in direct}

\* Requests and responses: none, a component, a sealed one, one documented
\* from its Resolution, a well-known response, a struct Marshaler request.
Exchanges ==
    {<<None, None>>, <<Of(Order), None>>, <<None, Of(Order)>>, <<Of(Query), Of(Line)>>,
     <<Of(Query), Of(Query)>>,
     <<[Of(Sealed) EXCEPT !.jose = TRUE], [None EXCEPT !.jose = TRUE]>>,
     <<None, [None EXCEPT !.resolved = TRUE, !.refs = {Marker}]>>,
     <<[None EXCEPT !.resolved = TRUE, !.paramRefs = {Marker}], [Of(<<7>>) EXCEPT !.resolved = TRUE]>>}

MCRoutes ==
    {[slot |-> s, base |-> b, raw |-> w, noContent |-> FALSE,
      request |-> e[1], response |-> e[2]] :
        s \in Slots, b \in {List, List2}, w \in {FALSE}, e \in Exchanges}
    \cup
    {[slot |-> s, base |-> List, raw |-> TRUE, noContent |-> c,
      request |-> None, response |-> None] : s \in Slots, c \in BOOLEAN}

\* Routes that matter only for their slot and id.
Bare == {r \in MCRoutes : r.request = None /\ r.response = None /\ ~r.raw}

\* Projects of up to two routes of every kind, and of three bare ones.
MCProjects ==
    {[routes |-> rs, rooted |-> Slots \ u, types |-> [n \in Reach(rs) |-> MCTypes[n]]] :
        rs \in [1..3 -> Bare] \cup UNION {[1..k -> MCRoutes] : k \in 0..2},
        u \in {{}, Unrooted}}
=============================================================================
