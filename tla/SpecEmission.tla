---------------------------- MODULE SpecEmission ----------------------------
(***************************************************************************)
(* How the generator turns the analyzed project into one document:         *)
(* OpenAPIGenerator.Generate of internal/generator/openapi.go.             *)
(*                                                                         *)
(* Routes are reduced to the first one per method and path, operationIds   *)
(* are assigned in the order of those keys, operations are attached to     *)
(* their paths, and components are gated by what the emitted routes and    *)
(* the type registry reference.  Only names and references are kept of a   *)
(* schema.                                                                 *)
(*                                                                         *)
(* A slot is a method and path, numbered in the order their keys sort in.  *)
(***************************************************************************)
EXTENDS FreshNames

CONSTANTS
    Projects,           \* the projects the generator may be given
    ErrorResponse, RawErrorResponse, JOSEErrorEnvelope, SuccessResponse

VARIABLES
    project,   \* the project being documented
    read,      \* the routes emittedRoutes has gone through
    emitted,   \* the routes it kept, as indexes of project.routes
    opIDs,     \* slot -> operationId
    usedIDs,   \* the operationIds taken
    built,     \* the emitted routes buildPaths has gone through
    paths,     \* slot -> the route its operation documents
    schemas,   \* the components of the document
    written    \* whether the document is complete

vars == <<project, read, emitted, opIDs, usedIDs, built, paths, schemas, written>>

-----------------------------------------------------------------------------
(* Projects. *)

Standard == {ErrorResponse, RawErrorResponse, JOSEErrorEnvelope, SuccessResponse}

ASSUME StandardAssumption == Standard \subseteq NameText \ {<<>>}

\* A registered type: whether it has body fields, whether it has path, query
\* or header fields, and the components each of them reference.
Type == [body : BOOLEAN, params : BOOLEAN, jose : BOOLEAN,
         bodyRefs : SUBSET NameText, paramRefs : SUBSET NameText]

\* The TypeInfo of a request or response.  resolved says it is documented
\* from its Resolution, which references refs; paramRefs are the references of
\* the parameters a struct Marshaler request keeps.
Payload == [name : NameText, jose : BOOLEAN, resolved : BOOLEAN,
            refs : SUBSET NameText, paramRefs : SUBSET NameText]

\* base is the operationId before suffixes: baseOperationID.
Route == [slot : Nat, base : NameText, raw : BOOLEAN, noContent : BOOLEAN,
          request : Payload, response : Payload]

\* The analyzer names a payload after the component it registered, a sealed
\* one is never a well-known type, and every reference names a registered
\* component.
Analyzed(p, types) ==
    /\ p.refs \cup p.paramRefs \subseteq DOMAIN types
    /\ p.name # <<>> /\ ~p.resolved =>
         p.name \in DOMAIN types /\ p.jose = types[p.name].jose
    /\ p.name # <<>> /\ p.jose => ~p.resolved

WellFormed(p) ==
    /\ p.routes \in Seq(Route)
    /\ p.rooted \subseteq Nat
    /\ DOMAIN p.types \subseteq NameText \ {<<>>}
    /\ \A n \in DOMAIN p.types :
         /\ p.types[n] \in Type
         /\ p.types[n].bodyRefs \cup p.types[n].paramRefs \subseteq DOMAIN p.types
         /\ ~p.types[n].body => p.types[n].bodyRefs = {}
         /\ ~p.types[n].params => p.types[n].paramRefs = {}
    /\ \A i \in DOMAIN p.routes :
         /\ Analyzed(p.routes[i].request, p.types)
         /\ Analyzed(p.routes[i].response, p.types)
         \* the Resolution of a request is a Marshaler type's
         /\ p.routes[i].request.refs = {}
         /\ p.routes[i].noContent => ~p.routes[i].response.jose

ASSUME ProjectsAssumption == \A p \in Projects : WellFormed(p)

Routes == project.routes
Types == project.types
RouteAt(i) == Routes[i]
Kept == {emitted[i] : i \in DOMAIN emitted}
KeptSlots == {RouteAt(i).slot : i \in Kept}

-----------------------------------------------------------------------------
(* What an operation references. *)

\* errorSchemaName: one choice, shared by the responses and the gate.
ErrorSchema(r) ==
    IF r.request.jose \/ r.response.jose THEN JOSEErrorEnvelope
    ELSE IF r.raw THEN RawErrorResponse ELSE ErrorResponse

Named(p) == IF p.name = <<>> THEN {} ELSE {p.name}

\* successPlaintextSchema: what a sealed response decrypts to.
Plaintext(p) ==
    IF p.name # <<>> THEN {p.name} ELSE IF p.resolved THEN {} ELSE {SuccessResponse}

\* buildResponses, responsePayloadSchema.
ResponseRefs(r) ==
    IF r.noContent THEN {}
    ELSE IF r.response.jose THEN Plaintext(r.response)
    ELSE IF r.response.resolved THEN r.response.refs
    ELSE Named(r.response)

Registered(p) == p.name # <<>> /\ ~p.resolved

\* buildOperation, buildRequestBody.
HasBody(p) == p.jose \/ p.resolved \/ (Registered(p) /\ Types[p.name].body)

RequestRefs(r) ==
    IF ~HasBody(r.request) THEN {}
    ELSE IF r.request.jose THEN Named(r.request)
    ELSE IF r.request.resolved THEN {}
    ELSE Named(r.request)

\* extractParameters.
ParameterRefs(p) == IF Registered(p) THEN Types[p.name].paramRefs ELSE p.paramRefs

OperationRefs(r) ==
    {ErrorSchema(r)} \cup ResponseRefs(r) \cup RequestRefs(r)
        \cup ParameterRefs(r.request)

-----------------------------------------------------------------------------
(* Which components are emitted. *)

\* createStandardSchemas.
StandardFor(routes) ==
    {ErrorSchema(RouteAt(i)) : i \in routes} \cup
    {n \in {SuccessResponse} :
        \E i \in routes : RouteAt(i).response.jose /\ n \in Plaintext(RouteAt(i).response)}

\* addRequestFieldRefs.
RequestFieldRefs(p) ==
    ParameterRefs(p) \cup IF Registered(p) THEN Types[p.name].bodyRefs ELSE {}

RouteReferences(r) ==
    (IF r.response.jose \/ ~r.response.resolved THEN Named(r.response) ELSE {})
      \cup (IF r.response.resolved THEN r.response.refs ELSE {})
      \cup (IF r.request.jose THEN Named(r.request) ELSE {})

\* addFieldSchemaRefs.
FieldRefs == UNION {Types[n].bodyRefs \cup Types[n].paramRefs : n \in DOMAIN Types}

\* For the mutation runs: no walk over the fields of requests.
ReferencedByTypes(routes) ==
    (UNION {RouteReferences(RouteAt(i)) : i \in routes}) \cup FieldRefs

\* referencedSchemaNames.
Referenced(routes) ==
    (UNION {RouteReferences(RouteAt(i)) \cup RequestFieldRefs(RouteAt(i).request) :
              i \in routes}) \cup FieldRefs

\* generateSchemasFromTypes: a type with no field of a body, or no field at
\* all, has a component only when something references it.
ParamsOnly(t) == t.params /\ ~t.body /\ ~t.jose
Fieldless(t) == ~t.params /\ ~t.body

Generated(routes) ==
    {n \in DOMAIN Types :
        ParamsOnly(Types[n]) \/ Fieldless(Types[n]) => n \in Referenced(routes)}

-----------------------------------------------------------------------------
(* Generate. *)

Reading == read < Len(Routes)
Naming == ~Reading /\ DOMAIN opIDs # KeptSlots
Building == ~Reading /\ ~Naming /\ built < Len(emitted)

With(f, x, v) == [y \in DOMAIN f \cup {x} |-> IF y = x THEN v ELSE f[y]]

\* For the mutation runs: the last registration of a slot replaces the first.
LastWins(kept, i) ==
    IF RouteAt(i).slot \in {RouteAt(kept[j]).slot : j \in DOMAIN kept}
    THEN [j \in DOMAIN kept |->
            IF RouteAt(kept[j]).slot = RouteAt(i).slot THEN i ELSE kept[j]]
    ELSE Append(kept, i)

\* emittedRoutes: the first route of a slot is kept.
FirstWins(kept, i) ==
    IF RouteAt(i).slot \in {RouteAt(kept[j]).slot : j \in DOMAIN kept}
    THEN kept ELSE Append(kept, i)

ReadRoute ==
    /\ Reading
    /\ read' = read + 1
    /\ emitted' = FirstWins(emitted, read + 1)
    /\ UNCHANGED <<project, opIDs, usedIDs, built, paths, schemas, written>>

\* For the mutation runs: ids go out in registration order.
DiscoveryOrder(r) ==
    \A j \in DOMAIN emitted :
        RouteAt(emitted[j]).slot \notin DOMAIN opIDs =>
            \A k \in DOMAIN emitted : RouteAt(emitted[k]) = r => k <= j

\* The keys are sorted, so the least slot without an id comes next.
NextByKey(r) ==
    \A j \in DOMAIN emitted :
        RouteAt(emitted[j]).slot \notin DOMAIN opIDs => r.slot <= RouteAt(emitted[j]).slot

\* For the mutation runs: the name asked for is marked, not the one given.
MarkBase(base, id) == usedIDs \cup {base}

Mark(base, id) == usedIDs \cup {id}

AssignOperationID ==
    /\ Naming
    /\ \E i \in Kept :
         LET r == RouteAt(i)
             id == Fresh(r.base, usedIDs)
         IN  /\ r.slot \notin DOMAIN opIDs
             /\ NextByKey(r)
             /\ opIDs' = With(opIDs, r.slot, id)
             /\ usedIDs' = Mark(r.base, id)
    /\ UNCHANGED <<project, read, emitted, built, paths, schemas, written>>

\* The route buildPaths has come to.
BuildingRoute == emitted[built + 1]

\* assignOperation: the operation takes its slot unless one holds it already.
AttachOperation ==
    /\ Building
    /\ LET i == BuildingRoute
           slot == RouteAt(i).slot
       IN  /\ slot \in project.rooted
           /\ paths' = IF slot \in DOMAIN paths THEN paths ELSE With(paths, slot, i)
    /\ built' = built + 1
    /\ UNCHANGED <<project, read, emitted, opIDs, usedIDs, schemas, written>>

\* buildPaths skips a path that does not start with a slash.
SkipUnrooted ==
    /\ Building
    /\ RouteAt(BuildingRoute).slot \notin project.rooted
    /\ built' = built + 1
    /\ UNCHANGED <<project, read, emitted, opIDs, usedIDs, paths, schemas, written>>

\* For the mutation runs: the gate looks at every route, not the emitted ones.
GateOnAllRoutes == 1..read

\* The routes createStandardSchemas looks at.
Gated == Kept

\* Generated components override standard ones of the same name, so the
\* document holds every name of either kind once.
EmitComponents ==
    /\ ~Reading /\ ~Naming /\ ~Building /\ ~written
    /\ schemas' = StandardFor(Gated) \cup Generated(Kept)
    /\ written' = TRUE
    /\ UNCHANGED <<project, read, emitted, opIDs, usedIDs, built, paths>>

Finished == written /\ UNCHANGED vars

Init ==
    /\ project \in Projects
    /\ read = 0 /\ emitted = <<>>
    /\ opIDs = <<>> /\ usedIDs = {}
    /\ built = 0 /\ paths = <<>>
    /\ schemas = {} /\ written = FALSE

Next == ReadRoute \/ AssignOperationID \/ AttachOperation \/ SkipUnrooted
          \/ EmitComponents \/ Finished

Spec == Init /\ [][Next]_vars

-----------------------------------------------------------------------------
(* Properties. *)

\* The generator's intermediate results have their types, and the ids in use
\* are the ids given.
TypeOK ==
    /\ WellFormed(project)
    /\ read \in 0..Len(Routes)
    /\ emitted \in Seq(1..Len(Routes))
    /\ DOMAIN opIDs \subseteq KeptSlots /\ \A s \in DOMAIN opIDs : opIDs[s] \in NameText
    /\ usedIDs = {opIDs[s] : s \in DOMAIN opIDs}
    /\ built \in 0..Len(emitted)
    /\ DOMAIN paths \subseteq KeptSlots /\ \A s \in DOMAIN paths : paths[s] \in Kept
    /\ schemas \subseteq NameText
    /\ written \in BOOLEAN

\* No two operations share an operationId, however handler names, explicit
\* names and suffixes collide.
OperationIDsUnique ==
    \A s, t \in DOMAIN opIDs : opIDs[s] = opIDs[t] => s = t

\* The documented operation of a slot is its first registration, and a
\* complete document has one for every rooted slot registered.
FirstRegistrationWins ==
    /\ \A s \in DOMAIN paths :
         /\ RouteAt(paths[s]).slot = s
         /\ \A i \in 1..(paths[s] - 1) : RouteAt(i).slot # s
    /\ written =>
         \A i \in DOMAIN Routes :
            RouteAt(i).slot \in project.rooted => RouteAt(i).slot \in DOMAIN paths

\* An operation gives up its own id only to one whose key sorts before it, so
\* the order in which routes are discovered does not show in the document.
IDsFollowKeyOrder ==
    \A i \in Kept :
        RouteAt(i).slot \in DOMAIN opIDs =>
            \/ opIDs[RouteAt(i).slot] = RouteAt(i).base
            \/ \E t \in DOMAIN opIDs :
                 t < RouteAt(i).slot /\ opIDs[t] = RouteAt(i).base

\* In a complete document every $ref resolves, whether an operation, a
\* parameter or a component makes it, although types without body fields are
\* dropped when the gate sees no reference to them.
RefsResolve ==
    written =>
        /\ \A s \in DOMAIN paths : OperationRefs(RouteAt(paths[s])) \subseteq schemas
        /\ \A n \in schemas \cap DOMAIN Types : Types[n].bodyRefs \subseteq schemas

\* A standard schema is in the document only if an operation refers to it.
StandardSchemasReferenced ==
    written =>
        \A n \in schemas \cap Standard :
            n \in DOMAIN Types \/ \E s \in DOMAIN paths : n \in OperationRefs(RouteAt(paths[s]))

\* The gate of the standard schemas agrees with the operations once every
\* emitted route has a path buildPaths accepts.
GateMatchesPaths == KeptSlots \subseteq project.rooted => StandardSchemasReferenced
=============================================================================
