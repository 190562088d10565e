-------------------------- MODULE GraphDefinition --------------------------
(***************************************************************************)
(* The construction of a graph (core/graph/graph_definition.py): the flows  *)
(* a program declares are checked, laid out in columns, checked again for   *)
(* fan-out and fan-in, bound to resources and serializers, confirmed, and   *)
(* compiled into steps that wait for one another.  Three traversals of the  *)
(* layout, written apart, must agree on who produces what: the check of     *)
(* the layout, the validation of the artifact contracts and the compiler.   *)
(*                                                                          *)
(* Operators, artifacts, resources and serializers are identities; what an  *)
(* operator requires of a package is the set of versions it accepts, and a  *)
(* field of an artifact declares a contract or nothing.                     *)
(***************************************************************************)
EXTENDS Integers, FiniteSets, SequencesExt

CONSTANTS
    Artifact, Operator,
    Declaration,       \* the graphs a program may declare
    NoArtifact,        \* the artifact of a flow without one
    NoOperator,        \* an empty place of the layout
    Contract,          \* [Operator -> [takes, gives : contracts or "ANY"]]
    Version,           \* versions of a package
    Requires,          \* [Operator -> SUBSET Version], what an operator accepts
    WithResource,      \* [a set of operators -> required or not]
    Resource,          \* resources a program may bind
    ResourceRequires,  \* [Resource -> SUBSET Version]
    SerializerRequires \* the versions the serializers accept

VARIABLES
    graph,        \* the declaration: flows, entry rows, inputs and outputs
    phase,        \* how far GraphDefinition.__init__ and its compilation are
    layout,       \* GraphLayout._rows, column by column
    active,       \* active_artifacts of the loop that runs
    checked,      \* columns _validate_layout has passed
    exits,        \* active_operator_outputs, then the exit artifacts
    state,        \* GraphDefinition._state
    resources,    \* ResourceContext
    serialized,   \* whether serializers are bound, and to what
    requirements, \* GraphSpecification._requirements, or none yet
    report,       \* the cached GraphValidationReport
    plan          \* CompiledGraph: steps and what each waits for

definitionVars == <<graph, phase, layout, active, checked, exits, state, resources,
                    serialized, requirements, report, plan>>

ASSUME Declared == NoOperator \notin Operator /\ NoArtifact \notin Artifact

Unmerged == {}  \* a merge is never empty
Unreported == [producer |-> <<>>, edges |-> {}]
Empty == [steps |-> <<>>, before |-> <<>>, sound |-> TRUE]

In(o) == graph.in[o]
Out(o) == graph.out[o]
Rows == DOMAIN graph.flows
Consumed(S) == UNION {In(o) : o \in S}
Generated(S) == UNION {Out(o) : o \in S}

\* ArtifactFlow: a flow orders the consumers of its artifact; only its first
\* operator may be one without inputs.
FlowAccepted(f) ==
    IF f.artifact = NoArtifact THEN Len(f.operators) = 1 /\ In(f.operators[1]) = {}
    ELSE /\ In(f.operators[1]) = {} \/ f.artifact \in In(f.operators[1])
         /\ \A i \in 2..Len(f.operators) : f.artifact \in In(f.operators[i])

EntriesAccepted ==
    \A r \in graph.entries :
        /\ graph.flows[r].artifact # NoArtifact
        /\ In(graph.flows[r].operators[1]) # {}

Flowing == {graph.flows[r].artifact : r \in Rows} \ {NoArtifact}
Entries == {graph.flows[r].artifact : r \in graph.entries}
Declaring == UNION {Range(graph.flows[r].operators) : r \in Rows}
RowOf(a) == CHOOSE r \in Rows : graph.flows[r].artifact = a

\* Every artifact has one flow, and an origin.
ArtifactsAccepted ==
    /\ \A q, r \in Rows : graph.flows[q].artifact = graph.flows[r].artifact
                              => q = r \/ graph.flows[q].artifact = NoArtifact
    /\ Consumed(Declaring) \subseteq Flowing
    /\ Flowing \subseteq Entries \cup Generated(Declaring)

\* The artifacts of the graph: those with a flow, and outputs nobody consumes.
Known == Flowing \cup Generated(Declaring)

Refuse == phase' = "REFUSED"

Collect ==
    /\ phase = "DECLARED"
    /\ IF /\ \A r \in Rows : FlowAccepted(graph.flows[r])
          /\ EntriesAccepted /\ ArtifactsAccepted
       THEN phase' = "LAYING" /\ active' = Entries
       ELSE Refuse /\ UNCHANGED active
    /\ UNCHANGED <<graph, layout, checked, exits, state, resources, serialized, requirements, report, plan>>

(***************************************************************************)
(* _generate_layout: one column per turn.  An operator comes when it is next *)
(* in the flows of all its inputs, and these are active.                    *)
(***************************************************************************)
Placed(r) == Cardinality({c \in DOMAIN layout : layout[c][r] # NoOperator})
LaidOut == \A r \in Rows : Placed(r) >= Len(graph.flows[r].operators)
NextIn(r) ==
    LET flow == graph.flows[r]
        next == flow.operators[Placed(r) + 1]
    IN  IF Placed(r) >= Len(flow.operators) THEN NoOperator
        ELSE IF (Placed(r) = 0 /\ In(next) = {}) \/ flow.artifact \in active THEN next
        ELSE NoOperator
Candidate == [r \in Rows |-> NextIn(r)]
Aligned == {o \in Range(Candidate) \ {NoOperator} : \A a \in In(o) : Candidate[RowOf(a)] = o}

AppendColumn ==
    /\ phase = "LAYING" /\ ~LaidOut
    /\ IF Aligned = {}
       THEN Refuse /\ UNCHANGED <<layout, active>>
       ELSE /\ layout' = Append(layout, [r \in Rows |-> IF Candidate[r] \in Aligned
                                                        THEN Candidate[r] ELSE NoOperator])
            /\ active' = (active \ Consumed(Aligned)) \cup Generated(Aligned)
            /\ UNCHANGED phase
    /\ UNCHANGED <<graph, checked, exits, state, resources, serialized, requirements, report, plan>>

(***************************************************************************)
(* _validate_layout, column by column, its operators in the order of the    *)
(* rows.                                                                    *)
(***************************************************************************)
Distinct(column) ==
    FoldLeft(LAMBDA seen, o : IF o = NoOperator \/ Contains(seen, o) THEN seen ELSE Append(seen, o),
             <<>>, column)

FanOut(ops) ==
    \E i \in DOMAIN ops : \E a \in In(ops[i]) :
        a \notin active \/ \E j \in 1..(i - 1) : a \in In(ops[j])

FanIn(ops) ==
    \E i \in DOMAIN ops : \E a \in Out(ops[i]) :
        \/ \E j \in 1..(i - 1) : a \in Out(ops[j])
        \/ a \in active /\ \A j \in 1..i : a \notin In(ops[j])

StartCheck ==
    /\ phase = "LAYING" /\ LaidOut
    /\ phase' = "CHECKING" /\ active' = Entries
    /\ UNCHANGED <<graph, layout, checked, exits, state, resources, serialized, requirements, report, plan>>

CheckColumn ==
    /\ phase = "CHECKING" /\ checked < Len(layout)
    /\ LET ops == Distinct(layout[checked + 1])
           gone == Consumed(Range(ops))
           new == Generated(Range(ops))
       IN  IF FanOut(ops) \/ FanIn(ops)
           THEN Refuse /\ UNCHANGED <<active, checked, exits>>
           ELSE /\ checked' = checked + 1
                /\ active' = (active \ gone) \cup new
                /\ exits' = (exits \ gone) \cup new
                /\ UNCHANGED phase
    /\ UNCHANGED <<graph, layout, state, resources, serialized, requirements, report, plan>>

Created ==
    /\ phase = "CHECKING" /\ checked = Len(layout)
    /\ phase' = "CREATED"
    /\ UNCHANGED <<graph, layout, active, checked, exits, state, resources, serialized, requirements, report, plan>>

(***************************************************************************)
(* GraphValidation: the edges of the graph, from the layout alone.  A source *)
(* is a step, 0 for an entry, or -1 when nothing produced the artifact.      *)
(***************************************************************************)
Steps == FlattenSeq([c \in DOMAIN layout |-> Distinct(layout[c])])

Consume(o, i, acc) ==
    [producer |-> [a \in Artifact |-> IF a \in Out(o) THEN i
                                      ELSE IF a \in In(o) THEN -1 ELSE acc.producer[a]],
     edges |-> acc.edges \cup {[from |-> acc.producer[a], to |-> i, artifact |-> a] : a \in In(o)}]
Validation ==
    FoldLeftDomain(LAMBDA acc, i : Consume(Steps[i], i, acc),
                   [producer |-> [a \in Artifact |-> IF a \in Entries THEN 0 ELSE -1],
                    edges |-> {}],
                   Steps)
ExitEdges(found) == {a \in Artifact : found.producer[a] > 0}

\* ArtifactValidator: a mismatch needs both sides to declare.
Mismatched(e) ==
    LET given == Contract[Steps[e.from]].gives
        wanted == Contract[Steps[e.to]].takes
    IN  e.from > 0 /\ "ANY" \notin {given, wanted} /\ given # wanted
Valid == \A e \in Validation.edges : ~Mismatched(e)

(***************************************************************************)
(* Bindings.  merge_requirements: what all of them accept; none is a conflict*)
(* and the call leaves the graph as it was.                                  *)
(***************************************************************************)
OperatorVersions == {v \in Version : \A o \in Declaring : v \in Requires[o]}
ResourceVersions(bound) == {v \in Version : \A f \in DOMAIN bound : v \in ResourceRequires[bound[f]]}
SerializerVersions(which) == IF which = "ALL" THEN SerializerRequires ELSE Version

\* GraphSpecification.proceed.
Merged(bound, which) == OperatorVersions \cap ResourceVersions(bound) \cap SerializerVersions(which)

Fields == Declaring \cap DOMAIN WithResource
RequiredBound(bound) == \A f \in Fields : WithResource[f] => f \in DOMAIN bound

BindResources ==
    /\ phase = "CREATED" /\ state = "CREATED"
    /\ \E F \in SUBSET Fields : \E bound \in [F -> Resource] :
        /\ RequiredBound(bound)
        /\ Merged(bound, serialized) # {}
        /\ resources' = bound
        /\ requirements' = Merged(bound, serialized)
    /\ state' = "RESOURCES_BOUND"
    /\ UNCHANGED <<graph, phase, layout, active, checked, exits, serialized, report, plan>>

\* What is merged again once serializers are bound.
Requirement(which) ==
    IF requirements = Unmerged THEN Unmerged ELSE Merged(resources, which)

\* Nothing, or the whole boundary.
BindSerializers ==
    /\ phase = "CREATED" /\ state # "CONFIRMED" /\ serialized = "UNBOUND"
    /\ \E which \in {"NONE", "ALL"} :
        /\ Merged(resources, which) # {}
        /\ serialized' = which
        /\ requirements' = Requirement(which)
    /\ UNCHANGED <<graph, phase, layout, active, checked, exits, state, resources, report, plan>>

Confirm ==
    /\ phase = "CREATED" /\ state # "CONFIRMED"
    /\ RequiredBound(resources) /\ Valid
    /\ Merged(resources, serialized) # {}
    /\ state' = "CONFIRMED" /\ report' = Validation
    /\ requirements' = IF requirements = Unmerged THEN Merged(resources, serialized) ELSE requirements
    /\ UNCHANGED <<graph, phase, layout, active, checked, exits, resources, serialized, plan>>

(***************************************************************************)
(* _compiled_graph: what each step waits for.  Only producers are known, so  *)
(* an input without one must come from an entry.                             *)
(***************************************************************************)
\* Variant: an artifact keeps its first producer.
Schedule_First(o, i, acc) ==
    [producer |-> [a \in Artifact |-> IF a \in Out(o) /\ acc.producer[a] = 0 THEN i ELSE acc.producer[a]],
     before |-> Append(acc.before, {acc.producer[a] : a \in In(o)} \ {0}),
     sound |-> acc.sound /\ \A a \in In(o) : acc.producer[a] = 0 => a \in Entries]

Schedule(o, i, acc) ==
    [producer |-> [a \in Artifact |-> IF a \in Out(o) THEN i
                                      ELSE IF a \in In(o) THEN 0 ELSE acc.producer[a]],
     before |-> Append(acc.before, {acc.producer[a] : a \in In(o)} \ {0}),
     sound |-> acc.sound /\ \A a \in In(o) : acc.producer[a] = 0 => a \in Entries]

Compiled ==
    FoldLeftDomain(LAMBDA acc, i : Schedule(Steps[i], i, acc),
                   [producer |-> [a \in Artifact |-> 0], before |-> <<>>, sound |-> TRUE],
                   Steps)

Compile ==
    /\ phase = "CREATED" /\ state = "CONFIRMED"
    /\ phase' = "COMPILED"
    /\ plan' = [steps |-> Steps, before |-> Compiled.before, sound |-> Compiled.sound]
    /\ UNCHANGED <<graph, layout, active, checked, exits, state, resources, serialized, requirements, report>>

DefinitionInit ==
    /\ graph \in Declaration
    /\ phase = "DECLARED" /\ layout = <<>> /\ active = {} /\ checked = 0 /\ exits = {}
    /\ state = "CREATED" /\ resources = <<>> /\ serialized = "UNBOUND"
    /\ requirements = Unmerged /\ plan = Empty /\ report = Unreported

DefinitionNext ==
    \/ Collect \/ AppendColumn \/ StartCheck \/ CheckColumn \/ Created
    \/ BindResources \/ BindSerializers \/ Confirm \/ Compile

\* The layout, the validation and the compiler see the same graph: every input
\* has a source, the compiler waits for the producers the validation drew, and
\* what the layout leaves active is what the validation draws as exits.
TraversalsAgree ==
    /\ state = "CONFIRMED" =>
        (\A e \in report.edges : e.from >= 0) /\ ExitEdges(report) = exits
    /\ phase = "COMPILED" =>
        /\ plan.sound
        /\ \A i \in DOMAIN plan.steps :
               plan.before[i] = {e.from : e \in {d \in report.edges : d.to = i}} \ {0}

\* Whatever the order of the bindings, a confirmed graph requires what its
\* operators, resources and serializers all accept, and that can be met.
RequirementsMerged ==
    state = "CONFIRMED" => /\ requirements = Merged(resources, serialized)
                           /\ requirements # {}

\* What is accepted at confirmation is one graph, and one that can be met,
\* whatever the order of the declarations.
GraphAgrees == TraversalsAgree /\ RequirementsMerged
=============================================================================
