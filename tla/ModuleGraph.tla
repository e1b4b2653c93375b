---------------------------- MODULE ModuleGraph ----------------------------
(***************************************************************************)
(* The dependency graph of the application's modules, validated at start:  *)
(* every declared dependency exists and none leads back to itself. The     *)
(* search is a depth-first one with three colours, an explicit path here.  *)
(* Source: core/module.py (discover_modules).                              *)
(***************************************************************************)
EXTENDS Naturals, Sequences, FiniteSets, SequencesExt

CONSTANTS
    Names,           \* packages of app.modules
    Ghost            \* a dependency that names no module

VARIABLES
    dependsOn,       \* per module: its depends_on, as a sequence
    colour,          \* white, gray or black
    path,            \* the calls of visit, with the dependencies left to look at
    startUp          \* "checking", "ready" or what ModuleError reports

graphVars == <<dependsOn, colour, path, startUp>>

Declarations == {s \in UNION {[1..n -> Names \cup {Ghost}] : n \in 0..2} :
                    \A i, j \in DOMAIN s : s[i] = s[j] => i = j}

\* _validate_dependencies: every name is registered, before the search.
Unknown == \E n \in Names : Ghost \in ToSet(dependsOn[n])

GraphInit ==
    /\ dependsOn \in [Names -> Declarations]
    /\ colour = [n \in Names |-> "white"]
    /\ path = <<>>
    /\ startUp = IF Unknown THEN "unknown dependency" ELSE "checking"

Entering(n) == [node |-> n, left |-> dependsOn[n]]
Top == path[Len(path)]

\* The loop over the nodes, and its end.
StartVisit(n) ==
    /\ startUp = "checking" /\ path = <<>> /\ colour[n] = "white"
    /\ path' = <<Entering(n)>> /\ colour' = [colour EXCEPT ![n] = "gray"]
    /\ UNCHANGED <<dependsOn, startUp>>

Ready ==
    /\ startUp = "checking" /\ path = <<>> /\ \A n \in Names : colour[n] = "black"
    /\ startUp' = "ready" /\ UNCHANGED <<dependsOn, colour, path>>

\* A plausible bug: any node seen before closes a cycle.
SeenBefore(dep) == colour[dep] # "white"

ClosesACycle(dep) == colour[dep] = "gray"

\* One dependency of the node on top.
LookAt ==
    /\ startUp = "checking" /\ path # <<>> /\ Top.left # <<>>
    /\ LET dep == Head(Top.left)
           rest == [path EXCEPT ![Len(path)].left = Tail(Top.left)]
       IN CASE ClosesACycle(dep) ->
                  startUp' = "circular" /\ UNCHANGED <<colour, path>>
            [] ~ClosesACycle(dep) /\ colour[dep] = "white" ->
                  /\ path' = Append(rest, Entering(dep))
                  /\ colour' = [colour EXCEPT ![dep] = "gray"]
                  /\ UNCHANGED startUp
            [] OTHER -> path' = rest /\ UNCHANGED <<colour, startUp>>
    /\ UNCHANGED dependsOn

LeaveNode ==
    /\ startUp = "checking" /\ path # <<>> /\ Top.left = <<>>
    /\ colour' = [colour EXCEPT ![Top.node] = "black"]
    /\ path' = SubSeq(path, 1, Len(path) - 1)
    /\ UNCHANGED <<dependsOn, startUp>>

GraphNext == (\E n \in Names : StartVisit(n)) \/ LookAt \/ LeaveNode \/ Ready

GraphSpec == GraphInit /\ [][GraphNext]_graphVars

----------------------------------------------------------------------------
Edge(a, b) == b \in ToSet(dependsOn[a])

\* A set of modules each of which depends on one of the set.
Circular == \E S \in SUBSET Names : S # {} /\ \A a \in S : \E b \in S : Edge(a, b)

(* The graph, the colours and the path have their types; gray is the path. *)
GraphTypeOK ==
    /\ startUp \in {"checking", "ready", "circular", "unknown dependency"}
    /\ {n \in Names : colour[n] = "gray"} = {path[i].node : i \in DOMAIN path}

(* The application starts exactly on the graphs without a cycle, in        *)
(* whatever order the modules are visited (core/module.py:88-108).         *)
StartsIffAcyclic ==
    /\ startUp = "ready" => ~Circular /\ ~Unknown
    /\ startUp = "circular" => Circular
=============================================================================
