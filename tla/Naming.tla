------------------------------- MODULE Naming -------------------------------
(***************************************************************************)
(* Container names of the daemon (daemon/daemon.go): the name graph (the   *)
(* graphdb database linkgraph.db, path -> container id, persistent), the   *)
(* in-memory container store, and the on-disk container directories.       *)
(*                                                                         *)
(*  - Reserve: newContainer -> generateIdAndName -> reserveName or         *)
(*    generateNewName, the first half of a create;                         *)
(*  - Persist: createRootfs, ToDisk and Register, the second half;         *)
(*  - Boot: restore, which loads the directories written under the         *)
(*    current graph driver, registers those the name graph knows under     *)
(*    their stored name and gives the others a generated one;              *)
(*  - Destroy (spec 4.I, delete): drops the container's graph entries,     *)
(*    store entry and directory;                                           *)
(*  - Crash: the daemon dies; the graph and the directories stay;          *)
(*  - RegisterLinks: a link "name:alias" of a loaded container becomes an  *)
(*    edge of the graph from the entity at the parent's name to the        *)
(*    child's (lines 629-667).                                             *)
(* The graphdb database is not under src/; its Set/Get/Delete/List are     *)
(* modelled from spec 4.C. Paths are names ("/web"), the truncated id of   *)
(* a container being the container id itself; a link path "/web/db" is    *)
(* the edge named db from the entity of /web.                              *)
(***************************************************************************)
EXTENDS Integers, FiniteSets, Functions, Graphs, TLC

CONSTANTS
    Ids,          \* container ids utils.GenerateRandomID may return
    UserNames,    \* names users pass to create
    RandomNames,  \* names namesgenerator.GetRandomName may return
    Drivers,      \* graph drivers the daemon may be booted with
    NoName,       \* create without a name
    Aliases,      \* link aliases
    MaxBoots      \* bound on the number of daemon boots

ASSUME UserNames \cap RandomNames = {} /\ (UserNames \cup RandomNames) \cap Ids = {}

Paths == UserNames \cup RandomNames \cup Ids

VARIABLES
    graph,     \* name graph: path -> id (persistent)
    disk,      \* container directories with their config: id -> [name, driver]
    store,     \* contStore of the running daemon: id -> in-memory Name
    pending,   \* creates between Reserve and Persist: id -> name
    used,      \* ids generated so far
    up,        \* the daemon runs
    driver,    \* graph driver of the running daemon
    boots,
    held,      \* auxiliary: the names the daemon held when it last died
    edges      \* link edges of the graph: [parent, alias, child] entities

vars == <<graph, disk, store, pending, used, up, driver, boots, held, edges>>

EmptyFun == [x \in {} |-> NoName]

\* The link edges as a graph over the ids.
LinkGraph == [node |-> Ids, edge |-> {<<l.parent, l.child>> : l \in edges}]

\* The ids containerGraph.List("/", -1) reaches (lines 329-348): those of
\* the names, and below them those of their links at any depth.
GraphIds == Range(graph) \cup UNION {Descendants(LinkGraph, e) : e \in Range(graph)}

\* graphdb Set(path, id); the caller has checked the path is free.
SetPath(g, p, id) == g @@ (p :> id)

\* graphdb Delete(path).
DeletePath(g, p) == [q \in DOMAIN g \ {p} |-> g[q]]

-----------------------------------------------------------------------------

\* generateNewName (lines 472-494): six random names are tried, the first
\* free one wins; if all six are taken the truncated id is used. The random
\* picks may miss a free name, so any free random name or the truncated id.
GeneratedNames(id) ==
    (RandomNames \ DOMAIN graph) \cup ({id} \ DOMAIN graph)

\* The first half of create (newContainer, lines 418-470, 519-553): a fresh
\* id and a name. reserveName: on a NonUniqueName error, a name whose entity
\* has no loaded container is deleted from the graph and then used without
\* being set again; a name of a loaded container is a Conflict (no change).
Reserve ==
    /\ up
    /\ \E id \in Ids \ used, name \in UserNames \cup {NoName} :
        /\ used' = used \cup {id}
        /\ \/ /\ name = NoName
              /\ \E p \in GeneratedNames(id) :
                    /\ graph' = SetPath(graph, p, id)
                    /\ pending' = pending @@ (id :> p)
           \/ /\ name # NoName
              /\ name \notin DOMAIN graph
              /\ graph' = SetPath(graph, name, id)
              /\ pending' = pending @@ (id :> name)
           \/ /\ name # NoName
              /\ name \in DOMAIN graph
              /\ graph[name] \notin DOMAIN store
              /\ graph' = DeletePath(graph, name)
              /\ pending' = pending @@ (id :> name)
    /\ UNCHANGED <<disk, store, up, driver, boots, held, edges>>

\* Mutant: the container is saved and registered without its name.
PersistUnnamed ==
    /\ up
    /\ \E id \in DOMAIN pending :
        /\ disk' = disk @@ (id :> [name |-> NoName, driver |-> driver])
        /\ store' = store @@ (id :> NoName)
        /\ pending' = [x \in DOMAIN pending \ {id} |-> pending[x]]
    /\ UNCHANGED <<graph, used, up, driver, boots, held, edges>>

\* The second half of create: createRootfs (lines 555-579), ToDisk, and
\* Register (lines 189-264) of a container that is not running.
Persist ==
    /\ up
    /\ \E id \in DOMAIN pending :
        /\ disk' = disk @@ (id :> [name |-> pending[id], driver |-> driver])
        /\ store' = store @@ (id :> pending[id])
        /\ pending' = [x \in DOMAIN pending \ {id} |-> pending[x]]
    /\ UNCHANGED <<graph, used, up, driver, boots, held, edges>>

\* Delete of a stopped container (spec 4.I): its graph entries (names and
\* the links to it, graphdb Purge), its store entry and its directory go.
Destroy ==
    /\ up
    /\ \E id \in DOMAIN store :
        /\ graph' = [p \in {q \in DOMAIN graph : graph[q] # id} |-> graph[p]]
        /\ store' = [x \in DOMAIN store \ {id} |-> store[x]]
        /\ disk' = [x \in DOMAIN disk \ {id} |-> disk[x]]
        /\ edges' = {l \in edges : l.child # id}
    /\ UNCHANGED <<pending, used, up, driver, boots, held>>

\* The directories restore loads under graph driver d (lines 306-325).
Loadable(d) == {id \in DOMAIN disk : disk[id].driver = d}

\* restore (lines 291-387): the loadable containers the graph knows are
\* registered under their stored name and dropped from the map; each one
\* left gets a name from generateNewName, set in the graph and kept in
\* memory only (register's ensureName does not save a non-empty name).
Restore(d) ==
    LET known == Loadable(d) \cap GraphIds
        left  == Loadable(d) \ GraphIds
    IN  \E names \in [left -> Paths] :
          /\ \A id \in left : names[id] \in GeneratedNames(id)
          /\ IsInjective(names)
          /\ graph' = graph @@ [p \in Range(names) |-> CHOOSE id \in left : names[id] = p]
          /\ store' = [id \in known \cup left |-> IF id \in left THEN names[id] ELSE disk[id].name]

\* A boot of the daemon under graph driver d: NewDaemonFromDirectory up to
\* and including restore.
Boot ==
    /\ ~up
    /\ boots < MaxBoots
    /\ \E d \in Drivers :
        /\ driver' = d
        /\ Restore(d)
    /\ up' = TRUE
    /\ boots' = boots + 1
    /\ UNCHANGED <<disk, pending, used, held, edges>>

\* The daemon dies; the graph database and the directories stay.
Crash ==
    /\ up
    /\ up' = FALSE
    /\ held' = store
    /\ store' = EmptyFun
    /\ pending' = EmptyFun
    /\ UNCHANGED <<graph, disk, used, driver, boots, edges>>

-----------------------------------------------------------------------------
(***************************************************************************)
(* Links                                                                   *)
(***************************************************************************)

GetByName(name) ==
    IF name \in DOMAIN graph /\ graph[name] \in DOMAIN store THEN {graph[name]} ELSE {}

\* The entity the link path name/alias leads to, if the path exists.
LinkTarget(name, a) ==
    IF name \in DOMAIN graph
      THEN {l.child : l \in {l \in edges : l.parent = graph[name] /\ l.alias = a}}
      ELSE {}

\* Children (lines 607-627) succeeds: the Walk from the name fails when
\* the name is not a path of the graph, and each entity one level below it
\* must have a container (daemon.Get).
ChildrenOK(name) ==
    /\ name \in DOMAIN graph
    /\ \A l \in edges : l.parent = graph[name] => l.child \in DOMAIN store

\* RegisterLink (lines 629-636): unless parent.Name/alias exists, Set it to
\* the child; Set fails when the parent's name is not in the graph.
RegisterLink(parentName, child, a) ==
    IF LinkTarget(parentName, a) # {} THEN edges
    ELSE IF parentName \in DOMAIN graph
      THEN edges \cup {[parent |-> graph[parentName], alias |-> a, child |-> child]}
      ELSE edges

\* RegisterLinks (lines 638-667) of a loaded container p with the link
\* "name:alias", on the start's path (spec 4.I): the child is looked up by
\* name and must be loaded, then linked under p's in-memory name. The
\* hostConfig's cleared Links are not modelled: the model links one link
\* per call.
RegisterLinks ==
    /\ up
    /\ \E p \in DOMAIN store, name \in Paths, a \in Aliases :
        /\ GetByName(name) # {}
        /\ edges' = RegisterLink(store[p], CHOOSE c \in GetByName(name) : TRUE, a)
    /\ UNCHANGED <<graph, disk, store, pending, used, up, driver, boots, held>>

Init ==
    /\ graph = EmptyFun
    /\ disk = EmptyFun
    /\ store = EmptyFun
    /\ pending = EmptyFun
    /\ used = {}
    /\ up = FALSE
    /\ driver = CHOOSE d \in Drivers : TRUE
    /\ boots = 0
    /\ held = EmptyFun
    /\ edges = {}

Next == Boot \/ Reserve \/ Persist \/ Destroy \/ Crash \/ RegisterLinks

Spec == Init /\ [][Next]_vars

\* A state constraint for runs that look at one create at a time: no two
\* creates are between Reserve and Persist together.
OneCreateAtATime == Cardinality(DOMAIN pending) <= 1

-----------------------------------------------------------------------------
(***************************************************************************)
(* Properties                                                              *)
(***************************************************************************)

TypeOK ==
    /\ DOMAIN graph \subseteq Paths /\ Range(graph) \subseteq Ids
    /\ DOMAIN disk \subseteq Ids
    /\ \A id \in DOMAIN disk : disk[id] \in [name : Paths, driver : Drivers]
    /\ DOMAIN store \subseteq Ids /\ Range(store) \subseteq Paths
    /\ DOMAIN pending \subseteq Ids /\ Range(pending) \subseteq Paths
    /\ used \subseteq Ids /\ up \in BOOLEAN /\ driver \in Drivers
    /\ boots \in 0..MaxBoots
    /\ DOMAIN held \subseteq Ids /\ Range(held) \subseteq Paths
    /\ edges \subseteq [parent : Ids, alias : Aliases, child : Ids]

DistinctNames ==
    \A a, b \in DOMAIN store : a # b => store[a] # store[b]

\* Spec 8 ("Restore is idempotent: loading the same on-disk state twice
\* yields identical in-memory state"): a container the daemon had loaded
\* when it died is loaded by the next boot under the name it had. At
\* stake is restore's leftover branch (daemon.go lines 350-362), which
\* sets a generated name in the graph and in memory but, unlike
\* ensureName, never saves it with ToDisk.
NameKeptAcrossRestart ==
    [][~up /\ up' =>
         \A id \in DOMAIN held \cap DOMAIN store' : store'[id] = held[id]]_vars

=============================================================================
