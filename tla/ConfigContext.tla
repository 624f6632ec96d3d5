--------------------------- MODULE ConfigContext ---------------------------
(***************************************************************************)
(* The objects a context makes of its configuration.  An object is made at *)
(* the first call that comes to its name, by the application or, in a      *)
(* server, for a communicator.  Its attributes are traversed down to       *)
(* devices of the context and to objects that have a server of their own,  *)
(* which are asked over the network.                                       *)
(***************************************************************************)
EXTENDS PyConfig, XmlConfig

CONSTANTS
    PyMachine,    \* machines of dummy.py: records [nodes, perBoard, perCab]
    XmlFile,      \* files: sequences of obj elements
    AskName,      \* names PWR_CntxtGetObjByName is called with
    MaxCalls      \* calls of the application

ConfigContextAssumption ==
    /\ \A sh \in PyMachine : sh.nodes > 0 /\ sh.perBoard > 0 /\ sh.perCab > 0
    /\ \A file \in XmlFile : WellFormed(file)
    /\ MaxCalls \in Nat

VARIABLES
    config,       \* m_config
    root,         \* m_rootName
    objMap,       \* the names of m_objMap
    grp,          \* the group of the last PWR_CntxtGetGrpByType
    calls,        \* calls made
    pc            \* "running", or "aborted" by an assertion

vars == <<config, root, objMap, grp, calls, pc>>

IsPy == config.kind = "python"

\* The virtual functions of Config.
KnownName(name) ==
    IF IsPy THEN CheckName(config.machine, name) ELSE HasObject(config.file, name)
TypeName == [plat |-> "Platform", cab |-> "Cabinet", board |-> "Board", node |-> "Node"]
objType(name) ==
    IF IsPy THEN TypeName[Last1(name).type]
    ELSE XmlType(TheObject(config.file, name).type)
hasServer(name) ==
    IF IsPy THEN PyHasLocation(config.machine, name)
    ELSE XmlHasLocation(config.file, name)
findChildren(name) ==
    IF IsPy THEN PyChildren(config.machine, name) ELSE XmlChildren(config.file, name)
findAttrChildren(name, a) ==
    IF IsPy THEN IF a \in PyAttrs(Last1(name).type) THEN PyChildren(config.machine, name)
                 ELSE <<>>
    ELSE XmlAttrChildren(config.file, name, a)
findObjDevs(name, a) ==
    IF IsPy THEN PyDevs(name, a) ELSE XmlDevs(config.file, name, a)
findParent(name) == IF IsPy THEN PyParent(name) ELSE XmlParent(name)
HasOp(name, a) ==
    IF IsPy THEN a \in PyAttrs(Last1(name).type) ELSE XmlHasOp(config.file, name, a)

\* A name of one part is taken whatever its number; the children of such an object
\* are not, and the assertion on what Python returns fails.
Raises(name) ==
    /\ IsPy /\ Last1(name).type # "node"
    /\ ~Within(config.machine, name)
-----------------------------------------------------------------------------
\* canAggregate
Attr == {"ENERGY", "POWER"}
Aggregates(a) == a = "ENERGY"

\* The test of traverse in the context with root ctx.
AskedFor(ctx, name) == hasServer(name) /\ name # ctx

\* The objects traverse finds below one that are remote, and its local devices,
\* with the objects that have them.
Remote(ctx, top, a) ==
    LET remote[name \in Seq(Part)] ==
            IF AskedFor(ctx, name) THEN {name}
            ELSE IF Aggregates(a)
                 THEN UNION {remote[c] : c \in ToSet(findAttrChildren(name, a))}
                 ELSE {}
    IN  IF HasOp(top, a) THEN remote[top] ELSE {}

Local(ctx, top, a) ==
    LET local[name \in Seq(Part)] ==
            IF AskedFor(ctx, name) THEN <<>>
            ELSE LET devs == findObjDevs(name, a)
                     below == IF Aggregates(a) THEN findAttrChildren(name, a) ELSE <<>>
                 IN  [i \in DOMAIN devs |-> name]
                         \o FlattenSeq([i \in DOMAIN below |-> local[below[i]]])
    IN  IF HasOp(top, a) THEN local[top] ELSE <<>>

\* The assertions of a DistObject: an attribute is local or remote, and all remote
\* ones have the communicator, that is the objects, in common.
ServedAlike(name) ==
    /\ \A a \in Attr : Remote(root, name, a) = {} \/ Local(root, name, a) = <<>>
    /\ \A a, b \in Attr :
           \/ Remote(root, name, a) = {} \/ Remote(root, name, b) = {}
           \/ Remote(root, name, a) = Remote(root, name, b)

\* The constructor of the object does not come to an assertion that fails.
CanMake(name) == ~Raises(name) /\ ServedAlike(name)

\* findObject for each of some names
FindObjects(names) ==
    LET new == {n \in names : KnownName(n)} \ objMap
    IN  IF \A n \in new : CanMake(n)
        THEN objMap' = objMap \cup new /\ UNCHANGED pc
        ELSE pc' = "aborted" /\ UNCHANGED objMap

Call ==
    /\ pc = "running" /\ calls < MaxCalls
    /\ calls' = calls + 1
    /\ UNCHANGED <<config, root>>

\* PWR_CntxtGetObjByName
GetObjByName(name) ==
    /\ Call
    /\ FindObjects({name})
    /\ UNCHANGED grp

\* PWR_ObjGetChildren
GetChildren(obj) ==
    /\ Call
    /\ FindObjects(ToSet(findChildren(obj)))
    /\ UNCHANGED grp

\* PWR_ObjGetParent
GetParent(obj) ==
    /\ Call
    /\ FindObjects(IF obj = root \/ findParent(obj) = <<>> THEN {} ELSE {findParent(obj)})
    /\ UNCHANGED grp

\* findAllObjType: the first of a type on each path down, and the objects it comes
\* to on its way.
FirstOfType(type) ==
    LET first[name \in Seq(Part)] ==
            IF objType(name) = type THEN <<name>>
            ELSE LET below == findChildren(name)
                 IN  FlattenSeq([i \in DOMAIN below |-> first[below[i]]])
    IN  first[root]
OnTheWay(type) ==
    LET visited[name \in Seq(Part)] ==
            {name} \cup IF objType(name) = type THEN {}
                        ELSE UNION {visited[c] : c \in ToSet(findChildren(name))}
    IN  visited[root]

\* PWR_CntxtGetGrpByType; an empty group is destroyed.
GetGrp(type) ==
    /\ Call
    /\ grp' = [type |-> type, members |-> FirstOfType(type)]
    /\ FindObjects(OnTheWay(type))

PyNames(sh) ==
    UNION {{SubSeq(NodeRoot(sh, n), 1, k) : k \in 1 .. 4} : n \in 0 .. sh.nodes - 1}
Names == IF IsPy THEN PyNames(config.machine) ELSE {o.name : o \in ToSet(config.file)}

\* A context of an application, and of a server on each object with a location.
Init ==
    /\ config \in {[kind |-> "python", machine |-> sh] : sh \in PyMachine}
                  \cup {[kind |-> "xml", file |-> file] : file \in XmlFile}
    /\ root \in {Plat} \cup
           IF IsPy THEN {s.root : s \in Servers(config.machine)}
           ELSE {o.name : o \in {q \in ToSet(config.file) : q.location}}
    /\ objMap = {root} /\ grp = [type |-> "none", members |-> <<>>]
    /\ calls = 0 /\ pc = "running"

Next ==
    \/ \E name \in AskName : GetObjByName(name)
    \/ \E obj \in objMap : GetChildren(obj) \/ GetParent(obj)
    \/ \E type \in {"Cabinet", "Board", "Node"} : GetGrp(type)

Spec == Init /\ [][Next]_vars
-----------------------------------------------------------------------------
\* Where the devices an attribute of an object depends on are read: by which
\* context, for which object, over all the servers that are asked.
Readings(ctx, top, a) ==
    LET at[x \in Seq(Seq(Part))] ==
            LET in == x[1]
                name == x[2]
                devs == findObjDevs(name, a)
                below == IF Aggregates(a) THEN findAttrChildren(name, a) ELSE <<>>
            IN  IF AskedFor(in, name) THEN at[<<name, name>>]
                ELSE [i \in DOMAIN devs |-> <<in, name>>]
                         \o FlattenSeq([i \in DOMAIN below |-> at[<<in, below[i]>>]])
    IN  IF HasOp(top, a) THEN at[<<ctx, top>>] ELSE <<>>

\* The objects with a device of attribute a in the subtree of an object.
Devices(top, a) ==
    {n \in Names : /\ findObjDevs(n, a) # <<>>
                   /\ IF Aggregates(a) THEN IsPrefix(top, n) ELSE top = n}

\* Whatever object of the machine the application has come to, from wherever it
\* looks: its energy is that of every device below it, each read once, by the
\* server that runs on the node of the device; and a group of a type has every
\* object of the type once (distCntxt.cc:283-339, cntxt.cc:148-166).  The objects of
\* objMap that are not of the machine are those of one-part names like "board", which
\* pyConfig.py takes and gives for a parent (pyConfig.py:281).
EverythingOnce ==
    pc = "running" =>
    /\ \A name \in objMap \cap Names, a \in Attr : HasOp(name, a) =>
           LET reads == Readings(root, name, a)
           IN  /\ ToSet(reads) = {<<n, n>> : n \in Devices(name, a)}
               /\ IsInjective(reads)
    /\ grp.type # "none" =>
           /\ ToSet(grp.members) =
                  {n \in Names : objType(n) = grp.type /\ IsPrefix(root, n)}
           /\ IsInjective(grp.members)

\* For every object a context asks over the network there is one server, its name
\* is in the route file once, and leads to the router the server connects to
\* (machine.py:130-154, daemon.py:61-144).
ServersRouted ==
    IsPy => \A name \in objMap, a \in Attr : \A r \in Remote(root, name, a) :
        \E s \in Servers(config.machine), line \in RouteFile(config.machine) :
            /\ {t \in Servers(config.machine) : t.root = r} = {s}
            /\ {l \in RouteFile(config.machine) : l.name = r} = {line}
            /\ s.rtr = line.rtr
            /\ \A l \in RouteFile(config.machine) :
                   l.rtr = line.rtr /\ l.srvr = line.srvr => l = line
=============================================================================
