------------------------------- MODULE Hwloc -------------------------------
(***************************************************************************)
(* The object tree HwlocConfig builds from what hwloc finds on a machine:  *)
(* the objects are named as they are created, memory is then made a leaf,  *)
(* the objects no plugin serves are pruned and the attributes of the rest  *)
(* come from the plugins or from their children.  All calls of the API     *)
(* find an object again by its full name.                                  *)
(***************************************************************************)
EXTENDS PluginMeta, FiniteSets

CONSTANTS
    Machine,      \* machines: sequences of [type, parent], in hwloc's order
    PluginList    \* configuration files: sequences of plugins

\* canAggregate
Aggregates(a) == a = "ENERGY"

HwlocAssumption ==
    /\ \A hw \in Machine : \A i \in 1 .. Len(hw) : hw[i].parent \in 0 .. i - 1
    /\ PluginList \subseteq Seq(Plugin)

VARIABLES
    pc,           \* the next step of the constructor
    hw,           \* the machine
    libs,         \* m_libs and m_meta
    number,       \* the digits of the name of a node, or NoNumber
    parent,       \* parent of a node
    children,     \* children of a node
    attrs         \* attrs of a node: the plugin of the device, or "inner"

vars == <<pc, hw, libs, number, parent, children, attrs>>

\* A node: the hwloc object it was made for and its type.
Root == <<0, "plat">>
NoNumber == "none"
Nodes == DOMAIN parent

\* convertType; the objects of other types are passed over.
ObjType == [MACHINE |-> "node", NODE |-> "mem", SOCKET |-> "socket", CORE |-> "core"]
Kept(m) == {i \in 1 .. Len(m) : m[i].type \in DOMAIN ObjType}
NodeOf(m, i) == IF i = 0 THEN Root ELSE <<i, ObjType[m[i].type]>>

\* The parent initHierarchy hands down to object i.
HierarchyParent(m, i) ==
    LET up[j \in 0 .. Len(m)] ==
            IF j = 0 \/ j \in Kept(m) THEN j ELSE up[m[j].parent]
    IN  up[m[i].parent]

\* The children addChild gives to object i, in hwloc's order.
Added(m, i) == SetToSortSeq({j \in Kept(m) : HierarchyParent(m, j) = i}, <)

\* A mutant: the number is not counted up.
CountNone(m, i) == 0

\* numChildType[objType]++ of the parent.
Count(m, i) ==
    Cardinality({j \in Kept(m) : /\ j < i
                                 /\ HierarchyParent(m, j) = HierarchyParent(m, i)
                                 /\ m[j].type = m[i].type})

\* initHierarchy below the node "plat" of the constructor.
InitHierarchy ==
    /\ pc = "init"
    /\ LET ids == {0} \cup Kept(hw)
           nodes == {NodeOf(hw, i) : i \in ids}
       IN  /\ number' = [n \in nodes |-> IF n = Root THEN NoNumber ELSE Count(hw, n[1])]
           /\ parent' = [n \in nodes |->
                IF n = Root THEN Root ELSE NodeOf(hw, HierarchyParent(hw, n[1]))]
           /\ children' = [n \in nodes |->
                LET add == Added(hw, n[1])
                IN  [k \in 1 .. Len(add) |-> NodeOf(hw, add[k])]]
           /\ attrs' = [n \in nodes |-> [a \in {} |-> "inner"]]
    /\ pc' = "load"
    /\ UNCHANGED <<hw, libs>>

\* The plugins, line by line of the file.
LoadPlugins ==
    /\ pc = "load"
    /\ libs' \in PluginList
    /\ pc' = "reorder"
    /\ UNCHANGED <<hw, number, parent, children, attrs>>

\* What reorderObjects moves up to n: the children of its memories.
MovedTo(n) ==
    FlattenSeq([k \in 1 .. Len(children[n]) |->
        IF children[n][k][2] = "mem" THEN children[children[n][k]] ELSE <<>>])

\* A mutant: a moved node keeps its parent.
OldParent(n) == parent[n]

\* The parent a moved node is given.
NewParent(n) == IF parent[n][2] = "mem" THEN parent[parent[n]] ELSE parent[n]

\* reorderObjects.  No memory is below another one.
ReorderObjects ==
    /\ pc = "reorder"
    /\ children' = [n \in Nodes |->
            IF n[2] = "mem" THEN <<>> ELSE children[n] \o MovedTo(n)]
    /\ parent' = [n \in Nodes |-> NewParent(n)]
    /\ pc' = "tx2"
    /\ UNCHANGED <<hw, libs, number, attrs>>

TX2Type == <<"tx2core", "tx2sram", "tx2mem", "tx2soc">>

\* configureTX2, when a plugin of that name was loaded: four more children of
\* a socket, without a number.
ConfigureTX2 ==
    /\ pc = "tx2"
    /\ LET sockets == IF "tx2mon" \in ToSet(libs)
                      THEN {n \in Nodes : n[2] = "socket"} ELSE {}
           parts(s) == [k \in 1 .. 4 |-> <<s[1], TX2Type[k]>>]
           new == UNION {ToSet(parts(s)) : s \in sockets}
           nodes == Nodes \cup new
       IN  /\ number' = [n \in nodes |-> IF n \in new THEN NoNumber ELSE number[n]]
           /\ parent' = [n \in nodes |->
                IF n \in new THEN CHOOSE s \in sockets : s[1] = n[1] ELSE parent[n]]
           /\ children' = [n \in nodes |->
                CASE n \in new -> <<>>
                  [] n \in sockets -> children[n] \o parts(n)
                  [] OTHER -> children[n]]
           /\ attrs' = [n \in nodes |->
                IF n \in new THEN [a \in {} |-> "inner"] ELSE attrs[n]]
    /\ pc' = "prune"
    /\ UNCHANGED <<hw, libs>>

\* findAttr and isObjectSupported
Supports(p, n, a) == <<n[2], a>> \in Serves[p]

\* What pruneObjects leaves: an object that is supported or has a child that
\* is left.
Left ==
    LET left[n \in Nodes] ==
            \/ \E i \in DOMAIN libs, a \in Attr : Supports(libs[i], n, a)
            \/ \E k \in DOMAIN children[n] : left[children[n][k]]
    IN  {n \in Nodes : left[n]}

\* The assertion of isSupported.
Clash ==
    \E n \in Nodes, a \in Attr, i, j \in DOMAIN libs :
        i # j /\ Supports(libs[i], n, a) /\ Supports(libs[j], n, a)

\* pruneObjects from the root, which stays whatever it returns.
PruneObjects ==
    /\ pc = "prune"
    /\ IF Clash
       THEN /\ pc' = "aborted"
            /\ UNCHANGED <<number, parent, children, attrs>>
       ELSE /\ LET nodes == Left \cup {Root}
               IN  /\ number' = [n \in nodes |-> number[n]]
                   /\ parent' = [n \in nodes |-> parent[n]]
                   /\ children' = [n \in nodes |->
                        SelectSeq(children[n], LAMBDA c : c \in nodes)]
                   /\ attrs' = [n \in nodes |-> attrs[n]]
            /\ pc' = "attributes"
    /\ UNCHANGED <<hw, libs>>

\* One round of initAttributes over the plugins for attribute a of node n:
\* first says whether the first child has the attribute.
Given(n, a, first) ==
    LET given[i \in 0 .. Len(libs)] ==
            CASE i = 0 -> "none"
              [] i > 0 /\ Supports(libs[i], n, a) -> libs[i]
              [] i > 0 /\ ~Supports(libs[i], n, a) /\ Aggregates(a) /\ first -> "inner"
              [] OTHER -> given[i - 1]
    IN  given[Len(libs)]

\* A mutant: the node before its children.
FirstChildHasNow(given, n, a) == children[n] # <<>> /\ a \in DOMAIN attrs[children[n][1]]

\* initAttributes: the children before the node.
FirstChildHas(given, n, a) == children[n] # <<>> /\ a \in DOMAIN given[children[n][1]]

InitAttributes ==
    /\ pc = "attributes"
    /\ LET given[n \in Nodes] ==
               LET of(a) == Given(n, a, FirstChildHas(given, n, a))
               IN  [a \in {b \in Attr : of(b) # "none"} |-> of(a)]
       IN  attrs' = given
    /\ pc' = "ready"
    /\ UNCHANGED <<hw, libs, number, parent, children>>

Init ==
    /\ pc = "init" /\ hw \in Machine /\ libs = <<>>
    /\ number = [n \in {Root} |-> NoNumber]
    /\ parent = [n \in {Root} |-> Root]
    /\ children = [n \in {Root} |-> <<>>]
    /\ attrs = [n \in {Root} |-> [a \in {} |-> "inner"]]

Next ==
    \/ InitHierarchy
    \/ LoadPlugins
    \/ ReorderObjects
    \/ ConfigureTX2
    \/ PruneObjects
    \/ InitAttributes

Spec == Init /\ [][Next]_vars
-----------------------------------------------------------------------------
\* What the devices of the objects are opened with.

\* logical_index of hwloc: the number of an object among those of its type.
Logical(i) == IF i = 0 THEN 0
              ELSE Cardinality({j \in 1 .. i - 1 : hw[j].type = hw[i].type})

PartIndex(s) == Logical(s[1])

\* global_index, which the open string is made of.
GlobalIndex(n) == IF n[2] \in ToSet(TX2Type) THEN PartIndex(parent[n]) ELSE Logical(n[1])

\* socinfo: the cores of a socket, of which all have as many.
Above(i) == LET up[j \in 0 .. Len(hw)] == IF j = 0 THEN {} ELSE {j} \cup up[hw[j].parent]
            IN  up[i]
OfType(type) == {i \in 1 .. Len(hw) : hw[i].type = type}
CoresIn(s) == {i \in OfType("CORE") : s \in Above(i)}
Cores == Cardinality(CoresIn(CHOOSE s \in OfType("SOCKET") : TRUE))
Opened(n, a) == Handle(attrs[n][a], n[2], GlobalIndex(n), Cores)
-----------------------------------------------------------------------------
\* What the calls find.

\* getFullName
FullName ==
    LET name[n \in Nodes] ==
            Append(IF n = Root THEN <<>> ELSE name[parent[n]], <<n[2], number[n]>>)
    IN  name

\* The order findObj goes through the tree in.
Order ==
    LET from[n \in Nodes] ==
            <<n>> \o FlattenSeq([k \in 1 .. Len(children[n]) |-> from[children[n][k]]])
    IN  from[Root]

\* findObj: the first one of that name.
findObj(name) ==
    LET hits == SelectSeq(Order, LAMBDA n : FullName[n] = name)
    IN  hits[1]

\* findChildren and findAttrChildren, which does not look at the attribute.
findChildren(name) ==
    LET n == findObj(name)
    IN  [k \in 1 .. Len(children[n]) |-> FullName[children[n][k]]]

\* findParent
findParent(name) == FullName[parent[findObj(name)]]

\* findObjDevs: the node whose device serves the attribute, which is in its
\* open string.
findObjDevs(name, a) ==
    LET n == findObj(name)
    IN  IF a \in DOMAIN attrs[n] /\ attrs[n][a] # "inner" THEN <<n>> ELSE <<>>

\* DistCntxt::traverse without servers: the devices an attribute is read from.
Devices(name, a) ==
    LET from[n \in Nodes] ==
            findObjDevs(FullName[n], a)
                \o IF ~Aggregates(a) THEN <<>>
                   ELSE LET sub == findChildren(FullName[n])
                        IN  FlattenSeq([k \in 1 .. Len(sub) |-> from[findObj(sub[k])]])
    IN  from[findObj(name)]
-----------------------------------------------------------------------------
\* What reorderObjects moves out of two memories of one object is counted in each of
\* them: two of a type have one number and, once they are moved, one name, as the
\* sockets of a machine with two memories that have a socket each.
Twins(i, j) ==
    LET above(k) == HierarchyParent(hw, k)
    IN  /\ i # j /\ hw[i].type = hw[j].type /\ Count(hw, i) = Count(hw, j)
        /\ above(i) # above(j)
        /\ \A k \in {i, j} : above(k) # 0 /\ hw[above(k)].type = "NODE"
        /\ above(above(i)) = above(above(j))
SharedNames == \E i, j \in Kept(hw) : Twins(i, j)

\* The objects of the tree can be walked in both directions (hwlocConfig.cc:373-423)
\* on every machine but those with twins: a full name leads to the object it was made
\* for, and the children of the parent of an object have the object among them once,
\* though memories have given their children away and objects were pruned.  The
\* machines with twins are those, and the only ones, on which two objects get one name
\* when they are moved; a name then leads to the first of them (hwlocConfig.cc:158-177,
\* 459).
Navigation ==
    /\ pc = "tx2" => (SharedNames <=> ~IsInjective(FullName))
    /\ (pc = "ready" /\ ~SharedNames) =>
        \A n \in Nodes \ {Root} :
            LET siblings == findChildren(findParent(FullName[n]))
            IN  /\ findObj(FullName[n]) = n
                /\ Cardinality({k \in DOMAIN siblings : siblings[k] = FullName[n]}) = 1

\* The packages a memory belongs to.
Packages(i) == {s \in OfType("SOCKET") : s \in Above(i) \/ i \in Above(s)}

\* What an object of the tree is.
Hardware(n) ==
    CASE n[2] \in {"socket"} \cup ToSet(TX2Type) -> Package(Logical(n[1]))
      [] n[2] = "mem" -> Package(Logical(CHOOSE s \in Packages(n[1]) : TRUE))
      [] OTHER -> LET s == CHOOSE s \in OfType("SOCKET") : s \in Above(n[1])
                  IN  CoreOf(Logical(s), Cardinality({i \in CoresIn(s) : i < n[1]}))

\* Machines whose memories and sockets are in pairs, and whose sockets have the same
\* number of cores.
Paired ==
    /\ \A i \in OfType("NODE") : Cardinality(Packages(i)) = 1
    /\ \A i, j \in OfType("NODE") : i # j => Packages(i) # Packages(j)
    /\ \A s, t \in OfType("SOCKET") : Cardinality(CoresIn(s)) = Cardinality(CoresIn(t))

\* Wherever pruning and moving have put an object, its device reads the package or the
\* core that the object stands for (hwlocConfig.cc:135, 456-473, pwr_powercap.c:65-68,
\* pwr_tx2mon.c:113): the number of its string is that of the hardware.
OwnHardware ==
    (pc = "ready" /\ Paired) =>
    \A n \in Nodes \ {Root}, p \in {"powercap", "tx2mon"} :
        \A a \in DOMAIN attrs[n] : attrs[n][a] = p => Opened(n, a) = Hardware(n)

\* A plugin that comes later in the file makes an energy with a device the sum of
\* its children, if the first child has one (hwlocConfig.cc:139-152).
Overwritten(n, k) == k < Len(libs) /\ FirstChildHas(attrs, n, "ENERGY")

\* Memories and sockets that both have a device for their energy: each opens the
\* package, and a sum takes both.
ReadTwice ==
    \A type \in {"mem", "socket"} :
        \E n \in Nodes : n[2] = type /\ findObjDevs(FullName[n], "ENERGY") # <<>>

\* If any object of the machine is served an energy, the platform has one.  But on
\* machines with twins, where the first of a name is read for both of them, it is read
\* once from the device of each such object that was not overwritten, and no package or
\* cpu is read for two objects unless memories and sockets have devices for it
\* (hwlocConfig.cc:118-223, distCntxt.cc:283-339).
EnergyOfPlatform ==
    LET server(i) == {k \in DOMAIN libs : <<ObjType[hw[i].type], "ENERGY">> \in Serves[libs[k]]}
        served == {i \in Kept(hw) : server(i) # {}}
        from == Devices(<<<<"plat", NoNumber>>>>, "ENERGY")
    IN  pc = "ready" /\ served # {} =>
            /\ "ENERGY" \in DOMAIN attrs[Root]
            /\ ~SharedNames =>
                /\ ToSet(from) = {n \in {NodeOf(hw, i) : i \in served} :
                                      \A k \in server(n[1]) : ~Overwritten(n, k)}
                /\ IsInjective(from)
                /\ ~ReadTwice => IsInjective([k \in DOMAIN from |-> Opened(from[k], "ENERGY")])
=============================================================================
