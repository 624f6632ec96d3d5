----------------------------- MODULE PyConfig -----------------------------
(***************************************************************************)
(* The machine of dummy.py and machine.py: nodes on boards in cabinets, of *)
(* which the last ones may not be full.  pyConfig.py computes what the     *)
(* context asks for from the name of an object, daemon.py and machine.py   *)
(* name the servers and the routes to them.                                *)
(*                                                                         *)
(* A name is a sequence of parts, a type and digits; a machine is a record *)
(* [nodes, perBoard, perCab].                                              *)
(***************************************************************************)
EXTENDS Integers, Sequences, FiniteSets

Chain == <<"plat", "cab", "board", "node">>
NoDigits == -1
Part == [type : STRING, num : Int]
P(type, num) == [type |-> type, num |-> num]
Plat == <<P("plat", NoDigits)>>

Front1(name) == SubSeq(name, 1, Len(name) - 1)
Last1(name) == name[Len(name)]
NumOf(part) == IF part.num = NoDigits THEN 0 ELSE part.num
Rank(type) == CHOOSE i \in 1 .. 4 : Chain[i] = type
IsType(type) == \E i \in 1 .. 4 : Chain[i] = type

-----------------------------------------------------------------------------
\* machine.py

RoundUp(a, b) == (a + b - 1) \div b
NumBoards(sh) == RoundUp(sh.nodes, sh.perBoard)
NumCabs(sh) == RoundUp(NumBoards(sh), sh.perCab)

\* objMap: how many there are of a type, and how many of the next in one of it
Total(sh, type) ==
    CASE type = "plat" -> 1
      [] type = "cab" -> NumCabs(sh)
      [] type = "board" -> NumBoards(sh)
      [] type = "node" -> sh.nodes
Per(sh, type) ==
    CASE type = "plat" -> NumCabs(sh)
      [] type = "cab" -> sh.perCab
      [] type = "board" -> sh.perBoard
      [] type = "node" -> 0

\* getTotalChildren
TotalChildren(sh, type) == IF type = "node" THEN 0 ELSE Total(sh, Chain[Rank(type) + 1])

\* getLeafCount
LeafCount(sh, type, stop) ==
    LET count[i \in 1 .. 4] ==
            CASE i = 4 \/ Chain[i] = stop -> -1
              [] i < 4 /\ Chain[i + 1] = stop -> Per(sh, Chain[i])
              [] OTHER -> count[i + 1] * Per(sh, Chain[i])
    IN  count[Rank(type)]

\* calcTypePos: the objects of a type before the one with the name, whose number
\* is not counted.
TypePos(sh, name, type) ==
    LET pos[i \in 1 .. Len(name)] ==
            IF name[i].type = type THEN 0
            ELSE LeafCount(sh, name[i].type, type) * NumOf(name[i])
                     + IF i = Len(name) THEN 0 ELSE pos[i + 1]
    IN  pos[1]

\* calcNumChildren.  A name that is out of range raises SystemExit.
MyNum(sh, name) == TypePos(sh, name, Last1(name).type) + NumOf(Last1(name))
Within(sh, name) ==
    LET type == Last1(name).type
    IN  (MyNum(sh, name) + 1) * Per(sh, type) < TotalChildren(sh, type) + Per(sh, type)
            \/ (MyNum(sh, name) + 1) * Per(sh, type) <= TotalChildren(sh, type)

\* A mutant: a board that is full is taken for the last one.
FullIsLast(sh, name) ==
    LET type == Last1(name).type
    IN  IF (MyNum(sh, name) + 1) * Per(sh, type) < TotalChildren(sh, type)
        THEN Per(sh, type) ELSE TotalChildren(sh, type) % Per(sh, type)

NumChildren(sh, name) ==
    LET type == Last1(name).type
    IN  IF (MyNum(sh, name) + 1) * Per(sh, type) <= TotalChildren(sh, type)
        THEN Per(sh, type) ELSE TotalChildren(sh, type) % Per(sh, type)

\* setLocations: boards and nodes are where a server is.
CabName(cab) == Append(Plat, P("cab", cab))
BoardName(cab, brd) == Append(CabName(cab), P("board", brd))
NodeName(cab, brd, node) == Append(BoardName(cab, brd), P("node", node))
Locations(sh) ==
    {BoardName(brd[1], brd[2]) : brd \in
        {x \in (0 .. NumCabs(sh) - 1) \X (0 .. sh.perCab - 1) :
            x[1] * sh.perCab + x[2] < NumBoards(sh)}}
    \cup {NodeName(node[1], node[2], node[3]) : node \in
        {x \in (0 .. NumCabs(sh) - 1) \X (0 .. sh.perCab - 1) \X (0 .. sh.perBoard - 1) :
            /\ x[1] * sh.perCab + x[2] < NumBoards(sh)
            /\ (x[1] * sh.perCab + x[2]) * sh.perBoard + x[3] < sh.nodes}}

\* genRouteFile: the lines of the route file, a name, its router and its server.
RouteFile(sh) ==
    {[name |-> BoardName(i \div sh.perCab, i % sh.perCab), rtr |-> i, srvr |-> 0] :
        i \in 0 .. NumBoards(sh) - 1}
    \cup {[name |-> NodeName(x[1] \div sh.perCab, x[1] % sh.perCab, x[2]),
           rtr |-> x[1], srvr |-> x[2] + 1] :
        x \in {y \in (0 .. NumBoards(sh) - 1) \X (0 .. sh.perBoard - 1) :
                   y[1] * sh.perBoard + y[2] < sh.nodes}}
-----------------------------------------------------------------------------
\* daemon.py

\* A mutant: the boards of all cabinets are numbered on.
BoardRootFlat(sh, n) == BoardName(n \div (sh.perBoard * sh.perCab), n \div sh.perBoard)

\* calcBoardRoot and calcNodeRoot
BoardRoot(sh, n) ==
    BoardName(n \div (sh.perBoard * sh.perCab), (n \div sh.perBoard) % sh.perCab)
NodeRoot(sh, n) == Append(BoardRoot(sh, n), P("node", n % sh.perBoard))

\* The id of the router on the host a server of node n connects to.
RouterOf(sh, n) ==
    LET host == (n \div sh.perBoard) * sh.perBoard
        rootRtr == (IF sh.nodes < sh.perBoard THEN sh.nodes ELSE sh.perBoard) - 1
    IN  IF host # rootRtr THEN host \div sh.perBoard
        ELSE IF sh.nodes = 1 THEN sh.nodes \div sh.perBoard ELSE NumBoards(sh)

\* The servers all nodes start: configNode of each, configBoard of the first of a
\* board.
Servers(sh) ==
    {[root |-> NodeRoot(sh, n), rtr |-> RouterOf(sh, n), node |-> n] :
        n \in 0 .. sh.nodes - 1}
    \cup {[root |-> BoardRoot(sh, n), rtr |-> RouterOf(sh, n), node |-> n] :
        n \in {m \in 0 .. sh.nodes - 1 : m % sh.perBoard = 0}}
-----------------------------------------------------------------------------
\* pyConfig.py

\* _checkName, from the last part on: the number of a part that is not the first
\* is looked at, its place in the chain is not.
CheckName(sh, name) ==
    LET ok[i \in 1 .. Len(name)] ==
            LET pre == SubSeq(name, 1, i - 1)
            IN  /\ IsType(name[i].type)
                /\ i > 1 =>
                    /\ name[i].type # "plat"
                    /\ ok[i - 1]
                    /\ name[i].num # NoDigits
                    /\ Within(sh, pre) /\ name[i].num < NumChildren(sh, pre)
    IN  name # <<>> /\ ok[Len(name)]

\* findChildren and, for an attribute the object has, findAttrChildren
PyChildren(sh, name) ==
    IF Last1(name).type = "node" THEN <<>>
    ELSE [i \in 1 .. NumChildren(sh, name) |->
             Append(name, P(Chain[Rank(Last1(name).type) + 1], i - 1))]

\* findParent gives the name of the Object of the parent's type.
PyParent(name) ==
    IF Last1(name).type = "plat" THEN <<>>
    ELSE <<P(Chain[Rank(Last1(name).type) - 1], NoDigits)>>

\* findObjLocation climbs to an object that has one.
PyHasLocation(sh, name) ==
    CheckName(sh, name) /\ \E k \in DOMAIN name : SubSeq(name, 1, k) \in Locations(sh)

\* setAttr of dummy.py: the attributes of a type
PyAttrs(type) == IF type = "node" THEN {"ENERGY", "POWER"} ELSE {"ENERGY"}

\* addAttrDevice of dummy.py: the devices of an attribute
PyDevs(name, a) ==
    IF Last1(name).type = "node" /\ a \in PyAttrs("node")
    THEN <<[device |-> "DummyDev", openString |-> "core1"]>> ELSE <<>>
=============================================================================
