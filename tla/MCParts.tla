------------------------------ MODULE MCParts ------------------------------
(***************************************************************************)
(* The parts, for TLC.                                                     *)
(***************************************************************************)
EXTENDS Parts

ASSUME UsualUse == RoutedUse

\* Three nodes on two boards.  The first server is that of board 0, the other
\* one that of the node of board 1; each of the three routers asks.
Board0 == [rtr |-> 0, srvr |-> 0]
Node2 == [rtr |-> 1, srvr |-> 1]
McServer == {Board0, Node2}
McAsks == {<<0, Node2>>, <<1, Node2>>, <<2, Board0>>}

\* A statistic of object a and one of the group of b and a.
McObj == {"a", "b"}
McStat == {"obj", "grp"}
McMembers == [obj |-> <<"a">>, grp |-> <<"b", "a">>]
McGroups == {"grp"}
McOp == [obj |-> "Min", grp |-> "Max"]
McSampleValue == {1, 2}

\* Memories above, below and beside sockets, with caches between or none, and two
\* machines on which two sockets get one name.
Hw(type, above) == [type |-> type, parent |-> above]
Uniform == <<Hw("MACHINE", 0), Hw("NODE", 1), Hw("SOCKET", 2), Hw("CORE", 3), Hw("CORE", 3)>>
TwoSockets == <<Hw("MACHINE", 0), Hw("SOCKET", 1), Hw("CACHE", 2), Hw("CORE", 3),
                Hw("SOCKET", 1), Hw("CORE", 5)>>
InSocket == <<Hw("MACHINE", 0), Hw("SOCKET", 1), Hw("NODE", 2), Hw("CACHE", 3),
              Hw("CORE", 4), Hw("CORE", 4), Hw("SOCKET", 1), Hw("NODE", 7), Hw("CORE", 8)>>
Paired == <<Hw("MACHINE", 0), Hw("SOCKET", 1), Hw("NODE", 2), Hw("CORE", 3), Hw("CORE", 3),
            Hw("SOCKET", 1), Hw("NODE", 6), Hw("CORE", 7), Hw("CORE", 7)>>
BareMemory == <<Hw("MACHINE", 0), Hw("NODE", 1), Hw("SOCKET", 2), Hw("CORE", 3),
                Hw("NODE", 1)>>
Beside == <<Hw("MACHINE", 0), Hw("NODE", 1), Hw("SOCKET", 1), Hw("CORE", 3)>>
TwoMemories == <<Hw("MACHINE", 0), Hw("NODE", 1), Hw("SOCKET", 2), Hw("CORE", 3),
                 Hw("NODE", 1), Hw("SOCKET", 5), Hw("CACHE", 6), Hw("CORE", 7)>>
Uneven == <<Hw("MACHINE", 0), Hw("NODE", 1), Hw("SOCKET", 2), Hw("CORE", 3),
            Hw("NODE", 1), Hw("SOCKET", 5), Hw("CORE", 6), Hw("SOCKET", 5), Hw("CORE", 8),
            Hw("CORE", 8)>>
McMachine ==
    {Uniform, TwoSockets, Paired, InSocket, BareMemory, Beside, TwoMemories, Uneven}
McPluginList ==
    {<<>>, <<"rapl">>, <<"powercap">>, <<"tx2mon">>, <<"dummy">>, <<"ipmi">>, <<"mic">>,
     <<"toilet">>, <<"noipmi", "cac">>, <<"cpudev", "rapl">>, <<"rapl", "cpudev", "ipmi">>,
     <<"xtpm", "cpudev">>, <<"tx2mon", "rapl">>, <<"dummy", "cpudev">>, <<"rapl", "dummy">>}

\* Three nodes on one board, with two ranks on the first, and two nodes whose names
\* differ in length.
Host(id, width) == [id |-> id, width |-> width]
McRankTable == {<<Host(10, 2), Host(9, 2), Host(10, 2), Host(11, 2)>>,
                <<Host(10, 2), Host(9, 1)>>}

\* The machines of dummy.py have a last board or a last cabinet that is not full,
\* or none; one has a board only.  The file is dummySystem.xml.
Shape(nodes, perBoard, perCab) ==
    [nodes |-> nodes, perBoard |-> perBoard, perCab |-> perCab]
Part(type, num) == [type |-> type, num |-> num]
Plat == <<Part("plat", -1)>>
Cab0 == Append(Plat, Part("cab", 0))
Brd0 == Append(Cab0, Part("board", 0))
XmlObj(name, type, location, below, devices, attributes) ==
    [name |-> name, type |-> type, location |-> location, children |-> below,
     devices |-> devices, attrs |-> attributes]
XmlAttr(name, type, src) ==
    [name |-> name, op |-> "SUM",
     src |-> [i \in DOMAIN src |-> [type |-> type, name |-> src[i]]]]
Above(name, type, location, below) ==
    XmlObj(name, type, location, below, <<>>, <<XmlAttr("ENERGY", "child", below)>>)
XmlNode(num, open) ==
    XmlObj(Append(Brd0, Part("node", num)), "Node", TRUE, <<>>,
           <<[name |-> "dev1", device |-> "Dummy-node1", openString |-> open]>>,
           <<XmlAttr("ENERGY", "device", <<"dev1">>), XmlAttr("POWER", "device", <<"dev1">>)>>)
DummySystem ==
    <<Above(Plat, "Platform", FALSE, <<Part("cab", 0)>>),
      Above(Cab0, "Cabinet", FALSE, <<Part("board", 0)>>),
      Above(Brd0, "Board", TRUE, <<Part("node", 0), Part("node", 1)>>),
      XmlNode(0, "node0"), XmlNode(1, "node1")>>
McPyMachine == {Shape(5, 2, 2), Shape(3, 2, 1), Shape(1, 2, 1), Shape(4, 2, 2), Shape(7, 3, 2)}
McXmlFile == {DummySystem}
McAskName == {<<Part("board", 7)>>, <<Part("board", 0)>>, <<Plat[1], Part("board", 0)>>,
              Append(Brd0, Part("node", 1)), <<Plat[1], Part("cab", 1)>>,
              <<Part("node", 9)>>, <<Part("x", 0)>>}

\* Requests with one or two attributes, numbers of one or more bytes, lists whose
\* router is that of the server or a step away; an object that has an error to report.
McValueAt(obj, attr) == 3 * obj[1] + attr
McTimeAt(obj, attr) == 20 + 5 * obj[1] + attr
McNumLists == {1, 2}
McGarbage == {0, 13}
McHops == {0, 1}
McErrors == {<<>>, <<[obj |-> <<1, 1>>, attr |-> 2, value |-> 15]>>}
McAsked ==
   {[op |-> "Get", attrs |-> <<2>>], [op |-> "Get", attrs |-> <<1, 3>>],
    [op |-> "Set", attrs |-> <<2>>, values |-> <<61>>],
    [op |-> "Set", attrs |-> <<2, 1>>, values |-> <<61, 3>>],
    [op |-> "Start", attrs |-> <<3>>], [op |-> "Stop", attrs |-> <<3>>],
    [op |-> "Samples", attrs |-> <<3>>, start |-> 33, period |-> 17, count |-> 2]}

\* Two nodes whose powers differ at any time, and two units of time in a second.
Arg(attr, list, type, name, delay) ==
    [attr |-> attr, list |-> list, type |-> type, object |-> name, delay |-> delay]
McLogObj == {"node0", "node1"}
McTypeGrp == [node |-> <<"node1", "node0">>]
McArgs == {Arg("power", <<"power">>, TRUE, "node", 0),
           Arg("power", <<"power">>, FALSE, "node0", 1),
           Arg("MULT", <<"energy", "power">>, TRUE, "node", 0),
           Arg("MULT", <<"power", "energy", "power">>, FALSE, "node0", 0),
           Arg("SETMULT", <<"power", "energy">>, TRUE, "node", 0),
           Arg("SETMULT", <<"power", "power">>, FALSE, "node1", 0),
           Arg("energy", <<"energy">>, FALSE, "node1", 0),
           Arg("energy", <<"energy">>, FALSE, "node9", 0),
           Arg("rate", <<"energy">>, FALSE, "node0", 0),
           Arg("STAT", <<"power">>, FALSE, "node0", 1)}
McPower == [node0 |-> [t \in 0 .. 7 |-> 2 * t + 1], node1 |-> [t \in 0 .. 7 |-> 2 * t]]
=============================================================================
