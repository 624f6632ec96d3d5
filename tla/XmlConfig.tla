----------------------------- MODULE XmlConfig -----------------------------
(***************************************************************************)
(* What XmlConfig finds in a file.  A file is the sequence of the obj      *)
(* elements below Objects: records of the full name, the type, whether     *)
(* there is a location, the child elements below children, the dev         *)
(* elements below devices and the attr elements below attributes, each     *)
(* with its op and its src elements.                                       *)
(***************************************************************************)
EXTENDS Naturals, Sequences, SequencesExt

\* findObject: the first obj of that name, in a sequence
FindObject(file, name) ==
    LET hits == SelectSeq(file, LAMBDA o : o.name = name)
    IN  SubSeq(hits, 1, IF hits = <<>> THEN 0 ELSE 1)
HasObject(file, name) == FindObject(file, name) # <<>>
TheObject(file, name) == FindObject(file, name)[1]

\* findNodeWithAttr: the first element of that name
Named(elements, name) == SelectSeq(elements, LAMBDA e : e.name = name)

\* findAttrOp
XmlHasOp(file, name, a) ==
    LET found == Named(TheObject(file, name).attrs, a)
    IN  found # <<>> /\ found[1].op # ""

\* The src elements of the attribute of one type
Sources(file, name, a, type) ==
    LET found == Named(TheObject(file, name).attrs, a)
    IN  IF found = <<>> THEN <<>> ELSE SelectSeq(found[1].src, LAMBDA s : s.type = type)

\* findAttrChildren; that the children are below children is only logged.
XmlAttrChildren(file, name, a) ==
    LET src == Sources(file, name, a, "child")
    IN  [i \in DOMAIN src |-> Append(name, src[i].name)]

\* findObjDevs
XmlDevs(file, name, a) ==
    LET src == Sources(file, name, a, "device")
        dev(s) == Named(TheObject(file, name).devices, s.name)[1]
    IN  [i \in DOMAIN src |->
            [device |-> dev(src[i]).device, openString |-> dev(src[i]).openString]]

\* findChildren
XmlChildren(file, name) ==
    LET children == TheObject(file, name).children
    IN  [i \in DOMAIN children |-> Append(name, children[i])]

\* findParent: the name before the last dot
XmlParent(name) == SubSeq(name, 1, Len(name) - 1)

\* findObjLocation climbs to an object that has one.
XmlHasLocation(file, name) ==
    \E k \in DOMAIN name : TheObject(file, SubSeq(name, 1, k)).location

\* objTypeStrToInt
XmlType(type) == IF type \in {"Power Plane", "Memory", "Nic"} THEN "Core" ELSE type

\* What the files of the examples have in common: no name is there twice, and
\* the objects above each object and its children are there.
WellFormed(file) ==
    /\ \A i, j \in DOMAIN file : file[i].name = file[j].name => i = j
    /\ \A i \in DOMAIN file, k \in 1 .. 4 :
           k <= Len(file[i].name) => HasObject(file, SubSeq(file[i].name, 1, k))
    /\ \A i \in DOMAIN file : \A c \in ToSet(XmlChildren(file, file[i].name)) :
           HasObject(file, c)
=============================================================================
