------------------------------ MODULE MCDaemon ------------------------------
(***************************************************************************)
(* Small domains for TLC.  The communicators are                           *)
(*   ma   one object, the inner server b                                   *)
(*   mg   a group of two objects: {n0, n1} and {n0}                        *)
(*   mp   one object, the leaf n0                                          *)
(*   mh   a group of two leaves, {n1} and {n0}                             *)
(*   mb   what b asks for its own root object: {n0, n1}                    *)
(***************************************************************************)
EXTENDS Daemon

CONSTANTS a1, a2, b, n0, n1, ma, mg, mp, mh, mb

\* Slots is determined by Members.
SlotsOf(members, s) ==
    SelectSeq([g \in 1 .. Len(members) |-> g], LAMBDA g : s \in members[g])

MCMembers ==
    [m \in Comm |-> CASE m = ma -> <<{b}>>
                      [] m = mg -> <<{n0, n1}, {n0}>>
                      [] m = mp -> <<{n0}>>
                      [] m = mh -> <<{n1}, {n0}>>
                      [] m = mb -> <<{n0, n1}>>]
MCSlots == [m \in Comm |-> [s \in Server |-> SlotsOf(Members[m], s)]]
MCNested == [s \in Server |-> IF s = b THEN mb ELSE NoComm]
MCDevice == {n0, n1} \cap Server

\* a1 has the single objects; a2, if there is one, the groups.
MCOwner == [m \in Comm |-> CASE m = mb -> b
                             [] m \in {mg, mh} /\ a2 \in App -> a2
                             [] OTHER -> a1]

\* An attribute of an inner object aggregates and is only read; a leaf takes
\* every request, and a group reads and sets.
MCAllowed == [m \in Comm |-> CASE m = mp -> Op
                               [] m = mh -> {"Get", "Set"}
                               [] OTHER -> {"Get"}]

\* A log of the inner object as well.
MCLogAllowed == [m \in Comm |-> CASE m = ma -> {"Get", "Log"} [] OTHER -> {"Get"}]
=============================================================================
