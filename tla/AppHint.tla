------------------------------ MODULE AppHint ------------------------------
(***************************************************************************)
(* The region hints of the API on sockets whose cores the toilet plugin    *)
(* drives.  A region is a number, the map finds its socket and its hint by *)
(* the low bits of that number; starting a region sets limits on the cores *)
(* of the socket, stopping and destroying it sets the governor.  What the  *)
(* writes return is not looked at.                                         *)
(***************************************************************************)
EXTENDS Toilet, FiniteSets, Functions

CONSTANTS
    Socket,
    Cores,        \* [Socket -> Seq(Core)]: PWR_ObjGetChildren
    Hints,        \* hints the application creates regions with
    KeySize,      \* the numbers of a u_int32_t
    MaxRegions,   \* bound on the regions created
    MaxCalls,     \* bound on the calls that write
    AppGov        \* governors the application sets itself

HintAssumption ==
    /\ ToiletAssumption
    /\ Cores \in [Socket -> Seq(Core)] /\ "NULL" \notin Socket
    /\ Hints \subseteq {"DEFAULT", "SERIAL", "PARALLEL", "COMPUTE", "COMMUNICATE", "IO",
                        "MEM_BOUND"}
    /\ KeySize \in Nat \ {0} /\ MaxRegions \in Nat /\ MaxCalls \in Nat

\* No cpu is driven through the cores of two sockets.
OwnCpus ==
    \A socket \in Socket : \A c \in Range(Cores[socket]), d \in Core :
        Drives(d) = Drives(c) => d \in Range(Cores[socket])

VARIABLES
    region_id_counter,
    region_id_map,    \* [key -> [socket, hint]]
    regions,          \* history: what each region was created with, and its life
    calls,            \* calls that write
    meant,            \* history: the limit and the governor a core should have
    crashed           \* an assertion failed or NULL was followed

vars == <<files, region_id_counter, region_id_map, regions, calls, meant, crashed>>

NoSocket == "NULL"
NotMeant == [max |-> 0, governor |-> "unknown"]

Init ==
    /\ InitFiles
    /\ region_id_counter = 0
    /\ region_id_map = <<>>
    /\ regions = <<>>
    /\ calls = 0
    /\ meant = [c \in Core |-> NotMeant]
    /\ crashed = FALSE

Key(id) == id % KeySize
Live == {id \in DOMAIN regions : regions[id].live}

\* region_id_map[id] of a key that is not there inserts NULL with the hint 0.
Found(id) ==
    IF Key(id) \in DOMAIN region_id_map THEN region_id_map[Key(id)]
    ELSE [socket |-> NoSocket, hint |-> "DEFAULT"]
Inserted(id) ==
    [k \in DOMAIN region_id_map \cup {Key(id)} |->
        IF k \in DOMAIN region_id_map THEN region_id_map[k] ELSE Found(id)]

-----------------------------------------------------------------------------
\* PWR_AppHintCreate: insert keeps what is there.
Create(socket, hint) ==
    /\ ~crashed /\ region_id_counter < MaxRegions
    /\ LET id == region_id_counter
       IN  /\ region_id_map' =
                IF Key(id) \in DOMAIN region_id_map THEN region_id_map
                ELSE [k \in DOMAIN region_id_map \cup {Key(id)} |->
                        IF k = Key(id) THEN [socket |-> socket, hint |-> hint]
                        ELSE region_id_map[k]]
           /\ regions' = [i \in DOMAIN regions \cup {id} |->
                            IF i = id THEN [socket |-> socket, hint |-> hint, live |-> TRUE,
                                            alone |-> \A l \in Live : Key(l) # Key(id)]
                            ELSE regions[i]]
    /\ region_id_counter' = region_id_counter + 1
    /\ UNCHANGED <<files, calls, meant, crashed>>

\* The loop over the cores of a socket that sets one attribute of each: done is how
\* many of the files of each of them were written.  The values are the same for all
\* of them, so that those of one cpu may write in any order.
SetCores(socket, attr, v, done) ==
    files' = [p \in Cpu |->
                 Overwritten(files[p], attr, v,
                             UNION {Names(attr, v, done[c]) :
                                        c \in {d \in Range(Cores[socket]) : Drives(d) = p}})]
Outcomes(socket, attr, v) == [Range(Cores[socket]) -> 0 .. Len(Writes(attr, v))]

\* What the application expects then of the cores of the socket it made the region for.
Expect(socket, expected, attr, v, done) ==
    meant' = [c \in Core |->
                 IF c \notin Range(Cores[socket]) THEN meant[c]
                 ELSE IF c \in DOMAIN done /\ Complete(attr, v, done[c]) THEN expected[c]
                 ELSE NotMeant]

\* PWR_AppHintStart.  The limit of the hint the region was created with is what the
\* application expects.  A mutant of the limits has one for the other.
Swapped(hint) == IF hint = "COMPUTE" THEN 26 ELSE 32
Limit(hint) == IF hint = "COMPUTE" THEN 32 ELSE 26
Expected(hint) == IF hint = "COMPUTE" THEN DefaultMax ELSE 26
Limits == {"COMPUTE", "MEM_BOUND"}

Start(id) ==
    /\ ~crashed /\ id \in Live /\ calls < MaxCalls
    /\ region_id_map' = Inserted(id)
    /\ LET found == Found(id)
       IN  \/ /\ found.hint \in Limits
              /\ \E done \in Outcomes(found.socket, "FREQ_LIMIT_MAX", Limit(found.hint)) :
                    /\ SetCores(found.socket, "FREQ_LIMIT_MAX", Limit(found.hint), done)
                    /\ Expect(regions[id].socket,
                              [c \in Core |-> [meant[c] EXCEPT
                                                  !.max = Expected(regions[id].hint)]],
                              "FREQ_LIMIT_MAX", Limit(found.hint), done)
              /\ calls' = calls + 1
              /\ UNCHANGED crashed
           \/ /\ found.hint \notin Limits
              /\ crashed' = (found.hint = "DEFAULT")
              /\ UNCHANGED <<files, calls, meant>>
    /\ UNCHANGED <<region_id_counter, regions>>

\* The cores of the region's socket are given to schedutil; Stop does it twice, which
\* is as once.
Schedutil(id) ==
    LET found == Found(id)
    IN  IF found.socket = NoSocket
        THEN crashed' = TRUE /\ UNCHANGED <<files, meant>>
        ELSE /\ \E done \in Outcomes(found.socket, "GOV", "schedutil") :
                    /\ SetCores(found.socket, "GOV", "schedutil", done)
                    /\ Expect(regions[id].socket,
                              [c \in Core |-> [max |-> DefaultMax, governor |-> "schedutil"]],
                              "GOV", "schedutil", done)
             /\ UNCHANGED crashed

\* PWR_AppHintStop.
Stop(id) ==
    /\ ~crashed /\ id \in Live /\ calls < MaxCalls
    /\ region_id_map' = Inserted(id)
    /\ Schedutil(id)
    /\ calls' = calls + 1
    /\ UNCHANGED <<region_id_counter, regions>>

\* PWR_AppHintDestroy.  A mutant leaves the entry in the map.
Erase(id) == region_id_map
Without(id) ==
    [k \in DOMAIN region_id_map \ {Key(id)} |-> region_id_map[k]]

Destroy(id) ==
    /\ ~crashed /\ id \in Live /\ calls < MaxCalls
    /\ region_id_map' = Without(id)
    /\ Schedutil(id)
    /\ regions' = [regions EXCEPT ![id].live = FALSE]
    /\ calls' = calls + 1
    /\ UNCHANGED <<region_id_counter>>

\* The application sets an attribute of a core itself.
AppSet(c, attr, v) ==
    /\ ~crashed /\ calls < MaxCalls
    /\ \E k \in 0 .. Len(Writes(attr, v)) : files' = AfterWrites(files, c, attr, v, k)
    /\ meant' = [d \in Core |-> IF Drives(d) = Drives(c) THEN NotMeant ELSE meant[d]]
    /\ calls' = calls + 1
    /\ UNCHANGED <<region_id_counter, region_id_map, regions, crashed>>

Next ==
    \/ \E socket \in Socket, hint \in Hints : Create(socket, hint)
    \/ \E id \in DOMAIN regions : Start(id) \/ Stop(id) \/ Destroy(id)
    \/ \E c \in Core : \/ \E g \in AppGov : AppSet(c, "GOV", g)
                       \/ AppSet(c, "FREQ", 20)

Spec == Init /\ [][Next]_vars

-----------------------------------------------------------------------------
\* Every variable keeps its type.
TypeOK ==
    /\ files \in [Cpu -> [governor : LinuxGov \cup AppGov, max : Nat, min : Nat,
                          setspeed : Nat]]
    /\ crashed \in BOOLEAN

\* As long as no region was created whose key a live one had (pwr.cc:369), a live
\* region is found with its own socket and hint, and only the hint DEFAULT asserts.
NoneShared == \A id \in DOMAIN regions : regions[id].alone
OwnHint ==
    NoneShared =>
    /\ \A id \in Live : Found(id) = [socket |-> regions[id].socket, hint |-> regions[id].hint]
    /\ crashed => \E id \in Live : regions[id].hint = "DEFAULT"

\* A core whose files could be written has the limit and the governor of the last call
\* for a region of its socket (pwr.cc:414-477, pwr_toiletdev.c:197-386), as the
\* application reads them.
HintInForce ==
    NoneShared =>
    \A c \in Core :
        /\ meant[c].max # 0 => ReadCore(c, "FREQ_LIMIT_MAX", 0) = meant[c].max
        /\ meant[c].governor # "unknown" => ReadCore(c, "GOV", "unset") = meant[c].governor

\* A governor other than userspace takes a cpu over with the default limits, however
\* many of the files could be written (pwr_toiletdev.c:273-333).
LimitsBeforeGovernor ==
    \A p \in Cpu :
        (files'[p].governor # files[p].governor /\ files'[p].governor # "userspace")
        => files'[p].max = DefaultMax /\ files'[p].min = DefaultMin
=============================================================================
