------------------------------ MODULE Plugins ------------------------------
(***************************************************************************)
(* The plugins.  The devices of a context share nothing, so a behaviour is *)
(* one of one plugin, chosen in the initial state: the variables of that   *)
(* plugin are those of its module, by the same names, and the others are   *)
(* Unused.                                                                 *)
(***************************************************************************)
EXTENDS Naturals, Sequences

CONSTANTS
    Unused,
    Node, Watts, Outcome, MaxTime, Unread,                      \* tx2mon
    CpuTable, CpuModel, Counts, MaxUnits, Fails, MaxRaplReads,  \* rapl
    Nothing,
    NumZones, MaxRange, MaxEnergy,                              \* powercap
    Written,                                                    \* dummy
    Cpu, Core, CpuOf, Hwloc, Socket, Cores, Hints, KeySize,     \* toilet with hints
    MaxRegions, MaxHintCalls, AppGov,
    Reader, Port, Total, MaxAsked, MaxReadv,                    \* piapi
    MaxGeneration, MaxFds,                                      \* xtpm, pmc and cpudev
    MaxReads, MaxCalls, MaxAttrs                                \* of several

VARIABLES
    plugin,
    hw, buf, energyObjs, lastSample, done, devInfo, smp, app, seen, fault, opened, watched,
    packageOf, consumed, pkgs, fd, reads,
    requests, line, results,
    energy, startValue, ops, energy0,
    values, lastAccess, trace,
    files, region_id_counter, region_id_map, regions, meant,
    piapidev_reading, piapidev_counter, coming, asked, rd, crossed, got,
    generation, fds,
    now, handle, call, calls, crashed, reading                  \* of several

T == INSTANCE Tx2mon
Rapl == INSTANCE Rapl WITH MaxEnergy <- MaxUnits, MaxReads <- MaxRaplReads
W == INSTANCE WattsUp
P == INSTANCE Powercap
Dummy == INSTANCE DummyDev
Hint == INSTANCE AppHint WITH MaxCalls <- MaxHintCalls
I == INSTANCE Piapi
F == INSTANCE Counters

ASSUME PluginAssumptions ==
    /\ T!Tx2monAssumption /\ Rapl!RaplAssumption /\ W!WattsUpAssumption
    /\ P!PowercapAssumption /\ Dummy!DummyAssumption /\ Hint!HintAssumption
    /\ I!PiapiAssumption /\ F!CountersAssumption

\* What HintInForce needs: no cpu is driven through the cores of two sockets.
ASSUME UseAssumptions == Hint!OwnCpus

-----------------------------------------------------------------------------
\* The variables that only one plugin has.
tx2monVars == <<hw, buf, energyObjs, lastSample, done, devInfo, smp, app, seen, fault,
                opened, watched>>
raplVars == <<packageOf, consumed, pkgs, fd, reads>>
wattsupVars == <<requests, line, results>>
powercapVars == <<energy, startValue, ops, energy0>>
dummyVars == <<values, lastAccess, trace>>
toiletVars == <<files, region_id_counter, region_id_map, regions, meant>>
piapiVars == <<piapidev_reading, piapidev_counter, coming, asked, rd, crossed, got>>
counterVars == <<generation, fds>>

vars == <<plugin, tx2monVars, raplVars, wattsupVars, powercapVars, dummyVars, toiletVars,
          piapiVars, counterVars, now, handle, call, calls, crashed, reading>>

NoTx2mon ==
    /\ hw = Unused /\ buf = Unused /\ energyObjs = Unused /\ lastSample = Unused
    /\ done = Unused /\ devInfo = Unused /\ smp = Unused /\ app = Unused
    /\ seen = Unused /\ fault = Unused /\ opened = Unused /\ watched = Unused
NoRapl ==
    /\ packageOf = Unused /\ consumed = Unused /\ pkgs = Unused /\ fd = Unused
    /\ reads = Unused
NoWattsup == requests = Unused /\ line = Unused /\ results = Unused
NoPowercap == energy = Unused /\ startValue = Unused /\ ops = Unused /\ energy0 = Unused
NoDummy == values = Unused /\ lastAccess = Unused /\ trace = Unused
NoToilet ==
    /\ files = Unused /\ region_id_counter = Unused /\ region_id_map = Unused
    /\ regions = Unused /\ meant = Unused
NoPiapi ==
    /\ piapidev_reading = Unused /\ piapidev_counter = Unused /\ coming = Unused
    /\ asked = Unused /\ rd = Unused /\ crossed = Unused /\ got = Unused
NoCounters == generation = Unused /\ fds = Unused

Init ==
    \/ /\ plugin = "tx2mon" /\ T!Init
       /\ NoRapl /\ NoWattsup /\ NoPowercap /\ NoDummy /\ NoToilet /\ NoPiapi /\ NoCounters
       /\ call = Unused /\ calls = Unused /\ crashed = Unused /\ reading = Unused
    \/ /\ plugin = "rapl" /\ Rapl!RaplInit
       /\ NoTx2mon /\ NoWattsup /\ NoPowercap /\ NoDummy /\ NoToilet /\ NoPiapi /\ NoCounters
       /\ now = Unused /\ handle = Unused /\ calls = Unused /\ crashed = Unused
       /\ reading = Unused
    \/ /\ plugin = "wattsup" /\ W!Init
       /\ NoTx2mon /\ NoRapl /\ NoPowercap /\ NoDummy /\ NoToilet /\ NoPiapi /\ NoCounters
       /\ now = Unused /\ handle = Unused /\ crashed = Unused /\ reading = Unused
    \/ /\ plugin = "powercap" /\ P!Init
       /\ NoTx2mon /\ NoRapl /\ NoWattsup /\ NoDummy /\ NoToilet /\ NoPiapi /\ NoCounters
       /\ now = Unused /\ handle = Unused /\ calls = Unused /\ crashed = Unused
    \/ /\ plugin = "dummy" /\ Dummy!Init
       /\ NoTx2mon /\ NoRapl /\ NoWattsup /\ NoPowercap /\ NoToilet /\ NoPiapi /\ NoCounters
       /\ handle = Unused /\ call = Unused /\ calls = Unused /\ crashed = Unused
       /\ reading = Unused
    \/ /\ plugin = "toilet" /\ Hint!Init
       /\ NoTx2mon /\ NoRapl /\ NoWattsup /\ NoPowercap /\ NoDummy /\ NoPiapi /\ NoCounters
       /\ now = Unused /\ handle = Unused /\ call = Unused /\ reading = Unused
    \/ /\ plugin = "piapi" /\ I!Init
       /\ NoTx2mon /\ NoRapl /\ NoWattsup /\ NoPowercap /\ NoDummy /\ NoToilet /\ NoCounters
       /\ now = Unused /\ handle = Unused /\ call = Unused /\ calls = Unused
       /\ crashed = Unused /\ reading = Unused
    \/ /\ plugin = "counters" /\ F!Init
       /\ NoTx2mon /\ NoRapl /\ NoWattsup /\ NoPowercap /\ NoDummy /\ NoToilet /\ NoPiapi
       /\ now = Unused

\* What is not of the plugin stays Unused.
OfTx2mon(Step) ==
    /\ plugin = "tx2mon" /\ Step
    /\ UNCHANGED <<plugin, raplVars, wattsupVars, powercapVars, dummyVars, toiletVars,
                   piapiVars, counterVars, call, calls, crashed, reading>>
Tx2monStep == OfTx2mon(T!Next)
RaplStep ==
    /\ plugin = "rapl" /\ Rapl!Next
    /\ UNCHANGED <<plugin, tx2monVars, wattsupVars, powercapVars, dummyVars, toiletVars,
                   piapiVars, counterVars, now, handle, calls, crashed, reading>>
WattsUpStep ==
    /\ plugin = "wattsup" /\ W!Next
    /\ UNCHANGED <<plugin, tx2monVars, raplVars, powercapVars, dummyVars, toiletVars,
                   piapiVars, counterVars, now, handle, crashed, reading>>
PowercapStep ==
    /\ plugin = "powercap" /\ P!Next
    /\ UNCHANGED <<plugin, tx2monVars, raplVars, wattsupVars, dummyVars, toiletVars,
                   piapiVars, counterVars, now, handle, calls, crashed>>
DummyStep ==
    /\ plugin = "dummy" /\ Dummy!Next
    /\ UNCHANGED <<plugin, tx2monVars, raplVars, wattsupVars, powercapVars, toiletVars,
                   piapiVars, counterVars, handle, call, calls, crashed, reading>>
ToiletStep ==
    /\ plugin = "toilet" /\ Hint!Next
    /\ UNCHANGED <<plugin, tx2monVars, raplVars, wattsupVars, powercapVars, dummyVars,
                   piapiVars, counterVars, now, handle, call, reading>>
PiapiStep ==
    /\ plugin = "piapi" /\ I!Next
    /\ UNCHANGED <<plugin, tx2monVars, raplVars, wattsupVars, powercapVars, dummyVars,
                   toiletVars, counterVars, now, handle, call, calls, crashed, reading>>
CountersStep ==
    /\ plugin = "counters" /\ F!Next
    /\ UNCHANGED <<plugin, tx2monVars, raplVars, wattsupVars, powercapVars, dummyVars,
                   toiletVars, piapiVars, now>>

Next ==
    \/ Tx2monStep \/ RaplStep \/ WattsUpStep \/ PowercapStep
    \/ DummyStep \/ ToiletStep \/ PiapiStep \/ CountersStep

\* The operating system runs the sampling thread of tx2mon, and a call of
\* final that can go on does.
Spec ==
    /\ Init /\ [][Next]_vars
    /\ WF_vars(OfTx2mon(T!Sampler))
    /\ WF_vars(OfTx2mon(T!Fini))
-----------------------------------------------------------------------------
\* The variables of every plugin keep their types.
TypeOK ==
    /\ plugin = "tx2mon" => T!TypeOK
    /\ plugin = "rapl" => Rapl!TypeOK
    /\ plugin = "wattsup" => W!TypeOK
    /\ plugin = "toilet" => Hint!TypeOK
    /\ plugin = "piapi" => I!TypeOK
    /\ plugin = "counters" => F!TypeOK

\* A reading of energy says what was consumed.  tx2mon: the energy of a socket lies
\* between what its lowest and its highest power make in the time that was sampled
\* (pwr_tx2mon.c:427).  rapl: two readings of a handle differ by what the package
\* consumed between them, less what was lost to a wrap (pwr_rapldev.c:257-326).
\* powercap: the energy of a socket is between what it can have consumed when the first
\* and when the second file was read (pwr_powercap.c:114).  dummy: no time is counted
\* twice in the energies of a handle (dummy_dev.c:130-160).
EnergyIsConsumption ==
    /\ plugin = "tx2mon" => T!EnergyBounds
    /\ plugin = "rapl" => Rapl!DifferenceIsConsumption
    /\ plugin = "powercap" => P!SocketBounds
    /\ plugin = "dummy" => Dummy!NoTimeTwice

\* tx2mon: a power reading is made of values of the time of the call
\* (pwr_tx2mon.c:621-651).
ReadingIsFresh == plugin = "tx2mon" => T!ReadingIsFresh

\* tx2mon: the sampling thread goes to no socket whose handle was freed
\* (pwr_tx2mon.c:423), and devInfo is freed after the thread (pwr_tx2mon.c:560).
NoneFreedInUse == [][plugin = "tx2mon" => T!PickStep /\ T!FreedAfterThread']_vars

\* tx2mon: pwr_tx2mon_dev_final returns (pwr_tx2mon.c:229): the thread sees the
\* flag after its pass.
FinalReturns ==
    (plugin = "tx2mon" /\ devInfo = "joining") ~> (plugin = "tx2mon" /\ devInfo = "freed")

\* wattsup: a reading is the answer to a request that is behind by the calls
\* that went wrong before, and none is used twice (pwr_wudev.c:160-200).
LagIsFailures == plugin = "wattsup" => W!LagIsFailures /\ W!LagNeverShrinks

\* toilet, with the region hints of the API: a region is found with its own socket and
\* hint, and the cores have what the last call for their socket gave them
\* (pwr.cc:365-482, pwr_toiletdev.c:197-386).
HintInForce == plugin = "toilet" => Hint!OwnHint /\ Hint!HintInForce

\* toilet: a governor takes a cpu over with the default limits
\* (pwr_toiletdev.c:273-333).
LimitsBeforeGovernor == [][plugin = "toilet" => Hint!LimitsBeforeGovernor]_vars

\* piapi: a reading is the last sample of its own port, in answer to its own request, if
\* no other reader found the flag clear before it was taken.  Nothing keeps the threads
\* of a process from that: the flag and the sample are static and the flag is no lock
\* (pwr_piapidev.c:50-51, 185-190).
OwnSample == plugin = "piapi" => I!OwnSample

\* cpudev, xtpm and pmc: a counter without a warning is of the generation seen before,
\* and a reading closes what it opened, but for cpudev (pwr_xtpmdev.c:50-181,
\* pwr_pmcdev.c:58-83).
CountersChecked == plugin = "counters" => F!SameGeneration /\ F!NoneLeftOpen
=============================================================================
