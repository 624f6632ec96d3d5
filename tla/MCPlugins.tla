----------------------------- MODULE MCPlugins -----------------------------
(***************************************************************************)
(* The plugins, for TLC.                                                   *)
(***************************************************************************)
EXTENDS Plugins

\* tx2mon: one socket whose rails take one of two values.
McNode == {0}
McWatts == {1, 3}
McOutcome == {"ok", "failed"}

\* rapl: cpus numbered package by package or in turn, and one package.
McCpuTable == {<<0, 0, 1, 1>>, <<0, 1, 0, 1>>, <<0, 0>>}

\* toilet: two sockets with a core each; the keys of the map repeat after two regions.
McCpu == {0, 1}
McCore == {"c0", "c1"}
McCpuOf == [c0 |-> 0, c1 |-> 1]
McSocket == {"s0", "s1"}
McCores == [s0 |-> <<"c0">>, s1 |-> <<"c1">>]
McHints == {"DEFAULT", "IO", "COMPUTE", "MEM_BOUND"}
McAppGov == {"userspace", "other"}

\* dummy: the caller may write an energy.
McWritten == {5}

\* piapi: two threads read two ports.
McReader == {1, 2}
McPort == {1, 2}
McTotal == {1, 2}
=============================================================================
