----------------------------- MODULE PluginMeta -----------------------------
(***************************************************************************)
(* What the plugins say of themselves when a machine is configured with    *)
(* hwloc: the types of objects they serve, the attributes of each, and the *)
(* strings their devices are opened with.  Of a string only what open      *)
(* finds in it is kept: the number of the package, of the core, or no more *)
(* than that it is a device of the node.                                   *)
(***************************************************************************)
EXTENDS Naturals, Sequences, SequencesExt

PwrType == {"plat", "node", "socket", "core", "mem", "tx2core", "tx2sram", "tx2mem", "tx2soc"}
Attr == {"SSTATE", "VOLTAGE", "POWER", "POWER_LIMIT_MAX", "FREQ", "FREQ_LIMIT_MIN",
         "FREQ_LIMIT_MAX", "ENERGY", "TEMP", "GOV"}

\* Most plugins give the same attributes for every type.
Meta(numObjs, objs, attrs) ==
    [numObjs |-> numObjs, objs |-> objs, attrs |-> [t \in PwrType |-> attrs]]

DummyMeta == Meta(1, <<"core">>, <<"ENERGY", "POWER">>)
RaplMeta == Meta(2, <<"socket", "mem">>, <<"ENERGY">>)
PowercapMeta == Meta(2, <<"socket", "mem">>, <<"ENERGY">>)
CpuMeta == Meta(1, <<"core">>, <<"SSTATE", "FREQ">>)
CacMeta == Meta(1, <<"core">>, <<"SSTATE", "FREQ">>)
XtpmMeta == Meta(1, <<"node">>, <<"ENERGY", "POWER", "POWER_LIMIT_MAX">>)
ToiletMeta ==
    Meta(2, <<"socket", "core">>,
         <<"POWER", "FREQ", "FREQ_LIMIT_MIN", "FREQ_LIMIT_MAX", "GOV">>)
\* Two types are announced and one is named.
MicMeta == Meta(2, <<"socket">>, <<"POWER">>)

\* tx2mon counts its types as it adds their attributes.
Tx2monMeta ==
    [numObjs |-> 6,
     objs |-> <<"socket", "core", "tx2core", "tx2sram", "tx2mem", "tx2soc">>,
     attrs |-> [t \in PwrType |->
        CASE t = "core" -> <<"FREQ", "TEMP">>
          [] t \in {"tx2core", "tx2sram", "tx2mem", "tx2soc"} -> <<"POWER">>
          [] t = "socket" -> <<"TEMP", "POWER", "VOLTAGE", "FREQ", "ENERGY">>
          [] OTHER -> <<>>]]

\* ipmi serves the power of the node if it can read it when it is asked.
IpmiMeta(readable) ==
    IF readable THEN Meta(1, <<"node">>, <<"POWER">>) ELSE Meta(0, <<>>, <<>>)

MetaOf ==
    [dummy |-> DummyMeta, rapl |-> RaplMeta, powercap |-> PowercapMeta, cpudev |-> CpuMeta,
     cac |-> CacMeta, xtpm |-> XtpmMeta, toilet |-> ToiletMeta, mic |-> MicMeta,
     tx2mon |-> Tx2monMeta, ipmi |-> IpmiMeta(TRUE), noipmi |-> IpmiMeta(FALSE)]
Plugin == DOMAIN MetaOf

\* m_objVec: a place the plugin does not fill is the first type there is.
ObjVec(meta) ==
    [i \in 1 .. meta.numObjs |-> IF i <= Len(meta.objs) THEN meta.objs[i] ELSE "plat"]

\* m_objMap
Serves ==
    [p \in Plugin |->
        UNION {{t} \X ToSet(MetaOf[p].attrs[t]) : t \in ToSet(ObjVec(MetaOf[p]))}]

-----------------------------------------------------------------------------
\* What the handle reads that open makes of the string for an object of a type and a
\* number: a package, a core of a package, a cpu, or the node.
Package(i) == [kind |-> "package", id |-> i]
CoreOf(package, i) == [kind |-> "core", id |-> <<package, i>>]
Cpu(i) == [kind |-> "cpu", id |-> i]
TheNode == [kind |-> "node"]

\* powercap_dev_open and pwr_rapldev_open: the package of that number, for memories too.
PackageHandle(type, i) == Package(i)
\* pwr_tx2mon_dev_open, getNode and getCore.
Tx2monHandle(type, i, cores) ==
    IF type = "core" THEN CoreOf(i \div cores, i % cores) ELSE Package(i)
\* pwr_cpudev_open
CpuHandle(type, i) == Cpu(i)
\* toilet_open finds neither "pkg" nor "core" in a number.
ToiletHandle(type, i) == Cpu(0)

Handle(p, type, i, cores) ==
    CASE p \in {"rapl", "powercap", "mic"} -> PackageHandle(type, i)
      [] p = "tx2mon" -> Tx2monHandle(type, i, cores)
      [] p \in {"cpudev", "cac", "dummy"} -> CpuHandle(type, i)
      [] p = "toilet" -> ToiletHandle(type, i)
      [] OTHER -> TheNode
=============================================================================
