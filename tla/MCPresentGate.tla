--------------------------- MODULE MCPresentGate ---------------------------
(* Two contexts, a budget of three units and steps that reach its end       *)
(* exactly and that overshoot it.  The declaration is this port's or one    *)
(* that takes another branch of the framework's code; the driver is one of  *)
(* each kind, whole or broken in one place.                                 *)
EXTENDS MeasuredGate

Clock == {1, 2}

Gles(version, policy, most, dialect) ==
    [Prepared EXCEPT !.version = version, !.policy = policy, !.most = most,
                     !.dialect = dialect]

Desktop(profile, version, policy, most) ==
    [api |-> "gl", profile |-> profile, version |-> version, policy |-> policy,
     most |-> most, dialect |-> "any", timeout |-> 5000]

Declared == {
    Prepared,
    Gles(<<3, 0>>, "exact", <<0, 0>>, "essl300"),
    Gles(<<2, 0>>, "range", <<3, 1>>, "essl310"),
    Gles(<<3, 1>>, "range", <<2, 0>>, "essl100"),
    Desktop("core", <<3, 3>>, "minimum", <<0, 0>>),
    Desktop("core", <<3, 1>>, "minimum", <<0, 0>>),
    Desktop("compat", <<2, 0>>, "range", <<3, 2>>) }

Parts == {"no", "entries", "vertex", "fragment", "program", "link"}

Driver(string, versions, cores, broken) ==
    {[d EXCEPT !.mask = d.core] :
        d \in [string : {string}, version : versions, core : cores, mask : {FALSE},
               broken : broken]}

\* SDL says what was asked for, or nothing.
Misnamed ==
    {[string |-> "desktop", version |-> version, core |-> core, mask |-> ~core,
      broken |-> "no"] : version \in {<<3, 2>>, <<3, 3>>}, core \in BOOLEAN}

EveryDriver ==
    Driver("dead", {<<>>}, {FALSE}, {"no"})
    \cup Driver("es", {<<>>, <<1, 1>>, <<2, 0>>, <<3, 0>>, <<3, 2>>}, {FALSE}, {"no"})
    \cup Driver("es", {<<2, 0>>}, {FALSE}, Parts)
    \cup Driver("desktop", {<<2, 0>>, <<2, 1>>, <<3, 1>>}, {FALSE}, {"no"})
    \cup Driver("desktop", {<<3, 2>>, <<3, 3>>, <<4, 6>>}, BOOLEAN, {"no"})
    \cup Driver("desktop", {<<3, 3>>}, {TRUE}, {"vertex", "link"})
    \cup Misnamed

EverySize == {<<-1, 2>>, <<0, 0>>, <<0, 2>>, <<1, 1>>, <<2, 1>>, <<2, 2>>,
              <<2, LargestDrawable>>, <<LargestDrawable + 1, 2>>}

=============================================================================
