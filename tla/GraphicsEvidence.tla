--------------------------- MODULE GraphicsEvidence ---------------------------
(***************************************************************************)
(* The graphics contract (nxgl_graphics_contract.c): what a port declares, *)
(* what was measured of a live context, the verdict, and the document that *)
(* is written of it.  The measurements themselves are those of             *)
(* nxgl_graphics_contract_adapter.c.  Enumerations are strings, versions   *)
(* are pairs; the structure sizes, the provenance texts and the bytes of   *)
(* the document are left out.                                              *)
(***************************************************************************)
LOCAL INSTANCE Integers
LOCAL INSTANCE Sequences

CONSTANT LargestDrawable   \* NXGL_GRAPHICS_DRAWABLE_MAX_DIMENSION

ASSUME EvidenceAssumption == LargestDrawable \in Nat \ {0, 1}

Before2(v, w) == v[1] < w[1] \/ (v[1] = w[1] /\ v[2] < w[2])

Coherent(api, profile) == (api = "gles") <=> (profile = "es")

\* nxgl_graphics_contract_default as this port changes it.
Prepared ==
    [api |-> "gles", profile |-> "es", version |-> <<2, 0>>, policy |-> "minimum",
     most |-> <<0, 0>>, dialect |-> "essl100", timeout |-> 5000]

\* The longest drawable_ready_timeout_ms a declaration may ask for.
LongestTimeout == 60000

ContractIsValid(c) ==
    /\ Coherent(c.api, c.profile)
    /\ c.profile = "core" => ~Before2(c.version, <<3, 2>>)
    /\ (c.api = "gl") <=> (c.dialect = "any")
    /\ c.version[1] >= 0 /\ c.version[2] >= 0
    /\ c.policy = "range" => /\ c.most[1] >= 0 /\ c.most[2] >= 0
                             /\ ~Before2(c.most, c.version)
    /\ c.timeout \in 0..LongestTimeout

ObtainedIsValid(o) ==
    /\ o.api \in {"gles", "gl"}
    /\ Coherent(o.api, o.profile)
    /\ o.version[1] >= 0 /\ o.version[2] >= 0

\* The first of a list of refusals that applies.
First(refusals) ==
    LET hit == {i \in DOMAIN refusals : refusals[i][2]}
    IN IF hit = {} THEN "ok"
       ELSE refusals[CHOOSE i \in hit : \A j \in hit : i <= j][1]

\* Mutant: the upper end of a range is not looked at.
ValidateOpenEnded(c, o) ==
    First(<<
      <<"contract-invalid", ~ContractIsValid(c) \/ ~ObtainedIsValid(o)>>,
      <<"desktop-gl-for-gles-contract", c.api = "gles" /\ o.api = "gl">>,
      <<"gles-for-gl-contract", c.api = "gl" /\ o.api = "gles">>,
      <<"profile-mismatch", c.profile # o.profile>>,
      <<"version-not-exact", c.policy = "exact" /\ o.version # c.version>>,
      <<"version-below-minimum", c.policy # "exact" /\ Before2(o.version, c.version)>> >>)

\* The interface first, before any shader is offered, then the profile, then
\* the version under the declared policy.
Validate(c, o) ==
    First(<<
      <<"contract-invalid", ~ContractIsValid(c) \/ ~ObtainedIsValid(o)>>,
      <<"desktop-gl-for-gles-contract", c.api = "gles" /\ o.api = "gl">>,
      <<"gles-for-gl-contract", c.api = "gl" /\ o.api = "gles">>,
      <<"profile-mismatch", c.profile # o.profile>>,
      <<"version-not-exact", c.policy = "exact" /\ o.version # c.version>>,
      <<"version-below-minimum", c.policy = "minimum" /\ Before2(o.version, c.version)>>,
      <<"version-out-of-range",
        c.policy = "range" /\ (Before2(o.version, c.version) \/ Before2(c.most, o.version))>> >>)

\* 1x1 is the placeholder of a surface that is not mapped yet.
DrawableUsable(size) == size[1] > 1 /\ size[2] > 1

\* The language of the probe's shaders: the declared dialect, or the GLSL
\* that belongs to the declared desktop version.
ProbeLanguage(c) ==
    CASE c.dialect = "essl100" -> <<"essl", 100>>
      [] c.dialect = "essl300" -> <<"essl", 300>>
      [] c.dialect = "essl310" -> <<"essl", 310>>
      [] c.profile = "compat" ->
           <<"glsl", IF Before2(c.version, <<2, 1>>) THEN 110 ELSE 120>>
      [] c.profile = "core" ->
           <<"glsl", IF c.version = <<3, 2>> THEN 150
                     ELSE IF c.version[1] = 3 THEN 330
                     ELSE 100 * c.version[1] + 10 * c.version[2]>>

Unmeasured == [api |-> "none", profile |-> "none", version |-> <<0, 0>>]

\* nxgl_graphics_evidence_init.
NoEvidence ==
    [obtained |-> Unmeasured, drawable |-> <<0, 0>>, probe |-> "skipped",
     verdict |-> "provider-nominal-only"]

\* nxgl_gc_evidence_structural_valid: a success recomputes, a failure only
\* has to be a document.
Serialisable(c, e) ==
    /\ ContractIsValid(c)
    /\ e.drawable[1] >= 0 /\ e.drawable[2] >= 0
    /\ ObtainedIsValid(e.obtained) \/ (e.verdict # "ok" /\ e.obtained = Unmeasured)
    /\ e.verdict = "ok" =>
         /\ Validate(c, e.obtained) = "ok"
         /\ DrawableUsable(e.drawable)
         /\ e.probe = "pass"

NoDocument == [written |-> FALSE]

\* nxgl_graphics_contract_evidence_json.
Document(c, e) ==
    IF ~Serialisable(c, e) THEN NoDocument
    ELSE [written |-> TRUE,
          requested |-> [api |-> c.api, profile |-> c.profile, version |-> c.version,
                         most |-> IF c.policy = "range" THEN c.most ELSE <<>>,
                         policy |-> c.policy, dialect |-> c.dialect],
          obtained |-> e.obtained, drawable |-> e.drawable, probe |-> e.probe,
          verdict |-> IF e.verdict = "ok" THEN "OK" ELSE "FAIL",
          reason |-> e.verdict]

-------------------------------------------------------------------------------
(***************************************************************************)
(* What the measurements read: a driver, and what a page flip looks like.  *)
(***************************************************************************)
\* nxgl_graphics_contract_adapter_measure of a driver whose GL_VERSION names
\* an interface ("es", "desktop" or nothing at all) and a version, or no
\* digits that fit an int.  The profile of a desktop context is what SDL says
\* of it: d.mask is FALSE where it cannot say.
Measure(d) ==
    IF d.string = "dead" \/ d.version = <<>> THEN Unmeasured
    ELSE IF d.string = "es"
    THEN [api |-> "gles", profile |-> "es", version |-> d.version]
    ELSE [api |-> "gl", profile |-> IF d.mask THEN "core" ELSE "compat",
          version |-> d.version]

\* The observation after a page flip, in the order the gate judges it.
SeenOf(o) ==
    First(<<
      <<"moved", ~o.same>>,
      <<"clock", ~o.clock>>,
      <<"unreadable", o.size[1] <= 0 \/ o.size[2] <= 0>>,
      <<"absurd", o.size[1] > LargestDrawable \/ o.size[2] > LargestDrawable>>,
      <<"usable", DrawableUsable(o.size)>>,
      <<"placeholder", TRUE>> >>)

\* What the gate's evidence says of the drawable after that.
DrawableAfter(e, o) ==
    IF ~o.same \/ ~o.clock THEN e
    ELSE [e EXCEPT !.drawable = o.size]
===============================================================================
