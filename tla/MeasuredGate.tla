------------------------------ MODULE MeasuredGate ------------------------------
(***************************************************************************)
(* PresentGate with the measurements behind it: what                       *)
(* nxgl_graphics_contract_adapter_pre_present does on the context that was *)
(* just made current (the version, the shader probe, one look at the       *)
(* drawable) before it asks the gate, what the gate keeps of it, and the   *)
(* documents the port writes with the final receipt.                       *)
(*                                                                         *)
(* The driver is chosen at the start: what its contexts are and what goes  *)
(* wrong in it.  A measurement runs to its end within eglMakeCurrent, so   *)
(* nothing else of the window's thread happens meanwhile.                  *)
(***************************************************************************)
EXTENDS PresentGate, GraphicsEvidence

CONSTANTS
    Declarations,   \* contracts a port declares: Prepared is this one's
    Drivers,        \* what the measurements may find: core is the truth of the
                    \* profile, mask what SDL says of it
    Sizes           \* drawable sizes a read may return

\* The declarations the enumerations allow, and what a driver may be.  No
\* interface has a version with a minor of two digits, and a desktop driver
\* before 2.0 has no shaders to probe: its entries are missing.
ASSUME MeasuredGateAssumption ==
    /\ Declarations \subseteq
         [api : {"gles", "gl"}, profile : {"es", "core", "compat"},
          version : Int \X Int, policy : {"exact", "minimum", "range"},
          most : Int \X Int, dialect : {"any", "essl100", "essl300", "essl310"},
          timeout : Int]
    /\ \A c \in Declarations : c.version[2] <= 9
    /\ Drivers \subseteq
         [string : {"dead", "es", "desktop"}, version : {<<>>} \cup (Nat \X Nat),
          core : BOOLEAN, mask : BOOLEAN,
          broken : {"no", "entries", "vertex", "fragment", "program", "link"}]
    /\ \A d \in Drivers :
         d.string = "desktop" /\ d.version # <<>> /\ d.broken # "entries" => d.version[1] >= 2
    /\ Sizes \subseteq Int \X Int

VARIABLES
    contract,    \* st_contract
    driver,      \* the live provider, fixed for the life of the process
    step,        \* where the measurement is; "idle" outside eglMakeCurrent
    pending,     \* the context it is made for
    measured,    \* the evidence so far: `measured' of pre_present
    shaders,     \* vs and fs of the probe: the stages it holds a name of
    objects,     \* the probe's objects in the context: see NoObjects
    kept,        \* st_gate.evidence
    documents    \* the JSON documents in the log, in order

measuring == <<step, pending, measured, shaders, objects>>
mvars == <<contract, driver, measuring, kept, documents>>
allvars == <<vars, mvars>>

\* A driver compiles the language its contexts speak: every ES context older
\* dialects too, a core context none before GLSL 1.40.
Speaks(d, language) ==
    IF d.string = "es"
    THEN language[1] = "essl" /\ language[2] <= (IF Before2(d.version, <<3, 0>>) THEN 100
                                                 ELSE 10 * (10 * d.version[1] + d.version[2]))
    ELSE /\ language[1] = "glsl"
         /\ language[2] <= (CASE d.version = <<2, 0>> -> 110
                              [] d.version = <<2, 1>> -> 120
                              [] d.version = <<3, 2>> -> 150
                              [] d.version[1] = 3 /\ d.version # <<3, 2>> -> 330
                              [] OTHER -> 100 * d.version[1] + 10 * d.version[2])
         /\ d.core => language[2] >= 140

Compiles(stage) == driver.broken # stage /\ Speaks(driver, ProbeLanguage(contract))

-------------------------------------------------------------------------------
(* The objects of the probe.  GL takes the name of a deleted shader at once  *)
(* but keeps the shader while it is attached to a program that lives.       *)
Stages == {"vertex", "fragment"}

Holding(S) == [live |-> S, attached |-> {}, flagged |-> {}]

NoObjects == Holding({})

Created(o, gl) == [gl EXCEPT !.live = @ \cup {o}]

Attached(gl) == [gl EXCEPT !.attached = Stages]

DeleteShaders(S, gl) ==
    [live |-> gl.live \ (S \ gl.attached), attached |-> gl.attached,
     flagged |-> gl.flagged \cup (S \cap gl.attached)]

DeleteProgram(gl) ==
    [NoObjects EXCEPT !.live = gl.live \ ({"program"} \cup gl.flagged)]

\* Mutant: a stage that compiled is left behind when the other did not.
StagesGoneForgotten(gl) == gl

\* The deletes of the branches that end without a program, one for each name.
StagesGone(gl) == DeleteShaders(shaders, gl)

\* The deletes of the branch that links one.
ProgramGone(gl) ==
    DeleteProgram(DeleteShaders(Stages, Attached(Created("program", gl))))

-------------------------------------------------------------------------------
MeasuredInit ==
    /\ Init
    /\ contract \in Declarations
    /\ driver \in Drivers
    /\ step = "idle"
    /\ pending = NoContext
    /\ measured = NoEvidence
    /\ shaders = {} /\ objects = NoObjects
    /\ kept = NoEvidence
    /\ documents = <<>>

\* eglMakeCurrent on the window, for a context that needs a preflight.
BeginMeasure(c) ==
    /\ ~dead
    /\ step = "idle"
    /\ ~Keeps(c)
    /\ step' = "measure"
    /\ pending' = c
    /\ measured' = NoEvidence
    /\ UNCHANGED <<vars, contract, driver, shaders, objects, kept, documents>>

\* The strings of the context; the probe is only run on one that matches.
MeasureContext ==
    /\ step = "measure"
    /\ measured' = [measured EXCEPT !.obtained = Measure(driver)]
    /\ step' = IF /\ Measure(driver) # Unmeasured
                  /\ Validate(contract, Measure(driver)) = "ok"
                  /\ driver.broken # "entries"
               THEN "vertex" ELSE "drawable"
    /\ UNCHANGED <<vars, contract, driver, pending, shaders, objects, kept, documents>>

\* nxgl_gc_compile_stage: a shader that does not compile is deleted there.
CompileStage(stage, next) ==
    /\ step = stage /\ step' = next
    /\ IF Compiles(stage)
       THEN shaders' = shaders \cup {stage} /\ objects' = Created(stage, objects)
       ELSE /\ UNCHANGED shaders
            /\ objects' = DeleteShaders({stage}, Created(stage, objects))
    /\ UNCHANGED <<vars, contract, driver, pending, measured, kept, documents>>

EndProbe(result, gl) ==
    /\ step = "link" /\ step' = "drawable"
    /\ measured' = [measured EXCEPT !.probe = result]
    /\ shaders' = {} /\ objects' = gl
    /\ UNCHANGED <<vars, contract, driver, pending, kept, documents>>

\* The three ends of the probe: a stage did not compile, no program could be
\* made, or one was linked.
CompileFailed ==
    shaders # Stages /\ EndProbe("compile-failed", StagesGone(objects))

ProgramFailed ==
    /\ shaders = Stages /\ driver.broken = "program"
    /\ EndProbe("link-failed", StagesGone(objects))

LinkProgram ==
    /\ shaders = Stages /\ driver.broken # "program"
    /\ EndProbe(IF driver.broken = "link" THEN "link-failed" ELSE "pass",
                ProgramGone(objects))

\* One look at the drawable, for the diagnosis only.
ReadDrawable(size) ==
    /\ step = "drawable"
    /\ measured' = [measured EXCEPT !.drawable = size]
    /\ step' = "preflight"
    /\ UNCHANGED <<vars, contract, driver, pending, shaders, objects, kept, documents>>

\* The verdict of nxgl_graphics_present_gate_preflight on a ready gate.
PreflightReason ==
    First(<<
      <<"contract-invalid", ~ContractIsValid(contract)>>,
      <<"provider-nominal-only", measured.obtained = Unmeasured>>,
      <<"misuse", ~ObtainedIsValid(measured.obtained)>>,
      <<Validate(contract, measured.obtained), Validate(contract, measured.obtained) # "ok">>,
      <<"shader-probe-failed", measured.probe # "pass">> >>)

\* The same as PresentGate tells verdicts apart.
Outcome == CASE PreflightReason = "ok" -> "ok"
             [] PreflightReason = "provider-nominal-only" -> "provider"
             [] PreflightReason = "shader-probe-failed" -> "probe"
             [] OTHER -> "contract"

\* The gate captures what was measured before it decides.
FinishMeasure ==
    /\ step = "preflight"
    /\ MakeWindowCurrent(pending, Outcome)
    /\ kept' = IF PreflightReason \in {"ok"} THEN measured
               ELSE [measured EXCEPT !.verdict = PreflightReason]
    /\ step' = "idle"
    /\ pending' = NoContext
    /\ measured' = NoEvidence
    /\ UNCHANGED <<contract, driver, shaders, objects, documents>>

\* Mutant: the evidence is written before the flip's drawable is in it.
WrittenEvidenceStale(observation, verdict) == [kept EXCEPT !.verdict = verdict]

WrittenEvidence(observation, verdict) ==
    [DrawableAfter(kept, observation) EXCEPT !.verdict = verdict]

VerdictOf(g) == CASE g.reason = "stuck" -> "drawable-stuck-1x1"
                  [] g.reason = "ok" -> "ok"
                  [] OTHER -> g.reason

\* st_graphics_contract_after_present: a gate that has concluded measures
\* nothing any more; the document follows the receipt.
Flip(o, d) ==
    /\ step = "idle"
    /\ Swap(SeenOf(o), d)
    /\ IF gate.phase \in {"proved", "rejected"} THEN UNCHANGED kept
       ELSE IF gate'.phase = "awaiting" THEN kept' = DrawableAfter(kept, o)
       ELSE kept' = WrittenEvidence(o, VerdictOf(gate'))
    /\ documents' = IF receipts' # receipts /\ Document(contract, kept').written
                    THEN Append(documents, Document(contract, kept')) ELSE documents
    /\ UNCHANGED <<contract, driver, measuring>>

Observations == [same : BOOLEAN, clock : BOOLEAN, size : Sizes]

\* What else the facade does with contexts.
Elsewhere ==
    /\ step = "idle"
    /\ \/ Release
       \/ \E c \in Contexts, s \in {"window", "pbuffer"} : MakeCurrentFails(c, s)
       \/ \E c \in Contexts : MakePbufferCurrent(c)
       \/ \E c \in Contexts : Keeps(c) /\ MakeWindowCurrent(c, "ok")
    /\ UNCHANGED mvars

MeasuredNext ==
    \/ Elsewhere
    \/ \E c \in Contexts : BeginMeasure(c)
    \/ MeasureContext
    \/ CompileStage("vertex", "fragment")
    \/ CompileStage("fragment", "link")
    \/ CompileFailed \/ ProgramFailed \/ LinkProgram
    \/ \E size \in Sizes : ReadDrawable(size)
    \/ FinishMeasure
    \/ \E o \in Observations, d \in Steps : Flip(o, d)

MeasuredSpec == MeasuredInit /\ [][MeasuredNext]_allvars

-------------------------------------------------------------------------------
(***************************************************************************)
(* Properties                                                              *)
(***************************************************************************)
\* The declaration, read as what it admits.
Admits(c, v) ==
    CASE c.policy = "exact" -> v = c.version
      [] c.policy = "minimum" -> v = c.version \/ Before2(c.version, v)
      [] c.policy = "range" -> /\ v = c.version \/ Before2(c.version, v)
                               /\ v = c.most \/ Before2(v, c.most)

\* The profile is the one SDL tells of; that it is true, only a compatibility
\* contract's probe shows.
Fulfils(d, c) ==
    /\ ContractIsValid(c)
    /\ d.version # <<>>
    /\ d.string = IF c.api = "gles" THEN "es" ELSE "desktop"
    /\ c.api = "gl" => (d.mask <=> c.profile = "core")
    /\ c.profile = "compat" => ~d.core
    /\ Admits(c, d.version)
    /\ d.broken = "no"
    /\ c.dialect = "essl300" => ~Before2(d.version, <<3, 0>>)
    /\ c.dialect = "essl310" => ~Before2(d.version, <<3, 1>>)

\* A context is let through exactly when the driver is what the port declared
\* and works: no declaration and no driver is misjudged, neither by the
\* comparison of versions nor by the language of the probe.
ContractHonoured ==
    /\ gate.phase \in {"awaiting", "proved"} => Fulfils(driver, contract)
    /\ gate.reason \in {"contract", "provider", "probe"} => ~Fulfils(driver, contract)

\* The port's document and the gate's receipt are one statement: there is one
\* for each receipt, with the receipt's verdict, and a success is backed by
\* all that was measured, the drawable of the deciding flip included.
DocumentAgrees ==
    /\ Len(documents) = Len(receipts)
    /\ \A i \in DOMAIN documents :
         /\ documents[i].verdict = "OK" <=> receipts[i].reason = "ok"
         /\ documents[i].verdict = "OK" =>
              /\ DrawableUsable(documents[i].drawable)
              /\ documents[i].probe = "pass"
              /\ Admits(contract, documents[i].obtained.version)
         /\ documents[i].verdict = "FAIL" => ~DrawableUsable(documents[i].drawable)

\* The probe runs on the guest's own context, on every one that is tried:
\* whatever fails in it, and whichever of its ends it takes, no shader and no
\* program of it lives on there (each branch deletes what it holds,
\* nxgl_graphics_contract_adapter.c:319-424).
NothingLeft ==
    step \in {"idle", "drawable", "preflight"} => objects.live = {}
===============================================================================
