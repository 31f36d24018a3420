------------------------------ MODULE CadBuild ------------------------------
(***************************************************************************)
(* One run of `cad_worker build` on a document: the gate, the features in  *)
(* the order of the document, the export, the measurement and the answer   *)
(* (apps/cad-worker/cad_worker/__main__.py and                             *)
(* packages/build123d-adapter/cad_engine_build123d).                       *)
(*                                                                         *)
(* A body is known by the names it answers to and by the features that     *)
(* made it what it is.  The kernel is a choice: a feature is applied, or   *)
(* refused with one of the codes its tool can give.  A refusal ends the    *)
(* run and leaves the bodies as they were, so a document refused at its    *)
(* i-th feature is refused like the document that stops there; only the    *)
(* last feature of a short document is refused here.                       *)
(***************************************************************************)
EXTENDS CadDocument, SequencesExt

CONSTANT Profiles,         \* the profiles a sweep may carry
         Radii,            \* the radii of its bends
         MaxBends          \* bound: bends in a path

VARIABLES doc,             \* the features
          params,          \* the parameters it declares
          expects,         \* its expectations, in order
          off,             \* capabilities turned off on this worker
          stage,           \* "write", "build" or "over"
          at,              \* the feature to build next
          bodies,          \* Bodies._bodies
          active,          \* Bodies._active, 0 when there is none
          planes,          \* the datum planes built so far
          used,            \* capabilities exercised so far
          twice,           \* a boolean has named one body twice
          code,            \* the answer of the run
          files            \* the output directory: whose model and report it holds

vars == <<doc, params, expects, off, stage, at, bodies, active, planes, used,
          twice, code, files>>
built == <<bodies, active, planes, used, twice>>
written == <<doc, params, expects, off>>

(***************************************************************************)
(* What a worker has to have turned on (capabilities.py).                  *)
(***************************************************************************)
PlaneNeeds(f) ==
  IF f.type \in {"solid", "cut"}
  THEN {<<"plane", f.plane.kind>>}
         \cup (IF f.stop # Unnamed THEN {<<"extrude", "until_face">>} ELSE {})
  ELSE {}

FeatureNeeds(d, i) ==
  LET f == d[i]
      boss == /\ f.type = "solid" /\ f.tool = "extrude" /\ ~f.new
              /\ \E j \in 1..(i - 1) : d[j].on /\ d[j].type = "solid"
  IN  CASE f.type = "datum" -> {<<"plane", "datum">>}
        [] f.type = "boolean" -> {<<"boolean", "any">>}
        [] OTHER -> {<<f.type, f.tool>>} \cup PlaneNeeds(f)
                      \cup (IF f.new THEN {<<"body", "new">>} ELSE {})
                      \cup (IF boss THEN {<<"body", "boss">>} ELSE {})

Requirements(d) == UNION {FeatureNeeds(d, i) : i \in {j \in DOMAIN d : d[j].on}}

(***************************************************************************)
(* What the kernel and the tools in front of it can refuse.                *)
(***************************************************************************)
FaceRefusals == {"SKETCH_INVALID", "SKETCH_ISLAND_OUTSIDE_PROFILE"}
ContourRefusals == {"SKETCH_INVALID", "SKETCH_NOT_CLOSED"}
EntityRefusals == {"SKETCH_ENTITY_DUPLICATE", "CONSTRAINT_OPERAND_INVALID"}
ConstraintRefusals ==
  {"CONSTRAINT_OPERAND_MISSING", "CONSTRAINT_DUPLICATE", "CONSTRAINT_CONTRADICTION"}
DimensionRefusals ==
  {"CONSTRAINT_NOT_SATISFIED", "UNSUPPORTED_CONSTRAINT", "UNSUPPORTED_DIMENSION",
   "DIMENSION_DISAGREES_WITH_GEOMETRY", "CONSTRAINT_OPERAND_INVALID"}
SketchRefusals ==
  FaceRefusals \cup ContourRefusals \cup EntityRefusals \cup ConstraintRefusals
    \cup DimensionRefusals
SelectorRefusals ==
  {"SELECTOR_NO_MATCH", "SELECTOR_AMBIGUOUS", "SELECTOR_UNSUPPORTED_PREDICATE"}
ReachRefusals ==
  SelectorRefusals \cup {"UNTIL_FACE_PARALLEL", "UNTIL_FACE_COINCIDENT",
                         "UNTIL_FACE_BEHIND", "UNTIL_FACE_NOT_PLANAR"}
ExtrudeRefusals ==
  {"DIMENSION_OUT_OF_RANGE", "UNSUPPORTED_FEATURE_SET", "EXTRUDE_DRAFT_TOO_STEEP"}
RevolveRefusals ==
  {"REVOLVE_AXIS_INVALID", "REVOLVE_PROFILE_CROSSES_AXIS", "DIMENSION_OUT_OF_RANGE"}
PathRefusals ==
  {"SWEEP_PATH_NOT_AT_ORIGIN", "SWEEP_PATH_DISCONNECTED", "SWEEP_PATH_CLOSED",
   "SWEEP_PATH_NOT_TANGENT", "SWEEP_PROFILE_NOT_PERPENDICULAR"}
SpatialRefusals ==
  PathRefusals \cup {"SWEEP_PATH_ARC_NOT_CIRCULAR", "SWEEP_PATH_ARC_AMBIGUOUS"}
HelixRefusals == {"DIMENSION_OUT_OF_RANGE", "HELIX_PITCH_TIGHTER_THAN_SECTION"}
ItselfRefusals == {"SOLID_PASSES_THROUGH_ITSELF"}
LoftRefusals == {"LOFT_SECTIONS_COPLANAR"}
FilletRefusals == SelectorRefusals \cup {"BLEND_FAILED", "DIMENSION_OUT_OF_RANGE"}
ShellRefusals ==
  SelectorRefusals \cup {"SHELL_FAILED", "SHELL_NO_CAVITY", "DIMENSION_OUT_OF_RANGE"}
DraftRefusals ==
  SelectorRefusals \cup {"DRAFT_TOO_STEEP", "DRAFT_MOVED_NOTHING",
                         "DRAFT_NEUTRAL_FACE_NOT_PLANAR", "DIMENSION_OUT_OF_RANGE"}
BooleanRefusals == {"BOOLEAN_FAILED", "BOOLEAN_EMPTY"}
PlacementRefusals == {"DIMENSION_OUT_OF_RANGE"}

ToolRefusals ==
  [extrude |-> ExtrudeRefusals,
   revolve |-> RevolveRefusals,
   sweep   |-> PathRefusals \cup SpatialRefusals \cup HelixRefusals \cup ItselfRefusals,
   loft    |-> LoftRefusals \cup ItselfRefusals,
   fillet  |-> FilletRefusals,
   shell   |-> ShellRefusals,
   draft   |-> DraftRefusals]

\* _tool_of: the sketch comes first, then how far the tool goes.
MakingRefusals(f) ==
  SketchRefusals
    \cup (IF f.plane.kind = "face" THEN SelectorRefusals ELSE {})
    \cup (IF f.stop # Unnamed THEN ReachRefusals ELSE {})
    \cup (IF StatesNoReach(f) THEN {} ELSE ToolRefusals[f.tool])

(***************************************************************************)
(* The table of bodies (bodies.py).                                        *)
(***************************************************************************)
Body(names, made) == [names |-> names, made |-> made]

Holding(bs, name) == {b \in DOMAIN bs : name \in bs[b].names}
Known(name) == Holding(bodies, name) # {}
Find(bs, name) == CHOOSE b \in Holding(bs, name) :
                    \A c \in Holding(bs, name) : b <= c

\* locate: the named body, or the active one; 0 is none.  Known, if named.
Locate(name) == IF name = Unnamed THEN active ELSE Find(bodies, name)

NamesOf(i) == {doc[i].name} \ {Unnamed}

\* A feature added to the b-th body, which answers to these names as well.
Touch(i, b, names) ==
  /\ bodies' = [bodies EXCEPT ![b] = Body(@.names \cup names, @.made \cup {i})]
  /\ active' = b

\* The feature a pattern repeats, down the chain of patterns.
Repeated(i) ==
  LET source[k \in DOMAIN doc] ==
        IF doc[k].type = "pattern" THEN source[doc[k].ref] ELSE k
  IN  source[i]

\* A pattern makes its source's tool again, on the body as it is by now.
Refusals(i) ==
  CASE doc[i].type \in {"solid", "cut"} -> MakingRefusals(doc[i])
    [] doc[i].type = "blend" -> ToolRefusals[doc[i].tool]
    [] doc[i].type = "pattern" -> MakingRefusals(doc[Repeated(i)]) \cup PlacementRefusals
    [] doc[i].type = "boolean" -> BooleanRefusals
    [] OTHER -> {}

\* Wrong on purpose: a pattern works on the active body, like an operation that
\* names none.
TargetOfTheMoment(i) ==
  IF doc[i].new THEN 0 ELSE Locate(IF doc[i].type = "pattern" THEN Unnamed ELSE doc[i].ref)

\* The body an operation works on, 0 for one that starts its own.
Target(i) ==
  LET f == doc[i]
  IN  CASE f.type = "pattern" -> Locate(doc[Repeated(i)].ref)
        [] f.new -> 0
        [] OTHER -> Locate(f.ref)

(***************************************************************************)
(* What makes a feature fail before the kernel is asked.                   *)
(***************************************************************************)
Asked(i) ==                \* the bodies it names for its operands
  LET f == doc[i]
  IN  CASE f.type \in {"solid", "cut", "blend"} -> {f.ref} \ {Unnamed}
        [] f.type = "pattern" -> {doc[Repeated(i)].ref} \ {Unnamed}
        [] f.type = "boolean" -> {f.ref} \cup f.tools
        [] OTHER -> {}

\* A sketch on a face of a body that is not there falls back on the body worked on.
PlaneFails(i, plane) ==
  \/ plane.kind = "datum" /\ plane.name \notin planes
  \/ plane.kind = "face" /\ ~Known(plane.name) /\ Target(i) = 0

\* A pattern makes its source's tool again, once it has a body to work on.
Unavailable(i) ==
  \/ \E n \in Asked(i) : ~Known(n)
  \/ doc[i].type = "datum" /\ doc[i].ref \notin planes \cup {Unnamed}
  \/ doc[i].type \in {"solid", "cut"} /\ PlaneFails(i, doc[i].plane)
  \/ doc[i].type = "pattern" /\ Target(i) # 0 /\ PlaneFails(i, doc[Repeated(i)].plane)

\* A cut, a pattern or an extrusion up to a face before anything has been built.
Nothing(i) ==
  /\ \/ doc[i].type \in {"cut", "pattern"}
     \/ doc[i].type = "solid" /\ doc[i].stop # Unnamed
  /\ Target(i) = 0

\* A parameter the document does not define; its status is not looked at.
Unresolved(i) == doc[i].param \notin params \cup {"none"}

\* create: a new body under a name that is taken.  No accepted document comes to
\* this, since the gate refuses a second feature of the same result.
NameTaken(i) ==
  doc[i].type = "solid" /\ Target(i) = 0 /\ \E n \in NamesOf(i) : Known(n)

\* resolve: a number that is not there is no number.
NoNumber(i) == doc[i].type = "solid" /\ StatesNoReach(doc[i])

\* _mirror_plane knows the base planes only.
AboutADatum(i) == doc[i].type = "pattern" /\ doc[i].plane.kind = "datum"

StructuralFailure(i) ==
  IF Unavailable(i) THEN "FEATURE_RESULT_UNAVAILABLE"
  ELSE IF Nothing(i) THEN "UNSUPPORTED_FEATURE_SET"
  ELSE IF Unresolved(i) THEN "PARAMETER_UNRESOLVED"
  ELSE IF NoNumber(i) \/ NameTaken(i) THEN "CAD_IR_INVALID"
  ELSE IF AboutADatum(i) THEN "UNSUPPORTED_FEATURE"
  ELSE "none"

\* What fails only once a tool has been made, which may be refused first.
FailsLate == {"CAD_IR_INVALID", "UNSUPPORTED_FEATURE", "none"}

(***************************************************************************)
(* A boolean (booleans.py): tools go into the target, then are dropped,    *)
(* highest index first, once for every time they were named.               *)
(***************************************************************************)
ToolsAbove(i, b) == {n \in doc[i].tools : Find(bodies, n) > b}

\* sorted(..., reverse=True): the k-th is passed by less than k of them.
ToolIndices(i) ==
  [k \in 1..Cardinality(doc[i].tools) |->
     CHOOSE b \in DOMAIN bodies : /\ Cardinality(ToolsAbove(i, b)) < k
                                 /\ k <= Cardinality(ToolsAbove(i, b - 1))]

Drop(bs, b) == IF b \in DOMAIN bs THEN RemoveAt(bs, b) ELSE <<>>
DropAll(bs, indices) == FoldLeft(Drop, bs, indices)

\* Wrong on purpose: only one tool goes into the target.
JoinedOnce(i) ==
  LET t == Find(bodies, doc[i].ref)
      taken == bodies[Find(bodies, CHOOSE n \in doc[i].tools : TRUE)].made
  IN  [bodies EXCEPT ![t].made = @ \cup taken \cup {i}]

Joined(i) ==
  LET t == Find(bodies, doc[i].ref)
      taken == UNION {bodies[Find(bodies, n)].made : n \in doc[i].tools}
  IN  [bodies EXCEPT ![t].made = @ \cup taken \cup {i}]

Consumed(i) ==
  IF doc[i].keep THEN Joined(i) ELSE DropAll(Joined(i), ToolIndices(i))

\* Whether a drop runs off the list, which the code does not expect.
Overrun(i) ==
  /\ ~doc[i].keep
  /\ \E k \in DOMAIN ToolIndices(i) : ToolIndices(i)[k] > Len(bodies) - (k - 1)

NamesOneTwice(i) ==
  LET all == doc[i].tools \cup {doc[i].ref}
  IN  Cardinality({Find(bodies, n) : n \in all}) < Cardinality(all)

(***************************************************************************)
(* Writing the document.  A short one may have anything wrong with it; a   *)
(* longer one only refers to what it should not.                           *)
(***************************************************************************)
Wild == Len(doc) < Detail
Named == {n \in 1..Len(doc) : ProducersOf(doc, n) # {}}
Planes == {Base} \cup {Plane(k, n) : k \in {"datum", "face"}, n \in Named}

Bends == [side : Sides, radius : Radii]
Paths == UNION {[1..n -> Bends] : n \in 1..MaxBends}

\* What the i-th feature may be, but for its dependencies.
Solid(i, r, n) == [Blank EXCEPT !.name = i, !.ref = r, !.new = n]
Disabled(i) == [Blank EXCEPT !.name = i, !.on = FALSE]
CutInto(r) == [Blank EXCEPT !.type = "cut", !.ref = r]
CutOn(i, p) == [Blank EXCEPT !.type = "cut", !.name = i, !.plane = p]
Datum(i, o, r) == [Blank EXCEPT !.type = "datum", !.name = i, !.on = o, !.ref = r]
Blend(l, r) == [Blank EXCEPT !.type = "blend", !.tool = l, !.ref = r]
Pattern(o, r) == [Blank EXCEPT !.type = "pattern", !.on = o, !.ref = r]
Mirror(r, n) ==
  [Blank EXCEPT !.type = "pattern", !.ref = r, !.plane = Plane("datum", n)]
Boolean(r, s, k) == [Blank EXCEPT !.type = "boolean", !.ref = r, !.tools = s, !.keep = k]
MadeWith(y, l, i) == [Blank EXCEPT !.type = y, !.tool = l, !.name = i]
Reading(m, o, q) == [Blank EXCEPT !.name = m, !.on = o, !.new = o, !.param = q]
Drawn(i, q) == [Blank EXCEPT !.name = i, !.new = TRUE, !.param = q, !.guide = TRUE]
Reaching(y, i, l, s) ==
  [Blank EXCEPT !.type = y, !.name = i, !.length = l, !.stop = s]
StartedOn(i, p) == [Blank EXCEPT !.name = i, !.new = TRUE, !.plane = p]
SweptAlong(w, c) == [Blank EXCEPT !.tool = "sweep", !.name = 1, !.path = w, !.profile = c]

Plain(i) ==
  LET next == {Unnamed} \cup Named
  IN  {Solid(i, r, n) : r \in next, n \in BOOLEAN} \cup {Disabled(i)}
        \cup {CutInto(r) : r \in next} \cup {CutOn(i, p) : p \in Planes}
        \cup {Datum(i, o, r) : o \in BOOLEAN, r \in next}
        \cup {Blend("fillet", r) : r \in Named}
        \cup {Pattern(o, r) : o \in BOOLEAN, r \in 1..(i - 1)}
        \cup {Mirror(r, n) : r \in 1..(i - 1), n \in Named}
        \cup {Boolean(r, s, k) : r \in Named, s \in SUBSET Named, k \in BOOLEAN}

Odd(i) ==
  {MadeWith(y, l, i) : y \in {"solid", "cut"}, l \in {"revolve", "loft"}}
    \cup {Reading(m, o, q) : m \in 0..i, o \in BOOLEAN, q \in Parameters}
    \cup {Drawn(i, q) : q \in Parameters}
    \cup {Reaching(y, i, l, s) : y \in {"solid", "cut"}, l \in BOOLEAN,
                                 s \in {Unnamed} \cup Named}
    \cup {StartedOn(i, p) : p \in Planes}
    \cup {Blend(l, r) : l \in {"shell", "draft"}, r \in Named}

\* A sweep is only looked at alone.
Sweeps == {SweptAlong(w, c) : w \in Paths, c \in Profiles}

Drafts(i) ==
  {f \in Plain(i) \cup (IF Wild THEN Odd(i) ELSE {})
              \cup (IF i = 1 /\ off = {} THEN Sweeps ELSE {}) : f.type \in Types[i]}

Dependencies(i, f) ==
  LET exact == Needed(Append(doc, f), i)
  IN  IF Wild THEN {exact, {}, exact \cup {i}, exact \cup {i + 1}} ELSE {exact}

Swept == doc # <<>> /\ doc[1].path # <<>>

WriteFeature ==
  /\ stage = "write" /\ Len(doc) < Len(Types) /\ ~Swept
  /\ FeaturesAccepted(doc)
  /\ off = {} \/ Wild
  /\ \E f \in Drafts(Len(doc) + 1) : \E d \in Dependencies(Len(doc) + 1, f) :
        doc' = Append(doc, [f EXCEPT !.deps = d])
  /\ UNCHANGED <<params, expects, off, stage, at, bodies, active, planes, used,
                 twice, code, files>>

Expect(kind, value) == [kind |-> kind, value |-> value]
Usual == <<Expect("bounding_box", 1), Expect("body_count", 1)>>
Expectations ==
  UNION {[1..n -> {Expect("bounding_box", 1), Expect("body_count", 1),
                   Expect("body_count", 2), Expect("through_hole_count", 1)}] : n \in 0..3}

\* Parameters and expectations to submit it with; one thing is varied at a time.
Submissions ==
  LET Varied(longest) == Len(doc) <= longest /\ off = {} /\ ~Swept
  IN  {<<{}, Usual>>}
        \cup (IF Varied(Detail) THEN (SUBSET Parameters) \X {Usual} ELSE {})
        \cup (IF Varied(1) THEN {{}} \X Expectations ELSE {})

(***************************************************************************)
(* Submitting it: the reader's refusals, then the gate.                    *)
(***************************************************************************)
Answer(c) == stage' = "over" /\ code' = c

Submit ==
  /\ stage = "write"
  /\ \E s \in Submissions :
        /\ params' = s[1] /\ expects' = s[2]
        /\ IF ~Accepted(doc, s[1], s[2])
           THEN Answer("CAD_IR_INVALID")
           ELSE IF Requirements(doc) \cap off # {}
           THEN Answer("CAPABILITY_DISABLED")
           ELSE stage' = "build" /\ UNCHANGED code
  /\ UNCHANGED <<doc, off, at, bodies, active, planes, used, twice, files>>

(***************************************************************************)
(* Building it (build_part), a feature at a time.                          *)
(***************************************************************************)
AllTypes == {"solid", "cut", "datum", "blend", "pattern", "boolean"}
Building(types) ==
  stage = "build" /\ at <= Len(doc) /\ doc[at].on /\ doc[at].type \in types

Fits ==                    \* nothing is in the way of the feature at hand
  StructuralFailure(at) = "none" /\ ~SweepRefused(doc[at].path, doc[at].profile)

Exercised(more) ==
  used' = used \cup {<<doc[at].type, doc[at].tool>>} \cup PlaneNeeds(doc[at]) \cup more

Onward == at' = at + 1 /\ UNCHANGED <<written, stage, code, files>>

Skip ==
  /\ stage = "build" /\ at <= Len(doc) /\ ~doc[at].on
  /\ Onward
  /\ UNCHANGED built

PlaceDatum ==
  /\ Building({"datum"}) /\ Fits
  /\ planes' = planes \cup {doc[at].name}
  /\ used' = used \cup {<<"plane", "datum">>}
  /\ Onward
  /\ UNCHANGED <<bodies, active, twice>>

\* create: the solid starts a body, asked to or because nothing is there.
StartBody ==
  /\ Building({"solid"}) /\ Fits
  /\ Target(at) = 0
  /\ bodies' = Append(bodies, Body(NamesOf(at), {at}))
  /\ active' = Len(bodies) + 1
  /\ Exercised(IF doc[at].new THEN {<<"body", "new">>} ELSE {})
  /\ Onward
  /\ UNCHANGED <<planes, twice>>

AddToBody ==
  /\ Building({"solid"}) /\ Fits
  /\ Target(at) # 0
  /\ Touch(at, Target(at), NamesOf(at))
  /\ Exercised(IF doc[at].tool = "extrude" THEN {<<"body", "boss">>} ELSE {})
  /\ Onward
  /\ UNCHANGED <<planes, twice>>

\* A cut, a blend or a pattern: the body is replaced and answers to no new name.
ChangeBody ==
  /\ Building({"cut", "blend", "pattern"}) /\ Fits
  /\ Touch(at, Target(at), {})
  /\ Exercised({})
  /\ Onward
  /\ UNCHANGED <<planes, twice>>

Combine ==
  /\ Building({"boolean"}) /\ Fits /\ ~Overrun(at)
  /\ Holding(Consumed(at), doc[at].ref) # {}
  /\ bodies' = Consumed(at)
  /\ active' = Find(bodies', doc[at].ref)
  /\ twice' = (twice \/ NamesOneTwice(at))
  /\ used' = used \cup {<<"boolean", "any">>}
  /\ Onward
  /\ UNCHANGED planes

(***************************************************************************)
(* Ways a build ends before there is a part.                               *)
(***************************************************************************)
Refused(c) ==
  /\ Answer(c)
  /\ UNCHANGED <<written, at, built, files>>

FailFeature ==
  /\ Building(AllTypes) /\ StructuralFailure(at) # "none"
  /\ Refused(StructuralFailure(at))

RefuseSweep ==
  /\ Building({"solid"}) /\ SweepRefused(doc[at].path, doc[at].profile)
  /\ Refused("SWEEP_BEND_TIGHTER_THAN_PROFILE")

Refusable(types) ==
  /\ Building(types) /\ StructuralFailure(at) \in FailsLate
  /\ ~SweepRefused(doc[at].path, doc[at].profile)
  /\ at = Len(doc) /\ Len(doc) <= Detail /\ off = {}

RefuseFeature ==
  /\ Refusable(AllTypes)
  /\ \E c \in Refusals(at) : Refused(c)

\* The kernel raises something of its own while a tool is made or combined, which
\* adapter.py does not catch (blends, booleans and the export do) and _build lets
\* through: it expects a CadEngineError.
KernelFails ==
  /\ Refusable({"solid", "cut", "pattern"})
  /\ Refused("Traceback")

\* What a boolean that named one body twice can end in: its target is gone, or
\* an exception nobody types.
LoseTarget ==
  /\ Building({"boolean"}) /\ Fits /\ ~Overrun(at)
  /\ Holding(Consumed(at), doc[at].ref) = {}
  /\ twice' = (twice \/ NamesOneTwice(at))
  /\ Answer("FEATURE_RESULT_UNAVAILABLE")
  /\ UNCHANGED <<written, at, bodies, active, planes, used, files>>

Overflow ==
  /\ Building({"boolean"}) /\ Fits /\ Overrun(at)
  /\ twice' = (twice \/ NamesOneTwice(at))
  /\ Answer("Traceback")
  /\ UNCHANGED <<written, at, bodies, active, planes, used, files>>

(***************************************************************************)
(* The finished part: exported, read back and measured (verify.py).        *)
(***************************************************************************)
\* step and mesh: readable, sound files; agree: their bounds and their genus.
StepReadings == [step : BOOLEAN, solids : {0, 1, 2}, size : {1, 2}]
MeshReadings == [mesh : BOOLEAN, holes : {0, 1}]

Measurements ==
  IF Len(doc) > 1 \/ Swept \/ off # {}
  THEN {[step |-> TRUE, solids |-> Len(bodies), size |-> 1, mesh |-> TRUE, holes |-> 0,
         agree |-> TRUE]}
  ELSE {s @@ m @@ [agree |-> a] : s \in StepReadings, m \in MeshReadings, a \in BOOLEAN}

\* Expectations.of: a later expectation takes the place of an earlier one.
Stated(kind) ==
  LET at_ == {k \in DOMAIN expects : expects[k].kind = kind}
  IN  IF at_ = {} THEN {} ELSE {expects[CHOOSE k \in at_ : \A j \in at_ : j <= k].value}

Meets(value, kind) == \A s \in Stated(kind) : value = s

Verified(m) ==
  /\ m.step /\ m.solids > 0
  /\ Meets(m.solids, "body_count") /\ Meets(m.size, "bounding_box")
  /\ m.mesh /\ Meets(m.holes, "through_hole_count")
  /\ m.agree

Done == stage = "build" /\ at > Len(doc)

Empty ==
  /\ Done /\ bodies = <<>>
  /\ Refused("UNSUPPORTED_FEATURE_SET")

\* The STEP file is written first; the run may fail before or after it.
FailExport ==
  /\ Done /\ bodies # <<>> /\ Len(doc) <= 1
  /\ \E step \in {files.step, "this"} : files' = [files EXCEPT !.step = step]
  /\ Answer("EXPORT_FAILED")
  /\ UNCHANGED <<written, at, built>>

Deliver ==
  /\ Done /\ bodies # <<>>
  /\ \E m \in Measurements :
        /\ files' = [step |-> "this", report |-> "this", valid |-> Verified(m), found |-> m]
        /\ Answer(IF Verified(m) THEN "COMPLETED" ELSE "GEOMETRY_VALIDATION_FAILED")
  /\ UNCHANGED <<written, at, built>>

(***************************************************************************)
(* The job directory has been used before.                                 *)
(***************************************************************************)
NothingFound == [step |-> TRUE, solids |-> 0, size |-> 0, mesh |-> TRUE, holes |-> 0,
                 agree |-> TRUE]

Init ==
  /\ doc = <<>> /\ params = {} /\ expects = <<>>
  /\ off \in {{}} \cup {{<<"body", "new">>}, {<<"body", "boss">>}, {<<"plane", "datum">>},
                        {<<"plane", "face">>}, {<<"cut", "extrude">>},
                        {<<"blend", "shell">>}, {<<"solid", "loft">>}}
  /\ stage = "write" /\ at = 1 /\ code = "none"
  /\ bodies = <<>> /\ active = 0 /\ planes = {} /\ used = {} /\ twice = FALSE
  /\ files = [step |-> "earlier", report |-> "earlier", valid |-> TRUE, found |-> NothingFound]

Next ==
  \/ WriteFeature \/ Submit
  \/ Skip \/ PlaceDatum \/ StartBody \/ AddToBody \/ ChangeBody \/ Combine
  \/ FailFeature \/ RefuseSweep \/ RefuseFeature \/ KernelFails \/ LoseTarget \/ Overflow
  \/ Empty \/ FailExport \/ Deliver

Spec == Init /\ [][Next]_vars

-----------------------------------------------------------------------------

Material == {i \in 1..(at - 1) : doc[i].on /\ doc[i].type # "datum"}

\* Whatever has been built is in some body still: a boolean takes its tools into
\* its target and removes nothing else (bodies.py:14, booleans.py:8).
MaterialKept == \A i \in Material : \E b \in DOMAIN bodies : i \in bodies[b].made

\* The same, of documents no boolean of which names one body under two names.
MaterialIsKept == ~twice => MaterialKept

\* What a pattern adds goes to the body its source is in (adapter.py:273).
PatternsJoinTheirSource ==
  \A b \in DOMAIN bodies : \A i \in bodies[b].made :
     doc[i].type = "pattern" => doc[i].ref \in bodies[b].made

\* The same, where the feature that is repeated says which body it works on.
NamedBodiesGetTheirPatterns ==
  \A b \in DOMAIN bodies : \A i \in bodies[b].made :
     doc[i].type = "pattern" /\ doc[Repeated(i)].ref # Unnamed /\ ~twice
       => doc[i].ref \in bodies[b].made

\* What an accepted document can still name that is not there: the result of a
\* feature that is off, of a cut, a plane for a body or a body for a plane, or a
\* body a boolean has consumed.
Gone(n, kind) ==
  LET p == Producer(doc, n)
  IN  \/ ~doc[p].on
      \/ doc[p].type # kind
      \/ \E b \in DOMAIN bodies : \E j \in bodies[b].made :
            p \in bodies[b].made /\ doc[j].type = "boolean" /\ ~doc[j].keep

LeftOut(i) ==
  LET f == doc[i]
  IN  \/ \E n \in ({f.ref} \cup f.tools) \ {Unnamed} :
            Gone(n, IF f.type = "datum" THEN "datum" ELSE "solid")
      \/ f.plane.kind = "datum" /\ Gone(f.plane.name, "datum")
      \/ f.plane.kind = "face" /\ Gone(f.plane.name, "solid")

\* What the gate lets through and a build does not: of an accepted document no
\* parameter is missed, a result only where it is gone, a number only of an
\* extrusion that states no reach (see AcceptedIsValid), and a boolean ends in a
\* typed answer (errors.py: a "repair loop cannot react to prose").
AcceptedFailsWhereKnown ==
  Accepted(doc, params, expects) /\ ~twice =>
    /\ code # "PARAMETER_UNRESOLVED"
    /\ code = "FEATURE_RESULT_UNAVAILABLE" => \E i \in {at} \cup {Repeated(at)} : LeftOut(i)
    /\ code = "CAD_IR_INVALID" => StatesNoReach(doc[at])
    /\ code = "Traceback" => doc[at].type # "boolean"

\* A build does not call invalid what the validator accepted (__main__.py:269, "two
\* validators that disagree is how a document becomes buildable on one side of a
\* boundary and not the other").
AcceptedIsValid == Accepted(doc, params, expects) => code # "CAD_IR_INVALID"

\* A part is delivered only with a report of its own, on a body count and a size
\* the document stated, and on everything else it states once; no capability that
\* is off took part in it (capabilities.py:260).
CompletedIsMeasured ==
  code = "COMPLETED" =>
    /\ used \cap off = {}
    /\ files.step = "this" /\ files.report = "this" /\ files.valid
    /\ files.found.solids \in {e.value : e \in {x \in ToSet(expects) : x.kind = "body_count"}}
    /\ \A k \in DOMAIN expects :
          (\A j \in DOMAIN expects : expects[j].kind = expects[k].kind => j = k)
            => expects[k].value = CASE expects[k].kind = "body_count" -> files.found.solids
                                    [] expects[k].kind = "bounding_box" -> files.found.size
                                    [] OTHER -> files.found.holes

\* No bend turns tighter than the profile reaches into it (sweeps.py:311), and
\* no other bend is refused.
BendsAreMeasuredInwards ==
  Swept /\ stage = "over" /\ code # "CAD_IR_INVALID" =>
    (code = "SWEEP_BEND_TIGHTER_THAN_PROFILE"
       <=> \E k \in DOMAIN doc[1].path : Tight(doc[1].path, doc[1].profile, k))

\* The same, of a profile that reaches as far to both sides, and of one bend.
CentredBendsAreMeasured ==
  Swept /\ (Symmetric(doc[1].profile) \/ Len(doc[1].path) = 1)
    => BendsAreMeasuredInwards
=============================================================================
