--------------------------- MODULE CadBuildProofs ---------------------------
(***************************************************************************)
(* What is proved of every document and every kernel.                      *)
(*                                                                         *)
(* RunInv carries what the gate has found out to the end of the run: the   *)
(* capabilities used are ones the document requires, so CompletedIsMeasured*)
(* follows.  BendInv says that a sweep, being alone, has only its bends in *)
(* the way.  Table says of the list of bodies what each feature relies on, *)
(* and is kept by every step unless a boolean names one body twice: a name *)
(* is one body's, whatever worked on a name is in the body that answers to *)
(* it, a named body is there or eaten.  Carried is what a step does to the *)
(* list, whichever step it is.                                             *)
(***************************************************************************)
EXTENDS CadBuild, SequenceTheorems, DataLemmas

-----------------------------------------------------------------------------
(* What a document is made of.                                             *)

ToolNames == {"extrude", "revolve", "sweep", "loft", "fillet", "shell", "draft"}
PlaneRefs == [kind : {"base", "datum", "face"}, name : Nat]

Features ==
  [type : AllTypes, tool : ToolNames, on : BOOLEAN, name : Nat, deps : SUBSET Int,
   ref : Nat, new : BOOLEAN, plane : PlaneRefs, tools : SUBSET Nat, keep : BOOLEAN,
   param : {"none"} \cup Parameters, guide : BOOLEAN, length : BOOLEAN, stop : Nat,
   path : {<<>>} \cup Paths, profile : {Round} \cup Profiles]

\* What the drafts have in common: what refers, refers to something named, and a
\* path is only swept along by a first feature that refers to nothing.
WellDrafted(f, i) ==
  /\ f \in Features
  /\ IsFiniteSet(f.tools)
  /\ f.type \in {"blend", "boolean"} => f.ref # Unnamed
  /\ Unnamed \notin f.tools
  /\ f.plane.kind # "base" => f.plane.name # Unnamed
  /\ f.path # <<>> =>
       /\ i = 1 /\ off = {} /\ f.type = "solid" /\ f.on /\ f.ref = Unnamed
       /\ f.plane = Base /\ f.param = "none" /\ f.tools = {}
       /\ f.length /\ f.stop = Unnamed

LEMMA PlanesAreTyped ==
  /\ Base \in PlaneRefs /\ Base.kind = "base"
  /\ \A k \in {"datum", "face"}, n \in Nat \ {0} :
       /\ Plane(k, n) \in PlaneRefs
       /\ Plane(k, n).kind # "base" => Plane(k, n).name # Unnamed
BY DEF Base, Plane, PlaneRefs, Unnamed

LEMMA BlankIsAFeature ==
  /\ Blank \in Features
  /\ Blank.type = "solid" /\ Blank.on /\ Blank.ref = Unnamed /\ ~Blank.new
  /\ Blank.plane = Base /\ Blank.tools = {} /\ Blank.param = "none" /\ Blank.path = <<>>
  /\ Blank.length /\ Blank.stop = Unnamed
BY PlanesAreTyped DEF Blank, Features, AllTypes, ToolNames, Unnamed

LEMMA NamedAreNumbers ==
  ASSUME doc \in Seq(Features)
  PROVE  Named \subseteq Nat \ {0} /\ IsFiniteSet(Named)
<1>1. Len(doc) \in Nat /\ Named \in SUBSET (1 .. Len(doc))
  BY DEF Named
<1>2. IsFiniteSet(1 .. Len(doc))
  BY <1>1, FS_Interval
<1>3. IsFiniteSet(Named)
  BY <1>1, <1>2, FS_Subset
<1> QED BY <1>1, <1>3

LEMMA WellDraftedFeatures ==
  ASSUME doc \in Seq(Features), NEW i \in Nat \ {0}, NEW o \in BOOLEAN
  PROVE  /\ \A r \in {Unnamed} \cup Named, n \in BOOLEAN :
              /\ WellDrafted(Solid(i, r, n), i)
              /\ WellDrafted(CutInto(r), i)
              /\ WellDrafted(Datum(i, o, r), i)
         /\ \A r \in Named :
              /\ \A l \in {"fillet", "shell", "draft"} : WellDrafted(Blend(l, r), i)
              /\ \A s \in SUBSET Named : WellDrafted(Boolean(r, s, o), i)
         /\ \A r \in 1 .. (i - 1) : WellDrafted(Pattern(o, r), i)
         /\ \A p \in Planes : WellDrafted(CutOn(i, p), i) /\ WellDrafted(StartedOn(i, p), i)
         /\ \A y \in {"solid", "cut"}, l \in {"revolve", "loft"} : WellDrafted(MadeWith(y, l, i), i)
         /\ \A m \in 0 .. i, q \in Parameters : WellDrafted(Reading(m, o, q), i)
         /\ WellDrafted(Disabled(i), i)
         /\ i = 1 /\ off = {} => \A w \in Paths, c \in Profiles : WellDrafted(SweptAlong(w, c), i)
<1> DEFINE b == Blank
<1>0. b.on /\ b.ref = Unnamed /\ b.param = "none" /\ b.plane = Base
      /\ b.length /\ b.stop = Unnamed
  BY BlankIsAFeature
<1>1. b \in Features /\ b.tools = {} /\ IsFiniteSet(b.tools) /\ b.path = <<>>
      /\ b.plane.kind = "base" /\ b.type = "solid"
  BY BlankIsAFeature, PlanesAreTyped, FS_EmptySet
<1>2. Named \subseteq Nat \ {0} /\ IsFiniteSet(Named)
  BY NamedAreNumbers
<1>3. ASSUME NEW r \in {Unnamed} \cup Named, NEW n \in BOOLEAN
      PROVE  /\ WellDrafted(Solid(i, r, n), i)
             /\ WellDrafted(CutInto(r), i)
             /\ WellDrafted(Datum(i, o, r), i)
  <2>1. r \in Nat
    BY <1>2 DEF Unnamed
  <2>2. Solid(i, r, n) = [b EXCEPT !.name = i, !.ref = r, !.new = n]
        /\ CutInto(r) = [b EXCEPT !.type = "cut", !.ref = r]
        /\ Datum(i, o, r) = [b EXCEPT !.type = "datum", !.name = i, !.on = o, !.ref = r]
    BY DEF Solid, CutInto, Datum
  <2> HIDE DEF b
  <2>3. WellDrafted(Solid(i, r, n), i)
    <3>1. Solid(i, r, n) \in Features
      BY <1>1, <2>1, <2>2, ZenonT(60) DEF Features
    <3>2. Solid(i, r, n).tools = b.tools /\ Solid(i, r, n).path = b.path
          /\ Solid(i, r, n).plane = b.plane /\ Solid(i, r, n).type = b.type
      BY <1>1, <2>2 DEF Features
    <3> QED BY <1>1, <3>1, <3>2 DEF WellDrafted
  <2>4. WellDrafted(CutInto(r), i)
    BY <1>1, <2>1, <2>2, ZenonT(60) DEF WellDrafted, Features, AllTypes
  <2>5. WellDrafted(Datum(i, o, r), i)
    BY <1>1, <2>1, <2>2, ZenonT(60) DEF WellDrafted, Features, AllTypes
  <2> QED BY <2>3, <2>4, <2>5
<1>4. ASSUME NEW r \in Named
      PROVE  /\ \A l \in {"fillet", "shell", "draft"} : WellDrafted(Blend(l, r), i)
             /\ \A s \in SUBSET Named : WellDrafted(Boolean(r, s, o), i)
  <2>1. r \in Nat \ {0}
    BY <1>2
  <2>2. \A l : Blend(l, r) = [b EXCEPT !.type = "blend", !.tool = l, !.ref = r]
    BY DEF Blend
  <2>3. \A s : Boolean(r, s, o) = [b EXCEPT !.type = "boolean", !.ref = r, !.tools = s, !.keep = o]
    BY DEF Boolean
  <2> HIDE DEF b
  <2>4. ASSUME NEW l \in {"fillet", "shell", "draft"}
        PROVE  WellDrafted(Blend(l, r), i)
    <3>1. Blend(l, r) = [b EXCEPT !.type = "blend", !.tool = l, !.ref = r]
      BY <2>2
    <3>2. Blend(l, r) \in Features
      BY <1>1, <2>1, <3>1 DEF Features, AllTypes, ToolNames
    <3>3. Blend(l, r).tools = b.tools /\ Blend(l, r).path = b.path
          /\ Blend(l, r).plane = b.plane /\ Blend(l, r).ref = r
      BY <1>1, <3>1 DEF Features
    <3> QED BY <1>1, <2>1, <3>2, <3>3 DEF WellDrafted, Unnamed
  <2>5. ASSUME NEW s \in SUBSET Named
        PROVE  WellDrafted(Boolean(r, s, o), i)
    <3>1. IsFiniteSet(s) /\ s \subseteq Nat \ {0}
      BY <1>2, FS_Subset
    <3>2. Boolean(r, s, o) = [b EXCEPT !.type = "boolean", !.ref = r, !.tools = s, !.keep = o]
      BY <2>3
    <3>3. Boolean(r, s, o) \in Features
      BY <1>1, <2>1, <3>1, <3>2, ZenonT(60) DEF Features, AllTypes
    <3>4. Boolean(r, s, o).tools = s /\ Boolean(r, s, o).path = b.path
          /\ Boolean(r, s, o).plane = b.plane /\ Boolean(r, s, o).ref = r
      BY <1>1, <3>2 DEF Features
    <3> QED BY <1>1, <2>1, <3>1, <3>3, <3>4 DEF WellDrafted, Unnamed
  <2> QED BY <2>4, <2>5
<1>5. ASSUME NEW p \in Planes
      PROVE  WellDrafted(CutOn(i, p), i) /\ WellDrafted(StartedOn(i, p), i)
  <2>1. p \in PlaneRefs /\ (p.kind # "base" => p.name # Unnamed)
    BY <1>2, PlanesAreTyped DEF Planes
  <2>2. CutOn(i, p) = [b EXCEPT !.type = "cut", !.name = i, !.plane = p]
        /\ StartedOn(i, p) = [b EXCEPT !.name = i, !.new = TRUE, !.plane = p]
    BY DEF CutOn, StartedOn
  <2> HIDE DEF b
  <2>3. WellDrafted(CutOn(i, p), i)
    BY <1>1, <2>1, <2>2, ZenonT(60) DEF WellDrafted, Features, AllTypes
  <2>4. WellDrafted(StartedOn(i, p), i)
    BY <1>1, <2>1, <2>2 DEF WellDrafted, Features
  <2> QED BY <2>3, <2>4
<1>6. \A r \in 1 .. (i - 1) : WellDrafted(Pattern(o, r), i)
  <2> TAKE r \in 1 .. (i - 1)
  <2>1. r \in Nat
    OBVIOUS
  <2>2. Pattern(o, r) = [b EXCEPT !.type = "pattern", !.on = o, !.ref = r]
    BY DEF Pattern
  <2> HIDE DEF b
  <2> QED BY <1>1, <2>1, <2>2 DEF WellDrafted, Features, AllTypes
<1>7. ASSUME NEW y \in {"solid", "cut"}, NEW l \in {"revolve", "loft"}
      PROVE  WellDrafted(MadeWith(y, l, i), i)
  <2>1. MadeWith(y, l, i) = [b EXCEPT !.type = y, !.tool = l, !.name = i]
    BY DEF MadeWith
  <2> HIDE DEF b
  <2> QED BY <1>1, <2>1, ZenonT(60) DEF WellDrafted, Features, AllTypes, ToolNames
<1>8. ASSUME NEW m \in 0 .. i, NEW q \in Parameters
      PROVE  WellDrafted(Reading(m, o, q), i)
  <2>1. m \in Nat
    OBVIOUS
  <2>2. Reading(m, o, q) = [b EXCEPT !.name = m, !.on = o, !.new = o, !.param = q]
    BY DEF Reading
  <2> HIDE DEF b
  <2> QED BY <1>1, <2>1, <2>2 DEF WellDrafted, Features
<1>9. WellDrafted(Disabled(i), i)
  <2>1. Disabled(i) = [b EXCEPT !.name = i, !.on = FALSE]
    BY DEF Disabled
  <2> HIDE DEF b
  <2> QED BY <1>1, <2>1 DEF WellDrafted, Features
<1>10. ASSUME i = 1, off = {}, NEW w \in Paths, NEW c \in Profiles
       PROVE  WellDrafted(SweptAlong(w, c), i)
  <2>1. SweptAlong(w, c) = [b EXCEPT !.tool = "sweep", !.name = 1, !.path = w, !.profile = c]
    BY DEF SweptAlong
  <2> HIDE DEF b
  <2> QED BY <1>0, <1>1, <1>10, <2>1, ZenonT(60) DEF WellDrafted, Features, ToolNames
<1> QED BY ONLY <1>3, <1>4, <1>5, <1>6, <1>7, <1>8, <1>9, <1>10

LEMMA FurtherDraftsAreWell ==
  ASSUME doc \in Seq(Features), NEW i \in Nat \ {0}
  PROVE  /\ \A r \in 1 .. (i - 1), n \in Named : WellDrafted(Mirror(r, n), i)
         /\ \A q \in Parameters : WellDrafted(Drawn(i, q), i)
         /\ \A y \in {"solid", "cut"}, l \in BOOLEAN, s \in {Unnamed} \cup Named :
              WellDrafted(Reaching(y, i, l, s), i)
<1> DEFINE b == Blank
<1>1. b \in Features /\ b.tools = {} /\ IsFiniteSet(b.tools) /\ b.path = <<>>
      /\ b.plane.kind = "base" /\ b.type = "solid"
  BY BlankIsAFeature, PlanesAreTyped, FS_EmptySet
<1>2. Named \subseteq Nat \ {0}
  BY NamedAreNumbers
<1>3. ASSUME NEW r \in 1 .. (i - 1), NEW n \in Named
      PROVE  WellDrafted(Mirror(r, n), i)
  <2>1. r \in Nat /\ n \in Nat \ {0}
    BY <1>2
  <2>2. Plane("datum", n) \in PlaneRefs /\ Plane("datum", n).name # Unnamed
    BY <2>1, PlanesAreTyped DEF Plane, Unnamed
  <2>3. Mirror(r, n) = [b EXCEPT !.type = "pattern", !.ref = r, !.plane = Plane("datum", n)]
    BY DEF Mirror
  <2> HIDE DEF b
  <2>4. Mirror(r, n) \in Features
    BY <1>1, <2>1, <2>2, <2>3 DEF Features, AllTypes
  <2>5. Mirror(r, n).tools = b.tools /\ Mirror(r, n).path = b.path
        /\ Mirror(r, n).plane = Plane("datum", n) /\ Mirror(r, n).type = "pattern"
    BY <1>1, <2>3 DEF Features
  <2> QED BY <1>1, <2>2, <2>4, <2>5 DEF WellDrafted
<1>4. ASSUME NEW q \in Parameters
      PROVE  WellDrafted(Drawn(i, q), i)
  <2>1. Drawn(i, q) = [b EXCEPT !.name = i, !.new = TRUE, !.param = q, !.guide = TRUE]
    BY DEF Drawn
  <2> HIDE DEF b
  <2> QED BY <1>1, <2>1 DEF WellDrafted, Features
<1>5. ASSUME NEW y \in {"solid", "cut"}, NEW l \in BOOLEAN, NEW s \in {Unnamed} \cup Named
      PROVE  WellDrafted(Reaching(y, i, l, s), i)
  <2>1. s \in Nat
    BY <1>2 DEF Unnamed
  <2>2. Reaching(y, i, l, s) = [b EXCEPT !.type = y, !.name = i, !.length = l, !.stop = s]
    BY DEF Reaching
  <2> HIDE DEF b
  <2>3. Reaching(y, i, l, s) \in Features
    BY <1>1, <2>1, <2>2, ZenonT(60) DEF Features, AllTypes
  <2>4. Reaching(y, i, l, s).tools = b.tools /\ Reaching(y, i, l, s).path = b.path
        /\ Reaching(y, i, l, s).plane = b.plane /\ Reaching(y, i, l, s).type = y
    BY <1>1, <2>2 DEF Features
  <2> QED BY <1>1, <2>3, <2>4 DEF WellDrafted
<1> QED BY ONLY <1>3, <1>4, <1>5

LEMMA DraftsAreWell ==
  ASSUME doc \in Seq(Features), NEW i \in Nat \ {0}, NEW f \in Drafts(i)
  PROVE  WellDrafted(f, i)
<1>1. CASE f \in Plain(i)
  <2>1. \/ \E r \in {Unnamed} \cup Named, n \in BOOLEAN : f = Solid(i, r, n)
        \/ f = Disabled(i)
        \/ \E r \in {Unnamed} \cup Named : f = CutInto(r)
        \/ \E p \in Planes : f = CutOn(i, p)
        \/ \E o \in BOOLEAN, r \in {Unnamed} \cup Named : f = Datum(i, o, r)
        \/ \E r \in Named : f = Blend("fillet", r)
        \/ \E o \in BOOLEAN, r \in 1 .. (i - 1) : f = Pattern(o, r)
        \/ \E r \in 1 .. (i - 1), n \in Named : f = Mirror(r, n)
        \/ \E r \in Named, s \in SUBSET Named, k \in BOOLEAN : f = Boolean(r, s, k)
    BY <1>1 DEF Plain
  <2>2. CASE \E r \in Named, s \in SUBSET Named, k \in BOOLEAN : f = Boolean(r, s, k)
    BY <2>2, WellDraftedFeatures
  <2>3. CASE \E r \in 1 .. (i - 1), n \in Named : f = Mirror(r, n)
    BY <2>3, FurtherDraftsAreWell
  <2>4. CASE /\ ~\E r \in Named, s \in SUBSET Named, k \in BOOLEAN : f = Boolean(r, s, k)
             /\ ~\E r \in 1 .. (i - 1), n \in Named : f = Mirror(r, n)
    <3>1. TRUE \in BOOLEAN
      OBVIOUS
    <3> QED BY <2>1, <2>4, <3>1, WellDraftedFeatures
  <2> QED BY <2>2, <2>3, <2>4
<1>2. CASE f \in Odd(i)
  <2>1. CASE \/ \E q \in Parameters : f = Drawn(i, q)
             \/ \E y \in {"solid", "cut"}, l \in BOOLEAN, s \in {Unnamed} \cup Named :
                   f = Reaching(y, i, l, s)
    BY <2>1, FurtherDraftsAreWell
  <2>2. CASE
        \/ \E y \in {"solid", "cut"}, l \in {"revolve", "loft"} : f = MadeWith(y, l, i)
        \/ \E m \in 0 .. i, o \in BOOLEAN, q \in Parameters : f = Reading(m, o, q)
        \/ \E p \in Planes : f = StartedOn(i, p)
        \/ \E l \in {"shell", "draft"}, r \in Named : f = Blend(l, r)
    BY <2>2, WellDraftedFeatures, ZenonT(60)
  <2> QED BY <1>2, <2>1, <2>2 DEF Odd
<1>3. CASE i = 1 /\ off = {} /\ f \in Sweeps
  <2>1. \E w \in Paths, c \in Profiles : f = SweptAlong(w, c)
    BY <1>3 DEF Sweeps
  <2> QED BY <1>3, <2>1, WellDraftedFeatures
<1> QED BY <1>1, <1>2, <1>3 DEF Drafts

\* The document so far: a sweep stays alone.
Written ==
  /\ doc \in Seq(Features)
  /\ \A i \in DOMAIN doc : WellDrafted(doc[i], i)
  /\ Swept => Len(doc) = 1

LEMMA ProducersAreThere ==
  ASSUME NEW d \in Seq(Features), NEW n, ProducersOf(d, n) # {}
  PROVE  /\ Producer(d, n) \in ProducersOf(d, n) /\ Producer(d, n) \in DOMAIN d
         /\ \A j \in ProducersOf(d, n) : Producer(d, n) <= j
<1>1. ProducersOf(d, n) \in SUBSET Nat /\ ProducersOf(d, n) \subseteq DOMAIN d
  BY DEF ProducersOf
<1>2. \E i \in ProducersOf(d, n) : \A j \in ProducersOf(d, n) : i <= j
  BY <1>1, LeastOfNat
<1> QED BY <1>1, <1>2 DEF Producer

LEMMA NeededAreNumbers ==
  ASSUME NEW d \in Seq(Features), NEW i \in DOMAIN d
  PROVE  Needed(d, i) \in SUBSET Int
<1>1. \A n : ProducersOf(d, n) # {} => Producer(d, n) \in Int
  BY ProducersAreThere
<1>2. d[i].ref \in Int
  <2>1. d[i] \in Features
    OBVIOUS
  <2> QED BY <2>1 DEF Features
<1> QED BY <1>1, <1>2 DEF Needed

LEMMA WritingKeepsTheDocument ==
  ASSUME Written, WriteFeature
  PROVE  Written'
<1>0. PICK f \in Drafts(Len(doc) + 1) : \E d \in Dependencies(Len(doc) + 1, f) :
        doc' = Append(doc, [f EXCEPT !.deps = d])
  BY DEF WriteFeature
<1>1. PICK d \in Dependencies(Len(doc) + 1, f) : doc' = Append(doc, [f EXCEPT !.deps = d])
  BY <1>0
<1> DEFINE i == Len(doc) + 1
           g == [f EXCEPT !.deps = d]
<1>2. i \in Nat \ {0} /\ doc \in Seq(Features) /\ off' = off /\ ~Swept
  BY DEF Written, WriteFeature
<1>3. WellDrafted(f, i)
  BY <1>2, DraftsAreWell
<1>4. d \in SUBSET Int
  <2>1. Append(doc, f) \in Seq(Features) /\ i \in DOMAIN Append(doc, f)
    BY <1>2, <1>3 DEF WellDrafted
  <2>2. Needed(Append(doc, f), i) \in SUBSET Int
    BY <2>1, NeededAreNumbers
  <2> QED BY <1>2, <2>2 DEF Dependencies
<1>5. g \in Features /\ WellDrafted(g, i)
  <2>1. f \in Features
    BY <1>3 DEF WellDrafted
  <2>2. g \in Features /\ g.tools = f.tools /\ g.type = f.type /\ g.ref = f.ref /\ g.on = f.on
        /\ g.plane = f.plane /\ g.path = f.path /\ g.param = f.param
        /\ g.length = f.length /\ g.stop = f.stop
    BY <1>4, <2>1 DEF Features
  <2> HIDE DEF g
  <2> QED BY <1>3, <2>2 DEF WellDrafted
<1> HIDE DEF g
<1>6. doc' \in Seq(Features) /\ DOMAIN doc' = 1 .. i /\ Len(doc') = i
      /\ doc'[i] = g /\ \A k \in DOMAIN doc : k \in 1 .. i /\ doc'[k] = doc[k]
  BY <1>1, <1>2, <1>5 DEF g
<1>7. ASSUME NEW k \in DOMAIN doc'
      PROVE  WellDrafted(doc'[k], k)
  BY <1>2, <1>5, <1>6 DEF Written
<1>8. Swept' => Len(doc') = 1
  BY <1>2, <1>6 DEF Swept
<1> QED BY <1>2, <1>6, <1>7, <1>8 DEF Written, WellDrafted

-----------------------------------------------------------------------------
(* A run, as far as its answer goes.                                       *)

Expected == [kind : {"bounding_box", "body_count", "through_hole_count"}, value : Nat]

\* A body is there only once a solid has been built.
SolidBefore ==
  active # 0 \/ DOMAIN bodies # {} =>
    \E j \in 1 .. (at - 1) : j \in DOMAIN doc /\ doc[j].on /\ doc[j].type = "solid"

RunInv ==
  /\ Written
  /\ at \in Nat \ {0}
  /\ stage \in {"write", "build", "over"}
  /\ stage = "write" => at = 1 /\ bodies = <<>> /\ active = 0 /\ planes = {} /\ used = {}
                        /\ code = "none"
  /\ stage = "build" => Accepted(doc, params, expects) /\ Requirements(doc) \cap off = {}
                        /\ code = "none"
  /\ expects \in Seq(Expected)
  /\ used \subseteq Requirements(doc)
  /\ SolidBefore
  /\ CompletedIsMeasured

LEMMA SubmissionsAreTyped ==
  ASSUME NEW s \in Submissions
  PROVE  s[2] \in Seq(Expected)
<1> DEFINE E == {Expect("bounding_box", 1), Expect("body_count", 1), Expect("body_count", 2),
                 Expect("through_hole_count", 1)}
<1>1. E \subseteq Expected
  BY DEF Expect, Expected
<1>2. Usual \in Seq(Expected)
  BY <1>1 DEF Usual
<1>3. \A x \in Expectations : x \in Seq(Expected)
  <2> SUFFICES ASSUME NEW n \in 0 .. 3, NEW x \in [1 .. n -> E]
               PROVE  x \in Seq(Expected)
    BY DEF Expectations
  <2>1. n \in Nat /\ x \in [1 .. n -> Expected]
    BY <1>1
  <2> QED BY <2>1, SeqDef
<1>4. s[2] = Usual \/ s[2] \in Expectations
  BY DEF Submissions
<1> QED BY <1>2, <1>3, <1>4

LEMMA TheFeatureAtHand ==
  ASSUME RunInv, stage = "build", at <= Len(doc)
  PROVE  /\ at \in DOMAIN doc /\ doc[at] \in Features /\ WellDrafted(doc[at], at)
         /\ ~FeatureIssue(doc, at)
         /\ doc[at].on => FeatureNeeds(doc, at) \subseteq Requirements(doc)
         /\ doc[at].new => doc[at].type = "solid"
<1>1. doc \in Seq(Features) /\ at \in 1 .. Len(doc)
  BY DEF RunInv, Written
<1>2. at \in DOMAIN doc /\ doc[at] \in Features
  BY <1>1
<1>3. WellDrafted(doc[at], at) /\ ~FeatureIssue(doc, at)
  BY <1>2 DEF RunInv, Written, Accepted, FeaturesAccepted
<1>4. doc[at].on => FeatureNeeds(doc, at) \subseteq Requirements(doc)
  BY <1>2 DEF Requirements
<1>5. doc[at].new => doc[at].type = "solid"
  BY <1>3 DEF FeatureIssue, BodyIssue
<1> QED BY <1>2, <1>3, <1>4, <1>5

\* What is worked on is there.
LEMMA TargetIsThere ==
  ASSUME RunInv, Building({"solid", "cut", "blend", "pattern"}),
         StructuralFailure(at) = "none", Target(at) # 0
  PROVE  (active # 0 \/ DOMAIN bodies # {}) /\ ~doc[at].new
<1>1. ~Unavailable(at)
  BY DEF StructuralFailure
<1>2. \A n \in Asked(at) : DOMAIN bodies # {}
  BY <1>1 DEF Unavailable, Known, Holding
<1>3. at <= Len(doc) /\ stage = "build" /\ doc[at].type \in {"solid", "cut", "blend", "pattern"}
  BY DEF Building
<1>4. doc[at].new => doc[at].type = "solid"
  BY <1>3, TheFeatureAtHand
<1>5. CASE doc[at].type = "pattern"
  <2>1. Target(at) = Locate(doc[Repeated(at)].ref) /\ ~doc[at].new
    BY <1>4, <1>5 DEF Target
  <2>2. doc[Repeated(at)].ref # Unnamed => doc[Repeated(at)].ref \in Asked(at)
    BY <1>5 DEF Asked
  <2> QED BY <1>2, <2>1, <2>2 DEF Locate
<1>6. CASE doc[at].type # "pattern"
  <2>1. ~doc[at].new /\ Target(at) = Locate(doc[at].ref)
    BY <1>6 DEF Target
  <2>2. doc[at].ref # Unnamed => doc[at].ref \in Asked(at)
    BY <1>3, <1>6 DEF Asked
  <2> QED BY <1>2, <2>1, <2>2 DEF Locate
<1> QED BY <1>5, <1>6

LEMMA OnwardKeepsTheRun ==
  ASSUME RunInv, stage = "build", Onward, used' \subseteq Requirements(doc), SolidBefore'
  PROVE  RunInv'
<1>1. UNCHANGED <<doc, params, expects, off, stage, code>> /\ at' = at + 1
  BY DEF Onward, written
<1>2. Written'
  BY <1>1 DEF RunInv, Written, WellDrafted, Swept
<1>3. CompletedIsMeasured'
  BY <1>1 DEF RunInv, CompletedIsMeasured
<1> QED BY <1>1, <1>2, <1>3 DEF RunInv

LEMMA NoNewSolid ==
  ASSUME RunInv, Onward, active # 0 \/ DOMAIN bodies # {} \/ (active' = 0 /\ DOMAIN bodies' = {})
  PROVE  SolidBefore'
<1>1. UNCHANGED doc /\ at' = at + 1 /\ at \in Nat \ {0}
  BY DEF Onward, written, RunInv
<1>2. \A j \in 1 .. (at - 1) : j \in 1 .. (at' - 1)
  BY <1>1
<1> QED BY <1>1, <1>2 DEF RunInv, SolidBefore

LEMMA BuildingKeepsTheRun ==
  ASSUME RunInv,
         Skip \/ PlaceDatum \/ StartBody \/ AddToBody \/ ChangeBody \/ Combine
  PROVE  RunInv'
<1>1. CASE Skip
  <2>1. Onward /\ stage = "build" /\ UNCHANGED <<bodies, active, used>>
    BY <1>1 DEF Skip, built
  <2>2. SolidBefore'
    BY <2>1, NoNewSolid
  <2> QED BY <2>1, <2>2, OnwardKeepsTheRun DEF RunInv
<1>2. CASE PlaceDatum
  <2>1. Onward /\ stage = "build" /\ at <= Len(doc) /\ doc[at].on /\ doc[at].type = "datum"
        /\ UNCHANGED <<bodies, active>> /\ used' = used \cup {<<"plane", "datum">>}
    BY <1>2 DEF PlaceDatum, Building
  <2>2. SolidBefore'
    BY <2>1, NoNewSolid
  <2>3. FeatureNeeds(doc, at) = {<<"plane", "datum">>}
    BY <2>1 DEF FeatureNeeds
  <2>4. used' \subseteq Requirements(doc)
    BY <2>1, <2>3, TheFeatureAtHand DEF RunInv
  <2> QED BY <2>1, <2>2, <2>4, OnwardKeepsTheRun
<1>3. ASSUME NEW more, Exercised(more), stage = "build", at <= Len(doc), doc[at].on,
             doc[at].type \in {"solid", "cut", "blend", "pattern"}, Onward, SolidBefore',
             more \subseteq FeatureNeeds(doc, at)
      PROVE  RunInv'
  <2>1. {<<doc[at].type, doc[at].tool>>} \cup PlaneNeeds(doc[at]) \subseteq FeatureNeeds(doc, at)
    BY <1>3 DEF FeatureNeeds
  <2>2. used' \subseteq Requirements(doc)
    BY <1>3, <2>1, TheFeatureAtHand DEF RunInv, Exercised
  <2> QED BY <1>3, <2>2, OnwardKeepsTheRun
<1>4. CASE StartBody
  <2>1. Onward /\ stage = "build" /\ at <= Len(doc) /\ doc[at].on /\ doc[at].type = "solid"
        /\ Exercised(IF doc[at].new THEN {<<"body", "new">>} ELSE {})
    BY <1>4 DEF StartBody, Building
  <2>2. at \in DOMAIN doc /\ at \in 1 .. (at' - 1) /\ UNCHANGED doc
    BY <2>1, TheFeatureAtHand DEF Onward, written, RunInv
  <2>3. SolidBefore'
    BY <2>1, <2>2 DEF SolidBefore
  <2>4. (IF doc[at].new THEN {<<"body", "new">>} ELSE {}) \subseteq FeatureNeeds(doc, at)
    BY <2>1 DEF FeatureNeeds
  <2> QED BY <1>3, <2>1, <2>3, <2>4
<1>5. CASE AddToBody
  <2>1. Onward /\ stage = "build" /\ at <= Len(doc) /\ doc[at].on /\ doc[at].type = "solid"
        /\ Exercised(IF doc[at].tool = "extrude" THEN {<<"body", "boss">>} ELSE {})
        /\ StructuralFailure(at) = "none" /\ Target(at) # 0
        /\ Building({"solid", "cut", "blend", "pattern"})
    BY <1>5 DEF AddToBody, Building, Fits
  <2>2. (active # 0 \/ DOMAIN bodies # {}) /\ ~doc[at].new
    BY <2>1, TargetIsThere
  <2>3. SolidBefore'
    BY <2>1, <2>2, NoNewSolid
  <2>4. \E j \in 1 .. (at - 1) : doc[j].on /\ doc[j].type = "solid"
    BY <2>2 DEF RunInv, SolidBefore
  <2>5. (IF doc[at].tool = "extrude" THEN {<<"body", "boss">>} ELSE {}) \subseteq FeatureNeeds(doc, at)
    BY <2>1, <2>2, <2>4 DEF FeatureNeeds
  <2> QED BY <1>3, <2>1, <2>3, <2>5
<1>6. CASE ChangeBody
  <2>1. Onward /\ stage = "build" /\ at <= Len(doc) /\ doc[at].on
        /\ doc[at].type \in {"cut", "blend", "pattern"} /\ Exercised({})
        /\ StructuralFailure(at) = "none" /\ Touch(at, Target(at), {})
        /\ Building({"solid", "cut", "blend", "pattern"})
    BY <1>6 DEF ChangeBody, Building, Fits
  <2>2. active' = Target(at) /\ DOMAIN bodies' = DOMAIN bodies
    BY <2>1 DEF Touch
  <2>3. SolidBefore'
    BY <2>1, <2>2, TargetIsThere, NoNewSolid
  <2> QED BY <1>3, <2>1, <2>3
<1>7. CASE Combine
  <2>1. Onward /\ stage = "build" /\ at <= Len(doc) /\ doc[at].on /\ doc[at].type = "boolean"
        /\ used' = used \cup {<<"boolean", "any">>} /\ StructuralFailure(at) = "none"
    BY <1>7 DEF Combine, Building, Fits
  <2>2. DOMAIN bodies # {}
    <3>1. ~Unavailable(at) /\ doc[at].ref \in Asked(at)
      BY <2>1 DEF StructuralFailure, Asked
    <3> QED BY <3>1 DEF Unavailable, Known, Holding
  <2>3. SolidBefore'
    BY <2>1, <2>2, NoNewSolid
  <2>4. FeatureNeeds(doc, at) = {<<"boolean", "any">>}
    BY <2>1 DEF FeatureNeeds
  <2>5. used' \subseteq Requirements(doc)
    BY <2>1, <2>4, TheFeatureAtHand DEF RunInv
  <2> QED BY <2>1, <2>3, <2>5, OnwardKeepsTheRun
<1> QED BY <1>1, <1>2, <1>4, <1>5, <1>6, <1>7

\* What the document states of a thing is what its last expectation says.
LEMMA StatedIsTheLast ==
  ASSUME expects \in Seq(Expected), NEW kind,
         NEW k \in DOMAIN expects, expects[k].kind = kind
  PROVE  /\ \E j \in DOMAIN expects : expects[j].kind = kind /\ Stated(kind) = {expects[j].value}
         /\ (\A j \in DOMAIN expects : expects[j].kind = kind => j = k)
              => Stated(kind) = {expects[k].value}
<1> DEFINE at_ == {j \in DOMAIN expects : expects[j].kind = kind}
           last == CHOOSE j \in at_ : \A i \in at_ : i <= j
<1>1. Len(expects) \in Nat /\ at_ \in SUBSET (0 .. Len(expects)) /\ k \in at_
  OBVIOUS
<1>2. \E j \in at_ : \A i \in at_ : i <= j
  <2> HIDE DEF at_
  <2> QED BY <1>1, GreatestOfBounded
<1>3. last \in at_
  BY <1>2
<1>4. Stated(kind) = {expects[last].value}
  BY <1>1 DEF Stated
<1> QED BY <1>3, <1>4

LEMMA DeliveringKeepsTheRun ==
  ASSUME RunInv, Deliver
  PROVE  RunInv'
<1>0. stage = "build" /\ UNCHANGED <<written, at, built>>
  BY DEF Deliver, Done
<1>1. PICK m \in Measurements :
        /\ files' = [step |-> "this", report |-> "this", valid |-> Verified(m), found |-> m]
        /\ Answer(IF Verified(m) THEN "COMPLETED" ELSE "GEOMETRY_VALIDATION_FAILED")
  BY DEF Deliver
<1>2. UNCHANGED <<doc, params, expects, off, at, bodies, active, used>> /\ stage' = "over"
  BY <1>0, <1>1 DEF written, built, Answer
<1>3. ASSUME code' = "COMPLETED"
      PROVE  CompletedIsMeasured'
  <2>1. Verified(m)
    BY <1>1, <1>3 DEF Answer
  <2>2. files'.step = "this" /\ files'.report = "this" /\ files'.valid /\ files'.found = m
    BY <1>1, <2>1
  <2>3. used \cap off = {}
    BY <1>0 DEF RunInv
  <2>4. expects \in Seq(Expected)
    BY DEF RunInv
  <2>5. /\ Meets(m.solids, "body_count") /\ Meets(m.size, "bounding_box")
        /\ Meets(m.holes, "through_hole_count")
    BY <2>1 DEF Verified
  <2>6. m.solids \in {e.value : e \in {x \in ToSet(expects) : x.kind = "body_count"}}
    <3>1. PICK k \in DOMAIN expects : expects[k].kind = "body_count"
      BY <1>0 DEF RunInv, Accepted, ExpectationIssue
    <3>2. PICK j \in DOMAIN expects :
            expects[j].kind = "body_count" /\ Stated("body_count") = {expects[j].value}
      BY <2>4, <3>1, StatedIsTheLast
    <3>3. m.solids = expects[j].value
      BY <2>5, <3>2 DEF Meets
    <3> QED BY <3>2, <3>3 DEF ToSet
  <2>7. ASSUME NEW k \in DOMAIN expects,
               \A j \in DOMAIN expects : expects[j].kind = expects[k].kind => j = k
        PROVE  expects[k].value = CASE expects[k].kind = "body_count" -> m.solids
                                    [] expects[k].kind = "bounding_box" -> m.size
                                    [] OTHER -> m.holes
    <3>1. Stated(expects[k].kind) = {expects[k].value}
      <4> DEFINE kind == expects[k].kind
      <4>1. expects[k].kind = kind /\ \A j \in DOMAIN expects : expects[j].kind = kind => j = k
        BY <2>7
      <4> HIDE DEF kind
      <4>2. Stated(kind) = {expects[k].value}
        BY <2>4, <4>1, StatedIsTheLast
      <4> QED BY <4>1, <4>2
    <3>2. expects[k] \in Expected
      BY <2>4
    <3>3. expects[k].kind \in {"bounding_box", "body_count", "through_hole_count"}
      BY <3>2 DEF Expected
    <3> QED BY <2>5, <3>1, <3>3 DEF Meets
  <2> QED BY <1>2, <2>2, <2>3, <2>6, <2>7 DEF CompletedIsMeasured
<1>4. Written' /\ SolidBefore'
  BY <1>2 DEF RunInv, Written, WellDrafted, Swept, SolidBefore
<1>5. code' # "COMPLETED" => CompletedIsMeasured'
  BY DEF CompletedIsMeasured
<1> QED BY <1>2, <1>3, <1>4, <1>5 DEF RunInv

-----------------------------------------------------------------------------
(* What the gate leaves to the build.                                      *)

UniqueNames ==
  \A i, j \in DOMAIN doc : doc[i].name = doc[j].name /\ doc[i].name # Unnamed => i = j

PatternsRepeat ==
  \A i \in DOMAIN doc : doc[i].type = "pattern" =>
    /\ doc[i].ref \in DOMAIN doc /\ doc[i].ref < i
    /\ doc[doc[i].ref].type \in Repeatable
    /\ doc[i].on => doc[doc[i].ref].on

ReferencesExist ==
  \A i \in DOMAIN doc : \A n \in ResultRefs(doc[i]) \cup SelectedBodies(doc[i]) :
    /\ Producer(doc, n) \in DOMAIN doc /\ Producer(doc, n) < i
    /\ doc[Producer(doc, n)].name = n

Gated ==
  /\ Written
  /\ UniqueNames /\ PatternsRepeat /\ ReferencesExist
  /\ \A i \in DOMAIN doc : doc[i].type = "solid" /\ doc[i].new => doc[i].ref = Unnamed
  /\ \A i \in DOMAIN doc : doc[i].type = "boolean" => doc[i].ref \notin doc[i].tools

LEMMA TheGateHolds ==
  ASSUME RunInv, stage = "build"
  PROVE  Gated
<1>1. Written /\ FeaturesAccepted(doc)
  BY DEF RunInv, Accepted
<1>2. doc \in Seq(Features)
  BY <1>1 DEF Written
<1>3. \A i \in DOMAIN doc : i \in Nat /\ doc[i] \in Features /\ ~FeatureIssue(doc, i)
  BY <1>1, <1>2 DEF FeaturesAccepted
<1>4. UniqueNames
  <2> SUFFICES ASSUME NEW i \in DOMAIN doc, NEW j \in DOMAIN doc,
                      doc[i].name = doc[j].name, doc[i].name # Unnamed, i # j
               PROVE  FALSE
    BY DEF UniqueNames
  <2> DEFINE P == ProducersOf(doc, doc[i].name)
  <2>1. {i, j} \in SUBSET P /\ P \in SUBSET (1 .. Len(doc)) /\ Len(doc) \in Nat
    BY <1>2 DEF ProducersOf
  <2>2. IsFiniteSet(P)
    <3>1. IsFiniteSet(1 .. Len(doc))
      BY <2>1, FS_Interval
    <3> HIDE DEF P
    <3> QED BY <2>1, <3>1, FS_Subset
  <2>3. ~(Cardinality(P) > 1) /\ Cardinality(P) \in Nat /\ Cardinality(P) # 0
    BY <1>3, <2>1, <2>2, FS_CardinalityType, FS_EmptySet DEF FeatureIssue, ResultIssue
  <2>4. \E x : P = {x}
    <3>1. Cardinality(P) = 1
      BY <2>3
    <3> QED BY <2>2, <3>1, FS_Singleton
  <2> QED BY <2>1, <2>4
<1>5. PatternsRepeat
  BY <1>3 DEF PatternsRepeat, FeatureIssue, PatternIssue
<1>6. ReferencesExist
  <2> SUFFICES ASSUME NEW i \in DOMAIN doc, NEW n \in ResultRefs(doc[i]) \cup SelectedBodies(doc[i])
               PROVE  /\ Producer(doc, n) \in DOMAIN doc /\ Producer(doc, n) < i
                      /\ doc[Producer(doc, n)].name = n
    BY DEF ReferencesExist
  <2>1. ProducersOf(doc, n) # {}
    BY <1>3 DEF FeatureIssue, ResultIssue, SelectorIssue
  <2>2. /\ Producer(doc, n) \in ProducersOf(doc, n) /\ Producer(doc, n) \in DOMAIN doc
        /\ \A j \in ProducersOf(doc, n) : Producer(doc, n) <= j
    BY <1>2, <2>1, ProducersAreThere
  <2>3. doc[Producer(doc, n)].name = n
    BY <2>2 DEF ProducersOf
  <2>4. CASE n \in ResultRefs(doc[i])
    <3>1. ~(Producer(doc, n) >= i)
      BY <1>3, <2>4 DEF FeatureIssue, ResultIssue
    <3> QED BY <1>3, <2>2, <2>3, <3>1
  <2>5. CASE n \in SelectedBodies(doc[i])
    <3>1. \E j \in ProducersOf(doc, n) : ~(j >= i)
      BY <1>3, <2>5 DEF FeatureIssue, SelectorIssue
    <3>2. \A j \in ProducersOf(doc, n) : j \in DOMAIN doc
      BY DEF ProducersOf
    <3> QED BY <1>3, <2>2, <2>3, <3>1, <3>2
  <2> QED BY <2>4, <2>5
<1>7. \A i \in DOMAIN doc :
        /\ doc[i].type = "solid" /\ doc[i].new => doc[i].ref = Unnamed
        /\ doc[i].type = "boolean" => doc[i].ref \notin doc[i].tools
  BY <1>3 DEF FeatureIssue, SchemaAccepts
<1> QED BY <1>1, <1>4, <1>5, <1>6, <1>7 DEF Gated

\* What a pattern repeats is a solid or a cut before it, as its source does.
LEMMA RepeatedIsBefore ==
  ASSUME Gated, NEW i \in DOMAIN doc, doc[i].type \in Repeatable
  PROVE  /\ Repeated(i) \in DOMAIN doc /\ Repeated(i) <= i
         /\ doc[Repeated(i)].type \in {"solid", "cut"}
         /\ doc[i].type = "pattern" =>
              Repeated(i) < i /\ Repeated(i) = Repeated(doc[i].ref)
         /\ doc[i].type # "pattern" => Repeated(i) = i
<1> DEFINE n == Len(doc)
           Step(f, k) == IF doc[k].type = "pattern" THEN f[doc[k].ref] ELSE k
           Table(m) == \E f \in [1 .. n -> 1 .. n] : \A k \in 1 .. m : f[k] = Step(f, k)
           T == {m \in Nat : m <= n => Table(m)}
<1>0. n \in Nat /\ DOMAIN doc = 1 .. n /\ PatternsRepeat
  BY DEF Gated, Written
<1>1. 0 \in T
  <2>1. [k \in 1 .. n |-> k] \in [1 .. n -> 1 .. n] /\ 1 .. 0 = {}
    OBVIOUS
  <2>2. Table(0)
    <3> HIDE DEF Step
    <3> QED BY <2>1
  <2> HIDE DEF Table
  <2> QED BY <2>2
<1>2. \A m \in Nat : m \in T => m + 1 \in T
  <2> HIDE DEF Table
  <2> SUFFICES ASSUME NEW m \in Nat, m + 1 <= n, m \in T
               PROVE  Table(m + 1)
    OBVIOUS
  <2>1. Table(m)
    BY <1>0
  <2>2. PICK f \in [1 .. n -> 1 .. n] : \A k \in 1 .. m : f[k] = Step(f, k)
    BY <2>1 DEF Table
  <2> DEFINE g == [f EXCEPT ![m + 1] = Step(f, m + 1)]
  <2>3. m + 1 \in 1 .. n /\ Step(f, m + 1) \in 1 .. n
    BY <1>0 DEF PatternsRepeat
  <2>4. g \in [1 .. n -> 1 .. n]
    BY <2>3
  <2>5. ASSUME NEW k \in 1 .. (m + 1)
        PROVE  g[k] = Step(g, k)
    <3>1. k \in 1 .. n
      BY <1>0
    <3>2. doc[k].type = "pattern" => doc[k].ref \in 1 .. n /\ doc[k].ref # m + 1
      BY <1>0, <3>1 DEF PatternsRepeat
    <3>3. Step(g, k) = Step(f, k)
      BY <3>2
    <3>4. g[k] = Step(f, k)
      BY <1>0, <2>2, <2>3, <3>1
    <3> QED BY <3>3, <3>4
  <2> HIDE DEF g
  <2> QED BY <2>4, <2>5 DEF Table
<1>3. Table(n)
  <2>1. n \in T
    <3> HIDE DEF T
    <3> QED BY <1>0, <1>1, <1>2, NumbersByInduction
  <2> HIDE DEF Table
  <2> QED BY <1>0, <2>1
<1> DEFINE source == CHOOSE f : f = [k \in DOMAIN doc |-> Step(f, k)]
<1>4. source = [k \in DOMAIN doc |-> Step(source, k)]
  <2>1. PICK f \in [1 .. n -> 1 .. n] : \A k \in 1 .. n : f[k] = Step(f, k)
    BY <1>3
  <2>2. f = [k \in DOMAIN doc |-> Step(f, k)]
    BY <1>0, <2>1
  <2> HIDE DEF Step
  <2> QED BY <2>2
<1>5. \A k : Repeated(k) = source[k]
  BY DEF Repeated
<1> HIDE DEF source
<1>6. \A k \in DOMAIN doc :
        Repeated(k) = IF doc[k].type = "pattern" THEN Repeated(doc[k].ref) ELSE k
  BY <1>4, <1>5
<1> HIDE DEF T
<1> DEFINE Good(k) ==
      /\ Repeated(k) \in DOMAIN doc /\ Repeated(k) <= k
      /\ doc[Repeated(k)].type \in {"solid", "cut"}
           Bad == {k \in DOMAIN doc : doc[k].type \in Repeatable /\ ~Good(k)}
<1>7. Bad = {}
  <2> SUFFICES ASSUME Bad # {}
               PROVE  FALSE
    OBVIOUS
  <2>1. Bad \in SUBSET Nat
    BY <1>0
  <2> HIDE DEF Bad
  <2>2. PICK k \in Bad : \A j \in Bad : k <= j
    BY <2>1, LeastOfNat
  <2>3. k \in DOMAIN doc /\ doc[k].type \in Repeatable /\ ~Good(k)
    BY DEF Bad
  <2>4. doc[k].type = "pattern"
    BY <1>0, <1>6, <2>3 DEF Repeatable
  <2>5. doc[k].ref \in DOMAIN doc /\ doc[k].ref < k /\ doc[doc[k].ref].type \in Repeatable
    BY <1>0, <2>3, <2>4 DEF PatternsRepeat
  <2>6. doc[k].ref \notin Bad
    BY <1>0, <2>1, <2>2, <2>5
  <2>7. Good(doc[k].ref)
    BY <2>5, <2>6 DEF Bad
  <2>8. Repeated(k) = Repeated(doc[k].ref)
    BY <1>6, <2>3, <2>4
  <2> QED BY <1>0, <2>3, <2>5, <2>7, <2>8
<1>8. Good(i)
  BY <1>7
<1>9. doc[i].type = "pattern" =>
        Repeated(i) < i /\ Repeated(i) = Repeated(doc[i].ref)
  <2> SUFFICES ASSUME doc[i].type = "pattern"
               PROVE  Repeated(i) < i /\ Repeated(i) = Repeated(doc[i].ref)
    OBVIOUS
  <2>1. doc[i].ref \in DOMAIN doc /\ doc[i].ref < i /\ doc[doc[i].ref].type \in Repeatable
    BY <1>0 DEF PatternsRepeat
  <2>2. Good(doc[i].ref)
    BY <1>7, <2>1
  <2> QED BY <1>0, <1>6, <2>1, <2>2
<1>10. doc[i].type # "pattern" => Repeated(i) = i
  BY <1>6
<1> QED BY <1>8, <1>9, <1>10

-----------------------------------------------------------------------------
(* How a run ends.                                                         *)

\* What a run answers of its own: no tool refuses with one of these.
OwnAnswers ==
  {"COMPLETED", "SWEEP_BEND_TIGHTER_THAN_PROFILE", "CAD_IR_INVALID", "PARAMETER_UNRESOLVED",
   "Traceback", "FEATURE_RESULT_UNAVAILABLE"}

LEMMA ToolsRefuseWithOthers ==
  /\ \A f : f.tool \in ToolNames => MakingRefusals(f) \cap OwnAnswers = {}
  /\ \A l \in ToolNames : ToolRefusals[l] \cap OwnAnswers = {}
  /\ PlacementRefusals \cap OwnAnswers = {} /\ BooleanRefusals \cap OwnAnswers = {}
<1> USE DEF FaceRefusals, ContourRefusals, EntityRefusals, ConstraintRefusals, DimensionRefusals,
      SketchRefusals, SelectorRefusals, ReachRefusals, ExtrudeRefusals, RevolveRefusals,
      PathRefusals, SpatialRefusals, HelixRefusals, ItselfRefusals, LoftRefusals, FilletRefusals,
      ShellRefusals, DraftRefusals, BooleanRefusals, PlacementRefusals, OwnAnswers
<1>1. SketchRefusals \cap OwnAnswers = {} /\ SelectorRefusals \cap OwnAnswers = {}
      /\ ReachRefusals \cap OwnAnswers = {}
  OBVIOUS
<1>2. \A l \in ToolNames : ToolRefusals[l] \cap OwnAnswers = {}
  BY DEF ToolNames, ToolRefusals
<1>3. PlacementRefusals \cap OwnAnswers = {} /\ BooleanRefusals \cap OwnAnswers = {}
  OBVIOUS
<1> USE ONLY <1>1, <1>2, <1>3
<1>4. \A f : f.tool \in ToolNames => MakingRefusals(f) \cap OwnAnswers = {}
  BY DEF MakingRefusals
<1> QED BY <1>2, <1>3, <1>4

LEMMA RefusalsAreOthers ==
  ASSUME RunInv, Building(AllTypes)
  PROVE  Refusals(at) \cap OwnAnswers = {}
<1>1. at \in DOMAIN doc /\ doc[at] \in Features /\ Gated
  BY TheFeatureAtHand, TheGateHolds DEF Building
<1>2. doc[at].tool \in ToolNames /\ doc[at].type \in AllTypes
  BY <1>1 DEF Features
<1>3. CASE doc[at].type = "pattern"
  <2>1. Repeated(at) \in DOMAIN doc
    BY <1>1, <1>3, RepeatedIsBefore DEF Repeatable
  <2>2. doc[Repeated(at)] \in Features
    BY <2>1 DEF RunInv, Written
  <2>3. doc[Repeated(at)].tool \in ToolNames
    BY <2>2 DEF Features
  <2>4. Refusals(at) = MakingRefusals(doc[Repeated(at)]) \cup PlacementRefusals
    BY <1>3 DEF Refusals
  <2> QED BY <2>3, <2>4, ToolsRefuseWithOthers
<1>4. CASE doc[at].type \in {"solid", "cut"}
  <2>1. Refusals(at) = MakingRefusals(doc[at])
    BY <1>4 DEF Refusals
  <2> QED BY <1>2, <2>1, ToolsRefuseWithOthers
<1>5. CASE doc[at].type = "blend"
  <2>1. Refusals(at) = ToolRefusals[doc[at].tool]
    BY <1>5 DEF Refusals
  <2> QED BY <1>2, <2>1, ToolsRefuseWithOthers
<1>6. CASE doc[at].type \in {"boolean", "datum"}
  <2>1. Refusals(at) \in {BooleanRefusals, {}}
    BY <1>6 DEF Refusals
  <2> QED BY <2>1, ToolsRefuseWithOthers
<1> QED BY <1>2, <1>3, <1>4, <1>5, <1>6 DEF AllTypes

LEMMA FailuresAreOthers ==
  \A i : StructuralFailure(i) \notin {"COMPLETED", "SWEEP_BEND_TIGHTER_THAN_PROFILE"}
BY DEF StructuralFailure

LEMMA EndingKeepsTheRun ==
  ASSUME RunInv, stage # "over", stage' = "over", code' # "COMPLETED",
         UNCHANGED <<doc, off, at, bodies, active, used>>, expects' \in Seq(Expected)
  PROVE  RunInv'
<1>1. Written' /\ SolidBefore'
  BY DEF RunInv, Written, WellDrafted, Swept, SolidBefore
<1>2. CompletedIsMeasured'
  BY DEF CompletedIsMeasured
<1> QED BY <1>1, <1>2 DEF RunInv

LEMMA RunInvHolds == Spec => []RunInv
<1>1. Init => RunInv
  <2> SUFFICES ASSUME Init
               PROVE  RunInv
    OBVIOUS
  <2>1. Written
    BY DEF Init, Written, Swept
  <2>2. SolidBefore /\ CompletedIsMeasured
    BY DEF Init, SolidBefore, CompletedIsMeasured
  <2> QED BY <2>1, <2>2 DEF Init, RunInv
<1>2. RunInv /\ [Next]_vars => RunInv'
  <2> SUFFICES ASSUME RunInv, [Next]_vars
               PROVE  RunInv'
    OBVIOUS
  <2>0. expects \in Seq(Expected)
    BY DEF RunInv
  <2>1. CASE WriteFeature
    <3>1. Written'
      BY <2>1, WritingKeepsTheDocument DEF RunInv
    <3>2. UNCHANGED <<params, expects, off, stage, at, bodies, active, planes, used, code>>
          /\ stage = "write"
      BY <2>1 DEF WriteFeature
    <3>3. SolidBefore' /\ CompletedIsMeasured'
      BY <3>2 DEF RunInv, SolidBefore, CompletedIsMeasured
    <3> QED BY <3>1, <3>2, <3>3 DEF RunInv
  <2>2. CASE Submit
    <3>1. UNCHANGED <<doc, off, at, bodies, active, planes, used>> /\ stage = "write"
      BY <2>2 DEF Submit
    <3>2. PICK s \in Submissions :
            /\ params' = s[1] /\ expects' = s[2]
            /\ IF ~Accepted(doc, s[1], s[2])
               THEN Answer("CAD_IR_INVALID")
               ELSE IF Requirements(doc) \cap off # {}
               THEN Answer("CAPABILITY_DISABLED")
               ELSE stage' = "build" /\ UNCHANGED code
      BY <2>2 DEF Submit
    <3>3. expects' \in Seq(Expected)
      BY <3>2, SubmissionsAreTyped
    <3>4. CASE stage' = "over"
      <4>1. code' # "COMPLETED"
        BY <3>2, <3>4 DEF Answer
      <4> QED BY <3>1, <3>3, <3>4, <4>1, EndingKeepsTheRun
    <3>5. CASE stage' # "over"
      <4>1. stage' = "build" /\ code' = code /\ Accepted(doc, params', expects')
            /\ Requirements(doc) \cap off = {}
        BY <3>2, <3>5 DEF Answer
      <4>2. code = "none"
        BY <3>1 DEF RunInv
      <4>3. Written' /\ SolidBefore' /\ CompletedIsMeasured'
        BY <3>1, <4>1, <4>2
           DEF RunInv, Written, WellDrafted, Swept, SolidBefore, CompletedIsMeasured
      <4>4. Accepted(doc, params, expects)' /\ Requirements(doc)' = Requirements(doc)
        BY <3>1, <4>1 DEF Accepted, FeaturesAccepted, Requirements
      <4> QED BY <3>1, <3>3, <4>1, <4>2, <4>3, <4>4 DEF RunInv
    <3> QED BY <3>4, <3>5
  <2>3. CASE Skip \/ PlaceDatum \/ StartBody \/ AddToBody \/ ChangeBody \/ Combine
    BY <2>3, BuildingKeepsTheRun
  <2>4. ASSUME NEW c, Refused(c), c # "COMPLETED", stage = "build"
        PROVE  RunInv'
    BY <2>0, <2>4, EndingKeepsTheRun DEF Refused, Answer, written, built
  <2>5. CASE FailFeature \/ RefuseSweep \/ Empty
    <3>1. StructuralFailure(at) # "COMPLETED"
      BY FailuresAreOthers
    <3> QED BY <2>4, <2>5, <3>1 DEF FailFeature, RefuseSweep, Empty, Building, Done
  <2>6. CASE RefuseFeature \/ KernelFails
    <3>1. Building(AllTypes) /\ stage = "build"
      BY <2>6 DEF RefuseFeature, KernelFails, Refusable, Building, AllTypes
    <3>2. \E c \in Refusals(at) \cup {"Traceback"} : Refused(c)
      BY <2>6 DEF RefuseFeature, KernelFails
    <3>3. "COMPLETED" \notin Refusals(at)
      BY <3>1, RefusalsAreOthers DEF OwnAnswers
    <3> QED BY <2>4, <3>1, <3>2, <3>3
  <2>7. CASE LoseTarget \/ Overflow \/ FailExport
    BY <2>0, <2>7, EndingKeepsTheRun
       DEF LoseTarget, Overflow, FailExport, Building, Done, Answer, written, built
  <2>8. CASE Deliver
    BY <2>8, DeliveringKeepsTheRun
  <2>9. CASE UNCHANGED vars
    <3>1. Written' /\ SolidBefore' /\ CompletedIsMeasured'
      BY <2>9 DEF vars, RunInv, Written, WellDrafted, Swept, SolidBefore, CompletedIsMeasured
    <3>2. Accepted(doc, params, expects)' = Accepted(doc, params, expects)
          /\ Requirements(doc)' = Requirements(doc)
      BY <2>9 DEF vars, Accepted, FeaturesAccepted, Requirements
    <3> QED BY <2>9, <3>1, <3>2 DEF vars, RunInv
  <2> QED BY <2>1, <2>2, <2>3, <2>5, <2>6, <2>7, <2>8, <2>9 DEF Next
<1> QED BY <1>1, <1>2, PTL DEF Spec

\* A completed run delivers a part that was measured and found to be what the
\* document states, made with nothing that is turned off on this worker.
THEOREM PartsAreMeasured == Spec => []CompletedIsMeasured
<1>1. RunInv => CompletedIsMeasured
  BY DEF RunInv
<1> QED BY <1>1, RunInvHolds, PTL

-----------------------------------------------------------------------------
(* A sweep.                                                                *)

\* What is compared is what the rule is about, where both sides reach as far or
\* there is one bend, whose centre is seen from the direction the path leaves in.
LEMMA MeasuredIsMeant ==
  ASSUME NEW n \in Nat, NEW path \in [1 .. n -> Bends], NEW profile,
         Symmetric(profile) \/ n = 1
  PROVE  SweepRefused(path, profile) <=> \E k \in DOMAIN path : Tight(path, profile, k)
<1>1. ASSUME NEW k \in DOMAIN path
      PROVE  MeasuredTight(path, profile, k) <=> Tight(path, profile, k)
  <2>1. path[k].side \in {"left", "right"}
    BY DEF Bends, Sides
  <2>2. MeasuredSide(path, k) \in {"left", "right"}
    BY DEF MeasuredSide
  <2>3. CASE Symmetric(profile)
    BY <2>1, <2>2, <2>3 DEF MeasuredTight, Tight, Symmetric
  <2>4. CASE n = 1
    <3>1. k = 1
      BY <2>4
    <3>2. \A side : Turns(path, k, side) = 0
      <4> TAKE side
      <4>1. {i \in 1 .. (k - 1) : path[i].side = side} = {}
        BY <3>1
      <4> QED BY <4>1, FS_EmptySet DEF Turns
    <3>3. Heading(path, k) = 0
      BY <3>2 DEF Heading
    <3>4. Centre(path, k) = IF path[k].side = "left" THEN 1 ELSE 3
      BY <3>3 DEF Centre
    <3>5. MeasuredSide(path, k) = path[k].side
      BY <2>1, <3>4 DEF MeasuredSide
    <3> QED BY <3>5 DEF MeasuredTight, Tight
  <2> QED BY <2>3, <2>4
<1> QED BY <1>1 DEF SweepRefused

Narrow == SweepRefused(doc[1].path, doc[1].profile)

\* A sweep is a document of one feature with nothing in its way but the kernel
\* and its bends.
BendInv ==
  Swept =>
    /\ stage = "build" => IF at = 1 THEN bodies = <<>> /\ active = 0 ELSE ~Narrow
    /\ stage = "over" /\ code # "CAD_IR_INVALID"
         => (code = "SWEEP_BEND_TIGHTER_THAN_PROFILE" <=> Narrow)

LEMMA SweptAlone ==
  ASSUME RunInv, Swept
  PROVE  /\ Len(doc) = 1 /\ off = {} /\ doc[1] \in Features
         /\ doc[1].type = "solid" /\ doc[1].on /\ doc[1].ref = Unnamed /\ doc[1].plane = Base
         /\ doc[1].param = "none" /\ doc[1].length /\ doc[1].stop = Unnamed
<1>1. Len(doc) = 1 /\ doc \in Seq(Features) /\ doc[1].path # <<>>
  BY DEF RunInv, Written, Swept
<1>2. 1 \in DOMAIN doc
  BY <1>1
<1>3. WellDrafted(doc[1], 1)
  BY <1>2 DEF RunInv, Written
<1> QED BY <1>1, <1>3 DEF WellDrafted, Swept

LEMMA NothingInItsWay ==
  ASSUME RunInv, Swept, at = 1, bodies = <<>>, active = 0
  PROVE  StructuralFailure(1) = "none" /\ Target(1) = 0
<1>1. doc[1].type = "solid" /\ doc[1].ref = Unnamed /\ doc[1].plane = Base /\ doc[1].param = "none"
      /\ doc[1].length /\ doc[1].stop = Unnamed
  BY SweptAlone
<1>2. doc[1].plane.kind = "base"
  BY <1>1, PlanesAreTyped
<1>3. ~Unavailable(1)
  BY <1>1, <1>2 DEF Unavailable, Asked, PlaneFails
<1>4. ~Nothing(1) /\ ~Unresolved(1) /\ ~NoNumber(1) /\ ~AboutADatum(1)
  BY <1>1 DEF Nothing, Unresolved, NoNumber, StatesNoReach, AboutADatum
<1>5. \A n : ~Known(n)
  BY DEF Known, Holding
<1>6. ~NameTaken(1)
  BY <1>5 DEF NameTaken
<1>7. Target(1) = 0
  BY <1>1 DEF Target, Locate
<1> QED BY <1>3, <1>4, <1>6, <1>7 DEF StructuralFailure

LEMMA BendInvHolds == Spec => []BendInv
<1>1. Init => BendInv
  BY DEF Init, BendInv, Swept
<1>2. RunInv /\ BendInv /\ [Next]_vars => BendInv'
  <2> SUFFICES ASSUME RunInv, BendInv, [Next]_vars
               PROVE  BendInv'
    OBVIOUS
  <2>0. CASE WriteFeature
    BY <2>0 DEF WriteFeature, BendInv
  <2>1. ASSUME UNCHANGED doc, Swept => BendInv'
        PROVE  BendInv'
    BY <2>1 DEF BendInv, Swept
  <2> SUFFICES ASSUME ~WriteFeature, Swept, UNCHANGED doc
               PROVE  BendInv'
    BY <2>0, <2>1 DEF Next, vars, Submit, Skip, PlaceDatum, StartBody, AddToBody, ChangeBody,
         Combine, FailFeature, RefuseSweep, RefuseFeature, KernelFails, LoseTarget, Overflow, Empty, FailExport,
         Deliver, Onward, Refused, written
  <2>2. /\ Len(doc) = 1 /\ off = {} /\ doc[1].type = "solid" /\ doc[1].on /\ at \in Nat \ {0}
        /\ doc[1] \in Features
    BY SweptAlone DEF RunInv
  <2>3. Narrow' = Narrow
    BY DEF Narrow
  <2>4. stage = "build" /\ at = 1 => StructuralFailure(at) = "none" /\ Target(at) = 0
    BY NothingInItsWay DEF BendInv
  <2>5. CASE Submit
    <3>1. UNCHANGED <<at, bodies, active>> /\ stage = "write" /\ code = "none"
      BY <2>5 DEF Submit, RunInv
    <3>2. at = 1 /\ bodies = <<>> /\ active = 0
      BY <3>1 DEF RunInv
    <3>3. \/ stage' = "over" /\ code' = "CAD_IR_INVALID"
          \/ stage' = "build"
      BY <2>2, <2>5 DEF Submit, Answer
    <3> QED BY <3>1, <3>2, <3>3 DEF BendInv
  <2>6. ASSUME stage = "build", at = 1, at' = 2, stage' = "build", ~Narrow
        PROVE  BendInv'
    BY <2>3, <2>6 DEF BendInv
  <2>7. CASE Skip \/ PlaceDatum \/ StartBody \/ AddToBody \/ ChangeBody \/ Combine
    <3>1. stage = "build" /\ at <= Len(doc) /\ at' = at + 1 /\ stage' = "build"
      BY <2>7 DEF Skip, PlaceDatum, StartBody, AddToBody, ChangeBody, Combine, Building, Onward
    <3>2. at = 1
      BY <2>2, <3>1
    <3>3. StartBody
      BY <2>2, <2>4, <2>7, <3>1, <3>2 DEF Skip, PlaceDatum, AddToBody, ChangeBody, Combine, Building
    <3>4. ~Narrow
      BY <3>2, <3>3 DEF StartBody, Fits, Narrow
    <3> QED BY <2>6, <3>1, <3>2, <3>4
  <2>8. CASE RefuseSweep
    <3>1. at = 1 /\ Narrow /\ stage' = "over" /\ code' = "SWEEP_BEND_TIGHTER_THAN_PROFILE"
      BY <2>2, <2>8 DEF RefuseSweep, Building, Narrow, Refused, Answer
    <3> QED BY <2>3, <3>1 DEF BendInv
  <2>9. ASSUME NEW c, c # "SWEEP_BEND_TIGHTER_THAN_PROFILE", ~Narrow, Answer(c)
        PROVE  BendInv'
    BY <2>3, <2>9 DEF BendInv, Answer
  <2>10. CASE FailFeature \/ LoseTarget \/ Overflow
    <3>1. at = 1 /\ stage = "build"
      BY <2>2, <2>10 DEF FailFeature, LoseTarget, Overflow, Building
    <3> QED BY <2>2, <2>4, <2>10, <3>1 DEF FailFeature, LoseTarget, Overflow, Building
  <2>11. CASE RefuseFeature \/ KernelFails
    <3>1. Building(AllTypes) /\ at <= Len(doc) /\ ~SweepRefused(doc[at].path, doc[at].profile)
      BY <2>11 DEF RefuseFeature, KernelFails, Refusable, Building, AllTypes
    <3>2. PICK c \in Refusals(at) \cup {"Traceback"} : Refused(c)
      BY <2>11 DEF RefuseFeature, KernelFails
    <3>3. at = 1 /\ ~Narrow
      BY <2>2, <3>1 DEF Narrow
    <3>4. c # "SWEEP_BEND_TIGHTER_THAN_PROFILE"
      BY <3>1, <3>2, RefusalsAreOthers DEF OwnAnswers
    <3> QED BY <2>9, <3>2, <3>3, <3>4 DEF Refused
  <2>12. CASE Empty \/ FailExport \/ Deliver
    <3>1. stage = "build" /\ at > Len(doc)
      BY <2>12 DEF Empty, FailExport, Deliver, Done
    <3>2. ~Narrow
      BY <2>2, <3>1 DEF BendInv
    <3>3. \E c : c # "SWEEP_BEND_TIGHTER_THAN_PROFILE" /\ Answer(c)
      BY <2>12 DEF Empty, FailExport, Deliver, Refused
    <3> QED BY <2>9, <3>2, <3>3
  <2>13. CASE UNCHANGED vars
    BY <2>3, <2>13 DEF vars, BendInv
  <2> QED BY <2>5, <2>7, <2>8, <2>10, <2>11, <2>12, <2>13 DEF Next
<1> QED BY <1>1, <1>2, RunInvHolds, PTL DEF Spec

\* Of a profile that reaches as far to both sides, and of a path of one bend, a
\* bend is refused exactly when it turns tighter than the profile reaches into it.
THEOREM BendsAreRefusedRightly == Spec => []CentredBendsAreMeasured
<1>1. RunInv /\ BendInv => CentredBendsAreMeasured
  <2> SUFFICES ASSUME RunInv, BendInv, Swept, Symmetric(doc[1].profile) \/ Len(doc[1].path) = 1,
                      stage = "over", code # "CAD_IR_INVALID"
               PROVE  code = "SWEEP_BEND_TIGHTER_THAN_PROFILE"
                        <=> \E k \in DOMAIN doc[1].path : Tight(doc[1].path, doc[1].profile, k)
    BY DEF CentredBendsAreMeasured, BendsAreMeasuredInwards
  <2>1. doc[1].path \in Paths
    BY SweptAlone DEF Features, Swept
  <2>2. PICK n \in 1 .. MaxBends : doc[1].path \in [1 .. n -> Bends]
    BY <2>1 DEF Paths
  <2>3. n \in Nat /\ Len(doc[1].path) = n
    <3>1. n \in Nat
      BY <2>2
    <3>2. doc[1].path \in Seq(Bends) /\ DOMAIN doc[1].path = 1 .. n
      BY <2>2, <3>1, SeqDef
    <3> QED BY <3>1, <3>2, LenProperties
  <2>4. Narrow <=> \E k \in DOMAIN doc[1].path : Tight(doc[1].path, doc[1].profile, k)
    BY <2>2, <2>3, MeasuredIsMeant DEF Narrow
  <2> QED BY <2>4 DEF BendInv
<1> QED BY <1>1, RunInvHolds, BendInvHolds, PTL

-----------------------------------------------------------------------------
(* The table of bodies.                                                    *)

Entries == [names : SUBSET Nat, made : SUBSET Nat]

TableIsTyped == bodies \in Seq(Entries) /\ active \in 0 .. Len(bodies)

\* A name is one body's, and some feature has given it.
NamesApart ==
  \A b, c \in DOMAIN bodies : b # c => bodies[b].names \cap bodies[c].names = {}

NamesEarlier ==
  \A b \in DOMAIN bodies : \A n \in bodies[b].names :
    n # Unnamed /\ \E j \in DOMAIN doc : j < at /\ doc[j].name = n

Have(j) == j < at /\ doc[j].on

PlanesStay == \A j \in DOMAIN doc : Have(j) /\ doc[j].type = "datum" => doc[j].name \in planes

\* The body a solid has named is there, or a boolean has taken it in.
EatenWith(j, b) ==
  j \in bodies[b].made /\ \E e \in bodies[b].made : doc[e].type = "boolean" /\ ~doc[e].keep

NamesStay ==
  \A j \in DOMAIN doc : Have(j) /\ doc[j].type = "solid" /\ doc[j].name # Unnamed =>
    \E b \in DOMAIN bodies :
      \/ doc[j].name \in bodies[b].names /\ j \in bodies[b].made
      \/ EatenWith(j, b)

\* Whatever was asked to work on a name is in the body that answers to it.
NamesHoldTheirWork ==
  \A j \in DOMAIN doc : Have(j) /\ doc[j].type \in Repeatable =>
    \A b \in DOMAIN bodies : doc[Repeated(j)].ref \in bodies[b].names => j \in bodies[b].made

PatternsFollow ==
  \A b \in DOMAIN bodies : \A j \in bodies[b].made :
    doc[j].type = "pattern" /\ doc[Repeated(j)].ref # Unnamed => doc[j].ref \in bodies[b].made

Table ==
  /\ TableIsTyped /\ NamesApart /\ NamesEarlier /\ PlanesStay
  /\ MaterialKept /\ NamesStay /\ NamesHoldTheirWork /\ PatternsFollow

\* A name that a feature is about to give is new, and nothing has asked for it.
LEMMA NewNames ==
  ASSUME Gated, Table, at \in DOMAIN doc, doc[at].name # Unnamed
  PROVE  /\ \A b \in DOMAIN bodies : doc[at].name \notin bodies[b].names
         /\ \A j \in DOMAIN doc :
              j <= at /\ doc[j].type \in Repeatable => doc[Repeated(j)].ref # doc[at].name
<1>0. DOMAIN doc \subseteq Nat /\ UniqueNames /\ ReferencesExist /\ NamesEarlier
  BY DEF Gated, Written, Table
<1>1. ASSUME NEW b \in DOMAIN bodies, doc[at].name \in bodies[b].names
      PROVE  FALSE
  <2>1. PICK j \in DOMAIN doc : j < at /\ doc[j].name = doc[at].name
    BY <1>0, <1>1 DEF NamesEarlier
  <2>2. j = at
    BY <1>0, <2>1 DEF UniqueNames
  <2> QED BY <1>0, <2>1, <2>2
<1>2. ASSUME NEW j \in DOMAIN doc, j <= at, doc[j].type \in Repeatable,
             doc[Repeated(j)].ref = doc[at].name
      PROVE  FALSE
  <2> DEFINE q == Repeated(j)
             n == doc[at].name
  <2>1. q \in DOMAIN doc /\ q <= j /\ doc[q].type \in {"solid", "cut"}
    BY <1>2, RepeatedIsBefore
  <2>2. n \in ResultRefs(doc[q])
    BY <1>2, <2>1 DEF ResultRefs
  <2>3. Producer(doc, n) \in DOMAIN doc /\ Producer(doc, n) < q /\ doc[Producer(doc, n)].name = n
    BY <1>0, <2>1, <2>2 DEF ReferencesExist
  <2>4. Producer(doc, n) = at
    BY <1>0, <2>3 DEF UniqueNames
  <2> QED BY <1>0, <1>2, <2>1, <2>3, <2>4
<1> QED BY <1>1, <1>2

\* What a step makes of the table, when it has built a feature in the t-th body.
\* The c-th body is what the m[c]-th was, or is new if that is 0.  Only a boolean
\* that does not keep its tools leaves a body out.
Fresh == IF doc[at].type = "solid" THEN NamesOf(at) ELSE {}
Former(m, c) == IF m[c] = 0 THEN {} ELSE bodies[m[c]].names

Carried(m, t) ==
  /\ bodies' \in Seq(Entries) /\ active' \in 0 .. Len(bodies')
  /\ t \in DOMAIN bodies' /\ at \in bodies'[t].made
  /\ \A c, d \in DOMAIN bodies' : m[c] = m[d] => c = d
  /\ \A c \in DOMAIN bodies' :
       /\ m[c] \in DOMAIN bodies \cup {0}
       /\ bodies'[c].names = Former(m, c) \cup (IF c = t THEN Fresh ELSE {})
       /\ m[c] # 0 => bodies[m[c]].made \subseteq bodies'[c].made
       /\ \A j \in bodies'[c].made :
            \/ j = at /\ c = t
            \/ \E b \in DOMAIN bodies :
                 j \in bodies[b].made /\ bodies[b].made \subseteq bodies'[c].made
  /\ \A b \in DOMAIN bodies :
       \/ \E c \in DOMAIN bodies' : m[c] = b
       \/ /\ doc[at].type = "boolean" /\ ~doc[at].keep
          /\ bodies[b].made \subseteq bodies'[t].made
  /\ doc[at].type \in Repeatable /\ doc[Repeated(at)].ref # Unnamed
       => m[t] # 0 /\ doc[Repeated(at)].ref \in bodies[m[t]].names

LEMMA CarryingKeepsTheTable ==
  ASSUME Gated, Table, at \in DOMAIN doc, doc[at].on, doc[at].type # "datum",
         at' = at + 1, UNCHANGED <<doc, planes>>, NEW m, NEW t, Carried(m, t)
  PROVE  Table'
<1>0. at \in Nat /\ DOMAIN doc \subseteq Nat /\ DOMAIN bodies \subseteq Nat \ {0}
  BY DEF Gated, Written, Table, TableIsTyped
<1>1. doc' = doc /\ planes' = planes /\ \A j : Repeated(j)' = Repeated(j)
  BY DEF Repeated
<1>2. \A j \in DOMAIN doc : Have(j)' => Have(j) \/ j = at
  BY <1>0, <1>1 DEF Have
<1>3. \A n \in Fresh : n # Unnamed /\ n = doc[at].name /\ \A b \in DOMAIN bodies : n \notin bodies[b].names
  BY NewNames DEF Fresh, NamesOf
<1>4. ASSUME NEW j \in DOMAIN doc, j <= at, doc[j].type \in Repeatable
      PROVE  doc[Repeated(j)].ref \notin Fresh
  BY <1>4, NewNames DEF Fresh, NamesOf
<1>5. ASSUME NEW c \in DOMAIN bodies', NEW n \in bodies'[c].names
      PROVE  \/ m[c] # 0 /\ m[c] \in DOMAIN bodies /\ n \in bodies[m[c]].names
             \/ c = t /\ n \in Fresh
  BY <1>5 DEF Carried, Former
<1>6. \A b \in DOMAIN bodies : \E c \in DOMAIN bodies' : bodies[b].made \subseteq bodies'[c].made
  BY <1>0 DEF Carried
<1>7. TableIsTyped'
  BY DEF Carried, TableIsTyped
<1>8. NamesApart'
  <2> SUFFICES ASSUME NEW c \in DOMAIN bodies', NEW d \in DOMAIN bodies', c # d,
                      NEW n, n \in bodies'[c].names, n \in bodies'[d].names
               PROVE  FALSE
    BY DEF NamesApart
  <2>1. m[c] # m[d]
    BY DEF Carried
  <2>2. CASE c = t
    BY <1>3, <1>5, <2>1, <2>2 DEF Table, NamesApart
  <2>3. CASE d = t
    BY <1>3, <1>5, <2>1, <2>3 DEF Table, NamesApart
  <2>4. CASE c # t /\ d # t
    BY <1>5, <2>1, <2>4 DEF Table, NamesApart
  <2> QED BY <2>2, <2>3, <2>4
<1>9. NamesEarlier'
  <2> SUFFICES ASSUME NEW c \in DOMAIN bodies', NEW n \in bodies'[c].names
               PROVE  n # Unnamed /\ \E j \in DOMAIN doc : j < at + 1 /\ doc[j].name = n
    BY <1>1 DEF NamesEarlier
  <2>1. CASE m[c] # 0 /\ m[c] \in DOMAIN bodies /\ n \in bodies[m[c]].names
    <3>1. n # Unnamed /\ \E j \in DOMAIN doc : j < at /\ doc[j].name = n
      BY <2>1 DEF Table, NamesEarlier
    <3> QED BY <1>0, <3>1
  <2>2. CASE n \in Fresh
    BY <1>0, <1>3, <2>2
  <2> QED BY <1>5, <2>1, <2>2
<1>10. PlanesStay'
  BY <1>1, <1>2 DEF PlanesStay, Table
<1>11. MaterialKept'
  <2> SUFFICES ASSUME NEW i \in Material'
               PROVE  \E c \in DOMAIN bodies' : i \in bodies'[c].made
    BY DEF MaterialKept
  <2>1. i \in 1 .. at /\ doc[i].on /\ doc[i].type # "datum"
    BY <1>0, <1>1 DEF Material
  <2>2. CASE i = at
    BY <2>2 DEF Carried
  <2>3. CASE i # at
    <3>1. i \in Material
      BY <1>0, <2>1, <2>3 DEF Material
    <3>2. PICK b \in DOMAIN bodies : i \in bodies[b].made
      BY <3>1 DEF Table, MaterialKept
    <3> QED BY <1>6, <3>2
  <2> QED BY <2>2, <2>3
<1>12. NamesStay'
  <2> SUFFICES ASSUME NEW j \in DOMAIN doc, Have(j)', doc[j].type = "solid", doc[j].name # Unnamed
               PROVE  \E c \in DOMAIN bodies' :
                        \/ doc[j].name \in bodies'[c].names /\ j \in bodies'[c].made
                        \/ EatenWith(j, c)'
    BY <1>1 DEF NamesStay
  <2>1. CASE j = at
    <3>1. doc[j].name \in Fresh
      BY <2>1 DEF Fresh, NamesOf
    <3> QED BY <2>1, <3>1 DEF Carried
  <2>2. CASE Have(j)
    <3>1. PICK b \in DOMAIN bodies :
            \/ doc[j].name \in bodies[b].names /\ j \in bodies[b].made
            \/ EatenWith(j, b)
      BY <2>2 DEF Table, NamesStay
    <3>2. CASE EatenWith(j, b)
      BY <1>1, <1>6, <3>2 DEF EatenWith
    <3>3. CASE doc[j].name \in bodies[b].names /\ j \in bodies[b].made
      <4>1. CASE \E c \in DOMAIN bodies' : m[c] = b
        BY <1>0, <3>3, <4>1 DEF Carried, Former
      <4>2. CASE /\ doc[at].type = "boolean" /\ ~doc[at].keep
                 /\ bodies[b].made \subseteq bodies'[t].made
        BY <1>1, <3>3, <4>2 DEF Carried, EatenWith
      <4> QED BY <4>1, <4>2 DEF Carried
    <3> QED BY <3>1, <3>2, <3>3
  <2> QED BY <1>2, <2>1, <2>2
<1>13. NamesHoldTheirWork'
  <2> SUFFICES ASSUME NEW j \in DOMAIN doc, Have(j)', doc[j].type \in Repeatable,
                      NEW c \in DOMAIN bodies', doc[Repeated(j)].ref \in bodies'[c].names
               PROVE  j \in bodies'[c].made
    BY <1>1 DEF NamesHoldTheirWork
  <2> DEFINE r == doc[Repeated(j)].ref
  <2>1. j <= at
    BY <1>0, <1>2 DEF Have
  <2>2. m[c] # 0 /\ m[c] \in DOMAIN bodies /\ r \in bodies[m[c]].names
    BY <1>4, <1>5, <2>1
  <2>3. CASE j = at
    <3>1. r # Unnamed
      BY <2>2 DEF Table, NamesEarlier
    <3>2. m[t] # 0 /\ m[t] \in DOMAIN bodies /\ r \in bodies[m[t]].names
      BY <2>3, <3>1 DEF Carried
    <3>3. m[c] = m[t]
      BY <2>2, <3>2 DEF Table, NamesApart
    <3>4. c = t
      BY <3>3 DEF Carried
    <3> QED BY <2>3, <3>4 DEF Carried
  <2>4. CASE Have(j)
    <3>1. j \in bodies[m[c]].made
      BY <2>2, <2>4 DEF Table, NamesHoldTheirWork
    <3> QED BY <2>2, <3>1 DEF Carried
  <2> QED BY <1>2, <2>3, <2>4
<1>14. PatternsFollow'
  <2> SUFFICES ASSUME NEW c \in DOMAIN bodies', NEW j \in bodies'[c].made,
                      doc[j].type = "pattern", doc[Repeated(j)].ref # Unnamed
               PROVE  doc[j].ref \in bodies'[c].made
    BY <1>1 DEF PatternsFollow
  <2>1. CASE j = at /\ c = t
    <3> DEFINE s == doc[at].ref
    <3>1. s \in DOMAIN doc /\ s < at /\ doc[s].type \in Repeatable /\ doc[s].on
      BY <2>1 DEF Gated, PatternsRepeat
    <3>2. Repeated(at) = Repeated(s)
      BY <2>1, RepeatedIsBefore DEF Repeatable
    <3>3. m[t] # 0 /\ m[t] \in DOMAIN bodies /\ doc[Repeated(at)].ref \in bodies[m[t]].names
      BY <2>1 DEF Carried, Repeatable
    <3>4. s \in bodies[m[t]].made
      BY <3>1, <3>2, <3>3 DEF Table, NamesHoldTheirWork, Have
    <3> QED BY <2>1, <3>3, <3>4 DEF Carried
  <2>2. CASE \E b \in DOMAIN bodies :
               j \in bodies[b].made /\ bodies[b].made \subseteq bodies'[c].made
    BY <2>2 DEF Table, PatternsFollow
  <2> QED BY <2>1, <2>2 DEF Carried
<1> QED BY <1>7, <1>8, <1>9, <1>10, <1>11, <1>12, <1>13, <1>14 DEF Table

\* A feature that builds nothing in a body: it is off, or a plane.
LEMMA PassingKeepsTheTable ==
  ASSUME Gated, Table, at \in DOMAIN doc, at' = at + 1, UNCHANGED <<doc, bodies, active>>,
         planes \subseteq planes',
         doc[at].on => doc[at].type = "datum" /\ doc[at].name \in planes'
  PROVE  Table'
<1>0. at \in Nat /\ DOMAIN doc \subseteq Nat
  BY DEF Gated, Written
<1>1. doc' = doc /\ bodies' = bodies /\ active' = active /\ \A j : Repeated(j)' = Repeated(j)
  BY DEF Repeated
<1>2. \A j \in DOMAIN doc :
        Have(j)' => Have(j) \/ (j = at /\ doc[j].type = "datum" /\ doc[j].name \in planes')
  BY <1>0, <1>1 DEF Have
<1>3. TableIsTyped' /\ NamesApart'
  BY <1>1 DEF Table, TableIsTyped, NamesApart
<1>4. NamesEarlier'
  <2>1. \A j \in DOMAIN doc : j < at => j < at + 1
    BY <1>0
  <2> QED BY <1>1, <2>1 DEF Table, NamesEarlier
<1>5. PlanesStay'
  BY <1>1, <1>2 DEF Table, PlanesStay
<1>6. MaterialKept'
  <2>1. Material' \subseteq Material
    BY <1>0, <1>1 DEF Material
  <2> QED BY <1>1, <2>1 DEF Table, MaterialKept
<1>7. NamesStay'
  BY <1>1, <1>2 DEF Table, NamesStay, EatenWith
<1>8. NamesHoldTheirWork'
  BY <1>1, <1>2 DEF Table, NamesHoldTheirWork, Repeatable
<1>9. PatternsFollow'
  BY <1>1 DEF Table, PatternsFollow
<1> QED BY <1>3, <1>4, <1>5, <1>6, <1>7, <1>8, <1>9 DEF Table

\* A name that is known is found.
LEMMA FindingOne ==
  ASSUME NEW bs \in Seq(Entries), NEW n, Holding(bs, n) # {}
  PROVE  Find(bs, n) \in DOMAIN bs /\ n \in bs[Find(bs, n)].names
<1>1. Holding(bs, n) \in SUBSET Nat
  BY DEF Holding
<1>2. \E b \in Holding(bs, n) : \A c \in Holding(bs, n) : b <= c
  BY <1>1, LeastOfNat
<1>3. Find(bs, n) \in Holding(bs, n)
  BY <1>2 DEF Find
<1> QED BY <1>3 DEF Holding

LEMMA FoundIsThere ==
  ASSUME TableIsTyped, NEW n, Known(n)
  PROVE  Find(bodies, n) \in DOMAIN bodies /\ n \in bodies[Find(bodies, n)].names
BY FindingOne DEF TableIsTyped, Known

LEMMA TheBodyWorkedOn ==
  ASSUME RunInv, Table, Building({"solid", "cut", "blend", "pattern"}),
         StructuralFailure(at) = "none"
  PROVE  LET r == doc[Repeated(at)].ref
             t == Target(at)
         IN  /\ t # 0 => t \in DOMAIN bodies
             /\ doc[at].type \in Repeatable /\ r # Unnamed => t # 0 /\ r \in bodies[t].names
             /\ doc[at].type # "solid" => t # 0
<1>0. at \in DOMAIN doc /\ doc[at].type \in {"solid", "cut", "blend", "pattern"}
      /\ WellDrafted(doc[at], at) /\ Gated /\ TableIsTyped
      /\ (doc[at].new => doc[at].type = "solid")
  BY TheFeatureAtHand, TheGateHolds DEF Building, Table
<1> DEFINE r == doc[Repeated(at)].ref
           t == Target(at)
<1>1. \A n \in Asked(at) : Known(n)
  BY DEF StructuralFailure, Unavailable
<1>2. doc[at].type \in {"cut", "pattern"} => t # 0
  BY DEF StructuralFailure, Nothing
<1>3. ASSUME NEW n, n # Unnamed => n \in Asked(at)
      PROVE  /\ Locate(n) # 0 => Locate(n) \in DOMAIN bodies
             /\ n # Unnamed => Locate(n) # 0 /\ n \in bodies[Locate(n)].names
  <2>1. active # 0 => active \in DOMAIN bodies
    BY <1>0 DEF TableIsTyped
  <2>2. n # Unnamed => Find(bodies, n) \in DOMAIN bodies /\ n \in bodies[Find(bodies, n)].names
    BY <1>0, <1>1, <1>3, FoundIsThere
  <2>3. 0 \notin DOMAIN bodies
    BY <1>0 DEF TableIsTyped
  <2> QED BY <2>1, <2>2, <2>3 DEF Locate
<1>4. CASE doc[at].type = "pattern"
  <2>1. r # Unnamed => r \in Asked(at)
    BY <1>4 DEF Asked
  <2>2. t = Locate(r)
    BY <1>0, <1>4 DEF Target
  <2> HIDE DEF r, t
  <2>3. /\ Locate(r) # 0 => Locate(r) \in DOMAIN bodies
        /\ r # Unnamed => Locate(r) # 0 /\ r \in bodies[Locate(r)].names
    BY <1>3, <2>1
  <2> QED BY <1>2, <1>4, <2>2, <2>3 DEF r, t
<1>5. CASE doc[at].type # "pattern"
  <2>1. doc[at].ref # Unnamed => doc[at].ref \in Asked(at)
    BY <1>0, <1>5 DEF Asked
  <2>2. doc[at].type \in Repeatable => r = doc[at].ref
    BY <1>0, <1>5, RepeatedIsBefore
  <2>3. doc[at].new => t = 0 /\ doc[at].ref = Unnamed /\ doc[at].type = "solid"
    BY <1>0, <1>5 DEF Target, Gated
  <2>4. ~doc[at].new => t = Locate(doc[at].ref)
    BY <1>5 DEF Target
  <2>5. doc[at].type = "blend" => doc[at].ref # Unnamed
    BY <1>0 DEF WellDrafted
  <2> HIDE DEF r, t
  <2>6. /\ Locate(doc[at].ref) # 0 => Locate(doc[at].ref) \in DOMAIN bodies
        /\ doc[at].ref # Unnamed =>
             Locate(doc[at].ref) # 0 /\ doc[at].ref \in bodies[Locate(doc[at].ref)].names
    BY <1>3, <2>1
  <2>7. (t # 0 => t \in DOMAIN bodies)
        /\ (doc[at].type \in Repeatable /\ r # Unnamed => t # 0 /\ r \in bodies[t].names)
    BY <2>2, <2>3, <2>4, <2>6
  <2>8. doc[at].type # "solid" => t # 0
    BY <1>0, <1>2, <1>5, <2>3, <2>4, <2>5, <2>6
  <2> QED BY <2>7, <2>8 DEF r, t
<1> QED BY <1>4, <1>5

LEMMA TouchingKeepsTheTable ==
  ASSUME RunInv, Table, Building({"solid", "cut", "blend", "pattern"}),
         StructuralFailure(at) = "none", Target(at) # 0,
         Touch(at, Target(at), Fresh), at' = at + 1, UNCHANGED <<doc, planes>>
  PROVE  Table'
<1> DEFINE t == Target(at)
           m == [c \in DOMAIN bodies |-> c]
<1>0. at \in DOMAIN doc /\ doc[at].on /\ doc[at].type \in {"solid", "cut", "blend", "pattern"}
      /\ Gated /\ bodies \in Seq(Entries) /\ doc[at].name \in Nat /\ at \in Nat
  <2>1. at \in DOMAIN doc /\ Gated
    BY TheFeatureAtHand, TheGateHolds DEF Building
  <2>2. doc[at] \in Features /\ at \in Nat
    BY <2>1, TheFeatureAtHand DEF Building, RunInv
  <2>3. doc[at].name \in Nat
    BY <2>2 DEF Features
  <2> QED BY <2>1, <2>2, <2>3 DEF Building, Table, TableIsTyped
<1>1. /\ t \in DOMAIN bodies /\ 0 \notin DOMAIN bodies
      /\ doc[at].type \in Repeatable /\ doc[Repeated(at)].ref # Unnamed
           => doc[Repeated(at)].ref \in bodies[t].names
  BY <1>0, TheBodyWorkedOn
<1>2. bodies' = [bodies EXCEPT ![t] = Body(@.names \cup Fresh, @.made \cup {at})] /\ active' = t
  BY DEF Touch
<1> HIDE DEF t
<1>3. Fresh \in SUBSET Nat
  BY <1>0 DEF Fresh, NamesOf
<1>4. bodies' \in Seq(Entries) /\ DOMAIN bodies' = DOMAIN bodies /\ Len(bodies') = Len(bodies)
      /\ \A c \in DOMAIN bodies :
           /\ bodies'[c].names = bodies[c].names \cup (IF c = t THEN Fresh ELSE {})
           /\ bodies'[c].made = bodies[c].made \cup (IF c = t THEN {at} ELSE {})
  <2> DEFINE new == Body(bodies[t].names \cup Fresh, bodies[t].made \cup {at})
  <2>1. bodies[t] \in Entries
    BY <1>0, <1>1
  <2>2. new \in Entries
    BY <1>0, <1>3, <2>1 DEF Entries, Body
  <2>3. bodies' = [bodies EXCEPT ![t] = new]
    BY <1>1, <1>2
  <2>4. new.names = bodies[t].names \cup Fresh /\ new.made = bodies[t].made \cup {at}
    BY DEF Body
  <2> HIDE DEF new
  <2>5. bodies' \in Seq(Entries) /\ DOMAIN bodies' = DOMAIN bodies /\ Len(bodies') = Len(bodies)
    BY <1>0, <1>1, <2>2, <2>3
  <2> QED BY <1>0, <1>1, <2>3, <2>4, <2>5
<1>5. Carried(m, t)
  <2>1. \A c \in DOMAIN bodies : m[c] = c /\ Former(m, c) = bodies[c].names
    BY <1>1 DEF Former
  <2> HIDE DEF m
  <2>2. active' \in 0 .. Len(bodies') /\ t \in DOMAIN bodies' /\ at \in bodies'[t].made
    <3>1. DOMAIN bodies = 1 .. Len(bodies) /\ Len(bodies) \in Nat
      BY <1>0
    <3>2. active' \in 0 .. Len(bodies')
      BY <1>1, <1>2, <1>4, <3>1
    <3> QED BY <1>1, <1>4, <3>2
  <2>3. ASSUME NEW c \in DOMAIN bodies', NEW j \in bodies'[c].made
        PROVE  \/ j = at /\ c = t
               \/ \E b \in DOMAIN bodies :
                    j \in bodies[b].made /\ bodies[b].made \subseteq bodies'[c].made
    BY <1>4, <2>3
  <2> QED BY <1>1, <1>4, <2>1, <2>2, <2>3 DEF Carried
<1> QED BY <1>0, <1>5, CarryingKeepsTheTable

LEMMA StartingKeepsTheTable ==
  ASSUME RunInv, Table, StartBody
  PROVE  Table'
<1> DEFINE n == Len(bodies)
           t == n + 1
           m == [c \in 1 .. t |-> IF c = t THEN 0 ELSE c]
<1>0. at \in DOMAIN doc /\ doc[at].on /\ doc[at].type = "solid" /\ Gated
      /\ bodies \in Seq(Entries) /\ doc[at].name \in Nat /\ at \in Nat
  <2>1. at \in DOMAIN doc /\ Gated
    BY TheFeatureAtHand, TheGateHolds DEF StartBody, Building
  <2>2. doc[at] \in Features /\ at \in Nat
    BY <2>1, TheFeatureAtHand DEF StartBody, Building, RunInv
  <2>3. doc[at].name \in Nat
    BY <2>2 DEF Features
  <2> QED BY <2>1, <2>2, <2>3 DEF StartBody, Building, Table, TableIsTyped
<1>1. doc[at].type \in Repeatable => doc[Repeated(at)].ref = Unnamed
  <2>1. Building({"solid", "cut", "blend", "pattern"}) /\ StructuralFailure(at) = "none" /\ Target(at) = 0
    BY DEF StartBody, Building, Fits
  <2> QED BY <2>1, TheBodyWorkedOn
<1>2. bodies' = Append(bodies, Body(NamesOf(at), {at})) /\ active' = t /\ at' = at + 1
      /\ UNCHANGED <<doc, planes>> /\ Fresh = NamesOf(at)
  BY <1>0 DEF StartBody, Onward, written, Fresh
<1>3. n \in Nat /\ DOMAIN bodies = 1 .. n /\ DOMAIN bodies' = 1 .. t /\ Len(bodies') = t
      /\ bodies' \in Seq(Entries)
      /\ (\A c \in 1 .. n : bodies'[c] = bodies[c])
      /\ bodies'[t].names = Fresh /\ bodies'[t].made = {at}
  <2>1. Body(NamesOf(at), {at}) \in Entries
    BY <1>0 DEF Body, Entries, NamesOf
  <2>2. Body(NamesOf(at), {at}).names = Fresh /\ Body(NamesOf(at), {at}).made = {at}
    BY <1>2 DEF Body
  <2> DEFINE new == Body(NamesOf(at), {at})
  <2>3. bodies' = Append(bodies, new)
    BY <1>2
  <2> HIDE DEF new
  <2>4. n \in Nat /\ DOMAIN bodies = 1 .. n /\ DOMAIN bodies' = 1 .. t /\ Len(bodies') = t
        /\ bodies' \in Seq(Entries)
    BY <1>0, <2>1, <2>3 DEF new
  <2>5. (\A c \in 1 .. n : bodies'[c] = bodies[c]) /\ bodies'[t] = new
    BY <1>0, <2>3
  <2> QED BY <2>2, <2>4, <2>5 DEF new
<1>4. Carried(m, t)
  <2>1. /\ \A c \in 1 .. n : m[c] = c /\ Former(m, c) = bodies[c].names
        /\ m[t] = 0 /\ Former(m, t) = {}
    BY <1>3 DEF Former
  <2>2. \A c \in 1 .. t : c \in 1 .. n \/ c = t
    BY <1>3
  <2>3. \A c \in 1 .. n : c # t /\ c # 0 /\ c \in 1 .. t
    BY <1>3
  <2>4. t \in 1 .. t /\ t \in 0 .. t
    BY <1>3
  <2>5. bodies' \in Seq(Entries) /\ active' \in 0 .. Len(bodies')
        /\ t \in DOMAIN bodies' /\ at \in bodies'[t].made
    <3> HIDE DEF m, t, n
    <3> QED BY <1>2, <1>3, <2>4
  <2>10. n + 1 = t
    OBVIOUS
  <2> HIDE DEF m, t, n
  <2>6. \A c, d \in DOMAIN bodies' : m[c] = m[d] => c = d
    BY <1>3, <2>1, <2>2, <2>3
  <2>7. ASSUME NEW c \in DOMAIN bodies'
        PROVE  /\ m[c] \in DOMAIN bodies \cup {0}
               /\ bodies'[c].names = Former(m, c) \cup (IF c = t THEN Fresh ELSE {})
               /\ m[c] # 0 => bodies[m[c]].made \subseteq bodies'[c].made
               /\ \A j \in bodies'[c].made :
                    \/ j = at /\ c = t
                    \/ \E b \in DOMAIN bodies :
                         j \in bodies[b].made /\ bodies[b].made \subseteq bodies'[c].made
    <3>1. CASE c = t
      BY <1>3, <2>1, <3>1
    <3>2. CASE c \in 1 .. n
      BY <1>3, <2>1, <2>3, <3>2
    <3> QED BY <1>3, <2>2, <3>1, <3>2
  <2>8. \A b \in DOMAIN bodies : \E c \in DOMAIN bodies' : m[c] = b
    BY <1>3, <2>1, <2>3
  <2> QED BY <1>1, <2>5, <2>6, <2>7, <2>8 DEF Carried
<1> QED BY <1>0, <1>2, <1>4, CarryingKeepsTheTable

-----------------------------------------------------------------------------
(* A boolean.                                                              *)

LEMMA RemovingOne ==
  ASSUME NEW S, NEW v \in Seq(S), NEW p \in 1 .. Len(v)
  PROVE  /\ RemoveAt(v, p) \in Seq(S) /\ Len(RemoveAt(v, p)) = Len(v) - 1
         /\ \A c \in 1 .. (Len(v) - 1) : RemoveAt(v, p)[c] = IF c < p THEN v[c] ELSE v[c + 1]
<1> DEFINE front == SubSeq(v, 1, p - 1)
           back == SubSeq(v, p + 1, Len(v))
<1>1. /\ front \in Seq(S) /\ Len(front) = p - 1
      /\ back \in Seq(S) /\ Len(back) = Len(v) - p
  OBVIOUS
<1>2. /\ \A c \in 1 .. (p - 1) : front[c] = v[c]
      /\ \A c \in 1 .. (Len(v) - p) : back[c] = v[c + p]
  OBVIOUS
<1>3. RemoveAt(v, p) = front \o back
  BY DEF RemoveAt
<1> HIDE DEF front, back
<1>4. RemoveAt(v, p) \in Seq(S) /\ Len(RemoveAt(v, p)) = Len(v) - 1
  BY <1>1, <1>3
<1>5. ASSUME NEW c \in 1 .. (Len(v) - 1)
      PROVE  RemoveAt(v, p)[c] = IF c < p THEN v[c] ELSE v[c + 1]
  <2>1. RemoveAt(v, p)[c] = IF c <= Len(front) THEN front[c] ELSE back[c - Len(front)]
    BY <1>1, <1>3
  <2>2. CASE c < p
    BY <1>1, <1>2, <2>1, <2>2
  <2>3. CASE c >= p
    <3>1. c - Len(front) \in 1 .. (Len(v) - p) /\ (c - Len(front)) + p = c + 1
      BY <1>1, <2>3
    <3> QED BY <1>1, <1>2, <2>1, <2>3, <3>1
  <2> QED BY <2>2, <2>3
<1> QED BY <1>4, <1>5

\* rest is bs without some of the bodies that the indices ks name, in the same order.
Rest(rest, bs, ks, N) ==
  /\ rest \in Seq(Entries)
  /\ \E m \in [DOMAIN rest -> DOMAIN bs] :
       /\ \A c, d \in DOMAIN rest : m[c] = m[d] => c = d
       /\ \A c \in DOMAIN rest : rest[c] = bs[m[c]]
       /\ \A p \in DOMAIN bs : (\E k \in 1 .. N : ks[k] = p) \/ \E c \in DOMAIN rest : m[c] = p

\* Dropped in turn, each before the one dropped last, these bodies are all that goes.
LEMMA DropsInTurn ==
  ASSUME NEW bs \in Seq(Entries), NEW N \in Nat, NEW ks \in [1 .. N -> DOMAIN bs],
         \A j, k \in 1 .. N : j < k => ks[k] < ks[j]
  PROVE  /\ \A k \in 1 .. N : ks[k] <= Len(bs) - (k - 1)
         /\ Rest(DropAll(bs, ks), bs, ks, N)
<1> DEFINE L == Len(bs)
           V == Seq(Entries)
           Dropped == [x \in (1 .. N) \X V |-> Drop(x[2], ks[x[1]])]
           Row(g, s) == g[s] = IF s = {} THEN bs ELSE Dropped[<<Max(s), g[s \ {Max(s)}]>>]
           Code(g, s) == g[s] = IF s = {} THEN bs ELSE Drop(g[s \ {Max(s)}], ks[Max(s)])
<1>0. L \in Nat /\ DOMAIN bs = 1 .. L
  OBVIOUS
<1>1. Dropped \in [(1 .. N) \X V -> V]
  <2> SUFFICES ASSUME NEW k \in 1 .. N, NEW v \in V
               PROVE  Drop(v, ks[k]) \in V
    OBVIOUS
  <2>1. ks[k] \in Nat /\ <<>> \in V
    BY <1>0
  <2>2. ks[k] \in DOMAIN v => RemoveAt(v, ks[k]) \in V
    <3> SUFFICES ASSUME ks[k] \in 1 .. Len(v)
                 PROVE  RemoveAt(v, ks[k]) \in V
      OBVIOUS
    <3>1. SubSeq(v, 1, ks[k] - 1) \in V /\ SubSeq(v, ks[k] + 1, Len(v)) \in V
      BY <2>1
    <3> QED BY <3>1 DEF RemoveAt
  <2> QED BY <2>1, <2>2 DEF Drop
<1>2. \E g : FoldTable(g, N, V, bs, Dropped)
  <2> HIDE DEF V, Dropped
  <2>1. bs \in V
    BY DEF V
  <2> QED BY <1>1, <2>1, FoldTableExists
<1> DEFINE New(f) == [s \in SUBSET (1 .. N) |->
                       IF s = {} THEN bs ELSE Drop(f[s \ {Max(s)}], ks[Max(s)])]
           iter == CHOOSE f : f = New(f)
           fold(k) == iter[1 .. k]
<1>3. iter = New(iter)
  <2>1. PICK g : FoldTable(g, N, V, bs, Dropped)
    BY <1>2
  <2>2. g \in [SUBSET (1 .. N) -> V]
    BY <2>1 DEF FoldTable
  <2>3. ASSUME NEW s \in SUBSET (1 .. N)
        PROVE  g[s] = IF s = {} THEN bs ELSE Drop(g[s \ {Max(s)}], ks[Max(s)])
    <3>1. CASE s = {}
      BY <2>1, <3>1 DEF FoldTable
    <3>2. CASE s # {}
      <4>0. s \in SUBSET (0 .. N)
        OBVIOUS
      <4>1. Max(s) \in 1 .. N /\ s \ {Max(s)} \in SUBSET (1 .. N)
        BY <3>2, <4>0, MaxIsGreatest
      <4>2. <<Max(s), g[s \ {Max(s)}]>> \in (1 .. N) \X V
        BY <2>2, <4>1
      <4>3. g[s] = Dropped[<<Max(s), g[s \ {Max(s)}]>>]
        BY <2>1, <3>2 DEF FoldTable
      <4> QED BY <3>2, <4>2, <4>3
    <3> QED BY <3>1, <3>2
  <2>4. g = New(g)
    BY <2>2, <2>3
  <2> HIDE DEF New
  <2> QED BY <2>4
<1>4. DropAll(bs, ks) = fold(N)
  <2>1. DOMAIN ks = 1 .. N
    OBVIOUS
  <2> QED BY <2>1 DEF DropAll, FoldLeft, MapThenFoldSet
<1> HIDE DEF iter
<1>5. fold(0) = bs /\ \A k \in 1 .. N : fold(k) = Drop(fold(k - 1), ks[k])
  <2>1. \A s \in SUBSET (1 .. N) :
          iter[s] = IF s = {} THEN bs ELSE Drop(iter[s \ {Max(s)}], ks[Max(s)])
    BY <1>3
  <2>2. fold(0) = bs
    <3>1. 1 .. 0 = {}
      OBVIOUS
    <3> QED BY <2>1, <3>1
  <2>3. ASSUME NEW k \in 1 .. N
        PROVE  fold(k) = Drop(fold(k - 1), ks[k])
    <3>0. k \in Nat \ {0}
      OBVIOUS
    <3>1. 1 .. k # {} /\ Max(1 .. k) = k /\ (1 .. k) \ {k} = 1 .. (k - 1)
      BY <3>0, PlacesInTurn
    <3>2. 1 .. k \in SUBSET (1 .. N)
      OBVIOUS
    <3> QED BY <2>1, <3>1, <3>2
  <2> QED BY <2>2, <2>3
<1> HIDE DEF fold, V, Dropped, New
<1>6. \A k \in 1 .. N : ks[k] \in 1 .. L /\ ks[k] <= L - (k - 1)
  <2> DEFINE T == {k \in Nat : k \in 1 .. N => ks[k] <= L - (k - 1)}
  <2>1. 0 \in T
    OBVIOUS
  <2>2. ASSUME NEW k \in Nat, k \in T, k + 1 \in 1 .. N
        PROVE  ks[k + 1] <= L - k
    <3>1. ks[k + 1] \in 1 .. L
      BY <1>0, <2>2
    <3>2. CASE k = 0
      BY <1>0, <3>1, <3>2
    <3>3. CASE k # 0
      <4>1. k \in 1 .. N /\ ks[k] \in 1 .. L /\ ks[k] <= L - (k - 1)
        BY <1>0, <2>2, <3>3
      <4>2. ks[k + 1] < ks[k]
        BY <2>2, <4>1
      <4> QED BY <1>0, <3>1, <4>1, <4>2
    <3> QED BY <3>2, <3>3
  <2>3. \A k \in Nat : k \in T => k + 1 \in T
    BY <2>2
  <2>4. Nat \subseteq T
    <3> HIDE DEF T
    <3> QED BY <2>1, <2>3, NumbersByInduction
  <2> QED BY <1>0, <2>4
<1> DEFINE Left(k) ==
      \E m \in [1 .. (L - k) -> 1 .. L] :
        /\ fold(k) \in Seq(Entries) /\ Len(fold(k)) = L - k
        /\ \A c \in 1 .. (L - k) : fold(k)[c] = bs[m[c]]
        /\ \A c, d \in 1 .. (L - k) : c < d => m[c] < m[d]
        /\ \A p \in 1 .. L : (\E j \in 1 .. k : ks[j] = p) \/ \E c \in 1 .. (L - k) : m[c] = p
        /\ \A c \in 1 .. (L - k) : k = 0 \/ c < ks[k] => m[c] = c
<1>7. Left(0)
  <2> DEFINE m == [c \in 1 .. L |-> c]
  <2>1. m \in [1 .. (L - 0) -> 1 .. L] /\ fold(0) = bs /\ L - 0 = L
    BY <1>0, <1>5
  <2>2. \A c \in 1 .. L : m[c] = c
    OBVIOUS
  <2> HIDE DEF m
  <2>3. \A c \in 1 .. L : fold(0)[c] = bs[m[c]]
    BY <2>1, <2>2
  <2>4. \A c, d \in 1 .. L : c < d => m[c] < m[d]
    BY <2>2
  <2>5. \A p \in 1 .. L : \E c \in 1 .. L : m[c] = p
    BY <2>2
  <2>6. \A p \in 1 .. L : (\E j \in 1 .. 0 : ks[j] = p) \/ \E c \in 1 .. L : m[c] = p
    BY <2>5
  <2>7. fold(0) \in Seq(Entries) /\ Len(fold(0)) = L - 0
    BY <1>0, <2>1
  <2>8. \A c \in 1 .. L : 0 = 0 \/ c < ks[0] => m[c] = c
    BY <2>2
  <2> QED BY ONLY <2>1, <2>3, <2>4, <2>6, <2>7, <2>8, SMTT(30)
<1>8. ASSUME NEW k \in Nat, k + 1 <= N, Left(k)
      PROVE  Left(k + 1)
  <2> DEFINE p == ks[k + 1]
             n == L - k
  <2>1. PICK m \in [1 .. n -> 1 .. L] :
          /\ fold(k) \in Seq(Entries) /\ Len(fold(k)) = n
          /\ \A c \in 1 .. n : fold(k)[c] = bs[m[c]]
          /\ \A c, d \in 1 .. n : c < d => m[c] < m[d]
          /\ \A q \in 1 .. L : (\E j \in 1 .. k : ks[j] = q) \/ \E c \in 1 .. n : m[c] = q
          /\ \A c \in 1 .. n : k = 0 \/ c < ks[k] => m[c] = c
    BY <1>8
  <2>2. k + 1 \in 1 .. N /\ p \in 1 .. L /\ p <= n /\ n \in Nat /\ p \in 1 .. n
        /\ L - (k + 1) = n - 1
    <3>1. k + 1 \in 1 .. N /\ (k + 1) - 1 = k
      BY <1>8
    <3>2. p \in 1 .. L /\ p <= L - k
      BY <1>6, <3>1
    <3> QED BY <1>0, <3>1, <3>2
  <2>3. m[p] = p
    <3>1. k # 0 => p < ks[k]
      <4>1. k # 0 => k \in 1 .. N /\ k < k + 1
        BY <1>8
      <4> QED BY <2>2, <4>1
    <3> QED BY <2>1, <2>2, <3>1
  <2>4. fold(k + 1) = RemoveAt(fold(k), p)
    <3>1. fold(k + 1) = Drop(fold(k), p)
      <4>1. (k + 1) - 1 = k
        OBVIOUS
      <4> QED BY <1>5, <2>2, <4>1
    <3>2. p \in DOMAIN fold(k)
      BY <2>1, <2>2
    <3> QED BY <3>1, <3>2 DEF Drop
  <2> HIDE DEF n
  <2>5. /\ fold(k + 1) \in Seq(Entries) /\ Len(fold(k + 1)) = n - 1
        /\ \A c \in 1 .. (n - 1) :
             fold(k + 1)[c] = IF c < p THEN fold(k)[c] ELSE fold(k)[c + 1]
    <3> DEFINE v == fold(k)
    <3>1. v \in Seq(Entries) /\ Len(v) = n /\ p \in 1 .. Len(v) /\ fold(k + 1) = RemoveAt(v, p)
      BY <2>1, <2>2, <2>4
    <3> HIDE DEF v, p
    <3>2. /\ RemoveAt(v, p) \in Seq(Entries) /\ Len(RemoveAt(v, p)) = Len(v) - 1
          /\ \A c \in 1 .. (Len(v) - 1) : RemoveAt(v, p)[c] = IF c < p THEN v[c] ELSE v[c + 1]
      BY ONLY <3>1, RemovingOne
    <3> QED BY <3>1, <3>2 DEF v
  <2> DEFINE w == [c \in 1 .. (n - 1) |-> IF c < p THEN m[c] ELSE m[c + 1]]
  <2>6. \A c \in 1 .. (n - 1) : c \in 1 .. n /\ c + 1 \in 1 .. n
    BY <2>2
  <2>7. w \in [1 .. (n - 1) -> 1 .. L]
    BY <2>1, <2>6
  <2>8. \A c \in 1 .. (n - 1) : w[c] = IF c < p THEN m[c] ELSE m[c + 1]
    OBVIOUS
  <2> HIDE DEF w, p
  <2>9. ASSUME NEW c \in 1 .. (n - 1)
        PROVE  fold(k + 1)[c] = bs[w[c]]
    <3>1. c \in 1 .. n /\ c + 1 \in 1 .. n
      BY <2>6
    <3>2. fold(k)[c] = bs[m[c]] /\ fold(k)[c + 1] = bs[m[c + 1]]
      BY <2>1, <3>1
    <3>3. fold(k + 1)[c] = IF c < p THEN fold(k)[c] ELSE fold(k)[c + 1]
      BY <2>5
    <3>4. w[c] = IF c < p THEN m[c] ELSE m[c + 1]
      BY <2>8
    <3> QED BY <3>2, <3>3, <3>4
  <2>10. ASSUME NEW c \in 1 .. (n - 1), NEW d \in 1 .. (n - 1), c < d
         PROVE  w[c] < w[d]
    <3>1. CASE d < p
      BY <2>1, <2>2, <2>6, <2>8, <2>10, <3>1
    <3>2. CASE d >= p /\ c < p
      <4>1. c < d + 1 /\ c \in 1 .. n /\ d + 1 \in 1 .. n
        BY <2>6, <2>10
      <4>2. m[c] < m[d + 1]
        BY <2>1, <4>1
      <4>3. w[c] = m[c] /\ w[d] = m[d + 1]
        BY <2>2, <2>8, <3>2
      <4> QED BY <4>2, <4>3
    <3>3. CASE d >= p /\ c >= p
      <4>1. c + 1 < d + 1 /\ c + 1 \in 1 .. n /\ d + 1 \in 1 .. n
        BY <2>6, <2>10
      <4>2. m[c + 1] < m[d + 1]
        BY <2>1, <4>1
      <4>3. w[c] = m[c + 1] /\ w[d] = m[d + 1]
        BY <2>2, <2>8, <3>3
      <4> QED BY <4>2, <4>3
    <3> QED BY <2>2, <3>1, <3>2, <3>3
  <2>11. ASSUME NEW q \in 1 .. L
         PROVE  (\E j \in 1 .. (k + 1) : ks[j] = q) \/ \E c \in 1 .. (n - 1) : w[c] = q
    <3>1. CASE \E j \in 1 .. k : ks[j] = q
      <4>1. \A j \in 1 .. k : j \in 1 .. (k + 1)
        OBVIOUS
      <4> QED BY <3>1, <4>1
    <3>2. CASE \E c \in 1 .. n : m[c] = q
      <4>1. PICK c \in 1 .. n : m[c] = q
        BY <3>2
      <4>2. CASE c < p
        <5>1. c \in 1 .. (n - 1) /\ w[c] = q
          BY <2>2, <2>8, <4>1, <4>2
        <5> QED BY <5>1
      <4>3. CASE c = p
        <5>1. ks[k + 1] = q /\ k + 1 \in 1 .. (k + 1)
          BY <2>3, <4>1, <4>3 DEF p
        <5> QED BY <5>1
      <4>4. CASE c > p
        <5>1. c - 1 \in 1 .. (n - 1) /\ ~(c - 1 < p) /\ (c - 1) + 1 = c
          BY <2>2, <4>4
        <5>2. w[c - 1] = q
          BY <2>8, <4>1, <5>1
        <5> QED BY <5>1, <5>2
      <4> QED BY <2>2, <4>2, <4>3, <4>4
    <3> QED BY <2>1, <3>1, <3>2
  <2>12. ASSUME NEW c \in 1 .. (n - 1), c < ks[k + 1]
         PROVE  w[c] = c
    <3>1. c \in 1 .. n /\ c < p
      BY <2>6, <2>12 DEF p
    <3>2. k # 0 => c < ks[k]
      <4>1. k # 0 => k \in 1 .. N /\ k < k + 1
        BY <1>8
      <4>2. k # 0 => p < ks[k] /\ ks[k] \in 1 .. L
        BY <1>6, <2>2, <4>1 DEF p
      <4> QED BY <2>2, <3>1, <4>2
    <3> QED BY <2>1, <2>8, <3>1, <3>2
  <2>13. k + 1 # 0
    OBVIOUS
  <2>14. /\ w \in [1 .. (n - 1) -> 1 .. L]
         /\ fold(k + 1) \in Seq(Entries) /\ Len(fold(k + 1)) = n - 1
         /\ \A c \in 1 .. (n - 1) : fold(k + 1)[c] = bs[w[c]]
         /\ \A c, d \in 1 .. (n - 1) : c < d => w[c] < w[d]
         /\ \A q \in 1 .. L : (\E j \in 1 .. (k + 1) : ks[j] = q) \/ \E c \in 1 .. (n - 1) : w[c] = q
         /\ \A c \in 1 .. (n - 1) : k + 1 = 0 \/ c < ks[k + 1] => w[c] = c
    BY <2>5, <2>7, <2>9, <2>10, <2>11, <2>12, <2>13
  <2>15. L - (k + 1) = n - 1
    BY <2>2
  <2> SUFFICES \E x \in [1 .. (n - 1) -> 1 .. L] :
         /\ fold(k + 1) \in Seq(Entries) /\ Len(fold(k + 1)) = n - 1
         /\ \A c \in 1 .. (n - 1) : fold(k + 1)[c] = bs[x[c]]
         /\ \A c, d \in 1 .. (n - 1) : c < d => x[c] < x[d]
         /\ \A q \in 1 .. L : (\E j \in 1 .. (k + 1) : ks[j] = q) \/ \E c \in 1 .. (n - 1) : x[c] = q
         /\ \A c \in 1 .. (n - 1) : k + 1 = 0 \/ c < ks[k + 1] => x[c] = c
    BY <2>15
  <2> QED BY <2>14
<1>9. Left(N)
  <2> DEFINE T == {k \in Nat : k <= N => Left(k)}
  <2> HIDE DEF Left
  <2>1. 0 \in T
    BY <1>7
  <2>2. \A k \in Nat : k \in T => k + 1 \in T
    BY <1>8
  <2>3. N \in T
    <3> HIDE DEF T
    <3> QED BY <2>1, <2>2, NumbersByInduction
  <2> QED BY <2>3
<1>10. PICK m \in [1 .. (L - N) -> 1 .. L] :
         /\ fold(N) \in Seq(Entries) /\ Len(fold(N)) = L - N
         /\ \A c \in 1 .. (L - N) : fold(N)[c] = bs[m[c]]
         /\ \A c, d \in 1 .. (L - N) : c < d => m[c] < m[d]
         /\ \A p \in 1 .. L : (\E j \in 1 .. N : ks[j] = p) \/ \E c \in 1 .. (L - N) : m[c] = p
  BY <1>9
<1>11. DOMAIN fold(N) = 1 .. (L - N)
  BY <1>10
<1>12. \A c, d \in 1 .. (L - N) : m[c] = m[d] => c = d
  <2> SUFFICES ASSUME NEW c \in 1 .. (L - N), NEW d \in 1 .. (L - N), m[c] = m[d], c # d
               PROVE  FALSE
    OBVIOUS
  <2>1. c < d \/ d < c
    OBVIOUS
  <2>2. m[c] \in Nat /\ m[d] \in Nat
    <3>1. 1 .. L \subseteq Nat
      OBVIOUS
    <3> HIDE DEF L
    <3> QED BY <3>1
  <2> QED BY <1>10, <2>1, <2>2
<1> HIDE DEF L
<1>13. m \in [DOMAIN fold(N) -> DOMAIN bs]
  BY <1>0, <1>10, <1>11
<1>14. \A k \in 1 .. N : ks[k] <= Len(bs) - (k - 1)
  BY <1>6 DEF L
<1>15. /\ \A c, d \in DOMAIN fold(N) : m[c] = m[d] => c = d
       /\ \A c \in DOMAIN fold(N) : fold(N)[c] = bs[m[c]]
       /\ \A p \in DOMAIN bs : (\E k \in 1 .. N : ks[k] = p) \/ \E c \in DOMAIN fold(N) : m[c] = p
  BY <1>0, <1>10, <1>11, <1>12
<1>16. fold(N) \in Seq(Entries)
  BY <1>10
<1> DEFINE rest == fold(N)
<1>17. DropAll(bs, ks) = rest
  BY <1>4
<1> HIDE DEF rest
<1>18. Rest(rest, bs, ks, N)
  BY <1>13, <1>15, <1>16 DEF rest, Rest
<1> QED BY ONLY <1>14, <1>17, <1>18

\* The target and the tools of a boolean are found, each in a place of its own.
LEMMA ToolsAreApart ==
  ASSUME RunInv, Table, Building({"boolean"}), StructuralFailure(at) = "none", ~NamesOneTwice(at)
  PROVE  /\ IsFiniteSet(doc[at].tools) /\ doc[at].ref \notin doc[at].tools
         /\ \A n \in doc[at].tools \cup {doc[at].ref} :
              Find(bodies, n) \in DOMAIN bodies /\ n \in bodies[Find(bodies, n)].names
         /\ \A n, k \in doc[at].tools \cup {doc[at].ref} :
              Find(bodies, n) = Find(bodies, k) => n = k
<1> DEFINE all == doc[at].tools \cup {doc[at].ref}
           places == {Find(bodies, n) : n \in all}
           f == [n \in all |-> Find(bodies, n)]
<1>0. at \in DOMAIN doc /\ doc[at].type = "boolean" /\ WellDrafted(doc[at], at) /\ Gated /\ TableIsTyped
  BY TheFeatureAtHand, TheGateHolds DEF Building, Table
<1>1. IsFiniteSet(doc[at].tools) /\ doc[at].ref \notin doc[at].tools
  BY <1>0 DEF WellDrafted, Gated
<1>2. \A n \in all : Known(n)
  <2>1. ~Unavailable(at) /\ all = Asked(at)
    BY <1>0 DEF StructuralFailure, Asked
  <2> QED BY <2>1 DEF Unavailable
<1>3. \A n \in all : Find(bodies, n) \in DOMAIN bodies /\ n \in bodies[Find(bodies, n)].names
  BY <1>0, <1>2, FoundIsThere
<1>4. IsFiniteSet(all)
  BY <1>1, FS_AddElement
<1>5. f \in Surjection(all, places)
  BY DEF Surjection
<1>6. ~(Cardinality(places) < Cardinality(all))
  BY DEF NamesOneTwice
<1> HIDE DEF all, places, f
<1>7. /\ IsFiniteSet(places) /\ Cardinality(places) <= Cardinality(all)
      /\ Cardinality(places) = Cardinality(all) => f \in Injection(all, places)
  BY <1>4, <1>5, FS_Surjection
<1>8. Cardinality(places) \in Nat /\ Cardinality(all) \in Nat
  BY <1>4, <1>7, FS_CardinalityType
<1>9. f \in Injection(all, places)
  BY <1>6, <1>7, <1>8
<1>10. \A n, k \in all : Find(bodies, n) = Find(bodies, k) => n = k
  <2>1. \A n, k \in all : f[n] = f[k] => n = k
    BY <1>9 DEF Injection, IsInjective
  <2>2. \A n \in all : f[n] = Find(bodies, n)
    BY DEF f
  <2> QED BY <2>1, <2>2
<1> QED BY <1>1, <1>3, <1>10 DEF all

LEMMA IndicesDescend ==
  ASSUME NEW N, N = Cardinality(doc[at].tools), IsFiniteSet(doc[at].tools),
         bodies \in Seq(Entries),
         \A n \in doc[at].tools : Find(bodies, n) \in DOMAIN bodies,
         \A n, k \in doc[at].tools : Find(bodies, n) = Find(bodies, k) => n = k
  PROVE  /\ N \in Nat /\ ToolIndices(at) \in [1 .. N -> DOMAIN bodies]
         /\ \A k \in 1 .. N : \E n \in doc[at].tools : ToolIndices(at)[k] = Find(bodies, n)
         /\ \A j, k \in 1 .. N : j < k => ToolIndices(at)[k] < ToolIndices(at)[j]
<1> DEFINE tools == doc[at].tools
           L == Len(bodies)
           Above(b) == ToolsAbove(at, b)
           A(b) == Cardinality(Above(b))
           Here(b, k) == A(b) < k /\ k <= A(b - 1)
<1>0. L \in Nat /\ DOMAIN bodies = 1 .. L /\ N \in Nat /\ \A n \in tools : Find(bodies, n) \in 1 .. L
  BY FS_CardinalityType
<1>1. \A b : Above(b) \in SUBSET tools /\ Above(b) = {n \in tools : Find(bodies, n) > b}
  BY DEF ToolsAbove
<1> HIDE DEF Above
<1>2. \A b : IsFiniteSet(Above(b)) /\ A(b) \in Nat
  BY <1>1, FS_Subset, FS_CardinalityType
<1>3. A(0) = N
  <2>1. \A n \in tools : Find(bodies, n) > 0
    BY <1>0
  <2>2. Above(0) = tools
    BY <1>1, <2>1
  <2> QED BY <2>2
<1>4. A(L) = 0
  <2>1. Above(L) = {}
    BY <1>0, <1>1
  <2> QED BY <2>1, FS_EmptySet
<1>5. ASSUME NEW b \in Nat, NEW c \in Nat, b <= c
      PROVE  A(c) <= A(b)
  <2>1. Above(c) \in SUBSET Above(b)
    BY <1>0, <1>1, <1>5
  <2> QED BY <1>2, <2>1, FS_Subset
<1>6. ASSUME NEW b \in 1 .. L
      PROVE  /\ A(b - 1) <= A(b) + 1
             /\ A(b) < A(b - 1) => \E n \in tools : Find(bodies, n) = b
  <2>0. \A n \in tools : Find(bodies, n) > b - 1 => Find(bodies, n) > b \/ Find(bodies, n) = b
    BY <1>0
  <2>1. CASE \E n \in tools : Find(bodies, n) = b
    <3>1. PICK n \in tools : Find(bodies, n) = b
      BY <2>1
    <3>2. Above(b - 1) \in SUBSET (Above(b) \cup {n})
      BY <1>1, <2>0, <3>1
    <3>3. IsFiniteSet(Above(b) \cup {n}) /\ Cardinality(Above(b) \cup {n}) <= A(b) + 1
      <4>1. IsFiniteSet(Above(b)) /\ A(b) \in Nat
        BY <1>2
      <4>2. Cardinality(Above(b) \cup {n}) = IF n \in Above(b) THEN A(b) ELSE A(b) + 1
        BY <4>1, FS_AddElement
      <4> HIDE DEF A
      <4> QED BY <4>1, <4>2, FS_AddElement
    <3>4. A(b - 1) <= Cardinality(Above(b) \cup {n}) /\ Cardinality(Above(b) \cup {n}) \in Nat
      BY <3>2, <3>3, FS_Subset, FS_CardinalityType
    <3> QED BY <1>2, <2>1, <3>3, <3>4
  <2>2. CASE ~\E n \in tools : Find(bodies, n) = b
    <3>1. Above(b - 1) \in SUBSET Above(b)
      BY <1>1, <2>0, <2>2
    <3>2. A(b - 1) <= A(b)
      BY <1>2, <3>1, FS_Subset
    <3> QED BY <1>2, <3>2
  <2> QED BY <2>1, <2>2
<1> HIDE DEF A
<1>7. ASSUME NEW k \in 1 .. N
      PROVE  \E b \in 1 .. L : Here(b, k)
  <2> DEFINE S == {b \in 1 .. L : A(b) < k}
  <2>0. k \in Nat /\ 0 < k /\ k <= N
    BY <1>0
  <2>1. L \in S
    <3>1. L # 0
      BY <1>3, <1>4, <2>0
    <3> QED BY <1>0, <1>4, <2>0, <3>1
  <2>2. S \in SUBSET Nat
    OBVIOUS
  <2> HIDE DEF S
  <2>3. PICK b \in S : \A c \in S : b <= c
    BY <2>1, <2>2, LeastOfNat
  <2> USE DEF S
  <2>4. b \in 1 .. L /\ A(b) < k /\ b - 1 \in Nat /\ b - 1 \notin S
    BY <1>0, <2>3
  <2>5. k <= A(b - 1)
    <3>1. CASE b = 1
      BY <1>3, <2>0, <3>1
    <3>2. CASE b # 1
      <4>1. b - 1 \in 1 .. L /\ A(b - 1) \in Nat
        BY <1>0, <1>2, <2>4, <3>2 DEF A
      <4> QED BY <2>0, <2>4, <4>1
    <3> QED BY <3>1, <3>2
  <2> QED BY <2>4, <2>5
<1>8. ToolIndices(at) = [k \in 1 .. N |-> CHOOSE b \in DOMAIN bodies : Here(b, k)]
  BY DEF ToolIndices, A, Above
<1>9. ASSUME NEW k \in 1 .. N
      PROVE  ToolIndices(at)[k] \in 1 .. L /\ Here(ToolIndices(at)[k], k)
  <2> HIDE DEF Here
  <2>1. ToolIndices(at)[k] = CHOOSE b \in DOMAIN bodies : Here(b, k)
    BY <1>8
  <2> QED BY <1>0, <1>7, <2>1
<1>10. ToolIndices(at) \in [1 .. N -> DOMAIN bodies]
  <2> HIDE DEF Here
  <2> QED BY <1>0, <1>8, <1>9
<1>11. \A k \in 1 .. N : \E n \in tools : ToolIndices(at)[k] = Find(bodies, n)
  <2> TAKE k \in 1 .. N
  <2> DEFINE b == ToolIndices(at)[k]
  <2>1. b \in 1 .. L /\ A(b) < k /\ k <= A(b - 1)
    BY <1>9
  <2>2. b - 1 \in Nat /\ A(b) \in Nat /\ A(b - 1) \in Nat /\ k \in Nat
    BY <1>0, <1>2, <2>1 DEF A
  <2> HIDE DEF b
  <2>3. A(b) < A(b - 1)
    BY <2>1, <2>2
  <2> QED BY <1>6, <2>1, <2>3 DEF b
<1>12. ASSUME NEW j \in 1 .. N, NEW k \in 1 .. N, j < k
       PROVE  ToolIndices(at)[k] < ToolIndices(at)[j]
  <2> DEFINE b == ToolIndices(at)[j]
             c == ToolIndices(at)[k]
  <2>1. /\ b \in 1 .. L /\ A(b) < j /\ j <= A(b - 1)
        /\ c \in 1 .. L /\ A(c) < k /\ k <= A(c - 1)
    BY <1>9
  <2> SUFFICES ASSUME ~(c < b)
               PROVE  FALSE
    OBVIOUS
  <2> HIDE DEF b, c
  <2>2. b \in Nat /\ c \in Nat /\ b - 1 \in Nat /\ c - 1 \in Nat /\ b <= c /\ j \in Nat /\ k \in Nat
        /\ A(b) \in Nat /\ A(c) \in Nat /\ A(b - 1) \in Nat /\ A(c - 1) \in Nat
    BY <1>0, <1>2, <2>1 DEF A
  <2>3. CASE b = c
    <3>1. A(b - 1) <= A(b) + 1
      BY <1>6, <2>1
    <3> QED BY <1>12, <2>1, <2>2, <2>3, <3>1
  <2>4. CASE b # c
    <3>1. b <= c - 1
      BY <2>2, <2>4
    <3>2. A(c - 1) <= A(b)
      BY <1>5, <2>2, <3>1
    <3> QED BY <1>12, <2>1, <2>2, <3>2
  <2> QED BY <2>3, <2>4
<1> QED BY <1>0, <1>10, <1>11, <1>12

LEMMA JoinedBodies ==
  ASSUME bodies \in Seq(Entries), at \in Nat, Find(bodies, doc[at].ref) \in DOMAIN bodies,
         \A n \in doc[at].tools : Find(bodies, n) \in DOMAIN bodies
  PROVE  LET t == Find(bodies, doc[at].ref)
             taken == UNION {bodies[Find(bodies, n)].made : n \in doc[at].tools}
         IN  /\ Joined(at) \in Seq(Entries) /\ DOMAIN Joined(at) = DOMAIN bodies
             /\ Len(Joined(at)) = Len(bodies)
             /\ \A b \in DOMAIN bodies :
                  /\ Joined(at)[b].names = bodies[b].names
                  /\ Joined(at)[b].made = bodies[b].made \cup (IF b = t THEN taken \cup {at} ELSE {})
<1> DEFINE t == Find(bodies, doc[at].ref)
           taken == UNION {bodies[Find(bodies, n)].made : n \in doc[at].tools}
           new == [bodies[t] EXCEPT !.made = @ \cup taken \cup {at}]
<1>1. taken \in SUBSET Nat
  <2>1. \A n \in doc[at].tools : bodies[Find(bodies, n)] \in Entries
    OBVIOUS
  <2>2. \A n \in doc[at].tools : bodies[Find(bodies, n)].made \in SUBSET Nat
    BY <2>1 DEF Entries
  <2> QED BY <2>2
<1>2. Joined(at) = [bodies EXCEPT ![t] = new]
  BY DEF Joined
<1>3. bodies[t] \in Entries
  OBVIOUS
<1> HIDE DEF t, taken
<1>4. new \in Entries /\ new.names = bodies[t].names /\ new.made = bodies[t].made \cup taken \cup {at}
  BY <1>1, <1>3 DEF Entries
<1> HIDE DEF new
<1>5. t \in DOMAIN bodies
  BY DEF t
<1>6. Joined(at) \in Seq(Entries) /\ DOMAIN Joined(at) = DOMAIN bodies
      /\ Len(Joined(at)) = Len(bodies)
  BY <1>2, <1>4, <1>5
<1>7. ASSUME NEW b \in DOMAIN bodies
      PROVE  /\ Joined(at)[b].names = bodies[b].names
             /\ Joined(at)[b].made = bodies[b].made \cup (IF b = t THEN taken \cup {at} ELSE {})
  <2>1. CASE b = t
    BY <1>2, <1>4, <1>5, <2>1
  <2>2. CASE b # t
    BY <1>2, <2>2
  <2> QED BY <2>1, <2>2
<1> QED BY <1>6, <1>7 DEF t, taken

\* Of the bodies a boolean leaves, each is one it found; the tools may be gone.
Survivors(left, m) ==
  /\ m \in [DOMAIN left -> DOMAIN bodies]
  /\ \A c, d \in DOMAIN left : m[c] = m[d] => c = d
  /\ \A c \in DOMAIN left : left[c] = Joined(at)[m[c]]
  /\ \A p \in DOMAIN bodies :
       \/ \E c \in DOMAIN left : m[c] = p
       \/ ~doc[at].keep /\ \E n \in doc[at].tools : Find(bodies, n) = p

LEMMA CombinedBodies ==
  ASSUME RunInv, Table, Building({"boolean"}), StructuralFailure(at) = "none", ~NamesOneTwice(at)
  PROVE  /\ ~Overrun(at)
         /\ Consumed(at) \in Seq(Entries)
         /\ \E m : Survivors(Consumed(at), m)
<1> DEFINE N == Cardinality(doc[at].tools)
           J == Joined(at)
           ks == ToolIndices(at)
           left == Consumed(at)
<1>0. bodies \in Seq(Entries) /\ at \in Nat
  BY DEF Table, TableIsTyped, RunInv
<1>1. /\ IsFiniteSet(doc[at].tools)
      /\ \A n \in doc[at].tools \cup {doc[at].ref} : Find(bodies, n) \in DOMAIN bodies
      /\ \A n, k \in doc[at].tools \cup {doc[at].ref} :
           Find(bodies, n) = Find(bodies, k) => n = k
  BY ToolsAreApart
<1>2. J \in Seq(Entries) /\ DOMAIN J = DOMAIN bodies /\ Len(J) = Len(bodies)
  BY <1>0, <1>1, JoinedBodies
<1>3. /\ N \in Nat /\ ks \in [1 .. N -> DOMAIN bodies]
      /\ \A k \in 1 .. N : \E n \in doc[at].tools : ks[k] = Find(bodies, n)
      /\ \A j, k \in 1 .. N : j < k => ks[k] < ks[j]
  BY <1>0, <1>1, IndicesDescend
<1>4. CASE doc[at].keep
  <2>1. left = J /\ ~Overrun(at)
    BY <1>4 DEF Consumed, Overrun
  <2> DEFINE m == [c \in DOMAIN bodies |-> c]
  <2>2. m \in [DOMAIN bodies -> DOMAIN bodies] /\ \A c \in DOMAIN bodies : m[c] = c
    OBVIOUS
  <2> HIDE DEF m
  <2>3. Survivors(J, m)
    BY <1>2, <2>2 DEF Survivors
  <2> QED BY <1>2, <2>1, <2>3
<1>5. CASE ~doc[at].keep
  <2>1. left = DropAll(J, ks)
    BY <1>5 DEF Consumed
  <2>2. DOMAIN ks = 1 .. N
    BY <1>3
  <2>3. Overrun(at) <=> \E k \in DOMAIN ks : ks[k] > Len(bodies) - (k - 1)
    BY <1>5 DEF Overrun
  <2> HIDE DEF J, ks, N, left
  <2>4. ks \in [1 .. N -> DOMAIN J]
    BY <1>2, <1>3
  <2>5. (\A k \in 1 .. N : ks[k] <= Len(J) - (k - 1)) /\ Rest(DropAll(J, ks), J, ks, N)
    BY <1>2, <1>3, <2>4, DropsInTurn
  <2>6. ~Overrun(at)
    <3>1. ASSUME NEW k \in 1 .. N
          PROVE  ~(ks[k] > Len(bodies) - (k - 1))
      <4>1. ks[k] \in Nat /\ ks[k] <= Len(bodies) - (k - 1) /\ Len(bodies) \in Nat /\ k \in Nat
        BY <1>0, <1>2, <1>3, <2>5
      <4> QED BY <4>1
    <3> QED BY <2>2, <2>3, <3>1
  <2>7. Rest(left, J, ks, N)
    BY <2>1, <2>5
  <2>8. PICK m \in [DOMAIN left -> DOMAIN J] :
          /\ \A c, d \in DOMAIN left : m[c] = m[d] => c = d
          /\ \A c \in DOMAIN left : left[c] = J[m[c]]
          /\ \A p \in DOMAIN J : (\E k \in 1 .. N : ks[k] = p) \/ \E c \in DOMAIN left : m[c] = p
    BY <2>7 DEF Rest
  <2>9. \A p \in DOMAIN bodies :
           \/ \E c \in DOMAIN left : m[c] = p
           \/ ~doc[at].keep /\ \E n \in doc[at].tools : Find(bodies, n) = p
    BY <1>2, <1>3, <1>5, <2>8
  <2>10. left \in Seq(Entries) /\ m \in [DOMAIN left -> DOMAIN bodies]
    BY <1>2, <2>7, <2>8 DEF Rest
  <2>11. Survivors(left, m)
    BY <2>8, <2>9, <2>10 DEF Survivors, J
  <2> QED BY <2>6, <2>10, <2>11 DEF left
<1> QED BY <1>4, <1>5

LEMMA TargetStays ==
  ASSUME RunInv, Table, Building({"boolean"}), StructuralFailure(at) = "none", ~NamesOneTwice(at)
  PROVE  /\ ~Overrun(at)
         /\ Holding(Consumed(at), doc[at].ref) # {}
<1> DEFINE left == Consumed(at)
           r == doc[at].ref
<1>1. ~Overrun(at) /\ left \in Seq(Entries)
  BY CombinedBodies
<1>2. PICK m : Survivors(left, m)
  BY CombinedBodies
<1>3. /\ Find(bodies, r) \in DOMAIN bodies /\ r \in bodies[Find(bodies, r)].names
      /\ \A n \in doc[at].tools : Find(bodies, n) \in DOMAIN bodies /\ Find(bodies, n) # Find(bodies, r)
  BY ToolsAreApart
<1>4. PICK c \in DOMAIN left : m[c] = Find(bodies, r)
  BY <1>2, <1>3 DEF Survivors
<1>5. Joined(at)[Find(bodies, r)].names = bodies[Find(bodies, r)].names
  BY <1>3, JoinedBodies DEF RunInv, Table, TableIsTyped
<1>6. r \in left[c].names
  BY <1>2, <1>3, <1>4, <1>5 DEF Survivors
<1> QED BY <1>1, <1>4, <1>6 DEF Holding

LEMMA CombiningKeepsTheTable ==
  ASSUME RunInv, Table, Combine, ~NamesOneTwice(at)
  PROVE  Table'
<1> DEFINE r == doc[at].ref
           tt == Find(bodies, r)
           taken == UNION {bodies[Find(bodies, n)].made : n \in doc[at].tools}
<1>0. /\ Building({"boolean"}) /\ StructuralFailure(at) = "none"
      /\ at \in DOMAIN doc /\ doc[at].on /\ doc[at].type = "boolean" /\ Gated
      /\ bodies \in Seq(Entries) /\ at \in Nat
  BY TheFeatureAtHand, TheGateHolds DEF Combine, Building, Fits, RunInv, Table, TableIsTyped
<1>1. /\ bodies' = Consumed(at) /\ active' = Find(bodies', r) /\ Holding(bodies', r) # {}
      /\ at' = at + 1 /\ UNCHANGED <<doc, planes>>
  BY DEF Combine, Onward, written
<1>2. /\ tt \in DOMAIN bodies
      /\ \A n \in doc[at].tools : Find(bodies, n) \in DOMAIN bodies /\ Find(bodies, n) # tt
  BY <1>0, ToolsAreApart
<1>3. \A b \in DOMAIN bodies :
        /\ Joined(at)[b].names = bodies[b].names
        /\ Joined(at)[b].made = bodies[b].made \cup (IF b = tt THEN taken \cup {at} ELSE {})
  BY <1>0, <1>2, JoinedBodies
<1>4. bodies' \in Seq(Entries)
  BY <1>0, <1>1, CombinedBodies
<1>5. PICK m : Survivors(bodies', m)
  BY <1>0, <1>1, CombinedBodies
<1>6. PICK t \in DOMAIN bodies' : m[t] = tt
  BY <1>2, <1>5 DEF Survivors
<1>7. active' \in 0 .. Len(bodies')
  <2>1. active' \in DOMAIN bodies'
    BY <1>1, <1>4, FindingOne
  <2> QED BY <1>4, <2>1
<1>8. \A n \in doc[at].tools : bodies[Find(bodies, n)].made \subseteq taken
  OBVIOUS
<1>9. \A j \in taken : \E n \in doc[at].tools : j \in bodies[Find(bodies, n)].made
  OBVIOUS
<1>10. 0 \notin DOMAIN bodies
  BY <1>0
<1>11. Fresh = {} /\ doc[at].type \notin Repeatable
  BY <1>0 DEF Fresh, Repeatable
<1> HIDE DEF tt, taken, r
<1>12. ASSUME NEW c \in DOMAIN bodies'
       PROVE  /\ bodies'[c].names = bodies[m[c]].names
              /\ bodies'[c].made = bodies[m[c]].made \cup (IF c = t THEN taken \cup {at} ELSE {})
  <2>1. m[c] = tt <=> c = t
    BY <1>5, <1>6 DEF Survivors
  <2> QED BY <1>3, <1>5, <2>1 DEF Survivors
<1>13. at \in bodies'[t].made /\ taken \subseteq bodies'[t].made
  BY <1>12
<1>14. ASSUME NEW c \in DOMAIN bodies'
       PROVE  /\ m[c] \in DOMAIN bodies \cup {0}
              /\ bodies'[c].names = Former(m, c) \cup (IF c = t THEN Fresh ELSE {})
              /\ m[c] # 0 => bodies[m[c]].made \subseteq bodies'[c].made
              /\ \A j \in bodies'[c].made :
                   \/ j = at /\ c = t
                   \/ \E b \in DOMAIN bodies :
                        j \in bodies[b].made /\ bodies[b].made \subseteq bodies'[c].made
  <2>1. m[c] \in DOMAIN bodies /\ m[c] # 0
    BY <1>5, <1>10 DEF Survivors
  <2>2. bodies'[c].names = Former(m, c) \cup (IF c = t THEN Fresh ELSE {})
    BY <1>11, <1>12, <2>1 DEF Former
  <2>3. bodies[m[c]].made \subseteq bodies'[c].made
    BY <1>12
  <2>4. ASSUME NEW j \in bodies'[c].made
        PROVE  \/ j = at /\ c = t
               \/ \E b \in DOMAIN bodies :
                    j \in bodies[b].made /\ bodies[b].made \subseteq bodies'[c].made
    <3>1. CASE j \in bodies[m[c]].made
      BY <2>1, <2>3, <3>1
    <3>2. CASE c = t /\ j \in taken
      <4>1. PICK n \in doc[at].tools : j \in bodies[Find(bodies, n)].made
        BY <1>9, <3>2
      <4>2. Find(bodies, n) \in DOMAIN bodies /\ bodies[Find(bodies, n)].made \subseteq bodies'[c].made
        BY <1>2, <1>8, <1>13, <3>2
      <4> QED BY <4>1, <4>2
    <3> QED BY <1>12, <3>1, <3>2
  <2> QED BY <2>1, <2>2, <2>3, <2>4
<1>15. ASSUME NEW b \in DOMAIN bodies
       PROVE  \/ \E c \in DOMAIN bodies' : m[c] = b
              \/ /\ doc[at].type = "boolean" /\ ~doc[at].keep
                 /\ bodies[b].made \subseteq bodies'[t].made
  BY <1>0, <1>5, <1>8, <1>13 DEF Survivors
<1>16. Carried(m, t)
  BY <1>4, <1>5, <1>7, <1>11, <1>13, <1>14, <1>15 DEF Carried, Survivors
<1>17. doc[at].type # "datum"
  BY <1>0
<1> QED BY <1>0, <1>1, <1>16, <1>17, CarryingKeepsTheTable

-----------------------------------------------------------------------------
(* Every step keeps the table, as long as no boolean names a body twice.   *)

TableInv == ~twice => Table

LEMMA BuildingKeepsTheTable ==
  ASSUME RunInv, Table, ~twice',
         Skip \/ PlaceDatum \/ StartBody \/ AddToBody \/ ChangeBody \/ Combine
  PROVE  Table'
<1>0. at \in DOMAIN doc /\ Gated /\ stage = "build" /\ UNCHANGED doc /\ at' = at + 1
  <2>1. stage = "build" /\ at <= Len(doc) /\ UNCHANGED doc /\ at' = at + 1
    BY DEF Skip, PlaceDatum, StartBody, AddToBody, ChangeBody, Combine, Building, Onward, written
  <2> QED BY <2>1, TheFeatureAtHand, TheGateHolds
<1>1. CASE Skip
  BY <1>0, <1>1, PassingKeepsTheTable DEF Skip, built
<1>2. CASE PlaceDatum
  BY <1>0, <1>2, PassingKeepsTheTable DEF PlaceDatum, Building
<1>3. CASE StartBody
  BY <1>3, StartingKeepsTheTable
<1>4. CASE AddToBody
  <2>1. Building({"solid", "cut", "blend", "pattern"}) /\ StructuralFailure(at) = "none"
        /\ Target(at) # 0 /\ Touch(at, Target(at), Fresh) /\ UNCHANGED planes
    BY <1>4 DEF AddToBody, Building, Fits, Fresh
  <2> QED BY <1>0, <2>1, TouchingKeepsTheTable
<1>5. CASE ChangeBody
  <2>1. Building({"solid", "cut", "blend", "pattern"}) /\ StructuralFailure(at) = "none"
        /\ Touch(at, Target(at), Fresh) /\ UNCHANGED planes /\ doc[at].type # "solid"
    BY <1>5 DEF ChangeBody, Building, Fits, Fresh
  <2>2. Target(at) # 0
    BY <2>1, TheBodyWorkedOn
  <2> QED BY <1>0, <2>1, <2>2, TouchingKeepsTheTable
<1>6. CASE Combine
  <2>1. ~NamesOneTwice(at)
    BY <1>6 DEF Combine
  <2> QED BY <1>6, <2>1, CombiningKeepsTheTable
<1> QED BY <1>1, <1>2, <1>3, <1>4, <1>5, <1>6

LEMMA IdlingKeepsTheTable ==
  ASSUME Table, UNCHANGED <<doc, at, bodies, active, planes>>
  PROVE  Table'
<1>1. \A j : Repeated(j)' = Repeated(j)
  BY DEF Repeated
<1> QED BY <1>1 DEF Table, TableIsTyped, NamesApart, NamesEarlier, PlanesStay, MaterialKept, NamesStay,
          NamesHoldTheirWork, PatternsFollow, Have, EatenWith, Material

LEMMA TableInvHolds == Spec => []TableInv
<1>1. ASSUME at = 1, bodies = <<>>, active = 0, doc \in Seq(Features)
      PROVE  Table
  <2>1. DOMAIN bodies = {} /\ Len(bodies) = 0 /\ bodies \in Seq(Entries)
    BY <1>1
  <2>2. \A j \in DOMAIN doc : ~Have(j)
    BY <1>1 DEF Have
  <2>3. Material = {}
    BY <1>1 DEF Material
  <2> QED BY <1>1, <2>1, <2>2, <2>3
          DEF Table, TableIsTyped, NamesApart, NamesEarlier, PlanesStay, MaterialKept, NamesStay,
              NamesHoldTheirWork, PatternsFollow
<1>2. Init => TableInv
  <2> SUFFICES ASSUME Init
               PROVE  Table
    BY DEF TableInv
  <2>1. at = 1 /\ bodies = <<>> /\ active = 0 /\ doc \in Seq(Features)
    BY DEF Init
  <2> QED BY <1>1, <2>1
<1>3. RunInv /\ RunInv' /\ TableInv /\ [Next]_vars => TableInv'
  <2> SUFFICES ASSUME RunInv, RunInv', TableInv, [Next]_vars, ~twice'
               PROVE  Table'
    BY DEF TableInv
  <2>0. ~twice
    BY DEF Next, vars, WriteFeature, Submit, Skip, PlaceDatum, StartBody, AddToBody, ChangeBody,
         Combine, FailFeature, RefuseSweep, RefuseFeature, KernelFails, LoseTarget, Overflow, Empty, FailExport,
         Deliver, Refused, built
  <2>1. Table
    BY <2>0 DEF TableInv
  <2>2. CASE WriteFeature
    <3>1. stage' = "write"
      BY <2>2 DEF WriteFeature
    <3>2. at' = 1 /\ bodies' = <<>> /\ active' = 0 /\ doc' \in Seq(Features)
      BY <3>1 DEF RunInv, Written
    <3>3. DOMAIN bodies' = {} /\ Len(bodies') = 0 /\ bodies' \in Seq(Entries)
      BY <3>2
    <3>4. \A j \in DOMAIN doc' : ~Have(j)'
      BY <3>2 DEF Have
    <3>5. Material' = {}
      BY <3>2 DEF Material
    <3> QED BY <3>2, <3>3, <3>4, <3>5
            DEF Table, TableIsTyped, NamesApart, NamesEarlier, PlanesStay, MaterialKept, NamesStay,
                NamesHoldTheirWork, PatternsFollow
  <2>3. CASE Skip \/ PlaceDatum \/ StartBody \/ AddToBody \/ ChangeBody \/ Combine
    BY <2>1, <2>3, BuildingKeepsTheTable
  <2>4. CASE Submit \/ FailFeature \/ RefuseSweep \/ RefuseFeature \/ KernelFails \/ LoseTarget \/ Overflow
             \/ Empty \/ FailExport \/ Deliver \/ UNCHANGED vars
    <3>1. UNCHANGED <<doc, at, bodies, active, planes>>
      BY <2>4 DEF vars, Submit, FailFeature, RefuseSweep, RefuseFeature, KernelFails, LoseTarget, Overflow, Empty,
           FailExport, Deliver, Refused, built, written
    <3> QED BY <2>1, <3>1, IdlingKeepsTheTable
  <2> QED BY <2>2, <2>3, <2>4 DEF Next
<1> QED BY <1>2, <1>3, RunInvHolds, PTL DEF Spec

\* Whatever a run has built is in some body, unless a boolean named one body twice.
THEOREM NothingBuiltIsLost == Spec => []MaterialIsKept
<1>1. TableInv => MaterialIsKept
  BY DEF TableInv, Table, MaterialIsKept
<1> QED BY <1>1, TableInvHolds, PTL

\* A pattern of a feature that says which body it works on is in the body its
\* source is in.
THEOREM PatternsJoinNamedBodies == Spec => []NamedBodiesGetTheirPatterns
<1>1. TableInv => NamedBodiesGetTheirPatterns
  BY DEF TableInv, Table, PatternsFollow, NamedBodiesGetTheirPatterns
<1> QED BY <1>1, TableInvHolds, PTL

-----------------------------------------------------------------------------
(* What an accepted document can fail for.                                 *)

LEMMA MissingBodiesAreGone ==
  ASSUME Gated, Table, at \in DOMAIN doc, NEW i \in DOMAIN doc, i <= at,
         NEW n \in ResultRefs(doc[i]) \cup SelectedBodies(doc[i])
  PROVE  /\ ~Known(n) => Gone(n, "solid")
         /\ n \notin planes => Gone(n, "datum")
<1> DEFINE p == Producer(doc, n)
<1>0. DOMAIN doc \subseteq Nat
  BY DEF Gated, Written
<1>1. p \in DOMAIN doc /\ p < i /\ doc[p].name = n /\ n # Unnamed
  BY DEF Gated, ReferencesExist, ResultRefs, SelectedBodies
<1>2. p < at
  BY <1>0, <1>1
<1> HIDE DEF p
<1>3. ASSUME doc[p].on, doc[p].type = "solid", ~Known(n)
      PROVE  Gone(n, "solid")
  <2>1. PICK b \in DOMAIN bodies :
          \/ n \in bodies[b].names /\ p \in bodies[b].made
          \/ EatenWith(p, b)
    BY <1>1, <1>2, <1>3 DEF Table, NamesStay, Have
  <2>2. EatenWith(p, b)
    BY <1>3, <2>1 DEF Known, Holding
  <2> QED BY <2>2 DEF EatenWith, Gone, p
<1>4. ASSUME doc[p].on, doc[p].type = "datum"
      PROVE  n \in planes
  BY <1>1, <1>2, <1>4 DEF Table, PlanesStay, Have
<1> QED BY <1>3, <1>4 DEF Gone, p

LEMMA MissingPlanesAreLeftOut ==
  ASSUME Gated, Table, at \in DOMAIN doc, NEW i \in DOMAIN doc, i <= at,
         PlaneFails(at, doc[i].plane)
  PROVE  LeftOut(i)
<1> DEFINE n == doc[i].plane.name
<1>1. WellDrafted(doc[i], i)
  BY DEF Gated, Written
<1>2. CASE doc[i].plane.kind = "datum" /\ n \notin planes
  <2>1. n \in ResultRefs(doc[i])
    BY <1>1, <1>2 DEF WellDrafted, ResultRefs
  <2> QED BY <1>2, <2>1, MissingBodiesAreGone DEF LeftOut
<1>3. CASE doc[i].plane.kind = "face" /\ ~Known(n)
  <2>1. n \in SelectedBodies(doc[i])
    BY <1>1, <1>3 DEF WellDrafted, SelectedBodies
  <2> QED BY <1>3, <2>1, MissingBodiesAreGone DEF LeftOut
<1> QED BY <1>2, <1>3 DEF PlaneFails

LEMMA MissingIsLeftOut ==
  ASSUME RunInv, Table, Building(AllTypes), Unavailable(at)
  PROVE  \E i \in {at} \cup {Repeated(at)} : LeftOut(i)
<1>0. at \in DOMAIN doc /\ Gated /\ at \in Nat /\ at <= at
  BY TheFeatureAtHand, TheGateHolds DEF Building, RunInv
<1>1. doc[at].type = "pattern" =>
        /\ Repeated(at) \in DOMAIN doc /\ Repeated(at) <= at
        /\ doc[Repeated(at)].type \in {"solid", "cut"}
  BY <1>0, RepeatedIsBefore DEF Repeatable
<1>2. ASSUME NEW n \in Asked(at), ~Known(n)
      PROVE  \E i \in {at} \cup {Repeated(at)} : LeftOut(i)
  <2>1. CASE doc[at].type = "pattern"
    <3> DEFINE q == Repeated(at)
    <3>1. n = doc[q].ref /\ n # Unnamed
      BY <1>2, <2>1 DEF Asked
    <3>2. n \in ResultRefs(doc[q])
      BY <1>1, <2>1, <3>1 DEF ResultRefs
    <3>3. Gone(n, "solid")
      BY <1>0, <1>1, <1>2, <2>1, <3>2, MissingBodiesAreGone
    <3>4. LeftOut(q)
      BY <1>1, <2>1, <3>1, <3>3 DEF LeftOut
    <3> QED BY <3>4
  <2>2. CASE doc[at].type \in {"solid", "cut", "blend", "boolean"}
    <3>0. WellDrafted(doc[at], at)
      BY <1>0 DEF Gated, Written
    <3>1. n \in ({doc[at].ref} \cup doc[at].tools) \ {Unnamed}
      BY <1>2, <2>2, <3>0 DEF Asked, WellDrafted
    <3>2. doc[at].type # "boolean" => n = doc[at].ref
      BY <1>2, <2>2 DEF Asked
    <3>3. n \in ResultRefs(doc[at]) \cup SelectedBodies(doc[at])
      BY <2>2, <3>1, <3>2 DEF ResultRefs, SelectedBodies
    <3>4. Gone(n, "solid")
      BY <1>0, <1>2, <3>3, MissingBodiesAreGone
    <3>5. LeftOut(at)
      BY <2>2, <3>1, <3>4 DEF LeftOut
    <3> QED BY <3>5
  <2> QED BY <1>2, <2>1, <2>2 DEF Asked
<1>3. CASE doc[at].type = "datum" /\ doc[at].ref \notin planes \cup {Unnamed}
  <2>1. doc[at].ref \in ResultRefs(doc[at])
    BY <1>3 DEF ResultRefs
  <2>2. Gone(doc[at].ref, "datum")
    BY <1>0, <1>3, <2>1, MissingBodiesAreGone
  <2>3. LeftOut(at)
    BY <1>3, <2>2 DEF LeftOut
  <2> QED BY <2>3
<1>4. CASE PlaneFails(at, doc[at].plane)
  BY <1>0, <1>4, MissingPlanesAreLeftOut
<1>5. CASE doc[at].type = "pattern" /\ PlaneFails(at, doc[Repeated(at)].plane)
  BY <1>0, <1>1, <1>5, MissingPlanesAreLeftOut
<1> QED BY <1>2, <1>3, <1>4, <1>5 DEF Unavailable

\* No feature of an accepted document reads a parameter that is not there, or
\* gives a name that is taken.
LEMMA AcceptedIsSound ==
  ASSUME RunInv, Table, Building(AllTypes)
  PROVE  ~Unresolved(at) /\ ~NameTaken(at)
<1>1. at \in DOMAIN doc /\ doc[at].on /\ Gated /\ Accepted(doc, params, expects)
  BY TheFeatureAtHand, TheGateHolds DEF Building, RunInv
<1>2. ~Unresolved(at)
  BY <1>1 DEF Accepted, ParameterIssue, Unresolved
<1>3. ASSUME NameTaken(at)
      PROVE  FALSE
  <2>1. PICK n \in NamesOf(at) : Known(n)
    BY <1>3 DEF NameTaken
  <2>2. n = doc[at].name /\ n # Unnamed
    BY DEF NamesOf
  <2>3. \A b \in DOMAIN bodies : n \notin bodies[b].names
    BY <1>1, <2>2, NewNames
  <2> QED BY <2>1, <2>3 DEF Known, Holding
<1> QED BY <1>2, <1>3

\* What the gate lets through and a build does not, of every document: an accepted
\* one misses no parameter and a result only where the document left it out, is
\* found invalid only at an extrusion that states no reach, and ends in an untyped
\* failure only where the kernel makes a tool.
THEOREM AcceptedDocumentsBuild == Spec => []AcceptedFailsWhereKnown
<1>1. Init => AcceptedFailsWhereKnown
  BY DEF Init, AcceptedFailsWhereKnown
<1>2. RunInv /\ TableInv /\ RunInv' /\ TableInv' /\ AcceptedFailsWhereKnown /\ [Next]_vars
        => AcceptedFailsWhereKnown'
  <2> SUFFICES ASSUME RunInv, TableInv, RunInv', TableInv', AcceptedFailsWhereKnown, [Next]_vars
               PROVE  AcceptedFailsWhereKnown'
    OBVIOUS
  <2>1. CASE stage' # "over"
    <3>1. code' = "none"
      BY <2>1 DEF RunInv
    <3> QED BY <3>1 DEF AcceptedFailsWhereKnown
  <2>2. ASSUME code' \notin OwnAnswers
        PROVE  AcceptedFailsWhereKnown'
    BY <2>2 DEF AcceptedFailsWhereKnown, OwnAnswers
  <2>3. ASSUME code' \in {"COMPLETED", "SWEEP_BEND_TIGHTER_THAN_PROFILE"}
        PROVE  AcceptedFailsWhereKnown'
    BY <2>3 DEF AcceptedFailsWhereKnown
  <2>4. CASE Submit
    <3>1. code' = "CAD_IR_INVALID" => ~Accepted(doc, params, expects)'
      BY <2>4 DEF Submit, Answer, RunInv
    <3>2. code' \in {"none", "CAD_IR_INVALID", "CAPABILITY_DISABLED"}
      BY <2>4 DEF Submit, Answer, RunInv
    <3> QED BY <3>1, <3>2 DEF AcceptedFailsWhereKnown
  <2>5. CASE WriteFeature \/ Skip \/ PlaceDatum \/ StartBody \/ AddToBody \/ ChangeBody \/ Combine
    <3>1. stage' = stage /\ stage # "over"
      BY <2>5 DEF WriteFeature, Skip, PlaceDatum, StartBody, AddToBody, ChangeBody, Combine, Building,
           Onward
    <3> QED BY <2>1, <3>1
  <2>6. CASE FailFeature
    <3> SUFFICES ASSUME ~twice'
                 PROVE  AcceptedFailsWhereKnown'
      BY DEF AcceptedFailsWhereKnown
    <3>1. Building(AllTypes) /\ code' = StructuralFailure(at) /\ UNCHANGED <<doc, at, bodies, twice>>
      BY <2>6 DEF FailFeature, Refused, Answer, written, built
    <3>2. Table
      BY <3>1 DEF TableInv
    <3>3. ~Unresolved(at) /\ ~NameTaken(at)
      BY <3>1, <3>2, AcceptedIsSound
    <3>4. CASE Unavailable(at)
      <4>1. PICK i \in {at} \cup {Repeated(at)} : LeftOut(i)
        BY <3>1, <3>2, <3>4, MissingIsLeftOut
      <4>2. Repeated(at)' = Repeated(at) /\ LeftOut(i)' /\ at' = at
        BY <3>1, <4>1 DEF Repeated, LeftOut, Gone
      <4>3. code' = "FEATURE_RESULT_UNAVAILABLE"
        BY <3>1, <3>4 DEF StructuralFailure
      <4> QED BY <4>1, <4>2, <4>3 DEF AcceptedFailsWhereKnown
    <3>5. CASE ~Unavailable(at)
      <4>1. \/ code' \in {"UNSUPPORTED_FEATURE_SET", "UNSUPPORTED_FEATURE", "none"}
            \/ code' = "CAD_IR_INVALID" /\ NoNumber(at)
        BY <3>1, <3>3, <3>5 DEF StructuralFailure
      <4>2. NoNumber(at) => StatesNoReach(doc[at])'
        BY <3>1 DEF NoNumber, StatesNoReach
      <4> QED BY <2>2, <4>1, <4>2 DEF OwnAnswers, AcceptedFailsWhereKnown
    <3> QED BY <3>4, <3>5
  <2>7. CASE RefuseSweep
    BY <2>3, <2>7 DEF RefuseSweep, Refused, Answer
  <2>8. CASE RefuseFeature \/ KernelFails
    <3>1. Building(AllTypes) /\ UNCHANGED <<doc, at>>
      BY <2>8 DEF RefuseFeature, KernelFails, Refusable, Refused, Building, AllTypes, written
    <3>2. CASE RefuseFeature
      <4>1. code' \in Refusals(at)
        BY <3>2 DEF RefuseFeature, Refused, Answer
      <4> QED BY <2>2, <3>1, <4>1, RefusalsAreOthers
    <3>3. CASE KernelFails
      <4>1. code' = "Traceback" /\ doc'[at'].type # "boolean"
        BY <3>1, <3>3 DEF KernelFails, Refusable, Building, Refused, Answer
      <4> QED BY <4>1 DEF AcceptedFailsWhereKnown
    <3> QED BY <2>8, <3>2, <3>3
  <2>9. CASE LoseTarget \/ Overflow
    <3> SUFFICES ASSUME ~twice'
                 PROVE  FALSE
      BY DEF AcceptedFailsWhereKnown
    <3>1. Building({"boolean"}) /\ StructuralFailure(at) = "none" /\ ~twice /\ ~NamesOneTwice(at)
      BY <2>9 DEF LoseTarget, Overflow, Fits
    <3>2. Table
      BY <3>1 DEF TableInv
    <3>3. ~Overrun(at) /\ Holding(Consumed(at), doc[at].ref) # {}
      BY <3>1, <3>2, TargetStays
    <3> QED BY <2>9, <3>3 DEF LoseTarget, Overflow
  <2>10. CASE Empty \/ FailExport \/ Deliver
    <3>1. code' \in {"UNSUPPORTED_FEATURE_SET", "EXPORT_FAILED", "COMPLETED", "GEOMETRY_VALIDATION_FAILED"}
      BY <2>10 DEF Empty, FailExport, Deliver, Refused, Answer
    <3> QED BY <2>2, <2>3, <3>1 DEF OwnAnswers
  <2>11. CASE UNCHANGED vars
    <3>1. UNCHANGED <<doc, params, expects, at, bodies, twice, code>> /\ Repeated(at)' = Repeated(at)
      BY <2>11 DEF vars, Repeated
    <3>2. Accepted(doc, params, expects)' = Accepted(doc, params, expects)
      BY <3>1
    <3>3. \A i : LeftOut(i)' = LeftOut(i)
      BY <3>1 DEF LeftOut, Gone
    <3> QED BY <3>1, <3>2, <3>3 DEF AcceptedFailsWhereKnown
  <2> QED BY <2>4, <2>5, <2>6, <2>7, <2>8, <2>9, <2>10, <2>11 DEF Next
<1> QED BY <1>1, <1>2, RunInvHolds, TableInvHolds, PTL DEF Spec
=============================================================================
