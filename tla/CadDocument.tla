---------------------------- MODULE CadDocument ----------------------------
(***************************************************************************)
(* A CAD-IR document and what the canonical validator says of it           *)
(* (packages/cad-ir/cad_ir/canonical_validator.py, canonical.py).          *)
(*                                                                         *)
(* A feature is known by its place in the list.  A result is a name the    *)
(* document gives to what a feature makes: a plane if the feature is a     *)
(* datum, a body if it is a solid or a cut.  Dimensions, contours and      *)
(* other numbers are left out, but for whether an extrusion states how far *)
(* it goes; a parameter is what a feature reads one number from.           *)
(*                                                                         *)
(*   solid   extrude, revolve, sweep and loft (tool)                       *)
(*   cut     the same four, removing                                       *)
(*   blend   fillet, chamfer, shell and draft: a selector on one body      *)
(***************************************************************************)
EXTENDS Integers, Sequences, FiniteSets, SweepPath

CONSTANTS Types,           \* bound: the types a feature may have, place by place
          Detail           \* bound: documents up to this length also vary in
                           \* parameters, expectations, capabilities and geometry

ASSUME DocumentAssumption ==
  /\ Types \in Seq(SUBSET {"solid", "cut", "datum", "blend", "pattern", "boolean"})
  /\ Detail \in Nat

Unnamed == 0

\* Two lengths, the open one with the status UNRESOLVED, and a number of holes.
Parameters == {"stated", "open", "count"}
Dimensional == {"stated", "open"}      \* _DIMENSIONAL: lengths and angles

Base == [kind |-> "base", name |-> Unnamed]
Plane(kind, name) == [kind |-> kind, name |-> name]

\* A feature; what a type has no field for keeps the value below.  param is read in
\* construction geometry only if guide says so.  An extrusion states its length (a
\* cut through all does), the body that has the face it stops at, or neither.  The
\* plane of a pattern is the one it mirrors about.
Blank == [type |-> "solid", tool |-> "extrude", on |-> TRUE, name |-> Unnamed, deps |-> {},
          ref |-> Unnamed, new |-> FALSE, plane |-> Base, tools |-> {},
          keep |-> FALSE, param |-> "none", guide |-> FALSE, length |-> TRUE,
          stop |-> Unnamed, path |-> <<>>, profile |-> Round]

(***************************************************************************)
(* What a feature refers to.  ref is a source_body, the base of a datum,   *)
(* the from_result of a selector, the target of a boolean or, for a        *)
(* pattern, the feature it repeats.                                        *)
(***************************************************************************)
ProducersOf(doc, name) ==
  {i \in DOMAIN doc : doc[i].name = name /\ name # Unnamed}

\* The first feature to declare the name is taken for its producer.
Producer(doc, name) ==
  CHOOSE i \in ProducersOf(doc, name) : \A j \in ProducersOf(doc, name) : i <= j

\* A ResultRef among the inputs.  A selector is not one: it names its body in
\* from_result, which is a plain identifier.
ResultRefs(f) ==
  ({IF f.type \in {"solid", "cut", "datum", "boolean"} THEN f.ref ELSE Unnamed}
     \cup {IF f.plane.kind = "datum" THEN f.plane.name ELSE Unnamed}
     \cup f.tools) \ {Unnamed}

SelectedBodies(f) ==
  ({IF f.type = "blend" THEN f.ref ELSE Unnamed}
     \cup {IF f.plane.kind = "face" THEN f.plane.name ELSE Unnamed}
     \cup {f.stop}) \ {Unnamed}

\* The features a document has to declare as dependencies of its i-th.
Needed(doc, i) ==
  {Producer(doc, n) : n \in {m \in ResultRefs(doc[i]) : ProducersOf(doc, m) # {}}}
    \cup (IF doc[i].type = "pattern" THEN {doc[i].ref} ELSE {})

(***************************************************************************)
(* The issues of a document.  The schema comes first: its objects refuse   *)
(* to be made.                                                             *)
(***************************************************************************)
StatesNoReach(f) == f.tool = "extrude" /\ ~f.length /\ f.stop = Unnamed

\* _validate_reach refuses two answers to how far an extrusion goes, and of a cut
\* the schema refuses none as well.
SchemaAccepts(f) ==
  /\ ~(f.length /\ f.stop # Unnamed)
  /\ f.type = "cut" => ~StatesNoReach(f)
  /\ f.type = "solid" => ~(f.new /\ f.ref # Unnamed)
  /\ f.type = "boolean" => f.tools # {} /\ f.ref \notin f.tools
  /\ f.type = "datum" => f.name # Unnamed

GraphIssue(doc, i) ==
  \E d \in doc[i].deps : d = i \/ d \notin DOMAIN doc \/ d > i

\* Wrong on purpose: two features may give one name.
ResultIssueLoose(doc, i) ==
  \E n \in ResultRefs(doc[i]) :
     ProducersOf(doc, n) = {} \/ Producer(doc, n) >= i \/ Producer(doc, n) \notin doc[i].deps

ResultIssue(doc, i) ==
  \/ doc[i].name # Unnamed /\ Cardinality(ProducersOf(doc, doc[i].name)) > 1
  \/ \E n \in ResultRefs(doc[i]) :
        \/ ProducersOf(doc, n) = {}
        \/ Producer(doc, n) >= i
        \/ Producer(doc, n) \notin doc[i].deps

Repeatable == {"solid", "cut", "pattern"}

PatternIssue(doc, i) ==
  /\ doc[i].type = "pattern"
  /\ \/ doc[i].ref \notin DOMAIN doc
     \/ doc[i].ref >= i
     \/ doc[i].ref \notin doc[i].deps
     \/ doc[i].on /\ ~doc[doc[i].ref].on
     \/ doc[doc[i].ref].type \notin Repeatable

BodyIssue(doc, i) ==
  doc[i].new /\ ~(doc[i].type = "solid" /\ doc[i].name # Unnamed)

SelectorIssue(doc, i) ==
  \E n \in SelectedBodies(doc[i]) :
     LET bodies == {j \in ProducersOf(doc, n) : doc[j].type # "datum"}
     IN  bodies = {} \/ \A j \in bodies : j >= i

FeatureIssue(doc, i) ==
  \/ ~SchemaAccepts(doc[i])
  \/ GraphIssue(doc, i) \/ ResultIssue(doc, i) \/ PatternIssue(doc, i)
  \/ BodyIssue(doc, i) \/ SelectorIssue(doc, i)

\* An enabled feature reads what is declared and known, in construction geometry
\* too; a dimension that is declared drives some feature, a disabled one included.
ParameterIssue(doc, params) ==
  \/ \E i \in DOMAIN doc :
        doc[i].on /\ doc[i].param # "none" /\ doc[i].param \notin params \ {"open"}
  \/ \E p \in params \cap Dimensional :
        \A i \in DOMAIN doc : doc[i].param # p \/ doc[i].guide

\* Wrong on purpose: a document need not say how many bodies it makes.
ExpectationIssueOfSize(expects) ==
  \A k \in DOMAIN expects : expects[k].kind # "bounding_box"

ExpectationIssue(expects) ==
  \E kind \in {"bounding_box", "body_count"} :
     \A k \in DOMAIN expects : expects[k].kind # kind

FeaturesAccepted(doc) == \A i \in DOMAIN doc : ~FeatureIssue(doc, i)

Accepted(doc, params, expects) ==
  /\ doc # <<>>
  /\ FeaturesAccepted(doc)
  /\ ~ParameterIssue(doc, params)
  /\ ~ExpectationIssue(expects)
=============================================================================
