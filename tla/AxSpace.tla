------------------------------ MODULE AxSpace ------------------------------
(***************************************************************************)
(* The codec of Ax contract 2 (templates/_shared/ax_space.py): which spaces*)
(* and rules Ax can be given, how a point is written for Ax and read back, *)
(* and which points Ax is left to choose from.                             *)
(*                                                                         *)
(* Ax knows parameter i of the (tightened) space as number i, the root     *)
(* that holds a tree together as number 0, and a choice by its position.   *)
(* An arm is a function from those numbers to values.  Optional values are *)
(* sets of at most one element.  Log scales, which Ax refuses in linear    *)
(* rules, and the limit of 65536 on enumeration are left out.              *)
(***************************************************************************)
EXTENDS Constraints

\* apply_bound_tightening, and the number Ax knows a parameter by.
Definitions(params, rules) == [i \in DOMAIN params |-> Tightened(params[i], rules)]
Index(defs, n) == CHOOSE i \in DOMAIN defs : defs[i].name = n

Conditional(p) == DOMAIN p.when # {}
Controller(p) == CHOOSE c \in DOMAIN p.when : TRUE
Calling(p) == CHOOSE v \in p.when[Controller(p)] : TRUE
Controllers(defs) == UNION {DOMAIN defs[i].when : i \in DOMAIN defs}

(* entry["values"] and entry["bounds"]: tokens for a categorical parameter,*)
(* numbers for the others.                                                 *)
Token(p, v) == IF p.type = "categorical" THEN v - p.lo ELSE v
Meaning(p, token) == IF p.type = "categorical" THEN token + p.lo ELSE token
Enumerated(p, defs) == p.type \notin Numeric \/ p.name \in Controllers(defs)

---------------------------------------------------------------------------
(* build_codec, or its ValueError *)

\* A tree: one controller, one value of it that is left after tightening, and
\* integers that control are few enough to be listed.
TreeAccepted(defs) ==
  \A i \in DOMAIN defs : Conditional(defs[i]) =>
    LET p == defs[i]
        above == Named(defs, Controller(p))
    IN  /\ Cardinality(DOMAIN p.when) = 1 /\ Cardinality(p.when[Controller(p)]) = 1
        /\ above.type = "int" => above.lo = above.hi \/ above.hi - above.lo < 256
        /\ Calling(p) \in Declared(above)

LinearRules(rules) == {r \in ToSet(rules) : r.kind = "linear"}
Fixed(p) == p.lo = p.hi
Weighing(defs, r) == {n \in DOMAIN r.terms : ~Fixed(Named(defs, n)) /\ r.terms[n] # 0}

\* What fixed parameters contribute is moved to the other side.
Remaining(defs, r) ==
  LET held == {n \in DOMAIN r.terms : Fixed(Named(defs, n))}
  IN  r.rhs - SumFunction([n \in held |-> r.terms[n] * Named(defs, n).lo])

TermsAccepted(defs, r) ==
  /\ \A n \in DOMAIN r.terms : ~Conditional(Named(defs, n))
  /\ \A n \in Weighing(defs, r) : ~Enumerated(Named(defs, n), defs)
  /\ Weighing(defs, r) = {} =>
       ~LinearViolated(r, [n \in DOMAIN r.terms |-> Named(defs, n).lo])

CodecAccepted(defs, rules) ==
  TreeAccepted(defs) /\ \A r \in LinearRules(rules) : TermsAccepted(defs, r)

Root(defs) == IF \E i \in DOMAIN defs : Conditional(defs[i]) THEN [i \in {0} |-> 0] ELSE NoPoint

\* The values of its controllers that a parameter is only there with.
Ancestry(defs, p) ==
  LET above[q \in ToSet(defs)] ==
        IF ~Conditional(q) THEN NoPoint
        ELSE WithParam(above[Named(defs, Controller(q))], Controller(q), Calling(q))
  IN  above[p]

\* The rest of a forbidden combination is there whenever the parameter is.
Decided(defs, r, p) ==
  LET given == Ancestry(defs, p)
  IN  /\ r.kind = "forbidden" /\ p.name \in DOMAIN r.when
      /\ \A n \in DOMAIN r.when \ {p.name} : n \in DOMAIN given /\ given[n] \in r.when[n]

Controls(defs, p, v) ==
  \E i \in DOMAIN defs :
    Conditional(defs[i]) /\ Controller(defs[i]) = p.name /\ Calling(defs[i]) = v

(* _generation_choices: rule by rule, what it excludes is not offered to Ax*)
(* unless it controls another parameter or nothing would be left.          *)
Offered(defs, rules, p) ==
  LET Prune(left, r) ==
        LET kept == {v \in left : Controls(defs, p, v) \/ v \notin r.when[p.name]}
        IN  IF Enumerated(p, defs) /\ Decided(defs, r, p) /\ kept # {} THEN kept ELSE left
  IN  {Token(p, v) : v \in FoldLeft(Prune, Declared(p), rules)}

---------------------------------------------------------------------------
(* encode: exactly the active parameters, each with a value of its own *)
Arm(defs, at) ==
  IF \/ DOMAIN at # {n \in Names(defs) : IsActive(Named(defs, n), at)}
     \/ \E n \in DOMAIN at : at[n] \notin Declared(Named(defs, n))
  THEN {}
  ELSE {[i \in DOMAIN Root(defs) \cup {Index(defs, n) : n \in DOMAIN at} |->
           IF i = 0 THEN 0 ELSE Token(defs[i], at[defs[i].name])]}

(* decode: what it reads must be written the same way *)
ReadBack(defs, arm) ==
  LET at == [n \in {defs[i].name : i \in DOMAIN arm \ {0}} |->
               Meaning(Named(defs, n), arm[Index(defs, n)])]
  IN  IF Arm(defs, at) = {arm} THEN {at} ELSE {}

\* The arms Ax has: the parameters that the root and the values of other
\* parameters call for, within its parameter constraints.
Reached(defs, arm, i) ==
  Conditional(defs[i]) =>
    LET c == Index(defs, Controller(defs[i]))
    IN  c \in DOMAIN arm /\ arm[c] = Token(defs[c], Calling(defs[i]))

Obeys(defs, arm, r) ==
  LET lhs == SumFunction([n \in Weighing(defs, r) |-> r.terms[n] * arm[Index(defs, n)]])
  IN  IF r.op = "<=" THEN lhs <= Remaining(defs, r) ELSE lhs >= Remaining(defs, r)

Arms(defs, rules) ==
  LET Extend(arms, n) ==
        LET i == Index(defs, n)
        IN  UNION {IF Reached(defs, arm, i)
                   THEN {WithParam(arm, i, t) : t \in Offered(defs, rules, defs[i])}
                   ELSE {arm} : arm \in arms}
  IN  {arm \in FoldLeft(Extend, {Root(defs)}, Order(defs)) :
         \A r \in LinearRules(rules) : Obeys(defs, arm, r)}

(* finite_points: parameter by parameter, given up as soon as a rule is    *)
(* broken; none if a range is continuous.                                  *)
FinitePoints(defs, rules) ==
  LET Walk(points, n) ==
        LET p == Named(defs, n)
        IN  {at \in UNION {IF IsActive(p, at) THEN {WithParam(at, n, v) : v \in Declared(p)} ELSE {at} :
                             at \in points} : Feasible(at, rules)}
  IN  FoldLeft(Walk, {NoPoint}, Order(defs))

Enumerable(defs) == \A i \in DOMAIN defs : defs[i].type = "float" => Fixed(defs[i])

---------------------------------------------------------------------------
\* The points of the space within its rules.
PointsWithin(defs, rules) ==
  {at \in UNION {[some -> UNION {Declared(p) : p \in ToSet(defs)}] : some \in SUBSET Names(defs)} :
     /\ \A p \in ToSet(defs) : p.name \in DOMAIN at <=>
          \A c \in DOMAIN p.when : c \in DOMAIN at /\ at[c] \in p.when[c]
     /\ \A n \in DOMAIN at : at[n] \in Declared(Named(defs, n))
     /\ Feasible(at, rules)}

\* ax_space.py: every feasible point can be written for Ax, read back and chosen
\* by it; whatever Ax chooses can be read, and has to be abandoned only for a
\* forbidden combination; and the points counted are the feasible ones.
CodecIsExact(params, rules) ==
  LET defs == Definitions(params, rules)
      points == PointsWithin(defs, rules)
  IN  CodecAccepted(defs, rules) =>
        /\ \A at \in points : \E arm \in Arm(defs, at) :
             arm \in Arms(defs, rules) /\ ReadBack(defs, arm) = {at}
        /\ \A arm \in Arms(defs, rules) :
             /\ ReadBack(defs, arm) # {}
             /\ \A at \in ReadBack(defs, arm) : \A i \in Violations(at, rules) :
                  rules[i].kind = "forbidden"
        /\ Enumerable(defs) => FinitePoints(defs, rules) = points
=============================================================================
