---------------------------- MODULE SearchSpace ----------------------------
(***************************************************************************)
(* The parameter space (templates/_shared/search_space.py).                *)
(*                                                                         *)
(* A parameter is [name, type, lo, hi, when].  Values are integers: a float*)
(* lies on a grid, a Boolean is 0 or 1, a categorical value is the number  *)
(* of the choice.  `when` maps a controlling parameter to the values that  *)
(* make this parameter active.  A point is a function from the names of    *)
(* its parameters to values.                                               *)
(***************************************************************************)
EXTENDS Integers, FiniteSets, SequencesExt

Numeric == {"int", "float"}
Types == Numeric \cup {"bool", "categorical"}
NoPoint == <<>>                      \* the point without parameters

\* A point with one more parameter.
WithParam(point, name, v) ==
  [n \in DOMAIN point \cup {name} |-> IF n = name THEN v ELSE point[n]]

Names(params) == {p.name : p \in ToSet(params)}
Named(params, n) == CHOOSE p \in ToSet(params) : p.name = n
Declared(p) == p.lo..p.hi

(* _validate_when_dependencies: known controllers other than the parameter *)
(* itself, never a float, values the controller can have, and no cycle.    *)
ConditionsFit(params) ==
  \A p \in ToSet(params) : \A c \in DOMAIN p.when :
    /\ c \in Names(params) \ {p.name}
    /\ Named(params, c).type # "float"
    /\ p.when[c] # {} /\ p.when[c] \subseteq Declared(Named(params, c))

Acyclic(params) ==
  \A S \in (SUBSET Names(params)) \ {{}} :
    \E n \in S : DOMAIN Named(params, n).when \cap S = {}

(* normalize_search_space *)
SpaceAccepted(params) ==
  /\ params # <<>>
  /\ Cardinality(Names(params)) = Len(params)
  /\ \A p \in ToSet(params) : p.type \in Types /\ p.lo <= p.hi
  /\ ConditionsFit(params)
  /\ Acyclic(params)

(* _ordered_parameters: depth first, so that controllers come first.       *)
Visit(params, first, before) ==
  LET visit[p \in Names(params) \X Seq(Names(params))] ==
        LET n == p[1]
            done == p[2]
        IN  IF n \in ToSet(done) THEN done
            ELSE Append(FoldSet(LAMBDA c, seen : visit[<<c, seen>>],
                                done, DOMAIN Named(params, n).when), n)
  IN  visit[<<first, before>>]

Order(params) == FoldLeft(LAMBDA done, p : Visit(params, p.name, done), <<>>, params)
OrderedParams(params) ==
  [i \in DOMAIN Order(params) |-> Named(params, Order(params)[i])]

\* Mutation: a controller the point does not have is no obstacle.
IsActive_Absent(p, point) ==
  \A c \in DOMAIN p.when : c \in DOMAIN point => point[c] \in p.when[c]

(* is_parameter_active *)
IsActive(p, point) ==
  \A c \in DOMAIN p.when : c \in DOMAIN point /\ point[c] \in p.when[c]

(* omit_inactive_params and canonicalize_conditional_params: one pass, and *)
(* activity is judged by the payload as it came, not by what is kept.      *)
Canonical(point, params) ==
  LET Kept == {n \in DOMAIN point :
                 n \in Names(params) => IsActive(Named(params, n), point)}
  IN  [n \in Kept |-> point[n]]

\* How many controllers lie above a parameter.
Depth(params, name) ==
  LET depth[n \in Names(params)] ==
        LET Above == DOMAIN Named(params, n).when
        IN  IF Above = {} THEN 0 ELSE 1 + Max({depth[c] : c \in Above})
  IN  depth[name]

(* normalize_numeric_point: a segment per parameter, in the order of the   *)
(* sampler.  Numbers count grid steps above the lower bound and are clamped*)
(* to the declared range, a choice is one-hot, an inactive segment zero.   *)
Clamp(v, low, high) == IF v < low THEN low ELSE IF v > high THEN high ELSE v

Width(p) == IF p.type = "categorical" THEN p.hi - p.lo + 1 ELSE 1

Segment(p, point) ==
  IF ~IsActive(p, point) THEN [i \in 1..Width(p) |-> 0]
  ELSE IF p.type = "categorical"
       THEN [i \in 1..Width(p) |-> IF i = point[p.name] - p.lo + 1 THEN 1 ELSE 0]
       ELSE <<Clamp(point[p.name] - p.lo, 0, p.hi - p.lo)>>

Encode(point, params) ==
  LET inOrder == OrderedParams(params)
  IN  FlattenSeq([i \in DOMAIN inOrder |-> Segment(inOrder[i], point)])

(* denormalize_numeric_point: walks the vector in the same order; which    *)
(* parameters are active follows from those already decoded.               *)
Decoded(p, segment) ==
  IF p.type = "categorical"
  THEN p.lo - 1 + (CHOOSE i \in DOMAIN segment :
                     /\ \A j \in DOMAIN segment : segment[j] <= segment[i]
                     /\ \A j \in 1..i - 1 : segment[j] < segment[i])
  ELSE p.lo + Clamp(segment[1], 0, p.hi - p.lo)

Decode(vector, params) ==
  LET Take(seen, p) ==
        [offset |-> seen.offset + Width(p),
         point  |-> IF IsActive(p, seen.point)
                    THEN WithParam(seen.point, p.name,
                           Decoded(p, SubSeq(vector, seen.offset + 1,
                                             seen.offset + Width(p))))
                    ELSE seen.point]
  IN  FoldLeft(Take, [offset |-> 0, point |-> NoPoint], OrderedParams(params)).point
=============================================================================
