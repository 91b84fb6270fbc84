----------------------------- MODULE SearchSpace ----------------------------
(***************************************************************************)
(* Mixed search spaces (tuning/models.py): unit coordinates decoded into   *)
(* candidates, candidates encoded again for the searchers that learn from  *)
(* them, conditions, constraints and the grid.                             *)
(*                                                                         *)
(* A parameter is a record [kind, low, high, step, choices, on, curve].    *)
(* Numbers are in units of 1 / Grain; step 0 is no step, and a float has a *)
(* step, if a fine one; on is {} or one <<earlier parameter, value>> it is *)
(* active at; curve is <<>> on a linear scale.  On a logarithmic one it is *)
(* a rising sequence from 0: of the coordinates 0, 1/m, ..., 1 the k-th    *)
(* lies at curve[k] / curve[m + 1] of the range.  Arithmetic is exact.     *)
(***************************************************************************)
EXTENDS Integers, Sequences, FiniteSets

CONSTANTS Spaces,        \* sequences of parameters with a set of constraints
          Grain,         \* units to the whole number
          Divisions,     \* a coordinate is a fraction n / Divisions
          Retries        \* draws of sample() before it gives up

VARIABLES space,
          candidate,     \* <<>> or <<the candidate drawn last>>
          tries

spaceVars == <<space, candidate, tries>>

\* what the validators of a parameter and of a space let through, of integer
\* parameters only those with whole bounds
CurveIs(curve) ==
  /\ Len(curve) \in Nat \ {0} /\ DOMAIN curve = 1..Len(curve)
  /\ curve[Len(curve)] \in Nat \ {0}
  /\ \A k \in DOMAIN curve : curve[k] \in 0..curve[Len(curve)]

ParameterIs(p, i) ==
  /\ p.kind \in {"bool", "categorical", "int", "float"}
  /\ p.kind = "categorical" => Len(p.choices) \in Nat \ {0} /\ DOMAIN p.choices = 1..Len(p.choices)
  /\ p.kind \in {"int", "float"} =>
       /\ p.low \in Int /\ p.high \in Int /\ p.low < p.high
       /\ p.step \in Nat /\ (p.kind = "float" => p.step > 0)
       /\ p.kind = "int" => p.low % Grain = 0 /\ p.high % Grain = 0
       /\ p.curve = <<>> \/ (CurveIs(p.curve) /\ p.low > 0)
  /\ \A on \in p.on : on[1] \in 1..(i - 1)

SpaceAssumption ==
  /\ Grain \in Nat \ {0} /\ Divisions \in Nat \ {0} /\ Retries \in Nat
  /\ \A s \in Spaces :
       /\ Len(s.parameters) \in Nat /\ DOMAIN s.parameters = 1..Len(s.parameters)
       /\ \A i \in DOMAIN s.parameters : ParameterIs(s.parameters[i], i)

\* a coordinate n / d, and the one that leads to the place n / d of the range
Unit(n, d) == [n |-> n, d |-> d, place |-> FALSE]
PlaceOf(n, d) == [n |-> n, d |-> d, place |-> TRUE]
Half == Unit(1, 2)
Index == DOMAIN space.parameters
Param(i) == space.parameters[i]

\* round() of n / d: halves go to the even neighbour
RoundHalfEven(n, d) ==
  LET q == n \div d
      r == n % d
  IN  IF 2 * r < d \/ (2 * r = d /\ q % 2 = 0) THEN q ELSE q + 1

\* the place in the range of p that a coordinate leads to
Place(p, u) ==
  IF p.curve = <<>> \/ u.place THEN u
  ELSE LET top == Len(p.curve)
       IN  PlaceOf(p.curve[(u.n * (top - 1)) \div u.d + 1], p.curve[top])

Within(p, x) == IF x > p.high THEN p.high ELSE x

\* round(n / d) of an integer parameter
Whole(n, d) == Grain * RoundHalfEven(n, d * Grain)

Stepped(p, at) == Within(p, p.low + p.step * RoundHalfEven(at.n * (p.high - p.low), at.d * p.step))

Numeric(p, at) ==
  CASE p.kind = "int" /\ p.step = 0 -> Whole(p.low * at.d + at.n * (p.high - p.low), at.d)
    [] p.kind = "int" /\ p.step # 0 -> Whole(Stepped(p, at), 1)
    [] OTHER -> Stepped(p, at)

FromUnit(p, u) ==
  CASE p.kind = "bool" -> IF 2 * u.n >= u.d THEN 1 ELSE 0
    [] p.kind = "categorical" ->
         LET n == Len(p.choices)
             at == (u.n * n) \div u.d
         IN  p.choices[(IF at < n THEN at ELSE n - 1) + 1]
    [] OTHER -> Numeric(p, Place(p, u))

Allowed(p, x) ==
  CASE p.kind = "bool" -> TRUE
    [] p.kind = "categorical" -> \E i \in DOMAIN p.choices : x = p.choices[i]
    [] OTHER -> x >= p.low /\ x <= p.high

ChoiceToUnit(p, x) ==
  LET last == Len(p.choices) - 1
  IN  Unit((CHOOSE i \in DOMAIN p.choices : p.choices[i] = x) - 1, IF last = 0 THEN 1 ELSE last)

\* Mutant: values are encoded on a linear scale whatever the scale.
ToUnitLinear(p, x) ==
  CASE p.kind = "bool" -> Unit(x, 1)
    [] p.kind = "categorical" -> ChoiceToUnit(p, x)
    [] OTHER -> Unit(x - p.low, p.high - p.low)

ToUnit(p, x) ==
  CASE p.kind = "bool" -> Unit(x, 1)
    [] p.kind = "categorical" -> ChoiceToUnit(p, x)
    [] OTHER -> PlaceOf(x - p.low, p.high - p.low)

(***************************************************************************)
(* Candidates are functions from the indices of their active parameters.   *)
(***************************************************************************)
Active(p, c) == \A on \in p.on : on[1] \in DOMAIN c /\ c[on[1]] = on[2]

\* a constraint <<i, j>> is "x_i <= x_j"; a name that is missing makes it false,
\* as does any other KeyError of evaluate_expression
Holds(constraint, c) ==
  constraint[1] \in DOMAIN c /\ constraint[2] \in DOMAIN c /\ c[constraint[1]] <= c[constraint[2]]

Valid(c) ==
  /\ DOMAIN c \subseteq Index
  /\ \A i \in Index : (i \in DOMAIN c) <=> Active(Param(i), [j \in DOMAIN c \cap 1..(i - 1) |-> c[j]])
  /\ \A i \in DOMAIN c : Allowed(Param(i), c[i])
  /\ \A constraint \in space.constraints : Holds(constraint, c)

\* parameters in their order; one whose condition fails on those before is left out
Assembled(values) ==
  LET active == CHOOSE D \in SUBSET Index :
        \A i \in Index : i \in D <=> Active(Param(i), [j \in D \cap 1..(i - 1) |-> values[j]])
  IN  [i \in active |-> values[i]]

Decode(vector) == Assembled([i \in Index |-> FromUnit(Param(i), vector[i])])
Encode(c) == [i \in Index |-> IF i \in DOMAIN c THEN ToUnit(Param(i), c[i]) ELSE Half]

\* Mutant: the last point of a lattice is left out.
InteriorSteps(p) == (p.high - p.low) \div p.step - 1
Steps(p) == (p.high - p.low) \div p.step

\* values in their order, those that coincide each at its own place
GridValues(p) ==
  CASE p.kind = "bool" -> <<0, 1>>
    [] p.kind = "categorical" -> p.choices
    [] p.kind \in {"int", "float"} /\ p.step = 0 -> [k \in 1..3 |-> FromUnit(p, Unit(k - 1, 2))]
    [] OTHER -> [k \in 1..(Steps(p) + 1) |->
                   FromUnit(p, Unit(k - 1, IF Steps(p) = 0 THEN 1 ELSE Steps(p)))]

\* the grid is the valid ones among the products, by their places
Products ==
  {at \in [Index -> UNION {DOMAIN GridValues(Param(i)) : i \in Index}] :
     \A i \in Index : at[i] \in DOMAIN GridValues(Param(i))}
Combination(at) == Assembled([i \in Index |-> GridValues(Param(i))[at[i]]])
Grid == {at \in Products : Valid(Combination(at))}

(***************************************************************************)
(* sample(): draws until a candidate is valid, at most Retries times.      *)
(***************************************************************************)
Init == space \in Spaces /\ candidate = <<>> /\ tries = 0

Draw(vector) ==
  /\ candidate = <<>> /\ tries < Retries
  /\ candidate' = IF Valid(Decode(vector)) THEN <<Decode(vector)>> ELSE <<>>
  /\ tries' = tries + 1
  /\ UNCHANGED space

Next == \E vector \in [Index -> {Unit(n, Divisions) : n \in 0..Divisions}] : Draw(vector)

Spec == Init /\ [][Next]_spaceVars

(***************************************************************************)
(* Properties.                                                             *)
(***************************************************************************)
TypeOK == space \in Spaces /\ Len(candidate) <= 1 /\ tries \in 0..Retries

\* The grid searcher encodes a grid point and decodes it again before the trial
\* gets it, and every adaptive searcher learns from encoded parameters: what was
\* drawn or is on the grid survives the way through the unit cube unchanged.
RoundTrip ==
  /\ tries = 0 => \A at \in Grid : Decode(Encode(Combination(at))) = Combination(at)
  /\ \A i \in DOMAIN candidate : Decode(Encode(candidate[i])) = candidate[i]

\* Parameters whose values can be listed beforehand: switches, categories, and
\* linear scales whose step divides the range and keeps integers whole.
Stepping(p) ==
  /\ p.kind \in {"int", "float"} /\ p.curve = <<>>
  /\ p.step > 0 /\ (p.high - p.low) % p.step = 0
  /\ p.kind = "int" => p.step % Grain = 0

Points(p) ==
  CASE p.kind = "bool" -> {0, 1}
    [] p.kind = "categorical" -> {p.choices[k] : k \in DOMAIN p.choices}
    [] OTHER -> {x \in p.low..p.high : (x - p.low) % p.step = 0}

Repeating(p) ==
  p.kind = "categorical" /\ \E j, k \in DOMAIN p.choices : j # k /\ p.choices[j] = p.choices[k]

\* Over such parameters the grid reaches every valid candidate, whatever the
\* conditions and constraints; and no trial of it is spent twice on the same one,
\* unless a condition makes two products alike or a choice is listed twice.
GridComplete ==
  tries = 0 /\ (\A i \in Index : Param(i).kind \in {"bool", "categorical"} \/ Stepping(Param(i))) =>
    /\ \A x \in [Index -> UNION {Points(Param(i)) : i \in Index}] :
         (\A i \in Index : x[i] \in Points(Param(i))) /\ Valid(Assembled(x)) =>
           \E at \in Grid : Combination(at) = Assembled(x)
    /\ (\A i \in Index : Param(i).on = {} /\ ~Repeating(Param(i))) =>
         \A at, other \in Grid : Combination(at) = Combination(other) => at = other

SpaceSound == RoundTrip /\ GridComplete
=============================================================================
