---------------------------- MODULE StaticCreation ----------------------------
(***************************************************************************)
(* Tensors that are known at build time (knok-core, ops/static_creation.rs)*)
(* and the literals they expand to.                                        *)
(*                                                                         *)
(* The arguments of these calls must be literals, so they are a part of    *)
(* the call: c.params holds the value and the elements of each.  Literals  *)
(* are whole numbers; as in ShapeRules a Result is a set, empty if an      *)
(* error, whatever its message.                                            *)
(***************************************************************************)
EXTENDS Dialects

\* A literal argument, and parse_numeric_params: numbers, and of integers if
\* the target has integers.
Literal(elem, value) == [elem |-> elem, value |-> value]
NumericParams(params, elem) ==
    \A k \in DOMAIN params : params[k].elem \in (IF elem \in Floats THEN Numbers ELSE IndexElements)

\* The literals of some values: an integer has to fit its elements.
Literals(values, elem) ==
    IF elem \in Floats THEN {[k \in DOMAIN values |-> Field(values[k])]}
    ELSE Ok(\A k \in DOMAIN values : values[k] \in IntMin..IntMax, values)

RoundedUp(a, b) == (a + b - 1) \div b
arange_len(start, stop, step) ==
    LET distance == stop - start
    IN CASE step = 0 -> {}
         [] (step > 0 /\ distance <= 0) \/ (step < 0 /\ distance >= 0) -> {0}
         [] OTHER -> {RoundedUp(Magnitude(distance), Magnitude(step))}

\* Start, stop and step of one to three parameters.
arange_bounds(params) ==
    LET values == [k \in DOMAIN params |-> params[k].value]
    IN CASE Len(params) = 1 -> <<0, values[1], 1>>
         [] Len(params) = 2 -> <<values[1], values[2], 1>>
         [] Len(params) = 3 -> values

Steps(start, step, length) == [k \in 1..length |-> start + step * (k - 1)]

static_arange_literals(target, params) ==
    IF IsVector(target) /\ Len(params) \in 1..3 /\ NumericParams(params, target.elem)
    THEN LET b == arange_bounds(params)
         IN IF arange_len(b[1], b[2], b[3]) = {target.shape[1]}
            THEN Literals(Steps(b[1], b[3], target.shape[1]), target.elem) ELSE {}
    ELSE {}

\* Evenly spaced, both ends included: integers must divide, floats divide exactly.
linspace_values(start, stop, length, elem) ==
    LET intervals == length - 1
        distance == stop - start
    IN CASE length = 0 -> {<< >>}
         [] length = 1 -> {<<start>>}
         [] length > 1 /\ elem \in Floats -> {Steps(start, FieldQuotient(distance, intervals), length)}
         [] OTHER -> Ok(distance % intervals = 0, Steps(start, Truncated(distance, intervals), length))

static_linspace_literals(target, params) ==
    IF IsVector(target) /\ Len(params) = 2 /\ NumericParams(params, target.elem)
    THEN UNION {Literals(values, target.elem) :
                   values \in linspace_values(params[1].value, params[2].value,
                                              target.shape[1], target.elem)}
    ELSE {}

static_eye_literals(target) ==
    LET rows == target.shape[1]
    IN Ok(IsSquare(target), [n \in 1..rows * rows |-> IF (n - 1) \div rows = (n - 1) % rows THEN 1 ELSE 0])

static_literals(c) ==
    CASE c.op = "Arange" -> static_arange_literals(c.target, c.params)
      [] c.op = "Linspace" -> static_linspace_literals(c.target, c.params)
      [] c.op = "Eye" -> static_eye_literals(c.target)

\* The type checker expands the literals to see whether it can be done.
validate_static_creation_call(c) == c.op \in Creations => static_literals(c) # {}

===============================================================================
