------------------------------- MODULE OpProgram -------------------------------
(***************************************************************************)
(* A graph of calls, type checked, lowered and run one call at a time.     *)
(* Each step adds a call that the type checker accepts, on inputs and      *)
(* earlier results: "lowered" holds what the emitted operations compute,   *)
(* "meant" what the call means.  A call after the first uses the newest    *)
(* result or no value at all, so that the graph has few dead branches.     *)
(***************************************************************************)
EXTENDS Meanings

CONSTANTS
    Families    \* families of programs, by name: the Values that a program
                \* starts from (inputs and constants), the calls it is made of,
                \* and a bound: with this many results it gets no more calls

ASSUME FamiliesAssumption ==
    \A f \in DOMAIN Families : DOMAIN Families[f] = {"inputs", "calls", "results"}

VARIABLES
    family,     \* the family of the program
    lowered,    \* the lowered values: the inputs, then the results
    meant,      \* the meaning of each of them
    call,       \* the last call and the places of its arguments
    outcome     \* "running", "refused" at build time, or "trapped" at run time

vars == <<family, lowered, meant, call, outcome>>

NoCall == [op |-> "None"]

Inputs == Families[family].inputs

Init ==
    /\ family \in DOMAIN Families
    /\ lowered = Inputs
    /\ meant = [k \in DOMAIN Inputs |-> Meaning(Inputs[k].ty, Inputs[k].at)]
    /\ call = [of |-> NoCall, on |-> << >>]
    /\ outcome = "running"

Results == Len(lowered) - Len(Inputs)

Arguments(values, places) == [k \in DOMAIN places |-> values[places[k]]]
TypesOf(values) == [k \in DOMAIN values |-> values[k].ty]

\* The cf.assert of a gather has failed for some element.
Gathers == {"Gather", "TakeAlongAxis"}
Traps(c, values) == c.op \in Gathers /\ Undefined \in {values[1].at[i] : i \in DOMAIN values[1].at}

Outcome(c, values) ==
    CASE \E k \in DOMAIN values : ~values[k].ok -> "refused"
      [] (\A k \in DOMAIN values : values[k].ok) /\ Traps(c, values) -> "trapped"
      [] OTHER -> "running"

\* Type check a call of the given operations, lower it and run it.
Call(operations) ==
    /\ outcome = "running"
    /\ Results < Families[family].results
    /\ UNCHANGED family
    /\ \E c \in {of \in Families[family].calls : of.op \in operations} :
       \E places \in [1..Arity(c.op) -> DOMAIN lowered] :
         LET args == Arguments(lowered, places)
             operands == Arguments(meant, places)
         IN /\ validate_static_creation_call(c)
            /\ Results > 0 => Len(lowered) \in ToSet(places) \/ Arity(c.op) = 0
            /\ \E types \in infer_call_results(c, TypesOf(operands)) :
               \E values \in {lower_call_values(c, args)} :
                 /\ lowered' = lowered \o values
                 /\ meant' = meant \o Meant(c, operands, types)
                 /\ outcome' = Outcome(c, values)
            /\ call' = [of |-> c, on |-> places]

Reducing == DOMAIN Reduces \cup {"Softmax"}
Elementwise == Unary \cup Binary \cup {"Clip", "Where", "FullLike"}
Contracting == {"Matmul", "Dot", "Inner", "Vecdot", "Outer", "Trace"}
Windowed == {"Conv2d", "MaxPool2d", "AvgPool2d"}
Moving == Moves \cup {"Broadcast", "Pad", "Concat", "Stack", "Split"}

CallCreation == Call(Creations)
CallElementwise == Call(Elementwise)
CallReduction == Call(Reducing)
CallMove == Call(Moving)
CallGather == Call(Gathers)
CallContraction == Call(Contracting)
CallWindow == Call(Windowed)

Next ==
    \/ CallCreation
    \/ CallElementwise
    \/ CallReduction
    \/ CallMove
    \/ CallGather
    \/ CallContraction
    \/ CallWindow

Spec == Init /\ [][Next]_vars

--------------------------------------------------------------------------------
\* A program's values keep to their types, lowered and meant: each value of a
\* program that runs has an element of the right range at each index of its shape.
TypeOK ==
    /\ outcome \in {"running", "refused", "trapped"}
    /\ Len(lowered) = Len(meant)
    /\ \A k \in DOMAIN lowered : lowered[k].kind \in {"Scalar", "Tensor"} /\ lowered[k].ok \in BOOLEAN
    /\ outcome = "running" =>
         \A k \in DOMAIN lowered : DOMAIN lowered[k].at = Indices(lowered[k].ty.shape)

\* Whatever the kernels do on the way (slices, reassociations, indexing maps,
\* scalars beside tensors), every value of a program that runs can be returned
\* with the type the type checker gave it (output_value), and each of its
\* elements is the one that the call means.
ElementsAgree ==
    outcome = "running" =>
        \A k \in DOMAIN lowered :
            LET returned == output_value(lowered[k], meant[k].ty)
            IN returned.ok /\ returned.at = meant[k].at

\* Calls that the type checker accepts and the compiler refuses: a broadcast
\* whose target has a smaller dimension than its argument (the check asks for a
\* common shape, the kernel for the target), a stack of values of rank 0 (though
\* docs/semantics.md has the type checker validate ranks and axes), and a slice
\* of rank 0 of a scalar.
Unsupported(c, args) ==
    \/ /\ c.op = "Broadcast" /\ element_count(args[1].ty) # 1
       /\ broadcast_shape(args[1].ty.shape, c.target.shape) # {c.target.shape}
    \/ c.op = "Stack" /\ Rank(args[1].ty) = 0
    \/ c.op = "Slice" /\ IsScalar(args[1])

\* Every other call that the type checker accepts, on any arguments that a
\* program can give it, lowers to operations that pass their verifiers.
RefusedExactlyWhenUnsupported ==
    call.of # NoCall =>
        (outcome = "refused" <=> Unsupported(call.of, Arguments(lowered, call.on)))

\* A program is stopped at run time exactly when a gathered index, counted from
\* the end if negative, names no position of the axis (unless the result is
\* empty: then no index is read).
TrapsExactlyOutOfRange ==
    call.of.op \in Gathers =>
        LET operands == Arguments(meant, call.on)
            dim == Dim(operands[1].ty, call.of.axis)
        IN outcome = "trapped" <=>
             /\ element_count(Last(meant).ty) # 0
             /\ \E i \in DOMAIN operands[2].at : operands[2].at[i] \notin -dim..dim - 1

================================================================================
