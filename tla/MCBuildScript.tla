----------------------------- MODULE MCBuildScript -----------------------------
(***************************************************************************)
(* Build scripts for TLC: a tuned graph and its gradient; graphs and an    *)
(* MLIR model, one pair of the same name; one that is refused; stubs; one  *)
(* whose graphs are gone; and one with the two tunings of                  *)
(* crates/knok/tests/runtime-e2e/build.rs.                                 *)
(***************************************************************************)
EXTENDS BuildScript

Emits(kind, items, file, extra) ==
    [kind |-> kind, items |-> items, file |-> file, extra |-> extra, stub |-> FALSE]

Tuned == <<Flag("opt-level", "O1"), Flag("llvmcpu-target-cpu", "generic")>>

SameNames == << Emits("graph", <<"f">>, "graphs.rs", Tuned),
                Emits("grad", <<"f">>, "grads.rs", <<>>) >>
Refused == << Emits("graph", <<"f">>, "graphs.rs", <<Flag("hal-target-backends", "cuda")>>) >>
Stubs == << [Emits("graph", <<"f", "g">>, "graphs.rs", <<>>) EXCEPT !.stub = TRUE] >>
Collide == << Emits("graph", <<"m", "g">>, "graphs.rs", <<>>),
              Emits("mlir", <<"m">>, "models.rs", <<>>) >>

Emptied == << Emits("graph", <<>>, "graphs.rs", <<>>), Emits("mlir", <<"m">>, "models.rs", <<>>) >>

\* The same graph with and without tuning, each in an output file of its own.
TwoTunings == << Emits("graph", <<"f">>, "graphs.rs", <<>>),
                 Emits("graph", <<"f">>, "tuned.rs", Tuned) >>

PlainScripts == {SameNames, Collide, Refused, Stubs, Emptied}
TwoTuningScripts == {TwoTunings}

Backends == [g \in Items |-> IF g = "g" THEN "cuda" ELSE "llvm-cpu"]

Events2 == [edit |-> 2, upgrade |-> 1, abort |-> 1]
=============================================================================
