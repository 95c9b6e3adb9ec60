-------------------------------- MODULE MCEngine -------------------------------
(***************************************************************************)
(* Artifacts for TLC: two functions of one VMFB; one with two backends and *)
(* a shorter VMFB at the same address; and one without variants.           *)
(***************************************************************************)
EXTENDS Engine

Vmfb(addr, len) == [addr |-> addr, len |-> len]
On(backend, vmfb) == [backend |-> backend, vmfb |-> vmfb]
Artifact(function, types, variants) ==
    [function |-> function, variants |-> variants, outputs |-> types]

Forward == Artifact("f", <<"f32x2", "i32">>, <<On("llvm-cpu", Vmfb(1, 64))>>)
Backward == Artifact("g", <<"f32x2">>, <<On("llvm-cpu", Vmfb(1, 64))>>)
Prefix == Artifact("f", <<"f32x2", "i32">>,
                   <<On("cuda", Vmfb(2, 64)), On("llvm-cpu", Vmfb(1, 32))>>)
Empty == Artifact("f", <<"i32">>, <<>>)

MCArtifacts == {Forward, Backward, Prefix, Empty}

MCExports == [v \in {Vmfb(1, 64), Vmfb(1, 32), Vmfb(2, 64)} |->
                IF v = Vmfb(1, 64) THEN {"f", "g"} ELSE {"f"}]

MCTypings == {<<"f32x2", "i32">>, <<"f32x2">>, <<"i32">>, <<"f32x2", "f32x2">>}
MCReturns == {<<"f32x2", "i32">>, <<"f32x2", "f32x2">>, <<"f32x2">>}
=============================================================================
