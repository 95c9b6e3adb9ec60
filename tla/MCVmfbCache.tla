----------------------------- MODULE MCVmfbCache -----------------------------
(***************************************************************************)
(* Small instances of VmfbCache for TLC.                                   *)
(***************************************************************************)
EXTENDS VmfbCacheProps

CONSTANTS c1, c2,        \* callers
          p1, p2,        \* process ids
          oldLib, newLib \* builds of the compiler library

TwoProcesses == (c1 :> p1) @@ (c2 :> p2)
TwoThreads == (c1 :> p1) @@ (c2 :> p1)

\* The same graph, compiled with two different settings of a flag.
Request(flags) ==
    [flags |-> flags, backend |-> "llvm-cpu", target |-> <<"ARCH", "x86_64">>,
     mlir |-> "module"]

OneRequest == {Request(<<<<"-O2">>>>)}
TwoRequests == {Request(<<<<"-O2">>>>), Request(<<<<"-O3">>>>)}

\* Releases have revisions of their own; local rebuilds of one checkout share it.
DistinctRevisions == (oldLib :> "3.12") @@ (newLib :> "3.13")
SharedRevision == (oldLib :> "3.13") @@ (newLib :> "3.13")
DistinctStats == (oldLib :> "size 1") @@ (newLib :> "size 2")

NoEvents == [e \in Events |-> 0]
ThreadEvents == [NoEvents EXCEPT !["call"] = 3, !["clean"] = 1, !["crash"] = 1]
ProcessEvents ==
    [NoEvents EXCEPT !["call"] = 3, !["crash"] = 1, !["power"] = 1, !["clean"] = 1, !["install"] = 1]

\* Of the four things that can happen to the surroundings, any two.
AtMostTwoFaults == used["crash"] + used["power"] + used["clean"] + used["install"] <= 2

UpgradeEvents == [NoEvents EXCEPT !["call"] = 3, !["install"] = 1, !["clean"] = 1]
=============================================================================
