---------------------------- MODULE CompileService ----------------------------
(***************************************************************************)
(* What compile_with_iree promises to its callers, with no cache in it:    *)
(* a call picks up the compiler library that is installed at some moment   *)
(* of the call, and either returns what that compiler makes of exactly     *)
(* that call's backend, flags, target and MLIR, or fails.  A process can   *)
(* die at any time.  VmfbCache implements this: its on-disk cache can make *)
(* a call faster, never different.                                         *)
(***************************************************************************)
CONSTANTS Callers,      \* threads that call compile_with_iree
          Requests,     \* the inputs of a compilation
          Libraries,    \* builds of the compiler library
          Nothing,      \* no request, library or result
          Failed        \* the result of a call that returned an error

VARIABLES library,      \* the build installed at the library path
          client        \* each caller's current call

serviceVars == <<library, client>>

\* The artifact a compiler build makes of a request: the whole file.
Compiled(r, lib) == [req |-> r, lib |-> lib, size |-> "whole"]

Client(step, r, lib, out) == [step |-> step, req |-> r, lib |-> lib, out |-> out]

Unused == Client("idle", Nothing, Nothing, Nothing)

ServiceInit ==
    /\ library \in Libraries
    /\ client = [c \in Callers |-> Unused]

Submit(c, r) ==
    /\ client[c].step \in {"idle", "done"}
    /\ client' = [client EXCEPT ![c] = Client("waiting", r, Nothing, Nothing)]
    /\ UNCHANGED library

\* The compiler the call will answer with is the one installed now.
PickCompiler(c) ==
    /\ client[c].step = "waiting"
    /\ client' = [client EXCEPT ![c] = Client("compiling", client[c].req, library, Nothing)]
    /\ UNCHANGED library

Answer(c) ==
    /\ client[c].step = "compiling"
    /\ client' = [client EXCEPT ![c] = Client("done", client[c].req, client[c].lib,
                                              Compiled(client[c].req, client[c].lib))]
    /\ UNCHANGED library

Refuse(c) ==
    /\ client[c].step \in {"waiting", "compiling"}
    /\ client' = [client EXCEPT ![c] = Client("done", client[c].req, client[c].lib, Failed)]
    /\ UNCHANGED library

\* Processes die, and the calls of their threads with them.
Die(dead) ==
    /\ client' = [c \in Callers |-> IF c \in dead THEN Unused ELSE client[c]]
    /\ UNCHANGED library

Upgrade(lib) ==
    /\ library' = lib
    /\ UNCHANGED client

ServiceNext ==
    \/ \E c \in Callers :
          \/ \E r \in Requests : Submit(c, r)
          \/ PickCompiler(c)
          \/ Answer(c)
          \/ Refuse(c)
    \/ \E dead \in SUBSET Callers : Die(dead)
    \/ \E lib \in Libraries : Upgrade(lib)

ServiceSpec == ServiceInit /\ [][ServiceNext]_serviceVars
=============================================================================
