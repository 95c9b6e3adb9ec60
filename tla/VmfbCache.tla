------------------------------- MODULE VmfbCache -------------------------------
(***************************************************************************)
(* The on-disk VMFB cache of knok-compile (compile_with_iree and the       *)
(* functions it calls, crates/knok-compile/src/compile.rs).                *)
(*                                                                         *)
(* Callers are threads of build scripts and other hosts of knok-compile.   *)
(* They share one cache directory, guarded by flock on iree-compiler.lock, *)
(* filled by writing a uniquely named temporary file and renaming it.      *)
(* Around them processes die, the machine loses power, somebody deletes    *)
(* (part of) the directory while it is in use, and the compiler library is *)
(* replaced in place.                                                      *)
(***************************************************************************)
EXTENDS Integers, SequencesExt

CONSTANTS
    Callers,     \* threads calling compile_with_iree
    Pids,        \* process ids
    PidOf,       \* the process of each caller
    Requests,    \* compilations: [backend, flags, target, mlir]
    Libraries,   \* builds of the compiler library
    Revision,    \* get_revision and api_version of a loaded build
    Stat,        \* size and modification time of a build's file
    LostWrites,  \* what a power loss makes of a file that was never synced
    Limit,       \* how often each kind of event may happen
    Nothing,     \* no file, request, library, key or result
    Failed       \* the result of a call that returned an error

Events == {"call", "clean", "crash", "install", "power"}

\* A file is what was being compiled, by which build, and how much of it is
\* there: fewer than 16 bytes, a proper prefix of at least 16, or all of it.
Content == [req : Requests, lib : Libraries, size : {"short", "part", "whole"}]

ASSUME CacheAssumption ==
    /\ PidOf \in [Callers -> Pids]
    /\ LostWrites \subseteq {"short", "part"}
    /\ Limit \in [Events -> Nat]
    /\ Failed # Nothing
    /\ {Failed, Nothing} \cap Content = {}
    /\ Nothing \notin Requests \cup Libraries

VARIABLES
    library,     \* the build now installed at the library path
    dir,         \* whether the cache directory exists
    lockFile,    \* which incarnation of iree-compiler.lock the path names
    entry,       \* {key}.vmfb: its content, by key
    temp,        \* {key}.{pid}-{counter}.vmfb.tmp: its content, by name
    counter,     \* CACHE_TEMP_COUNTER of each process
    call,        \* each caller's activation of compile_with_iree
    used         \* how often each event has happened

disk == <<dir, lockFile, entry, temp>>
vars == <<library, dir, lockFile, entry, temp, counter, call, used>>

-----------------------------------------------------------------------------
(* Data.                                                                   *)

\* Mutants of cache_key: the flags, or the compiler's revision, left out.
cache_key_NoFlags(r, revision, stat) ==
    <<r.backend, revision, stat>> \o r.target \o <<r.mlir>>

cache_key_NoRevision(r, revision, stat) ==
    <<r.backend, stat>> \o FlattenSeq(r.flags) \o r.target \o <<r.mlir>>

\* The bytes that go into blake3, in their order and, as in the code, with no
\* separator between them; a flag and a target variable are sequences of tokens.
cache_key(r, revision, stat) ==
    <<r.backend, revision, stat>> \o FlattenSeq(r.flags) \o r.target \o <<r.mlir>>

KeyOf(r, loaded, installed) == cache_key(r, Revision[loaded], Stat[installed])

CacheKeys == {KeyOf(r, v, w) : r \in Requests, v \in Libraries, w \in Libraries}

TempNames == CacheKeys \X Pids \X Nat

Compiled(r, lib) == [req |-> r, lib |-> lib, size |-> "whole"]

Idle == [step |-> "idle", req |-> Nothing, fd |-> -1, lib |-> Nothing,
         key |-> Nothing, nonce |-> -1, out |-> Nothing]

Steps == {"idle", "mkdir", "open", "flock", "load", "fingerprint", "lookup",
          "compile", "create", "write", "rename", "reread", "done"}

Activation ==
    [step : Steps, req : Requests \cup {Nothing}, fd : Nat \cup {-1},
     lib : Libraries \cup {Nothing}, key : CacheKeys \cup {Nothing},
     nonce : Nat \cup {-1}, out : Content \cup {Nothing, Failed}]

\* Mutant: the process id alone as the suffix.
TempOf_PidOnly(c) == <<call[c].key, PidOf[c], 0>>

TempOf(c) == <<call[c].key, PidOf[c], call[c].nonce>>

\* The steps at which the caller holds the exclusive lock on its descriptor.
Locked == {"load", "fingerprint", "lookup", "compile", "create", "write",
           "rename", "reread"}
Active == Steps \ {"idle", "done"}

\* Mutant: whatever file is there is served.
Served_AnyLength(k) == entry[k] # Nothing

\* read_cached_vmfb's three answers: a file of 16 bytes or more is served.
Served(k) == entry[k] # Nothing /\ entry[k].size # "short"

\* Reading a key: a short file is removed, but the removal may itself fail.
ReadCache(k) ==
    \/ entry' = entry
    \/ /\ entry[k] # Nothing /\ ~Served(k)
       /\ entry' = [entry EXCEPT ![k] = Nothing]

Goto(c, step) == call' = [call EXCEPT ![c].step = step]

\* The function returns: its File is dropped, which unlocks and closes it.
Return(c, out) ==
    call' = [call EXCEPT ![c] = [Idle EXCEPT !.step = "done", !.req = call[c].req,
                                             !.lib = call[c].lib, !.out = out]]

Spend(event) ==
    /\ used[event] < Limit[event]
    /\ used' = [used EXCEPT ![event] = @ + 1]

Init ==
    /\ library \in Libraries
    /\ dir = FALSE
    /\ lockFile = 0
    /\ entry = [k \in CacheKeys |-> Nothing]
    /\ temp = <<>>
    /\ counter = [p \in Pids |-> 0]
    /\ call = [c \in Callers |-> Idle]
    /\ used = [e \in Events |-> 0]

-----------------------------------------------------------------------------
(* One call of compile_with_iree.                                          *)

Call(c, r) ==
    /\ call[c].step \in {"idle", "done"}
    /\ Spend("call")
    /\ call' = [call EXCEPT ![c] = [Idle EXCEPT !.step = "mkdir", !.req = r]]
    /\ UNCHANGED <<library, disk, counter>>

MakeDir(c) ==
    /\ call[c].step = "mkdir"
    /\ dir' = TRUE
    /\ Goto(c, "open")
    /\ UNCHANGED <<library, lockFile, entry, temp, counter, used>>

\* create(true): the descriptor is of whatever file the path names now.
OpenLock(c) ==
    /\ call[c].step = "open"
    /\ dir
    /\ call' = [call EXCEPT ![c] = [@ EXCEPT !.step = "flock", !.fd = lockFile]]
    /\ UNCHANGED <<library, disk, counter, used>>

\* Mutant: a lock that is taken is no reason to wait.
lock_exclusive_NoWait(c) ==
    /\ call[c].step = "flock"
    /\ Goto(c, "load")
    /\ UNCHANGED <<library, disk, counter, used>>

lock_exclusive(c) ==
    /\ call[c].step = "flock"
    /\ \A d \in Callers \ {c} :
          call[d].fd = call[c].fd => call[d].step \notin Locked
    /\ Goto(c, "load")
    /\ UNCHANGED <<library, disk, counter, used>>

LoadCompiler(c) ==
    /\ call[c].step = "load"
    /\ call' = [call EXCEPT ![c] = [@ EXCEPT !.step = "fingerprint", !.lib = library]]
    /\ UNCHANGED <<library, disk, counter, used>>

\* The revision is asked of the loaded build, the metadata of the path.
compiler_fingerprint(c) ==
    /\ call[c].step = "fingerprint"
    /\ call' = [call EXCEPT ![c] =
                  [@ EXCEPT !.step = "lookup", !.key = KeyOf(call[c].req, call[c].lib, library)]]
    /\ UNCHANGED <<library, disk, counter, used>>

read_cached_vmfb(c) ==
    /\ call[c].step = "lookup"
    /\ ReadCache(call[c].key)
    /\ IF Served(call[c].key)
       THEN Return(c, entry[call[c].key])
       ELSE Goto(c, "compile")
    /\ UNCHANGED <<library, dir, lockFile, temp, counter, used>>

\* Mutant: the counter is read but not advanced.
CompileStr_SameSuffix(c) ==
    /\ call[c].step = "compile"
    /\ call' = [call EXCEPT ![c] =
                  [@ EXCEPT !.step = "create", !.nonce = counter[PidOf[c]],
                            !.out = Compiled(call[c].req, call[c].lib)]]
    /\ UNCHANGED <<library, disk, counter, used>>

\* compile_str succeeds, and the temporary file gets its unique suffix.
CompileStr(c) ==
    /\ call[c].step = "compile"
    /\ call' = [call EXCEPT ![c] =
                  [@ EXCEPT !.step = "create", !.nonce = counter[PidOf[c]],
                            !.out = Compiled(call[c].req, call[c].lib)]]
    /\ counter' = [counter EXCEPT ![PidOf[c]] = @ + 1]
    /\ UNCHANGED <<library, disk, used>>

\* fs::write, first half: create or truncate, and some of the bytes.
CreateTemp(c) ==
    /\ call[c].step = "create"
    /\ dir
    /\ \E size \in {"short", "part"} :
          temp' = [t \in DOMAIN temp \cup {TempOf(c)} |->
                     IF t = TempOf(c) THEN [call[c].out EXCEPT !.size = size] ELSE temp[t]]
    /\ Goto(c, "write")
    /\ UNCHANGED <<library, dir, lockFile, entry, counter, used>>

\* fs::write, second half; the bytes of a file deleted meanwhile go nowhere.
WriteTemp(c) ==
    /\ call[c].step = "write"
    /\ temp' = [t \in DOMAIN temp |-> IF t = TempOf(c) THEN call[c].out ELSE temp[t]]
    /\ Goto(c, "rename")
    /\ UNCHANGED <<library, dir, lockFile, entry, counter, used>>

Rename(c) ==
    /\ call[c].step = "rename"
    /\ TempOf(c) \in DOMAIN temp
    /\ entry' = [entry EXCEPT ![call[c].key] = temp[TempOf(c)]]
    /\ temp' = [t \in DOMAIN temp \ {TempOf(c)} |-> temp[t]]
    /\ Return(c, call[c].out)
    /\ UNCHANGED <<library, dir, lockFile, counter, used>>

\* The rename fails; the temporary file is removed, if that works.
RenameFails(c) ==
    /\ call[c].step = "rename"
    /\ \E gone \in SUBSET {TempOf(c)} :
          temp' = [t \in DOMAIN temp \ gone |-> temp[t]]
    /\ Goto(c, "reread")
    /\ UNCHANGED <<library, dir, lockFile, entry, counter, used>>

\* Mutant: wait for whoever seems to be publishing the key.
Reread_Spin(c) ==
    /\ call[c].step = "reread"
    /\ ReadCache(call[c].key)
    /\ Served(call[c].key)
    /\ Return(c, entry[call[c].key])
    /\ UNCHANGED <<library, dir, lockFile, temp, counter, used>>

\* "failed to publish", unless another caller has published the key.
Reread(c) ==
    /\ call[c].step = "reread"
    /\ ReadCache(call[c].key)
    /\ Return(c, IF Served(call[c].key) THEN entry[call[c].key] ELSE Failed)
    /\ UNCHANGED <<library, dir, lockFile, temp, counter, used>>

\* The directory has been deleted between create_dir_all and the open.
DirGone(c) ==
    /\ call[c].step \in {"open", "create"}
    /\ ~dir
    /\ Return(c, Failed)
    /\ UNCHANGED <<library, disk, counter, used>>

\* Every other `?` and bail!: a directory, lock, library, stat, read, compiler
\* or write error, and a compiler output of fewer than 16 bytes.  Nothing is
\* undone but the lock: a temporary file stays as it is.
Fail(c) ==
    /\ call[c].step \in Active \ {"rename"}
    /\ Return(c, Failed)
    /\ UNCHANGED <<library, disk, counter, used>>

Advance(c) ==
    \/ MakeDir(c) \/ OpenLock(c) \/ lock_exclusive(c) \/ LoadCompiler(c)
    \/ compiler_fingerprint(c) \/ read_cached_vmfb(c) \/ CompileStr(c)
    \/ CreateTemp(c) \/ WriteTemp(c) \/ Rename(c) \/ RenameFails(c)
    \/ Reread(c) \/ DirGone(c)

-----------------------------------------------------------------------------
(* The surroundings.                                                       *)

\* A process dies; the kernel drops its locks, its files stay.  Its process
\* id, and with it every temporary name it used, can be handed out again.
Crash(p) ==
    /\ Spend("crash")
    /\ call' = [c \in Callers |-> IF PidOf[c] = p THEN Idle ELSE call[c]]
    /\ counter' = [counter EXCEPT ![p] = 0]
    /\ UNCHANGED <<library, disk>>

\* Nothing is ever synced, so any published file may lose data.
PowerLoss ==
    /\ Spend("power")
    /\ \E lost \in SUBSET {k \in CacheKeys : entry[k] # Nothing}, size \in LostWrites :
          entry' = [k \in CacheKeys |->
                      IF k \in lost THEN [entry[k] EXCEPT !.size = size] ELSE entry[k]]
    /\ call' = [c \in Callers |-> Idle]
    /\ counter' = [p \in Pids |-> 0]
    /\ UNCHANGED <<library, dir, lockFile, temp>>

\* cargo clean or rm on a directory in use: some of the files, the lock file
\* among them or not, or everything with the directory.
Clean ==
    /\ dir
    /\ Spend("clean")
    /\ \E gone \in SUBSET {k \in CacheKeys : entry[k] # Nothing},
          goneTemps \in SUBSET (DOMAIN temp), unlink, rmdir \in BOOLEAN :
          /\ rmdir => /\ unlink
                      /\ goneTemps = DOMAIN temp
                      /\ \A k \in CacheKeys \ gone : entry[k] = Nothing
          /\ entry' = [k \in CacheKeys |-> IF k \in gone THEN Nothing ELSE entry[k]]
          /\ temp' = [t \in DOMAIN temp \ goneTemps |-> temp[t]]
          /\ lockFile' = IF unlink THEN lockFile + 1 ELSE lockFile
          /\ dir' = ~rmdir
    /\ UNCHANGED <<library, counter, call>>

\* The compiler package is upgraded or rebuilt at the same path.
Install(lib) ==
    /\ library # lib
    /\ Spend("install")
    /\ library' = lib
    /\ UNCHANGED <<disk, counter, call>>

Next ==
    \/ \E c \in Callers : Advance(c) \/ Fail(c) \/ \E r \in Requests : Call(c, r)
    \/ \E p \in Pids : Crash(p)
    \/ PowerLoss
    \/ Clean
    \/ \E lib \in Libraries : Install(lib)

Spec == Init /\ [][Next]_vars

\* Threads are scheduled and system calls return; an error need never happen.
Fairness == \A c \in Callers : WF_vars(Advance(c))

FairSpec == Spec /\ Fairness
=============================================================================
