---------------------------- MODULE VmfbCacheProps ----------------------------
(***************************************************************************)
(* What VmfbCache must guarantee, the inductive invariant that makes it do *)
(* so, and the sense in which it implements CompileService.                *)
(***************************************************************************)
EXTENDS VmfbCache

\* Every variable has its type.
TypeOK ==
    /\ library \in Libraries
    /\ dir \in BOOLEAN
    /\ lockFile \in Nat
    /\ entry \in [CacheKeys -> Content \cup {Nothing}]
    /\ DOMAIN temp \subseteq TempNames
    /\ \A t \in DOMAIN temp : temp[t] \in Content
    /\ counter \in [Pids -> Nat]
    /\ call \in [Callers -> Activation]
    /\ used \in [Events -> Nat]

\* Different inputs, or different builds, never share a cache key. It fails of
\* requests whose flags concatenate alike, and of builds with one revision.
KeysSeparate ==
    \A r1, r2 \in Requests, v1, v2, w1, w2 \in Libraries :
        KeyOf(r1, v1, w1) = KeyOf(r2, v2, w2) => r1 = r2 /\ v1 = v2

Answered(c) == call[c].step = "done" /\ call[c].out # Failed

-----------------------------------------------------------------------------
(* Safety.                                                                 *)

\* compile_with_iree answers, from the cache or not, with all the bytes that
\* the compiler it loaded makes of its own arguments.
AnswersAreOwn ==
    \A c \in Callers :
        Answered(c) => call[c].out = Compiled(call[c].req, call[c].lib)

\* docs/compiler.md:77: a changed compiler invalidates the cache, so an answer
\* is never what another build than the loaded one made.
CompilerChangesInvalidate ==
    \A c \in Callers : Answered(c) => call[c].out.lib = call[c].lib

\* fs::write then fs::rename: whatever a {key}.vmfb holds, however the steps of
\* writers, deletions and crashes interleave, a reader that serves it gets a
\* complete artifact of inputs with that key.
ServedEntriesAreWhole ==
    \A k \in CacheKeys :
        Served(k) => /\ entry[k].size = "whole"
                     /\ \E w \in Libraries : KeyOf(entry[k].req, entry[k].lib, w) = k

\* The lock is taken before the lookup and held until the rename: as long as
\* nobody unlinks the lock file, no one compiles what the cache already serves.
Compiling == {"compile", "create", "write", "rename"}

NoRedundantCompile ==
    \A c \in Callers :
        (lockFile = 0 /\ call[c].step \in Compiling) => ~Served(call[c].key)

\* {pid}-{counter} is unique: two callers that write temporary files never
\* write the same one, whatever lock file each holds.
Writing == {"create", "write", "rename"}

TempsAreExclusive ==
    \A c, d \in Callers :
        (c # d /\ call[c].step \in Writing /\ call[d].step \in Writing)
            => TempOf(c) # TempOf(d)

\* rename replaces a served artifact, if at all, by the same artifact.
PublishedIsStable ==
    [][\A k \in CacheKeys : Served(k) /\ Served(k)' => entry'[k] = entry[k]]_entry

-----------------------------------------------------------------------------
(* Liveness.                                                               *)

\* No caller waits for ever, on the flock of a caller that died, failed or
\* returned, or on anything else: a call ends in an answer or an error.
CallsReturn ==
    \A c \in Callers : call[c].step \in Active ~> call[c].step \notin Active

-----------------------------------------------------------------------------
(* The cache is transparent: VmfbCache implements CompileService.          *)

ServiceStep(step) ==
    CASE step = "idle" -> "idle"
      [] step = "done" -> "done"
      [] step \in {"mkdir", "open", "flock", "load"} -> "waiting"
      [] OTHER -> "compiling"

clientOf ==
    [c \in Callers |-> [step |-> ServiceStep(call[c].step),
                        req |-> call[c].req,
                        lib |-> call[c].lib,
                        out |-> IF call[c].step = "done" THEN call[c].out ELSE Nothing]]

Service == INSTANCE CompileService WITH client <- clientOf

CacheIsTransparent == Service!ServiceSpec

-----------------------------------------------------------------------------
(* The inductive invariant.                                                *)

\* Files of either kind were made of inputs that have the key in their name.
FilesMatchKeys ==
    /\ \A k \in CacheKeys : entry[k] # Nothing =>
          \E w \in Libraries : KeyOf(entry[k].req, entry[k].lib, w) = k
    /\ \A t \in DOMAIN temp :
          \E w \in Libraries : KeyOf(temp[t].req, temp[t].lib, w) = t[1]

\* What each step knows about the locals of the activation.
LocalsMatch ==
    \A c \in Callers :
        /\ call[c].step \in Active => call[c].req \in Requests
        /\ call[c].step \in Locked \ {"load"} => call[c].lib \in Libraries
        /\ call[c].step \in Locked \ {"load", "fingerprint"} =>
              \E w \in Libraries : call[c].key = KeyOf(call[c].req, call[c].lib, w)
        /\ call[c].step \in Writing \cup {"reread"} =>
              /\ call[c].out = Compiled(call[c].req, call[c].lib)
              /\ call[c].nonce \in Nat
              /\ call[c].nonce < counter[PidOf[c]]

\* Between write and rename nobody else touches the caller's temporary file.
TempsAreOwn ==
    \A c \in Callers :
        /\ call[c].step = "rename" /\ TempOf(c) \in DOMAIN temp =>
              temp[TempOf(c)] = call[c].out

\* One holder per incarnation of the lock file, none of a future one.
LocksExclude ==
    /\ \A c \in Callers : call[c].step \in Locked \cup {"flock"} =>
          call[c].fd \in 0 .. lockFile
    /\ \A c, d \in Callers :
          (c # d /\ call[c].step \in Locked /\ call[d].step \in Locked)
              => call[c].fd # call[d].fd

EntriesAreWholeOrShort ==
    \A k \in CacheKeys : entry[k] # Nothing => entry[k].size # "part"

CacheInv ==
    /\ TypeOK
    /\ FilesMatchKeys
    /\ LocalsMatch
    /\ TempsAreExclusive
    /\ TempsAreOwn
    /\ LocksExclude
    /\ EntriesAreWholeOrShort
    /\ NoRedundantCompile
    /\ AnswersAreOwn
=============================================================================
