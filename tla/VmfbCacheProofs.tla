---------------------------- MODULE VmfbCacheProofs ----------------------------
(***************************************************************************)
(* Proofs about VmfbCache, for any number of callers, processes, requests, *)
(* compiler builds and events.                                             *)
(***************************************************************************)
EXTENDS VmfbCacheProps, TLAPS

USE CacheAssumption

\* compiler_fingerprint and cache_key always make one of CacheKeys.
LEMMA KeyOfIsKey ==
    ASSUME NEW r \in Requests, NEW v \in Libraries, NEW w \in Libraries
    PROVE  KeyOf(r, v, w) \in CacheKeys
BY DEF CacheKeys

\* A step of compile_with_iree sets its place and at most one of its locals:
\* the activation stays well-formed.
LEMMA StepType ==
    ASSUME NEW a \in Activation, NEW s \in Steps
    PROVE  [a EXCEPT !.step = s] \in Activation
BY DEF Activation

\* The same with a file descriptor set.
LEMMA StepAndFdType ==
    ASSUME NEW a \in Activation, NEW s \in Steps, NEW f \in Nat
    PROVE  [a EXCEPT !.step = s, !.fd = f] \in Activation
BY DEF Activation

\* The same with the library read set.
LEMMA StepAndLibType ==
    ASSUME NEW a \in Activation, NEW s \in Steps, NEW v \in Libraries
    PROVE  [a EXCEPT !.step = s, !.lib = v] \in Activation
BY DEF Activation

\* The same with the cache key set.
LEMMA StepAndKeyType ==
    ASSUME NEW a \in Activation, NEW s \in Steps, NEW k \in CacheKeys
    PROVE  [a EXCEPT !.step = s, !.key = k] \in Activation
BY DEF Activation

\* Counting an event keeps the event counters' type.
LEMMA SpendType ==
    ASSUME TypeOK, NEW e \in Events, Spend(e)
    PROVE  used' \in [Events -> Nat]
BY DEF TypeOK, Spend

\* Returning from compile_with_iree leaves a well-formed activation.
LEMMA ReturnType ==
    ASSUME TypeOK, NEW c \in Callers, NEW out \in Content \cup {Nothing, Failed},
           Return(c, out)
    PROVE  call' \in [Callers -> Activation]
<1>1. [Idle EXCEPT !.step = "done", !.req = call[c].req, !.lib = call[c].lib, !.out = out]
        \in Activation
    BY DEF TypeOK, Activation, Idle, Steps
<1> QED
    BY <1>1 DEF Return, TypeOK

\* read_cached_vmfb changes no file: it can only remove one.
LEMMA ReadCacheKeeps ==
    ASSUME TypeOK, NEW k \in CacheKeys, ReadCache(k)
    PROVE  /\ entry' \in [CacheKeys -> Content \cup {Nothing}]
           /\ \A j \in CacheKeys : entry'[j] = Nothing \/ entry'[j] = entry[j]
BY DEF TypeOK, ReadCache

\* From the lookup on, the local key of a caller is one of CacheKeys.
LEMMA HeldKeysAreKeys ==
    ASSUME CacheInv
    PROVE  \A c \in Callers : call[c].step \in Locked \ {"load", "fingerprint"} =>
              call[c].key \in CacheKeys
BY KeyOfIsKey DEF CacheInv, LocalsMatch, Active, Locked, Steps

\* What a caller writes and renames is what its compiler made of its request,
\* and it has the caller's key.
LEMMA OwnOutput ==
    ASSUME CacheInv, NEW c \in Callers, call[c].step \in Writing
    PROVE  /\ call[c].out = Compiled(call[c].req, call[c].lib)
           /\ call[c].out \in Content
           /\ \E w \in Libraries : KeyOf(call[c].out.req, call[c].out.lib, w) = call[c].key
<1>1. call[c].out = Compiled(call[c].req, call[c].lib)
    BY DEF CacheInv, LocalsMatch, Writing
<1>2. call[c].req \in Requests /\ call[c].lib \in Libraries
    BY DEF CacheInv, LocalsMatch, Writing, Active, Locked, Steps
<1>3. \E w \in Libraries : call[c].key = KeyOf(call[c].req, call[c].lib, w)
    BY DEF CacheInv, LocalsMatch, Writing, Locked
<1> QED
    BY <1>1, <1>2, <1>3 DEF Compiled, Content

\* With separate keys, what is served to a caller is what it would have compiled.
LEMMA ServedIsOwn ==
    ASSUME CacheInv, KeysSeparate, NEW c \in Callers,
           call[c].step \in Locked \ {"load", "fingerprint"},
           Served(call[c].key)
    PROVE  entry[call[c].key] = Compiled(call[c].req, call[c].lib)
<1> DEFINE k == call[c].key
           e == entry[k]
<1>1. k \in CacheKeys /\ e \in Content
    BY HeldKeysAreKeys DEF Served, CacheInv, TypeOK
<1>2. e.size = "whole"
    BY <1>1 DEF Served, CacheInv, EntriesAreWholeOrShort, Content
<1>3. PICK w1 \in Libraries : KeyOf(e.req, e.lib, w1) = k
    BY <1>1 DEF Served, CacheInv, FilesMatchKeys
<1>4. PICK w2 \in Libraries : KeyOf(call[c].req, call[c].lib, w2) = k
    BY DEF CacheInv, LocalsMatch
<1>5. call[c].req \in Requests /\ call[c].lib \in Libraries
    BY DEF CacheInv, LocalsMatch, Active, Locked, Steps
<1>6. e.req = call[c].req /\ e.lib = call[c].lib
    BY <1>1, <1>3, <1>4, <1>5 DEF KeysSeparate, Content
<1> QED
    BY <1>1, <1>2, <1>6 DEF Compiled, Content

\* Creating the temporary file touches that file only, and puts in it a part
\* of an artifact that has the key in the file's name.
LEMMA CreatedTemp ==
    ASSUME CacheInv, NEW c \in Callers, CreateTemp(c)
    PROVE  /\ DOMAIN temp' = DOMAIN temp \cup {TempOf(c)}
           /\ \A t \in DOMAIN temp' \ {TempOf(c)} : temp'[t] = temp[t]
           /\ temp'[TempOf(c)] \in Content
           /\ \E w \in Libraries :
                 KeyOf(temp'[TempOf(c)].req, temp'[TempOf(c)].lib, w) = TempOf(c)[1]
<1>1. PICK size \in {"short", "part"} :
          temp' = [t \in DOMAIN temp \cup {TempOf(c)} |->
                     IF t = TempOf(c) THEN [call[c].out EXCEPT !.size = size] ELSE temp[t]]
    BY DEF CreateTemp
<1>2. /\ DOMAIN temp' = DOMAIN temp \cup {TempOf(c)}
      /\ \A t \in DOMAIN temp' \ {TempOf(c)} : temp'[t] = temp[t]
      /\ temp'[TempOf(c)] = [call[c].out EXCEPT !.size = size]
    BY <1>1
<1>3. /\ call[c].out \in Content
      /\ \E w \in Libraries : KeyOf(call[c].out.req, call[c].out.lib, w) = call[c].key
    BY OwnOutput DEF CreateTemp, Writing
<1> QED
    BY <1>2, <1>3 DEF Content, TempOf

\* A caller that returns drops its locals, and with them every claim on them.
LEMMA ReturnedKeeps ==
    ASSUME CacheInv, NEW c \in Callers, NEW out, Return(c, out),
           UNCHANGED <<temp, counter>>
    PROVE  LocalsMatch' /\ TempsAreExclusive' /\ TempsAreOwn'
<1> USE DEF CacheInv, Return, Idle, TypeOK, Activation
<1>1. LocalsMatch'
    BY DEF LocalsMatch, Active, Locked, Writing, Steps
<1>2. TempsAreExclusive' /\ TempsAreOwn'
    BY DEF TempsAreExclusive, TempsAreOwn, Writing, TempOf
<1> QED
    BY <1>1, <1>2

\* The inductive invariant holds in an empty cache that nobody uses.
LEMMA InitCacheInv == Init => CacheInv
<1> SUFFICES ASSUME Init PROVE CacheInv
    OBVIOUS
<1> USE DEF Init, Idle
<1>1. TypeOK
    <2>1. DOMAIN temp = {}
        OBVIOUS
    <2>2. Idle \in Activation
        BY DEF Activation, Steps
    <2>3. call \in [Callers -> Activation]
        BY <2>2
    <2>4. QED
        BY <2>1, <2>3 DEF TypeOK
<1>2. FilesMatchKeys /\ EntriesAreWholeOrShort
    BY DEF FilesMatchKeys, EntriesAreWholeOrShort
<1>3. LocalsMatch /\ TempsAreExclusive /\ TempsAreOwn /\ LocksExclude
      /\ NoRedundantCompile /\ AnswersAreOwn
    BY DEF LocalsMatch, Active, Locked, Writing, TempsAreExclusive, TempsAreOwn,
           LocksExclude, NoRedundantCompile, Compiling, AnswersAreOwn, Answered, Steps
<1> QED
    BY <1>1, <1>2, <1>3 DEF CacheInv

\* A new call of compile_with_iree preserves the inductive invariant.
LEMMA CallInv ==
    ASSUME CacheInv, NEW c \in Callers, NEW r \in Requests, Call(c, r)
    PROVE  CacheInv'
<1> USE DEF Call, CacheInv, Idle, disk
<1>1. TypeOK'
    <2>1. used' \in [Events -> Nat]
        BY SpendType DEF Events
    <2>2. call' \in [Callers -> Activation]
        BY DEF TypeOK, Activation, Steps
    <2> QED
        BY <2>1, <2>2 DEF TypeOK
<1>2. FilesMatchKeys' /\ EntriesAreWholeOrShort'
    BY DEF FilesMatchKeys, EntriesAreWholeOrShort, TypeOK
<1>3. LocalsMatch'
    BY DEF LocalsMatch, Active, Locked, Writing, Steps, TypeOK, Activation
<1>4. TempsAreExclusive' /\ TempsAreOwn'
    BY DEF TempsAreExclusive, TempsAreOwn, Writing, TempOf, TypeOK, Activation
<1>5. LocksExclude'
    BY DEF LocksExclude, Locked, TypeOK, Activation
<1>6. NoRedundantCompile'
    BY DEF NoRedundantCompile, Compiling, Served, TypeOK, Activation
<1>7. AnswersAreOwn'
    BY DEF AnswersAreOwn, Answered, TypeOK, Activation
<1> QED
    BY <1>1, <1>2, <1>3, <1>4, <1>5, <1>6, <1>7

\* create_dir_all preserves the inductive invariant.
LEMMA MakeDirInv ==
    ASSUME CacheInv, NEW c \in Callers, MakeDir(c)
    PROVE  CacheInv'
<1> USE DEF MakeDir, CacheInv, Goto
<1>1. TypeOK'
    BY DEF TypeOK, Activation, Steps
<1>2. FilesMatchKeys' /\ EntriesAreWholeOrShort'
    BY DEF FilesMatchKeys, EntriesAreWholeOrShort, TypeOK
<1>3. LocalsMatch'
    BY DEF LocalsMatch, Active, Locked, Writing, Steps, TypeOK, Activation
<1>4. TempsAreExclusive' /\ TempsAreOwn'
    BY DEF TempsAreExclusive, TempsAreOwn, Writing, TempOf, TypeOK, Activation
<1>5. LocksExclude'
    BY DEF LocksExclude, Locked, TypeOK, Activation
<1>6. NoRedundantCompile'
    BY DEF NoRedundantCompile, Compiling, Served, TypeOK, Activation
<1>7. AnswersAreOwn'
    BY DEF AnswersAreOwn, Answered, TypeOK, Activation
<1> QED
    BY <1>1, <1>2, <1>3, <1>4, <1>5, <1>6, <1>7

\* Opening iree-compiler.lock preserves the inductive invariant.
LEMMA OpenLockInv ==
    ASSUME CacheInv, NEW c \in Callers, OpenLock(c)
    PROVE  CacheInv'
<1> USE DEF OpenLock, CacheInv, disk
<1>1. TypeOK'
    <2>1. call[c] \in Activation /\ lockFile \in Nat
        BY DEF TypeOK
    <2>2. "flock" \in Steps
        BY DEF Steps
    <2>3. [call[c] EXCEPT !.step = "flock", !.fd = lockFile] \in Activation
        BY ONLY <2>1, <2>2, StepAndFdType
    <2> QED
        BY <2>3 DEF TypeOK
<1>2. FilesMatchKeys' /\ EntriesAreWholeOrShort'
    BY DEF FilesMatchKeys, EntriesAreWholeOrShort, TypeOK
<1>3. LocalsMatch'
    BY DEF LocalsMatch, Active, Locked, Writing, Steps, TypeOK, Activation
<1>4. TempsAreExclusive' /\ TempsAreOwn'
    BY DEF TempsAreExclusive, TempsAreOwn, Writing, TempOf, TypeOK, Activation
<1>5. LocksExclude'
    BY DEF LocksExclude, Locked, TypeOK, Activation
<1>6. NoRedundantCompile'
    BY DEF NoRedundantCompile, Compiling, Served, TypeOK, Activation
<1>7. AnswersAreOwn'
    BY DEF AnswersAreOwn, Answered, TypeOK, Activation
<1> QED
    BY <1>1, <1>2, <1>3, <1>4, <1>5, <1>6, <1>7

\* lock_exclusive preserves the inductive invariant, LocksExclude above all.
LEMMA LockInv ==
    ASSUME CacheInv, NEW c \in Callers, lock_exclusive(c)
    PROVE  CacheInv'
<1> USE DEF lock_exclusive, CacheInv, Goto, disk
<1>1. TypeOK'
    <2>1. call[c] \in Activation
        BY DEF TypeOK
    <2>2. "load" \in Steps
        BY DEF Steps
    <2>3. [call[c] EXCEPT !.step = "load"] \in Activation
        BY ONLY <2>1, <2>2, StepType
    <2> QED
        BY <2>3 DEF TypeOK
<1>2. FilesMatchKeys' /\ EntriesAreWholeOrShort'
    BY DEF FilesMatchKeys, EntriesAreWholeOrShort, TypeOK
<1>3. LocalsMatch'
    BY DEF LocalsMatch, Active, Locked, Writing, Steps, TypeOK, Activation
<1>4. TempsAreExclusive' /\ TempsAreOwn'
    BY DEF TempsAreExclusive, TempsAreOwn, Writing, TempOf, TypeOK, Activation
<1>5. LocksExclude'
    BY DEF LocksExclude, Locked, TypeOK, Activation
<1>6. NoRedundantCompile'
    BY DEF NoRedundantCompile, Compiling, Served, TypeOK, Activation
<1>7. AnswersAreOwn'
    BY DEF AnswersAreOwn, Answered, TypeOK, Activation
<1> QED
    BY <1>1, <1>2, <1>3, <1>4, <1>5, <1>6, <1>7

\* Loading the compiler library preserves the inductive invariant.
LEMMA LoadCompilerInv ==
    ASSUME CacheInv, NEW c \in Callers, LoadCompiler(c)
    PROVE  CacheInv'
<1> USE DEF LoadCompiler, CacheInv, disk
<1>1. TypeOK'
    <2>1. call[c] \in Activation /\ library \in Libraries
        BY DEF TypeOK
    <2>2. "fingerprint" \in Steps
        BY DEF Steps
    <2>3. [call[c] EXCEPT !.step = "fingerprint", !.lib = library] \in Activation
        BY ONLY <2>1, <2>2, StepAndLibType
    <2> QED
        BY <2>3 DEF TypeOK
<1>2. FilesMatchKeys' /\ EntriesAreWholeOrShort'
    BY DEF FilesMatchKeys, EntriesAreWholeOrShort, TypeOK
<1>3. LocalsMatch'
    BY DEF LocalsMatch, Active, Locked, Writing, Steps, TypeOK, Activation
<1>4. TempsAreExclusive' /\ TempsAreOwn'
    BY DEF TempsAreExclusive, TempsAreOwn, Writing, TempOf, TypeOK, Activation
<1>5. LocksExclude'
    BY DEF LocksExclude, Locked, TypeOK, Activation
<1>6. NoRedundantCompile'
    BY DEF NoRedundantCompile, Compiling, Served, TypeOK, Activation
<1>7. AnswersAreOwn'
    BY DEF AnswersAreOwn, Answered, TypeOK, Activation
<1> QED
    BY <1>1, <1>2, <1>3, <1>4, <1>5, <1>6, <1>7

\* compiler_fingerprint and cache_key preserve the inductive invariant: the
\* lock is what makes a miss here a miss for every other holder.
LEMMA FingerprintInv ==
    ASSUME CacheInv, NEW c \in Callers, compiler_fingerprint(c)
    PROVE  CacheInv'
<1> USE DEF compiler_fingerprint, CacheInv, disk
<1>1. TypeOK'
    <2>1. KeyOf(call[c].req, call[c].lib, library) \in CacheKeys
        BY KeyOfIsKey DEF TypeOK, LocalsMatch, Active, Locked, Steps
    <2>2. [call[c] EXCEPT !.step = "lookup", !.key = KeyOf(call[c].req, call[c].lib, library)]
            \in Activation
        <3>1. call[c] \in Activation
            BY DEF TypeOK
        <3>2. "lookup" \in Steps
            BY DEF Steps
        <3> QED
            BY ONLY <2>1, <3>1, <3>2, StepAndKeyType
    <2> QED
        BY <2>2 DEF TypeOK
<1>2. FilesMatchKeys' /\ EntriesAreWholeOrShort'
    BY DEF FilesMatchKeys, EntriesAreWholeOrShort, TypeOK
<1>3. LocalsMatch'
    BY DEF LocalsMatch, Active, Locked, Writing, Steps, TypeOK, Activation
<1>4. TempsAreExclusive' /\ TempsAreOwn'
    <2>1. \A e \in Callers : call'[e].step \in Writing =>
              call'[e] = call[e] /\ call[e].step \in Writing
        <3>1. \A e \in Callers \ {c} : call'[e] = call[e]
            BY DEF TypeOK
        <3>2. call'[c].step = "lookup"
            BY DEF TypeOK, Activation
        <3> QED
            BY <3>1, <3>2 DEF Writing
    <2>2. TempsAreExclusive'
        <3>1. counter' = counter
            OBVIOUS
        <3>2. \A e \in Callers : call'[e].step \in Writing => TempOf(e)' = TempOf(e)
            BY <2>1 DEF TempOf
        <3> QED
            BY <2>1, <3>1, <3>2 DEF TempsAreExclusive
    <2>3. TempsAreOwn'
        BY <2>1 DEF TempsAreOwn, Writing, TempOf
    <2> QED
        BY <2>2, <2>3
<1>5. LocksExclude'
    BY DEF LocksExclude, Locked, TypeOK, Activation
<1>6. NoRedundantCompile'
    BY DEF NoRedundantCompile, Compiling, Served, TypeOK, Activation
<1>7. AnswersAreOwn'
    BY DEF AnswersAreOwn, Answered, TypeOK, Activation
<1> QED
    BY <1>1, <1>2, <1>3, <1>4, <1>5, <1>6, <1>7

\* The lookup, a hit or a miss, preserves the inductive invariant.
LEMMA ReadCachedInv ==
    ASSUME CacheInv, KeysSeparate, NEW c \in Callers, read_cached_vmfb(c)
    PROVE  CacheInv'
<1> USE DEF read_cached_vmfb, CacheInv
<1> DEFINE k == call[c].key
<1>1. k \in CacheKeys
    BY KeyOfIsKey DEF LocalsMatch, Active, Locked, Steps, TypeOK, Activation
<1>2. /\ entry' \in [CacheKeys -> Content \cup {Nothing}]
      /\ \A j \in CacheKeys : entry'[j] = Nothing \/ entry'[j] = entry[j]
    BY <1>1, ReadCacheKeeps
<1>3. FilesMatchKeys' /\ EntriesAreWholeOrShort'
    BY <1>2 DEF FilesMatchKeys, EntriesAreWholeOrShort
<1>4. CASE Served(k)
    <2> USE <1>4
    <2>1. Return(c, entry[k])
        OBVIOUS
    <2>2. entry[k] = Compiled(call[c].req, call[c].lib)
        BY <1>1, ServedIsOwn DEF Locked
    <2>3. TypeOK'
        BY <1>1, <1>2, <2>1, ReturnType DEF TypeOK
    <2>4. LocalsMatch' /\ TempsAreExclusive' /\ TempsAreOwn'
        BY <2>1, ReturnedKeeps
    <2>5. LocksExclude' /\ NoRedundantCompile'
        BY <1>2, <2>1 DEF LocksExclude, Locked, NoRedundantCompile, Compiling, Served,
                          Return, Idle, LocalsMatch, TypeOK, Activation
    <2>6. AnswersAreOwn'
        BY <2>1, <2>2 DEF AnswersAreOwn, Answered, Return, Idle, TypeOK, Activation
    <2> QED
        BY <1>3, <2>3, <2>4, <2>5, <2>6
<1>5. CASE ~Served(k)
    <2>1. Goto(c, "compile")
        BY <1>5
    <2>2. ~Served(k)'
        BY <1>1, <1>2, <1>5, <2>1 DEF Served, Goto, TypeOK, Activation
    <2> USE DEF Goto
    <2>3. TypeOK'
        BY <1>2, <2>1 DEF TypeOK, Activation, Steps
    <2>4. LocalsMatch' /\ TempsAreExclusive' /\ TempsAreOwn'
        BY <2>1 DEF LocalsMatch, Active, Locked, Writing, Steps, TempsAreExclusive,
                    TempsAreOwn, TempOf, TypeOK, Activation
    <2>5. LocksExclude'
        BY <2>1 DEF LocksExclude, Locked, TypeOK, Activation
    <2>6. NoRedundantCompile'
        <3> SUFFICES ASSUME NEW d \in Callers, lockFile = 0, call'[d].step \in Compiling
                     PROVE  ~Served(call[d].key)'
            BY DEF NoRedundantCompile
        <3>1. call'[d].key = call[d].key
            BY <2>1 DEF TypeOK, Activation
        <3>2. CASE d = c
            BY <2>1, <2>2, <3>2
        <3>3. CASE d # c
            <4>1. call[d].step \in Compiling /\ call[d].key \in CacheKeys
                BY <2>1, <3>3, HeldKeysAreKeys DEF Compiling, Locked, TypeOK, Activation
            <4>2. ~Served(call[d].key)
                BY <4>1 DEF NoRedundantCompile
            <4> QED
                BY <1>2, <3>1, <4>1, <4>2 DEF Served
        <3> QED
            BY <3>2, <3>3
    <2>7. AnswersAreOwn'
        BY <2>1 DEF AnswersAreOwn, Answered, TypeOK, Activation
    <2> QED
        BY <1>3, <2>3, <2>4, <2>5, <2>6, <2>7
<1> QED
    BY <1>4, <1>5

\* compile_str with its fresh suffix preserves the inductive invariant.
LEMMA CompileStrInv ==
    ASSUME CacheInv, NEW c \in Callers, CompileStr(c)
    PROVE  CacheInv'
<1> USE DEF CompileStr, CacheInv, disk
<1>1. TypeOK'
    <2>1. Compiled(call[c].req, call[c].lib) \in Content
        BY DEF Compiled, Content, LocalsMatch, Active, Locked, Steps
    <2>2. PidOf[c] \in Pids /\ counter[PidOf[c]] \in Nat
        BY DEF TypeOK
    <2>3. [call[c] EXCEPT !.step = "create", !.nonce = counter[PidOf[c]],
                          !.out = Compiled(call[c].req, call[c].lib)] \in Activation
        <3>1. call[c] \in Activation
            BY DEF TypeOK
        <3> HIDE DEF CompileStr
        <3> QED
            BY <2>1, <2>2, <3>1 DEF Activation, Steps
    <2> QED
        BY <2>2, <2>3 DEF TypeOK
<1>2. FilesMatchKeys' /\ EntriesAreWholeOrShort'
    BY DEF FilesMatchKeys, EntriesAreWholeOrShort, TypeOK
<1>3. LocalsMatch'
    BY DEF LocalsMatch, Active, Locked, Writing, Steps, TypeOK, Activation
<1>4. TempsAreExclusive' /\ TempsAreOwn'
    <2>1. TempsAreExclusive'
        BY DEF TempsAreExclusive, Writing, TempOf, TypeOK, Activation, LocalsMatch
    <2>2. TempsAreOwn'
        BY DEF TempsAreOwn, TempOf, TypeOK, Activation
    <2> QED
        BY <2>1, <2>2
<1>5. LocksExclude'
    BY DEF LocksExclude, Locked, TypeOK, Activation
<1>6. NoRedundantCompile'
    BY DEF NoRedundantCompile, Compiling, Served, TypeOK, Activation
<1>7. AnswersAreOwn'
    BY DEF AnswersAreOwn, Answered, TypeOK, Activation
<1> QED
    BY <1>1, <1>2, <1>3, <1>4, <1>5, <1>6, <1>7

\* Creating the temporary file preserves the inductive invariant.
LEMMA CreateTempInv ==
    ASSUME CacheInv, NEW c \in Callers, CreateTemp(c)
    PROVE  CacheInv'
<1> USE DEF CreateTemp, CacheInv, Goto
<1>1. TypeOK'
    <2>1. TempOf(c) \in TempNames
        <3>1. call[c].key \in CacheKeys
            BY HeldKeysAreKeys DEF Locked
        <3>2. call[c].nonce \in Nat
            BY DEF LocalsMatch, Writing
        <3> QED
            BY <3>1, <3>2 DEF TempOf, TempNames
    <2>2. DOMAIN temp' \subseteq TempNames /\ \A t \in DOMAIN temp' : temp'[t] \in Content
        BY <2>1, CreatedTemp DEF TypeOK
    <2>3. [call[c] EXCEPT !.step = "write"] \in Activation
        <3>1. call[c] \in Activation
            BY DEF TypeOK
        <3> HIDE DEF CreateTemp
        <3> QED
            BY <3>1 DEF Activation, Steps
    <2> QED
        BY <2>2, <2>3 DEF TypeOK
<1>2. FilesMatchKeys' /\ EntriesAreWholeOrShort'
    <2>1. \A t \in DOMAIN temp' : \E w \in Libraries :
              KeyOf(temp'[t].req, temp'[t].lib, w) = t[1]
        <3> SUFFICES ASSUME NEW t \in DOMAIN temp'
                     PROVE  \E w \in Libraries : KeyOf(temp'[t].req, temp'[t].lib, w) = t[1]
            OBVIOUS
        <3>1. CASE t = TempOf(c)
            BY <3>1, CreatedTemp
        <3>2. CASE t # TempOf(c)
            <4>1. t \in DOMAIN temp /\ temp'[t] = temp[t]
                BY <3>2, CreatedTemp
            <4> QED
                BY <4>1 DEF FilesMatchKeys
        <3> QED
            BY <3>1, <3>2
    <2> QED
        BY <2>1 DEF FilesMatchKeys, EntriesAreWholeOrShort, TypeOK
<1>3. LocalsMatch'
    BY DEF LocalsMatch, Active, Locked, Writing, Steps, TypeOK, Activation
<1>4. TempsAreExclusive' /\ TempsAreOwn'
    <2>1. TempsAreExclusive'
        BY DEF TempsAreExclusive, Writing, TempOf, TypeOK, Activation
    <2>2. TempsAreOwn'
        <3> SUFFICES ASSUME NEW d \in Callers, call'[d].step = "rename",
                            TempOf(d)' \in DOMAIN temp'
                     PROVE  temp'[TempOf(d)'] = call'[d].out
            BY DEF TempsAreOwn
        <3>1. d # c /\ call'[d] = call[d]
            BY DEF TypeOK, Activation
        <3>2. TempOf(d)' = TempOf(d) /\ TempOf(d) # TempOf(c)
            BY <3>1 DEF TempsAreExclusive, TempOf, Writing
        <3> QED
            BY <3>1, <3>2, CreatedTemp DEF TempsAreOwn
    <2> QED
        BY <2>1, <2>2
<1>5. LocksExclude'
    BY DEF LocksExclude, Locked, TypeOK, Activation
<1>6. NoRedundantCompile'
    BY DEF NoRedundantCompile, Compiling, Served, TypeOK, Activation
<1>7. AnswersAreOwn'
    BY DEF AnswersAreOwn, Answered, TypeOK, Activation
<1> QED
    BY <1>1, <1>2, <1>3, <1>4, <1>5, <1>6, <1>7

\* Completing the temporary file preserves the inductive invariant.
LEMMA WriteTempInv ==
    ASSUME CacheInv, NEW c \in Callers, WriteTemp(c)
    PROVE  CacheInv'
<1> USE DEF WriteTemp, CacheInv, Goto
<1>1. TypeOK'
    <2>1. call[c].out \in Content
        BY OwnOutput DEF Writing
    <2>2. call[c] \in Activation
        BY DEF TypeOK
    <2>3. "rename" \in Steps
        BY DEF Steps
    <2>4. [call[c] EXCEPT !.step = "rename"] \in Activation
        BY ONLY <2>2, <2>3, StepType
    <2> QED
        BY <2>1, <2>4 DEF TypeOK
<1>2. FilesMatchKeys' /\ EntriesAreWholeOrShort'
    <2>1. \A t \in DOMAIN temp' : \E w \in Libraries :
              KeyOf(temp'[t].req, temp'[t].lib, w) = t[1]
        BY OwnOutput DEF FilesMatchKeys, Writing, TempOf
    <2> QED
        BY <2>1 DEF FilesMatchKeys, EntriesAreWholeOrShort, TypeOK
<1>3. LocalsMatch'
    BY DEF LocalsMatch, Active, Locked, Writing, Steps, TypeOK, Activation
<1>4. TempsAreExclusive' /\ TempsAreOwn'
    BY DEF TempsAreExclusive, TempsAreOwn, Writing, TempOf, TypeOK, Activation
<1>5. LocksExclude'
    BY DEF LocksExclude, Locked, TypeOK, Activation
<1>6. NoRedundantCompile'
    BY DEF NoRedundantCompile, Compiling, Served, TypeOK, Activation
<1>7. AnswersAreOwn'
    BY DEF AnswersAreOwn, Answered, TypeOK, Activation
<1> QED
    BY <1>1, <1>2, <1>3, <1>4, <1>5, <1>6, <1>7

\* Publishing by rename preserves the inductive invariant.
LEMMA RenameInv ==
    ASSUME CacheInv, NEW c \in Callers, Rename(c)
    PROVE  CacheInv'
<1> USE DEF Rename, CacheInv, Return, Idle
<1>1. TypeOK'
    BY DEF TypeOK, Activation, Steps
<1>2. FilesMatchKeys' /\ EntriesAreWholeOrShort'
    <2>1. temp[TempOf(c)] = call[c].out
        BY DEF TempsAreOwn
    <2>2. /\ call[c].out = Compiled(call[c].req, call[c].lib)
          /\ \E w \in Libraries : KeyOf(call[c].out.req, call[c].out.lib, w) = call[c].key
        BY OwnOutput DEF Writing
    <2>3. \A k \in CacheKeys : entry'[k] # Nothing =>
              /\ entry'[k].size # "part"
              /\ \E w \in Libraries : KeyOf(entry'[k].req, entry'[k].lib, w) = k
        BY <2>1, <2>2 DEF FilesMatchKeys, EntriesAreWholeOrShort, Compiled, TypeOK
    <2>4. \A t \in DOMAIN temp' : temp'[t] = temp[t] /\ t \in DOMAIN temp
        OBVIOUS
    <2> QED
        BY <2>3, <2>4 DEF FilesMatchKeys, EntriesAreWholeOrShort
<1>3. LocalsMatch'
    BY DEF LocalsMatch, Active, Locked, Writing, Steps, TypeOK, Activation
<1>4. TempsAreExclusive' /\ TempsAreOwn'
    BY DEF TempsAreExclusive, TempsAreOwn, Writing, TempOf, TypeOK, Activation
<1>5. LocksExclude'
    BY DEF LocksExclude, Locked, TypeOK, Activation
<1>6. NoRedundantCompile'
    <2> SUFFICES ASSUME NEW d \in Callers, lockFile = 0, call'[d].step \in Compiling
                 PROVE  ~Served(call[d].key)'
        BY DEF NoRedundantCompile
    <2>1. d # c /\ call'[d] = call[d]
        BY DEF Compiling, TypeOK, Activation
    <2>2. call[d].fd = 0 /\ call[c].fd = 0
        BY <2>1 DEF LocksExclude, Locked, Compiling
    <2> QED
        BY <2>1, <2>2 DEF LocksExclude, Locked, Compiling
<1>7. AnswersAreOwn'
    <2>1. call[c].out = Compiled(call[c].req, call[c].lib)
        BY OwnOutput DEF Writing
    <2> QED
        BY <2>1 DEF AnswersAreOwn, Answered, TypeOK, Activation
<1> QED
    BY <1>1, <1>2, <1>3, <1>4, <1>5, <1>6, <1>7

\* A failed rename and its clean-up preserve the inductive invariant.
LEMMA RenameFailsInv ==
    ASSUME CacheInv, NEW c \in Callers, RenameFails(c)
    PROVE  CacheInv'
<1> USE DEF RenameFails, CacheInv, Goto
<1>1. TypeOK'
    <2>1. call[c] \in Activation
        BY DEF TypeOK
    <2>2. "reread" \in Steps
        BY DEF Steps
    <2>3. [call[c] EXCEPT !.step = "reread"] \in Activation
        BY ONLY <2>1, <2>2, StepType
    <2> QED
        BY <2>3 DEF TypeOK
<1>2. FilesMatchKeys' /\ EntriesAreWholeOrShort'
    BY DEF FilesMatchKeys, EntriesAreWholeOrShort, TypeOK
<1>3. LocalsMatch'
    BY DEF LocalsMatch, Active, Locked, Writing, Steps, TypeOK, Activation
<1>4. TempsAreExclusive' /\ TempsAreOwn'
    BY DEF TempsAreExclusive, TempsAreOwn, Writing, TempOf, TypeOK, Activation
<1>5. LocksExclude'
    BY DEF LocksExclude, Locked, TypeOK, Activation
<1>6. NoRedundantCompile'
    BY DEF NoRedundantCompile, Compiling, Served, TypeOK, Activation
<1>7. AnswersAreOwn'
    BY DEF AnswersAreOwn, Answered, TypeOK, Activation
<1> QED
    BY <1>1, <1>2, <1>3, <1>4, <1>5, <1>6, <1>7

\* The second lookup after a failed rename preserves the inductive invariant.
LEMMA RereadInv ==
    ASSUME CacheInv, KeysSeparate, NEW c \in Callers, Reread(c)
    PROVE  CacheInv'
<1> USE DEF Reread, CacheInv
<1> DEFINE k == call[c].key
           out == IF Served(k) THEN entry[k] ELSE Failed
<1>1. k \in CacheKeys
    BY HeldKeysAreKeys DEF Locked
<1>2. /\ entry' \in [CacheKeys -> Content \cup {Nothing}]
      /\ \A j \in CacheKeys : entry'[j] = Nothing \/ entry'[j] = entry[j]
    BY <1>1, ReadCacheKeeps
<1>3. Return(c, out)
    OBVIOUS
<1>4. out = Failed \/ out = Compiled(call[c].req, call[c].lib)
    BY <1>1, ServedIsOwn DEF Locked
<1>5. TypeOK'
    BY <1>1, <1>2, <1>3, ReturnType DEF TypeOK
<1>6. FilesMatchKeys' /\ EntriesAreWholeOrShort'
    BY <1>2 DEF FilesMatchKeys, EntriesAreWholeOrShort
<1>7. LocalsMatch' /\ TempsAreExclusive' /\ TempsAreOwn'
    BY <1>3, ReturnedKeeps
<1>8. LocksExclude' /\ NoRedundantCompile'
    <2>1. /\ \A d \in Callers \ {c} : call'[d] = call[d]
          /\ call'[c].step = "done"
        BY <1>3 DEF Return, Idle, TypeOK
    <2>2. LocksExclude'
        BY <2>1 DEF LocksExclude, Locked
    <2>3. NoRedundantCompile'
        BY <1>2, <2>1, HeldKeysAreKeys DEF NoRedundantCompile, Compiling, Served, Locked
    <2> QED
        BY <2>2, <2>3
<1>9. AnswersAreOwn'
    BY <1>3, <1>4 DEF AnswersAreOwn, Answered, Return, Idle, TypeOK, Activation
<1> QED
    BY <1>5, <1>6, <1>7, <1>8, <1>9

\* An open in a deleted directory fails and preserves the inductive invariant.
LEMMA DirGoneInv ==
    ASSUME CacheInv, NEW c \in Callers, DirGone(c)
    PROVE  CacheInv'
<1> USE DEF DirGone, CacheInv, Return, Idle, disk
<1>1. TypeOK'
    BY DEF TypeOK, Activation, Steps
<1>2. FilesMatchKeys' /\ EntriesAreWholeOrShort'
    BY DEF FilesMatchKeys, EntriesAreWholeOrShort, TypeOK
<1>3. LocalsMatch'
    BY DEF LocalsMatch, Active, Locked, Writing, Steps, TypeOK, Activation
<1>4. TempsAreExclusive' /\ TempsAreOwn'
    BY DEF TempsAreExclusive, TempsAreOwn, Writing, TempOf, TypeOK, Activation
<1>5. LocksExclude'
    BY DEF LocksExclude, Locked, TypeOK, Activation
<1>6. NoRedundantCompile'
    BY DEF NoRedundantCompile, Compiling, Served, TypeOK, Activation
<1>7. AnswersAreOwn'
    BY DEF AnswersAreOwn, Answered, TypeOK, Activation
<1> QED
    BY <1>1, <1>2, <1>3, <1>4, <1>5, <1>6, <1>7

\* An error return of any step preserves the inductive invariant.
LEMMA FailInv ==
    ASSUME CacheInv, NEW c \in Callers, Fail(c)
    PROVE  CacheInv'
<1> USE DEF Fail, CacheInv, Return, Idle, disk
<1>1. TypeOK'
    BY DEF TypeOK, Activation, Steps
<1>2. FilesMatchKeys' /\ EntriesAreWholeOrShort'
    BY DEF FilesMatchKeys, EntriesAreWholeOrShort, TypeOK
<1>3. LocalsMatch'
    BY DEF LocalsMatch, Active, Locked, Writing, Steps, TypeOK, Activation
<1>4. TempsAreExclusive' /\ TempsAreOwn'
    BY DEF TempsAreExclusive, TempsAreOwn, Writing, TempOf, TypeOK, Activation
<1>5. LocksExclude'
    BY DEF LocksExclude, Locked, TypeOK, Activation
<1>6. NoRedundantCompile'
    BY DEF NoRedundantCompile, Compiling, Served, TypeOK, Activation
<1>7. AnswersAreOwn'
    BY DEF AnswersAreOwn, Answered, TypeOK, Activation
<1> QED
    BY <1>1, <1>2, <1>3, <1>4, <1>5, <1>6, <1>7

\* The death of a process preserves the inductive invariant.
LEMMA CrashInv ==
    ASSUME CacheInv, NEW p \in Pids, Crash(p)
    PROVE  CacheInv'
<1> USE DEF Crash, CacheInv, Idle, disk
<1>1. TypeOK'
    <2>1. used' \in [Events -> Nat]
        BY SpendType DEF Events
    <2>2. call' \in [Callers -> Activation]
        BY DEF TypeOK, Activation, Steps
    <2> QED
        BY <2>1, <2>2 DEF TypeOK
<1>2. FilesMatchKeys' /\ EntriesAreWholeOrShort'
    BY DEF FilesMatchKeys, EntriesAreWholeOrShort, TypeOK
<1>3. LocalsMatch'
    BY DEF LocalsMatch, Active, Locked, Writing, Steps, TypeOK, Activation
<1>4. TempsAreExclusive' /\ TempsAreOwn'
    BY DEF TempsAreExclusive, TempsAreOwn, Writing, TempOf, TypeOK, Activation
<1>5. LocksExclude'
    BY DEF LocksExclude, Locked, TypeOK, Activation
<1>6. NoRedundantCompile'
    BY DEF NoRedundantCompile, Compiling, Served, TypeOK, Activation
<1>7. AnswersAreOwn'
    BY DEF AnswersAreOwn, Answered, TypeOK, Activation
<1> QED
    BY <1>1, <1>2, <1>3, <1>4, <1>5, <1>6, <1>7

\* A power loss that leaves files whole or short of 16 bytes preserves the
\* inductive invariant.
LEMMA PowerLossInv ==
    ASSUME CacheInv, PowerLoss,
           "part" \notin LostWrites
    PROVE  CacheInv'
<1> USE DEF PowerLoss, CacheInv, Idle
<1>1. TypeOK'
    <2>1. used' \in [Events -> Nat]
        BY SpendType DEF Events
    <2>2. Idle \in Activation
        BY DEF Activation, Steps
    <2>3. entry' \in [CacheKeys -> Content \cup {Nothing}]
        BY DEF TypeOK, Content
    <2> QED
        BY <2>1, <2>2, <2>3 DEF TypeOK
<1>2. FilesMatchKeys' /\ EntriesAreWholeOrShort'
    <2>1. PICK lost \in SUBSET {k \in CacheKeys : entry[k] # Nothing}, size \in LostWrites :
              entry' = [k \in CacheKeys |->
                  IF k \in lost THEN [entry[k] EXCEPT !.size = size] ELSE entry[k]]
        OBVIOUS
    <2>2. size = "short"
        OBVIOUS
    <2>3. \A k \in CacheKeys : entry'[k] # Nothing =>
              /\ entry[k] # Nothing
              /\ entry'[k].req = entry[k].req /\ entry'[k].lib = entry[k].lib
              /\ entry'[k].size \in {"short", entry[k].size}
        BY <2>1, <2>2 DEF TypeOK, Content
    <2> QED
        BY <2>3 DEF FilesMatchKeys, EntriesAreWholeOrShort
<1>3. LocalsMatch'
    BY DEF LocalsMatch, Active, Locked, Writing, Steps, TypeOK, Activation
<1>4. TempsAreExclusive' /\ TempsAreOwn'
    BY DEF TempsAreExclusive, TempsAreOwn, Writing, TempOf, TypeOK, Activation
<1>5. LocksExclude'
    BY DEF LocksExclude, Locked, TypeOK, Activation
<1>6. NoRedundantCompile'
    BY DEF NoRedundantCompile, Compiling, Served, TypeOK, Activation
<1>7. AnswersAreOwn'
    BY DEF AnswersAreOwn, Answered, TypeOK, Activation
<1> QED
    BY <1>1, <1>2, <1>3, <1>4, <1>5, <1>6, <1>7

\* Deleting files, the lock file or the directory under the feet of callers
\* preserves the inductive invariant.
LEMMA CleanInv ==
    ASSUME CacheInv, Clean
    PROVE  CacheInv'
<1> USE DEF Clean, CacheInv
<1>1. TypeOK'
    <2>1. used' \in [Events -> Nat]
        BY SpendType DEF Events
    <2> QED
        BY <2>1 DEF TypeOK
<1>2. FilesMatchKeys' /\ EntriesAreWholeOrShort'
    BY DEF FilesMatchKeys, EntriesAreWholeOrShort, TypeOK
<1>3. LocalsMatch'
    BY DEF LocalsMatch, Active, Locked, Writing, Steps, TypeOK, Activation
<1>4. TempsAreExclusive' /\ TempsAreOwn'
    BY DEF TempsAreExclusive, TempsAreOwn, Writing, TempOf, TypeOK, Activation
<1>5. LocksExclude'
    BY DEF LocksExclude, Locked, TypeOK, Activation
<1>6. NoRedundantCompile'
    <2>1. lockFile' = 0 => lockFile = 0
        BY DEF TypeOK
    <2>2. \A k \in CacheKeys : Served(k)' => Served(k)
        BY DEF Served
    <2> QED
        BY <2>1, <2>2, HeldKeysAreKeys DEF NoRedundantCompile, Compiling, Locked
<1>7. AnswersAreOwn'
    BY DEF AnswersAreOwn, Answered, TypeOK, Activation
<1> QED
    BY <1>1, <1>2, <1>3, <1>4, <1>5, <1>6, <1>7

\* Replacing the compiler library preserves the inductive invariant.
LEMMA InstallInv ==
    ASSUME CacheInv, NEW lib \in Libraries, Install(lib)
    PROVE  CacheInv'
<1> USE DEF Install, CacheInv, disk
<1>1. TypeOK'
    <2>1. used' \in [Events -> Nat]
        BY SpendType DEF Events
    <2> QED
        BY <2>1 DEF TypeOK
<1>2. FilesMatchKeys' /\ EntriesAreWholeOrShort'
    BY DEF FilesMatchKeys, EntriesAreWholeOrShort, TypeOK
<1>3. LocalsMatch'
    BY DEF LocalsMatch, Active, Locked, Writing, Steps, TypeOK, Activation
<1>4. TempsAreExclusive' /\ TempsAreOwn'
    BY DEF TempsAreExclusive, TempsAreOwn, Writing, TempOf, TypeOK, Activation
<1>5. LocksExclude'
    BY DEF LocksExclude, Locked, TypeOK, Activation
<1>6. NoRedundantCompile'
    BY DEF NoRedundantCompile, Compiling, Served, TypeOK, Activation
<1>7. AnswersAreOwn'
    BY DEF AnswersAreOwn, Answered, TypeOK, Activation
<1> QED
    BY <1>1, <1>2, <1>3, <1>4, <1>5, <1>6, <1>7

\* Every step of the cache and its surroundings preserves the inductive invariant.
LEMMA NextCacheInv ==
    ASSUME KeysSeparate, "part" \notin LostWrites, CacheInv, [Next]_vars
    PROVE  CacheInv'
<1>1. CASE UNCHANGED vars
    BY <1>1 DEF vars, CacheInv, TypeOK, FilesMatchKeys, LocalsMatch, TempsAreExclusive,
                TempsAreOwn, TempOf, LocksExclude, EntriesAreWholeOrShort,
                NoRedundantCompile, Served, AnswersAreOwn, Answered
<1>2. ASSUME NEW c \in Callers, Advance(c)
      PROVE  CacheInv'
    BY <1>2, MakeDirInv, OpenLockInv, LockInv, LoadCompilerInv, FingerprintInv,
       ReadCachedInv, CompileStrInv, CreateTempInv, WriteTempInv, RenameInv,
       RenameFailsInv, RereadInv, DirGoneInv DEF Advance
<1>3. ASSUME NEW c \in Callers, NEW r \in Requests, Call(c, r)
      PROVE  CacheInv'
    BY <1>3, CallInv
<1> QED
    BY <1>1, <1>2, <1>3, FailInv, CrashInv, PowerLossInv, CleanInv, InstallInv DEF Next

-----------------------------------------------------------------------------
(* The invariants.                                                         *)

\* All of the protocol's state keeps its shape, whoever calls, dies, deletes
\* or upgrades: the inductive invariant of compile_with_iree.
THEOREM CacheInvAlways ==
    ASSUME KeysSeparate, "part" \notin LostWrites
    PROVE  Spec => []CacheInv
<1>1. CacheInv /\ [Next]_vars => CacheInv'
    BY NextCacheInv
<1> QED
    BY InitCacheInv, <1>1, PTL DEF Spec

\* Every variable has its type, always.
THEOREM TypeCorrect ==
    ASSUME KeysSeparate, "part" \notin LostWrites
    PROVE  Spec => []TypeOK
<1>1. CacheInv => TypeOK
    BY DEF CacheInv
<1> QED
    BY CacheInvAlways, <1>1, PTL

\* compile_with_iree never answers with another request's artifact, another
\* compiler's, or a part of one.
THEOREM AnswersAreOwnAlways ==
    ASSUME KeysSeparate, "part" \notin LostWrites
    PROVE  Spec => []AnswersAreOwn
<1>1. CacheInv => AnswersAreOwn
    BY DEF CacheInv
<1> QED
    BY CacheInvAlways, <1>1, PTL

\* What read_cached_vmfb serves under a key is a whole artifact with that key.
THEOREM ServedEntriesAreWholeAlways ==
    ASSUME KeysSeparate, "part" \notin LostWrites
    PROVE  Spec => []ServedEntriesAreWhole
<1>1. CacheInv => ServedEntriesAreWhole
    BY DEF CacheInv, TypeOK, FilesMatchKeys, EntriesAreWholeOrShort, Content,
           ServedEntriesAreWhole, Served
<1> QED
    BY CacheInvAlways, <1>1, PTL

\* While the lock file is in place no caller compiles what is already served.
THEOREM NoRedundantCompileAlways ==
    ASSUME KeysSeparate, "part" \notin LostWrites
    PROVE  Spec => []NoRedundantCompile
<1>1. CacheInv => NoRedundantCompile
    BY DEF CacheInv
<1> QED
    BY CacheInvAlways, <1>1, PTL

\* No step changes the bytes served under a key.
THEOREM PublishedIsStableAlways ==
    ASSUME KeysSeparate, "part" \notin LostWrites
    PROVE  Spec => PublishedIsStable
<1> DEFINE Stable == \A k \in CacheKeys : Served(k) /\ Served(k)' => entry'[k] = entry[k]
<1>1. ASSUME CacheInv, CacheInv'
      PROVE  Stable
    <2> SUFFICES ASSUME NEW k \in CacheKeys, Served(k), Served(k)'
                 PROVE  entry'[k] = entry[k]
        OBVIOUS
    <2>1. entry[k] \in Content /\ entry'[k] \in Content
        BY <1>1 DEF CacheInv, TypeOK, Served
    <2>2. entry[k].size = "whole" /\ entry'[k].size = "whole"
        BY <1>1, <2>1 DEF CacheInv, EntriesAreWholeOrShort, Served, Content
    <2>3. PICK w \in Libraries : KeyOf(entry[k].req, entry[k].lib, w) = k
        BY <1>1 DEF CacheInv, FilesMatchKeys, Served
    <2>4. PICK x \in Libraries : KeyOf(entry'[k].req, entry'[k].lib, x) = k
        BY <1>1 DEF CacheInv, FilesMatchKeys, Served
    <2>5. entry[k].req = entry'[k].req /\ entry[k].lib = entry'[k].lib
        BY <2>1, <2>3, <2>4 DEF KeysSeparate, Content
    <2> QED
        BY <2>1, <2>2, <2>5 DEF Content
<1>2. CacheInv /\ CacheInv' => [Stable]_entry
    BY <1>1
<1> QED
    BY CacheInvAlways, <1>2, PTL DEF PublishedIsStable

-----------------------------------------------------------------------------
(* Refinement.                                                             *)

\* An activation that has returned is the client that was answered.
LEMMA ReturnMapsToDone ==
    ASSUME TypeOK, NEW c \in Callers, NEW out, Return(c, out)
    PROVE  clientOf' = [clientOf EXCEPT ![c] = [step |-> "done", req |-> call[c].req,
                                                lib |-> call[c].lib, out |-> out]]
BY DEF TypeOK, Activation, Return, Idle, clientOf, ServiceStep

\* A step between two steps of the same phase is invisible to the service.
LEMMA GotoMaps ==
    ASSUME TypeOK, NEW c \in Callers, NEW step \in Steps \ {"done"}, Goto(c, step),
           call[c].step # "done", ServiceStep(step) = ServiceStep(call[c].step)
    PROVE  clientOf' = clientOf
BY DEF TypeOK, Activation, Goto, clientOf

\* The empty cache is the initial state of the service.
LEMMA InitRefines == Init => Service!ServiceInit
BY DEF Init, Service!ServiceInit, clientOf, Idle, ServiceStep, Service!Unused, Service!Client

\* A step of compile_with_iree is a step of the service or invisible to it.
LEMMA AdvanceRefines ==
    ASSUME CacheInv, CacheInv', NEW c \in Callers, Advance(c)
    PROVE  [Service!ServiceNext]_(Service!serviceVars)
<1> USE DEF CacheInv
<1>1. library' = library
    BY DEF Advance, MakeDir, OpenLock, lock_exclusive, LoadCompiler, compiler_fingerprint,
           read_cached_vmfb, CompileStr, CreateTemp, WriteTemp, Rename, RenameFails,
           Reread, DirGone
<1>2. ASSUME NEW out \in Content \cup {Nothing}, Return(c, out),
             call[c].step \in Locked \ {"load"}
      PROVE  Service!Answer(c)
    <2>1. out # Failed
        BY CacheAssumption
    <2>2. call'[c].step = "done" /\ call'[c].out = out
          /\ call'[c].req = call[c].req /\ call'[c].lib = call[c].lib
        BY <1>2 DEF Return, Idle, TypeOK
    <2>3. out = Compiled(call[c].req, call[c].lib)
        BY <2>1, <2>2 DEF AnswersAreOwn, Answered
    <2>4. clientOf[c] = [step |-> "compiling", req |-> call[c].req,
                         lib |-> call[c].lib, out |-> Nothing]
        BY <1>2 DEF clientOf, ServiceStep, Locked
    <2>5. clientOf' = [clientOf EXCEPT ![c] = [step |-> "done", req |-> call[c].req,
                                               lib |-> call[c].lib, out |-> out]]
        BY <1>2, ReturnMapsToDone
    <2>7. out = Service!Compiled(clientOf[c].req, clientOf[c].lib)
        BY <2>3, <2>4 DEF Service!Compiled, Compiled
    <2>8. clientOf[c].step = "compiling"
        BY <2>4
    <2> QED
        BY <1>1, <2>4, <2>5, <2>7, <2>8 DEF Service!Answer, Service!Client
<1>3. ASSUME Return(c, Failed), call[c].step \in Active
      PROVE  Service!Refuse(c)
    <2>1. clientOf' = [clientOf EXCEPT ![c] = [step |-> "done", req |-> call[c].req,
                                               lib |-> call[c].lib, out |-> Failed]]
        BY <1>3, ReturnMapsToDone
    <2>2. /\ clientOf[c].step \in {"waiting", "compiling"}
          /\ clientOf[c].req = call[c].req /\ clientOf[c].lib = call[c].lib
        BY <1>3 DEF clientOf, ServiceStep, Active, Steps
    <2> QED
        BY <1>1, <2>1, <2>2 DEF Service!Refuse, Service!Client
<1>4. CASE MakeDir(c) \/ lock_exclusive(c) \/ CreateTemp(c) \/ WriteTemp(c) \/ RenameFails(c)
    <2>1. clientOf' = clientOf
        BY <1>4, GotoMaps DEF MakeDir, lock_exclusive, CreateTemp, WriteTemp, RenameFails,
                              Steps, ServiceStep
    <2> QED
        BY <1>1, <2>1 DEF Service!serviceVars
<1>5. CASE OpenLock(c) \/ compiler_fingerprint(c) \/ CompileStr(c)
    <2>1. OpenLock(c) => clientOf' = clientOf
        BY DEF OpenLock, clientOf, ServiceStep, TypeOK, Activation
    <2>2. compiler_fingerprint(c) => clientOf' = clientOf
        BY DEF compiler_fingerprint, clientOf, ServiceStep, TypeOK, Activation
    <2>3. CompileStr(c) => clientOf' = clientOf
        BY DEF CompileStr, clientOf, ServiceStep, TypeOK, Activation
    <2>4. clientOf' = clientOf
        BY <1>5, <2>1, <2>2, <2>3
    <2> QED
        BY <1>1, <2>4 DEF Service!serviceVars
<1>6. CASE LoadCompiler(c)
    <2>1. clientOf[c] = [step |-> "waiting", req |-> call[c].req,
                         lib |-> call[c].lib, out |-> Nothing]
        BY <1>6 DEF LoadCompiler, clientOf, ServiceStep
    <2>3. clientOf' = [clientOf EXCEPT ![c] = [step |-> "compiling", req |-> call[c].req,
                                               lib |-> library, out |-> Nothing]]
        <3>1. \A d \in Callers \ {c} : call'[d] = call[d]
            BY <1>6 DEF LoadCompiler
        <3>2. call'[c] = [call[c] EXCEPT !.step = "fingerprint", !.lib = library]
            BY <1>6 DEF LoadCompiler, TypeOK
        <3>3. /\ call'[c].step = "fingerprint" /\ call'[c].lib = library
              /\ call'[c].req = call[c].req
            BY <3>2 DEF TypeOK, Activation
        <3> QED
            BY <3>1, <3>3 DEF clientOf, ServiceStep
    <2>4. Service!PickCompiler(c)
        BY <1>1, <2>1, <2>3 DEF Service!PickCompiler, Service!Client
    <2> QED
        BY <2>4 DEF Service!ServiceNext
<1>7. CASE read_cached_vmfb(c)
    <2>1. CASE Served(call[c].key)
        <3>1. Return(c, entry[call[c].key]) /\ call[c].step = "lookup"
            BY <1>7, <2>1 DEF read_cached_vmfb
        <3>2. entry[call[c].key] \in Content
            BY <2>1, <3>1, HeldKeysAreKeys DEF Served, TypeOK, Locked
        <3> QED
            BY <1>2, <3>1, <3>2 DEF Locked, Service!ServiceNext
    <2>2. CASE ~Served(call[c].key)
        <3>1. Goto(c, "compile") /\ call[c].step = "lookup"
            BY <1>7, <2>2 DEF read_cached_vmfb
        <3>2. clientOf' = clientOf
            BY <3>1, GotoMaps DEF Steps, ServiceStep
        <3> QED
            BY <1>1, <3>2 DEF Service!serviceVars
    <2> QED
        BY <2>1, <2>2
<1>8. CASE Rename(c)
    <2>1. call[c].out \in Content
        BY <1>8, OwnOutput DEF Rename, Writing
    <2> QED
        BY <1>2, <1>8, <2>1 DEF Rename, Locked, Service!ServiceNext
<1>9. CASE Reread(c)
    <2>1. CASE Served(call[c].key)
        <3>1. entry[call[c].key] \in Content
            BY <1>9, <2>1, HeldKeysAreKeys DEF Reread, Served, TypeOK, Locked
        <3> QED
            BY <1>2, <1>9, <2>1, <3>1 DEF Reread, Locked, Service!ServiceNext
    <2>2. CASE ~Served(call[c].key)
        BY <1>3, <1>9, <2>2 DEF Reread, Active, Steps, Service!ServiceNext
    <2> QED
        BY <2>1, <2>2
<1>10. CASE DirGone(c)
    BY <1>3, <1>10 DEF DirGone, Active, Steps, Service!ServiceNext
<1> QED
    BY <1>4, <1>5, <1>6, <1>7, <1>8, <1>9, <1>10 DEF Advance

\* Every step of the cache is a step of the service or invisible to it.
LEMMA StepRefines ==
    ASSUME CacheInv, CacheInv', [Next]_vars
    PROVE  [Service!ServiceNext]_(Service!serviceVars)
<1> USE DEF CacheInv
<1>1. CASE UNCHANGED vars
    BY <1>1 DEF vars, Service!serviceVars, clientOf
<1>2. ASSUME NEW c \in Callers, Advance(c)
      PROVE  [Service!ServiceNext]_(Service!serviceVars)
    BY <1>2, AdvanceRefines
<1>3. ASSUME NEW c \in Callers, Fail(c)
      PROVE  Service!ServiceNext
    <2>1. clientOf' = [clientOf EXCEPT ![c] = [step |-> "done", req |-> call[c].req,
                                               lib |-> call[c].lib, out |-> Failed]]
        BY <1>3, ReturnMapsToDone DEF Fail
    <2>2. /\ clientOf[c].step \in {"waiting", "compiling"}
          /\ clientOf[c].req = call[c].req /\ clientOf[c].lib = call[c].lib
        BY <1>3 DEF Fail, clientOf, ServiceStep, Active, Steps
    <2>4. Service!Refuse(c)
        BY <1>3, <2>1, <2>2 DEF Fail, Service!Refuse, Service!Client
    <2> QED
        BY <2>4 DEF Service!ServiceNext
<1>4. ASSUME NEW c \in Callers, NEW r \in Requests, Call(c, r)
      PROVE  Service!ServiceNext
    <2>1. /\ call' = [call EXCEPT ![c] = [Idle EXCEPT !.step = "mkdir", !.req = r]]
          /\ call[c].step \in {"idle", "done"} /\ library' = library
        BY <1>4 DEF Call
    <2>2. /\ \A d \in Callers \ {c} : call'[d] = call[d]
          /\ call'[c] = [Idle EXCEPT !.step = "mkdir", !.req = r]
        BY <2>1 DEF TypeOK
    <2>3. /\ call'[c].step = "mkdir" /\ call'[c].req = r /\ call'[c].lib = Nothing
        BY <2>2 DEF Idle
    <2>4. clientOf' = [clientOf EXCEPT ![c] = Service!Client("waiting", r, Nothing, Nothing)]
        <3>1. clientOf'[c] = Service!Client("waiting", r, Nothing, Nothing)
            BY <2>3 DEF clientOf, ServiceStep, Service!Client
        <3>2. \A d \in Callers \ {c} : clientOf'[d] = clientOf[d]
            BY <2>2 DEF clientOf
        <3>3. /\ clientOf = [d \in Callers |-> clientOf[d]]
              /\ clientOf' = [d \in Callers |-> clientOf'[d]]
            BY DEF clientOf
        <3> QED
            BY ONLY <3>1, <3>2, <3>3
    <2>5. clientOf[c].step \in {"idle", "done"}
        BY <2>1 DEF clientOf, ServiceStep
    <2>6. Service!Submit(c, r)
        BY <2>1, <2>4, <2>5 DEF Service!Submit
    <2> QED
        BY <2>6 DEF Service!ServiceNext
<1>5. ASSUME NEW p \in Pids, Crash(p)
      PROVE  Service!ServiceNext
    <2>1. Service!Die({c \in Callers : PidOf[c] = p})
        BY <1>5 DEF Crash, Service!Die, Service!Unused, Service!Client, clientOf, ServiceStep, Idle
    <2> QED
        BY <2>1 DEF Service!ServiceNext
<1>6. ASSUME PowerLoss
      PROVE  Service!ServiceNext
    <2>1. Service!Die(Callers)
        BY <1>6 DEF PowerLoss, Service!Die, Service!Unused, Service!Client, clientOf, ServiceStep, Idle
    <2> QED
        BY <2>1 DEF Service!ServiceNext
<1>7. ASSUME Clean
      PROVE  UNCHANGED Service!serviceVars
    BY <1>7 DEF Clean, Service!serviceVars, clientOf
<1>8. ASSUME NEW lib \in Libraries, Install(lib)
      PROVE  Service!ServiceNext
    <2>1. Service!Upgrade(lib)
        BY <1>8 DEF Install, Service!Upgrade, clientOf
    <2> QED
        BY <2>1 DEF Service!ServiceNext
<1> QED
    BY <1>1, <1>2, <1>3, <1>4, <1>5, <1>6, <1>7, <1>8 DEF Next

\* The cache is transparent: with it, compile_with_iree does nothing that a
\* compiler service without a cache could not do.
THEOREM VmfbCacheRefinesService ==
    ASSUME KeysSeparate, "part" \notin LostWrites
    PROVE  Spec => CacheIsTransparent
<1>1. CacheInv /\ CacheInv' /\ [Next]_vars => [Service!ServiceNext]_(Service!serviceVars)
    BY StepRefines
<1> QED
    BY CacheInvAlways, InitRefines, <1>1, PTL DEF Spec, CacheIsTransparent, Service!ServiceSpec
===============================================================================
