---------------------------- MODULE RuntimeConfig ----------------------------
(***************************************************************************)
(* Where a service process takes its configuration from                    *)
(* (pkg/runtimeconfig, over pkg/configmanager).  Each start asks the       *)
(* control plane for a release, saves the answer in a cache file and a     *)
(* description of it in a state file, and falls back on the cache file,    *)
(* then on the bootstrap configuration, when the control plane does not    *)
(* answer.  The two files outlive the process; os.WriteFile truncates them *)
(* before it fills them, so a crash or a full disk leaves a torn file.     *)
(*                                                                         *)
(* Releases are numbered in the order they are published; 0 is "no         *)
(* version" (a configuration written by hand, or no version asked for).    *)
(***************************************************************************)
EXTENDS Processes, Integers, Sequences

CONSTANT MaxRelease    \* bound on the releases the control plane publishes

ASSUME ReleaseAssumption == MaxRelease \in Nat \ {0}

VARIABLES opts,        \* [Procs -> ResolveOptions and environment of the process]
          release,     \* the newest release in the control plane
          run,         \* [Procs -> the ResolveResult being built, and its pc]
          cacheFile,   \* [Procs -> contents of the cache file]
          stateFile,   \* [Procs -> contents of the state file]
          resolved,    \* history: the last release a start of the process resolved
          unsaved      \* history: <<process, file>> whose last write did not complete

configVars == <<opts, release, run, cacheFile, stateFile, resolved, unsaved>>

Releases == 0 .. MaxRelease
Auto == -1             \* CONFIG_RELEASE_VERSION=auto
Unreadable == -1       \* a version file that is missing or does not parse

Absent == [kind |-> "absent", source |-> "none", version |-> 0, requested |-> 0]
Torn == [Absent EXCEPT !.kind = "torn"]
(* Mutant: the version asked for is saved, not the one resolved. *)
SavedAsRequested(result) ==
    [kind |-> "saved", source |-> result.source, version |-> result.requested,
     requested |-> result.requested]

Saved(result) == [kind |-> "saved", source |-> result.source,
                  version |-> result.version, requested |-> result.requested]

ByHand == [Absent EXCEPT !.kind = "saved"]

Idle == [pc |-> "idle", source |-> "none", version |-> 0, requested |-> 0]

-----------------------------------------------------------------------------
(* The version to ask for: the first version file that names one. *)
ReadRequestedVersion(files) ==
    LET naming == SelectSeq(files, LAMBDA f : f > 0)
    IN  IF naming = << >> THEN 0 ELSE Head(naming)

(* An override in the environment wins, and "auto" or a development
   environment asks for whatever is newest. *)
ResolveRequestedVersion(o) ==
    IF o.override # 0
    THEN IF o.override = Auto THEN 0 ELSE o.override
    ELSE IF o.development THEN 0 ELSE ReadRequestedVersion(o.versionFiles)

(* The control plane's answer: the release asked for, or the newest one. *)
Answers(version) ==
    IF version = 0 THEN {release} ELSE {version} \cap (1 .. release)

(* Init: a first start, over no cache file or one written by hand. *)
ConfigInit(options, newest, cache) ==
    /\ opts = options
    /\ release = newest
    /\ run = [p \in Procs |-> Idle]
    /\ cacheFile = [p \in Procs |-> cache]
    /\ stateFile = [p \in Procs |-> Absent]
    /\ resolved = [p \in Procs |-> 0]
    /\ unsaved = {}

(* normalizeOptions: the version is chosen once, before anything is asked. *)
ResolveInto(p) ==
    /\ run[p].pc = "idle"
    /\ run' = [run EXCEPT ![p] = [Idle EXCEPT !.pc = "ask",
                                  !.requested = ResolveRequestedVersion(opts[p])]]
    /\ UNCHANGED <<opts, release, cacheFile, stateFile, resolved, unsaved>>

CanAsk(p) == opts[p].client /\ opts[p].serviceID

ResolveNamespace(p) ==
    /\ run[p].pc = "ask"
    /\ CanAsk(p)
    /\ \E v \in Answers(run[p].requested) :
          /\ run' = [run EXCEPT ![p].pc = "cache", ![p].source = "resolved", ![p].version = v]
          /\ resolved' = [resolved EXCEPT ![p] = v]
    /\ unsaved' = unsaved \cup {<<p, "cache">>, <<p, "state">>}
    /\ UNCHANGED <<opts, release, cacheFile, stateFile>>

(* No client, no service id, no such release: the caller adds the outages. *)
ResolveImpossible(p) == ~CanAsk(p) \/ Answers(run[p].requested) = {}

ResolveFails(p) ==
    /\ run[p].pc = "ask"
    /\ run' = [run EXCEPT ![p].pc = "fallback"]
    /\ UNCHANGED <<opts, release, cacheFile, stateFile, resolved, unsaved>>

(* readCacheFile accepts any file that parses: neither the service nor the
   version it was saved for is compared with what is asked now. *)
ReadCacheFile(p) ==
    /\ run[p].pc = "fallback"
    /\ cacheFile[p].kind = "saved"
    /\ run' = [run EXCEPT ![p].pc = "state", ![p].source = "cache",
                          ![p].version = cacheFile[p].version]
    /\ unsaved' = unsaved \cup {<<p, "state">>}
    /\ UNCHANGED <<opts, release, cacheFile, stateFile, resolved>>

Unavailable(p) ==
    /\ run[p].pc = "fallback"
    /\ cacheFile[p].kind # "saved"
    /\ IF opts[p].required
       THEN /\ run' = [run EXCEPT ![p].pc = "failed"]
            /\ UNCHANGED unsaved
       ELSE /\ run' = [run EXCEPT ![p].pc = "state", ![p].source = "bootstrap"]
            /\ unsaved' = unsaved \cup {<<p, "state">>}
    /\ UNCHANGED <<opts, release, cacheFile, stateFile, resolved>>

(* writeJSONFile: truncate, then fill; an error at either point is logged
   and the start goes on. *)
After(pc) == CASE pc = "cache" -> "filling" [] pc = "filling" -> "state"
               [] pc = "state" -> "describing" [] pc = "describing" -> "done"

WriteJSONFile(p) ==
    /\ run[p].pc \in {"cache", "filling", "state", "describing"}
    /\ run' = [run EXCEPT ![p].pc = After(@)]
    /\ cacheFile' = [cacheFile EXCEPT ![p] =
          CASE run[p].pc = "cache" -> Torn [] run[p].pc = "filling" -> Saved(run[p])
            [] OTHER -> @]
    /\ stateFile' = [stateFile EXCEPT ![p] =
          CASE run[p].pc = "state" -> Torn [] run[p].pc = "describing" -> Saved(run[p])
            [] OTHER -> @]
    /\ unsaved' = CASE run[p].pc = "filling" -> unsaved \ {<<p, "cache">>}
                    [] run[p].pc = "describing" -> unsaved \ {<<p, "state">>}
                    [] OTHER -> unsaved
    /\ UNCHANGED <<opts, release, resolved>>

FileWriteFails(p) ==
    /\ run[p].pc \in {"cache", "filling", "state", "describing"}
    /\ run' = [run EXCEPT ![p].pc =
          IF @ \in {"cache", "filling"} THEN "state" ELSE "done"]
    /\ UNCHANGED <<opts, release, cacheFile, stateFile, resolved, unsaved>>

(* The environment: a release is published (PublishNamespaceRelease), or a
   deployment pins the process to another release. *)
PublishRelease ==
    /\ release < MaxRelease
    /\ release' = release + 1
    /\ UNCHANGED <<opts, run, cacheFile, stateFile, resolved, unsaved>>

Deploy(p, v) ==
    /\ opts[p].versionFiles # << >>
    /\ Head(opts[p].versionFiles) # v
    /\ opts' = [opts EXCEPT ![p].versionFiles = <<v>> \o Tail(@)]
    /\ UNCHANGED <<release, run, cacheFile, stateFile, resolved, unsaved>>

(* The process ends: what is in memory goes, the files stay. *)
ForgetConfig(p) == run' = [run EXCEPT ![p] = Idle]

-----------------------------------------------------------------------------
File == [kind : {"absent", "torn", "saved"}, version : Releases, requested : Releases,
         source : {"none", "resolved", "cache", "bootstrap"}]

\* The configuration variables hold values of their types.
ConfigTypeOK ==
    /\ release \in 1 .. MaxRelease
    /\ run \in [Procs -> [pc : {"idle", "ask", "fallback", "cache", "filling", "state",
                                "describing", "done", "failed"},
                          source : {"none", "resolved", "cache", "bootstrap"},
                          version : Releases, requested : Releases]]
    /\ cacheFile \in [Procs -> File]
    /\ stateFile \in [Procs -> File]
    /\ resolved \in [Procs -> Releases]
    /\ unsaved \subseteq Procs \X {"cache", "state"}

(* Once a start has resolved a release and saved it, every later start of
   the process runs a release at least as good as that one without the control
   plane: from the cache it runs exactly the release last resolved, and it
   neither falls back on the bootstrap configuration nor refuses to start.
   (resolveIntoWithResolver's fallback, over the cache file that an earlier
   process wrote; interrupted and failed writes are the only exception.) *)
OutageServesLastResolved ==
    \A p \in Procs :
        resolved[p] # 0 /\ <<p, "cache">> \notin unsaved =>
            /\ run[p].source = "cache" => run[p].version = resolved[p]
            /\ run[p].source # "bootstrap"
            /\ run[p].pc # "failed"

(* When a start is over, the state file on disk describes the configuration
   the process runs (source, version, version asked for), unless writing
   that file failed: no branch of the fallback leaves an older start's
   description behind. *)
StateFileDescribesTheStart ==
    \A p \in Procs :
        run[p].pc = "done" /\ <<p, "state">> \notin unsaved =>
            stateFile[p] = Saved(run[p])
=============================================================================
