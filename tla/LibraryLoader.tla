---------------------------- MODULE LibraryLoader ----------------------------
(***************************************************************************)
(* How an application gets an interface: DriverInterface::create_from_env  *)
(* looks for libraries, loads the first that loads, greets it and hands it *)
(* out, or lets it go (vtd-libum/src/interface.rs; over C this is          *)
(* vtum_interface_create and vtum_interface_destroy).  Other programs may  *)
(* replace and remove files meanwhile.                                     *)
(*                                                                         *)
(* A path is a directory and a name.  The libraries are any libraries: what*)
(* they export and answer is chosen at every load.                         *)
(***************************************************************************)
EXTENDS Naturals, Sequences, FiniteSets

CONSTANTS
    Directories, NoDirectory,
    Names, NoName,
    DriverNames,        \* what is_library_candidate accepts
    Environments,       \* of the process, see env
    Disks,              \* what may be there at first, see disk
    NoFile, NoPath,
    Versions,           \* protocol versions
    ProtocolVersion,    \* PROTOCOL_VERSION
    MaxCalls,           \* bound: commands to one library
    MaxChanges          \* bound: files changed

Paths == Directories \X Names
Files == [time : Nat, loads : BOOLEAN] \cup {NoFile}
Environment ==
    [path : Paths \cup {NoPath},                \* VT_DRIVER_PATH
     directory : Directories \cup {NoDirectory},\* VT_DRIVER_DIR
     name : Names \cup {NoName},                \* VT_DRIVER_NAME
     exe : Directories \cup {NoDirectory},      \* where current_exe() is
     readable : SUBSET Directories]             \* where read_dir succeeds

ASSUME LoaderAssumption ==
    /\ IsFiniteSet(Directories) /\ IsFiniteSet(Names)
    /\ DriverNames \subseteq Names /\ NoPath \notin Paths
    /\ NoDirectory \notin Directories /\ NoName \notin Names
    /\ Environments \subseteq Environment
    /\ \A d \in Disks : d \in [Paths -> Files]
    /\ ProtocolVersion \in Versions
    /\ MaxCalls \in Nat /\ MaxChanges \in Nat

VARIABLES
    disk,           \* the files
    env,            \* the environment of the process
    at,             \* where the application's thread is
    directories,    \* still to be searched
    paths,          \* the candidates, best first
    library,        \* the library that is mapped
    executes,       \* whether it exports execute_command
    use,            \* "unused", "started", "stopped"; the exports for it are optional
    greeting,       \* the interface's verdict: "none", "agreed", "refused"
    calls,          \* commands sent to it
    error,          \* how the last create_from_env ended
    steady,         \* ghost: paths nobody has changed since it was called
    changes

search == <<directories, paths>>
held == <<library, executes, use, greeting, calls>>
world == <<disk, env, steady, changes>>
vars == <<search, held, world, at, error>>

TypeOK ==
    /\ disk \in [Paths -> Files] /\ env \in Environments
    /\ at \in {"idle", "scan", "load", "startup", "create", "greet", "ready", "drop", "unmap"}
    /\ directories \in Seq(Directories) /\ paths \in Seq(Paths)
    /\ library \in Paths \cup {NoPath}
    /\ executes \in BOOLEAN
    /\ use \in {"unused", "started", "stopped"}
    /\ greeting \in {"none", "agreed", "refused"}
    /\ calls \in 0..(MaxCalls + 1)
    /\ error \in {"none", "NoDriverFound", "DriverLoadingError", "CommandGenericError",
                  "FeatureUnsupported", "DriverProtocolMismatch", "InitializeDriverUnavailable"}
    /\ steady \subseteq Paths /\ changes \in 0..MaxChanges

Init ==
    /\ disk \in Disks /\ env \in Environments
    /\ at = "idle" /\ error = "none"
    /\ directories = <<>> /\ paths = <<>>
    /\ library = NoPath /\ executes = FALSE
    /\ use = "unused" /\ greeting = "none" /\ calls = 0
    /\ steady = Paths /\ changes = 0

Move(from, to) == at = from /\ at' = to

-----------------------------------------------------------------------------
(* populate_library_paths.                                                 *)

\* A setting, if there is one.
Given(setting, none) == IF setting = none THEN <<>> ELSE <<setting>>

\* Mutant: a directory that is not set is searched.
CreateUnset ==
    /\ Move("idle", "scan") /\ error' = "none"
    /\ paths' = Given(env.path, NoPath)
    /\ directories' = <<env.directory, env.exe>>
    /\ steady' = Paths
    /\ UNCHANGED <<held, disk, env, changes>>

Create ==
    /\ Move("idle", "scan") /\ error' = "none"
    /\ paths' = Given(env.path, NoPath)
    /\ directories' = Given(env.directory, NoDirectory) \o Given(env.exe, NoDirectory)
    /\ steady' = Paths
    /\ UNCHANGED <<held, disk, env, changes>>

Named(d) == IF env.name = NoName THEN <<>> ELSE <<<<d, env.name>>>>

Candidates(d) == {path \in {d} \X DriverNames : disk[path] # NoFile}

\* Sorted by time and reversed; read_dir decides among equals.
NewestFirst(d) ==
    {order \in [1..Cardinality(Candidates(d)) -> Candidates(d)] :
        \A i, j \in DOMAIN order : i < j =>
            order[i] # order[j] /\ disk[order[i]].time >= disk[order[j]].time}

\* Mutant: a directory that cannot be read ends the search.
ScanGivesUp ==
    /\ at = "scan" /\ directories # <<>>
    /\ LET d == Head(directories) IN
           IF d \in env.readable
           THEN /\ \E order \in NewestFirst(d) : paths' = paths \o Named(d) \o order
                /\ directories' = Tail(directories)
           ELSE paths' = paths /\ directories' = <<>>
    /\ UNCHANGED <<held, world, at, error>>

\* Mutant: the name of the environment is added after the directory was read.
ScanNameLast ==
    /\ at = "scan" /\ directories # <<>>
    /\ LET d == Head(directories) IN
           \E order \in IF d \in env.readable THEN NewestFirst(d) ELSE {<<>>} :
               paths' = paths \o order \o Named(d)
    /\ directories' = Tail(directories)
    /\ UNCHANGED <<held, world, at, error>>

ScanDirectory ==
    /\ at = "scan" /\ directories # <<>>
    /\ LET d == Head(directories) IN
           \E order \in IF d \in env.readable THEN NewestFirst(d) ELSE {<<>>} :
               paths' = paths \o Named(d) \o order
    /\ directories' = Tail(directories)
    /\ UNCHANGED <<held, world, at, error>>

ScanDone ==
    /\ Move("scan", "load")
    /\ directories = <<>>
    /\ UNCHANGED <<search, held, world, error>>

-----------------------------------------------------------------------------
(* create_from_env and ValthrunLibrary::load.                              *)

Loads(path) == disk[path] # NoFile /\ disk[path].loads

LoadFails ==
    /\ at = "load" /\ paths # <<>> /\ ~Loads(Head(paths))
    /\ paths' = Tail(paths)
    /\ UNCHANGED <<directories, held, world, at, error>>

Load ==
    /\ Move("load", "startup")
    /\ paths # <<>> /\ Loads(Head(paths))
    /\ library' = Head(paths)
    /\ executes' \in BOOLEAN
    /\ UNCHANGED <<search, use, greeting, calls, world, error>>

NoDriverFound ==
    /\ Move("load", "idle")
    /\ paths = <<>>
    /\ error' = "NoDriverFound"
    /\ UNCHANGED <<search, held, world>>

\* startup(), if there is one.
Startup ==
    /\ Move("startup", "create")
    /\ use' = "started"
    /\ UNCHANGED <<search, library, executes, greeting, calls, world, error>>

-----------------------------------------------------------------------------
(* create, initialize, the commands, and the end.                          *)

LookUp ==
    /\ IF executes
       THEN Move("create", "greet") /\ UNCHANGED error
       ELSE Move("create", "drop") /\ error' = "DriverLoadingError"
    /\ UNCHANGED <<search, held, world>>

\* The result counts only if the versions agree.
Verdict(status, version, result) ==
    IF status = "Unsupported" THEN "FeatureUnsupported"
    ELSE IF status # "Success" THEN "CommandGenericError"
    ELSE IF version # ProtocolVersion THEN "DriverProtocolMismatch"
    ELSE IF result = "Unavailable" THEN "InitializeDriverUnavailable"
    ELSE "none"

Initialize ==
    \E status \in {"Success", "Unsupported", "Error"}, version \in Versions,
       result \in {"Success", "Unavailable"} :
        /\ at = "greet"
        /\ error' = Verdict(status, version, result)
        /\ at' = IF error' = "none" THEN "ready" ELSE "drop"
        /\ greeting' = IF /\ status = "Success" /\ result = "Success"
                          /\ version = ProtocolVersion
                       THEN "agreed" ELSE "refused"
        /\ calls' = calls + 1
        /\ UNCHANGED <<search, library, executes, use, world>>

Command ==
    /\ at = "ready" /\ calls <= MaxCalls
    /\ calls' = calls + 1
    /\ UNCHANGED <<search, library, executes, use, greeting, world, at, error>>

Destroy ==
    /\ Move("ready", "drop")
    /\ UNCHANGED <<search, held, world, error>>

\* Mutant: the library goes out of scope before its teardown.
TeardownLate ==
    /\ Move("drop", "unmap")
    /\ library' = NoPath
    /\ UNCHANGED <<search, executes, use, greeting, calls, world, error>>

\* ValthrunLibrary::drop: teardown(), if there is one.
Teardown ==
    /\ Move("drop", "unmap")
    /\ use' = "stopped"
    /\ UNCHANGED <<search, library, executes, greeting, calls, world, error>>

\* Mutant: the library is leaked after a failed create.
UnmapReady ==
    /\ Move("unmap", "idle")
    /\ paths' = <<>>
    /\ IF error = "none"
       THEN /\ library' = NoPath /\ executes' = FALSE
            /\ use' = "unused" /\ greeting' = "none" /\ calls' = 0
       ELSE UNCHANGED held
    /\ UNCHANGED <<directories, world, error>>

\* Then the Library in it.
Unmap ==
    /\ Move("unmap", "idle")
    /\ paths' = <<>>
    /\ library' = NoPath /\ executes' = FALSE
    /\ use' = "unused" /\ greeting' = "none" /\ calls' = 0
    /\ UNCHANGED <<directories, world, error>>

Loader ==
    \/ Create \/ ScanDirectory \/ ScanDone
    \/ LoadFails \/ Load \/ NoDriverFound \/ Startup
    \/ LookUp \/ Initialize \/ Command \/ Destroy \/ Teardown \/ Unmap

-----------------------------------------------------------------------------
(* Other programs: remove a file, or put a new one in a directory.         *)

Newer == 1 + Cardinality(Paths) + changes

ChangeFile(path) ==
    /\ at \in {"scan", "load"} /\ changes < MaxChanges
    /\ disk' \in {[disk EXCEPT ![path] = file] :
                     file \in {NoFile} \cup [time : {Newer}, loads : BOOLEAN]}
    /\ changes' = changes + 1
    /\ steady' = steady \ {path}
    /\ UNCHANGED <<search, held, env, at, error>>

Next == Loader \/ \E path \in Paths : ChangeFile(path)

Spec == Init /\ [][Next]_vars

-----------------------------------------------------------------------------
(* Properties.                                                             *)

\* How far a library is, as LibraryLife counts it.
Stage ==
    IF library = NoPath THEN "absent"
    ELSE CASE use = "unused"  -> "mapped"
           [] use = "stopped" -> "stopped"
           [] use = "started" -> IF greeting = "none" THEN "started" ELSE greeting

Life == INSTANCE LibraryLife WITH
    Libraries <- Paths, NoLibrary <- NoPath, life <- Stage

\* On every path through create_from_env and drop: started before the first
\* command, no command after a refused greeting, stopped before it is unmapped.
ImplementsLife == Life!Spec

\* An application without an interface holds no library, however it failed to
\* get one.
NothingLeftBehind == at = "idle" => library = NoPath /\ calls = 0

Searched(path) ==
    \/ path = env.path
    \/ /\ path[1] \in {env.directory, env.exe}
       /\ \/ path[2] = env.name
          \/ path[1] \in env.readable /\ path[2] \in DriverNames

\* p comes before q: the path of the environment, then the directory of the
\* environment before that of the program, in each the name of the environment
\* before the others, and of these the newer, as the code sorts them (its comment
\* has it the other way round, see LeastRecentlyModifiedFirst).
Outranks(p, q) ==
    LET first(path) == path[1] = env.directory
        named(path) == path[2] = env.name
    IN  /\ q # env.path
        /\ \/ p = env.path
           \/ first(p) /\ ~first(q)
           \/ first(p) = first(q) /\ named(p) /\ ~named(q)
           \/ /\ first(p) = first(q) /\ ~named(p) /\ ~named(q)
              /\ disk[p].time > disk[q].time

\* No library is used while a better one is there that would load: neither the
\* search nor a failed load loses or overtakes a candidate, whatever happens
\* to other files.
BestIsChosen ==
    at = "startup" /\ library \in steady =>
        \A path \in steady :
            Searched(path) /\ Loads(path) => ~Outranks(path, library)

\* "No driver found" is said only when no library that would load has been
\* there all the time.
NothingOverlooked ==
    at = "idle" /\ error = "NoDriverFound" =>
        \A path \in steady : ~(Searched(path) /\ Loads(path))

-----------------------------------------------------------------------------
(* What a comment says, and the code does not do.                          *)

\* "Starting the driver which has been least recently modified": of the
\* candidates that a directory gives, and that would load, none is older than
\* the library that is used.
LeastRecentlyModifiedFirst ==
    at = "startup" /\ library \in steady /\ library # env.path /\ library[2] # env.name =>
        \A path \in steady :
            /\ path[1] = library[1] /\ path[2] \in DriverNames
            /\ path[1] \in env.readable /\ Loads(path)
            => disk[path].time >= disk[library].time

-----------------------------------------------------------------------------
(* What makes the properties of the search inductive.                      *)

Contains(list, path) == \E i \in DOMAIN list : list[i] = path

\* A library that the search must not lose.
Wanted(path) == path \in steady /\ Searched(path) /\ Loads(path)

\* What the search has behind it: nothing but the path of the environment, the
\* directory of the environment, or all.  What was wanted there is in the list.
SearchProgress ==
    at = "scan" =>
        \/ /\ directories = Given(env.directory, NoDirectory) \o Given(env.exe, NoDirectory)
           /\ paths = Given(env.path, NoPath)
        \/ /\ directories = Given(env.exe, NoDirectory)
           /\ env.directory # NoDirectory
           /\ \A i \in DOMAIN paths : paths[i] = env.path \/ paths[i][1] = env.directory
           /\ \A path \in Paths : Wanted(path) /\ path[1] = env.directory => Contains(paths, path)
        \/ /\ directories = <<>>
           /\ \A path \in Paths : Wanted(path) => Contains(paths, path)

EnvironmentFirst ==
    at = "scan" /\ env.path # NoPath => paths # <<>> /\ paths[1] = env.path

\* A load that fails takes away what would not load, so the list stays complete.
ListComplete ==
    at = "load" => \A path \in Paths : Wanted(path) => Contains(paths, path)

\* A path that is found twice may stand behind worse ones, but not only there.
Ranked(list) ==
    \A i, j \in DOMAIN list :
        /\ i < j /\ list[i] \in steady
        /\ Wanted(list[j]) /\ Outranks(list[j], list[i])
        => \E k \in DOMAIN list : k < i /\ list[k] = list[j]

ListRanked == at \in {"scan", "load"} => Ranked(paths)
=============================================================================
