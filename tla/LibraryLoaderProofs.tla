------------------------ MODULE LibraryLoaderProofs ------------------------
(***************************************************************************)
(* For any directories, names, files and changes: the loader implements    *)
(* LibraryLife (where the thread is says how far the library is), its      *)
(* search overlooks nothing and takes the best (what the list holds, and   *)
(* in which order, is the invariant), and its types are right.             *)
(***************************************************************************)
EXTENDS LibraryLoader, FiniteSetTheorems, SequenceTheorems, TLAPS

\* The environment, and what the search has found so far.
SearchInv ==
    /\ env \in Environments
    /\ directories \in Seq(Directories)
    /\ paths \in Seq(Paths)

\* What the thread holds at each place.
HeldInv ==
    /\ at \in {"idle", "scan", "load", "startup", "create", "greet", "ready", "drop", "unmap"}
    /\ greeting \in {"none", "agreed", "refused"}
    /\ calls \in Nat
    /\ at \in {"idle", "scan", "load"} =>
           library = NoPath /\ use = "unused" /\ greeting = "none" /\ calls = 0
    /\ at \notin {"idle", "scan", "load"} => library \in Paths
    /\ at = "startup" => use = "unused" /\ greeting = "none" /\ calls = 0
    /\ at \in {"create", "greet"} => use = "started" /\ greeting = "none" /\ calls = 0
    /\ at = "ready" => use = "started" /\ greeting = "agreed"
    /\ at = "drop" => use = "started"
    /\ at = "unmap" => use = "stopped"

IInv == SearchInv /\ HeldInv

\* The candidates of a directory, in any order, are a sequence of paths.
LEMMA OrderIsPaths ==
    ASSUME NEW d \in Directories, NEW order \in NewestFirst(d)
    PROVE  order \in Seq(Paths)
<1>1. IsFiniteSet(DriverNames)
  BY LoaderAssumption, FS_Subset
<1>2. IsFiniteSet({d} \X DriverNames)
  BY <1>1, FS_Singleton, FS_Product
<1>3. Candidates(d) \subseteq {d} \X DriverNames
  BY DEF Candidates
<1>4. Cardinality(Candidates(d)) \in Nat
  BY <1>2, <1>3, FS_Subset, FS_CardinalityType
<1>5. {d} \X DriverNames \subseteq Paths
  BY LoaderAssumption DEF Paths
<1>6. order \in [1..Cardinality(Candidates(d)) -> Paths]
  BY <1>3, <1>5 DEF NewestFirst
<1>7. QED  BY <1>4, <1>6

\* No library is held at first.
LEMMA InitInv == Init => IInv
<1> SUFFICES ASSUME Init PROVE IInv
  OBVIOUS
<1>1. <<>> \in Seq(Directories) /\ <<>> \in Seq(Paths)
  OBVIOUS
<1>2. QED  BY <1>1 DEF Init, IInv, SearchInv, HeldInv

\* Every step keeps the types of the search,
LEMMA NextSearchInv == IInv /\ [Next]_vars => SearchInv'
<1> SUFFICES ASSUME IInv, [Next]_vars PROVE SearchInv'
  OBVIOUS
<1> USE DEF IInv, SearchInv
<1>0. env \in Environment
  BY LoaderAssumption
<1>1. CASE Create
  <2>1. env.path \in Paths \cup {NoPath}
    BY <1>0 DEF Environment
  <2>2. paths' \in Seq(Paths)
    BY <1>1, <2>1 DEF Create, Given
  <2>3. /\ env.directory \in Directories \cup {NoDirectory}
        /\ env.exe \in Directories \cup {NoDirectory}
    BY <1>0 DEF Environment
  <2>4. /\ Given(env.directory, NoDirectory) \in Seq(Directories)
        /\ Given(env.exe, NoDirectory) \in Seq(Directories)
    BY <2>3 DEF Given
  <2>5. QED  BY <1>1, <2>2, <2>4 DEF Create
<1>2. CASE ScanDirectory
  <2>1. Head(directories) \in Directories /\ directories' \in Seq(Directories)
    BY <1>2 DEF ScanDirectory
  <2>2. Named(Head(directories)) \in Seq(Paths)
    <3>1. env.name \in Names \cup {NoName}
      BY <1>0 DEF Environment
    <3>2. CASE env.name = NoName
      BY <3>2 DEF Named
    <3>3. CASE env.name # NoName
      <4>1. <<Head(directories), env.name>> \in Paths
        BY <2>1, <3>1, <3>3 DEF Paths
      <4>2. QED  BY <3>3, <4>1 DEF Named
    <3>4. QED  BY <3>2, <3>3
  <2>3. PICK order \in IF Head(directories) \in env.readable
                       THEN NewestFirst(Head(directories)) ELSE {<<>>} :
            paths' = paths \o Named(Head(directories)) \o order
    BY <1>2 DEF ScanDirectory
  <2>4. order \in Seq(Paths)
    <3>1. CASE order = <<>>
      BY <3>1
    <3>2. CASE order \in NewestFirst(Head(directories))
      BY <2>1, <3>2, OrderIsPaths
    <3>3. QED  BY <2>3, <3>1, <3>2
  <2>5. paths' \in Seq(Paths)
    BY <2>2, <2>3, <2>4
  <2>6. QED  BY <1>2, <2>1, <2>5 DEF ScanDirectory, world
<1>3. CASE LoadFails
  BY <1>3 DEF LoadFails, world
<1>4. CASE Unmap
  BY <1>4 DEF Unmap, world
<1>5. CASE Load \/ NoDriverFound \/ ScanDone \/ Startup \/ LookUp \/ Initialize
             \/ Command \/ Destroy \/ Teardown
  BY <1>5 DEF Load, NoDriverFound, ScanDone, Startup, LookUp, Initialize,
              Command, Destroy, Teardown, search, world
<1>6. CASE \E path \in Paths : ChangeFile(path)
  BY <1>6 DEF ChangeFile, search
<1>7. CASE UNCHANGED vars
  BY <1>7 DEF vars, search, world
<1>8. QED  BY <1>1, <1>2, <1>3, <1>4, <1>5, <1>6, <1>7 DEF Next, Loader

\* and what the thread holds at each place.
LEMMA NextHeldInv == IInv /\ [Next]_vars => HeldInv'
<1> SUFFICES ASSUME IInv, [Next]_vars PROVE HeldInv'
  OBVIOUS
<1> USE DEF IInv, HeldInv
<1>1. CASE Create
  BY <1>1 DEF Create, Move, held
<1>2. CASE ScanDirectory \/ ScanDone
  BY <1>2 DEF ScanDirectory, ScanDone, Move, held
<1>3. CASE Load
  <2>1. Head(paths) \in Paths
    BY <1>3 DEF Load, SearchInv
  <2>2. QED  BY <1>3, <2>1 DEF Load, Move
<1>4. CASE LoadFails \/ NoDriverFound
  BY <1>4 DEF LoadFails, NoDriverFound, Move, held
<1>5. CASE Startup
  BY <1>5 DEF Startup, Move
<1>6. CASE LookUp
  BY <1>6 DEF LookUp, Move, held
<1>7. CASE Initialize
  BY <1>7 DEF Initialize, Verdict
<1>8. CASE Command
  BY <1>8 DEF Command
<1>9. CASE Destroy
  BY <1>9 DEF Destroy, Move, held
<1>10. CASE Teardown
  BY <1>10 DEF Teardown, Move
<1>11. CASE Unmap
  BY <1>11 DEF Unmap, Move
<1>12. CASE \E path \in Paths : ChangeFile(path)
  BY <1>12 DEF ChangeFile, held
<1>13. CASE UNCHANGED vars
  BY <1>13 DEF vars, held
<1>14. QED  BY <1>1, <1>2, <1>3, <1>4, <1>5, <1>6, <1>7, <1>8, <1>9, <1>10,
               <1>11, <1>12, <1>13 DEF Next, Loader

\* So both hold in every state that can be reached.
LEMMA InvIsInvariant == Spec => []IInv
<1>1. IInv /\ [Next]_vars => IInv'
  BY NextSearchInv, NextHeldInv DEF IInv
<1>2. QED  BY InitInv, <1>1, PTL DEF Spec

\* Whatever create_from_env failed of, an application without an interface
\* holds no library.
THEOREM NothingIsLeftBehind == Spec => []NothingLeftBehind
<1>1. IInv => NothingLeftBehind
  BY DEF IInv, HeldInv, NothingLeftBehind
<1>2. QED  BY InvIsInvariant, <1>1, PTL

\* Steps that leave the library alone leave its stage alone.
LEMMA LoaderStep == IInv /\ IInv' /\ [Next]_vars => [Life!Next]_(Life!vars)
<1> SUFFICES ASSUME IInv, IInv', [Next]_vars PROVE Life!Next \/ UNCHANGED Life!vars
  OBVIOUS
<1> USE DEF IInv, HeldInv, Stage, Life!vars
<1>0. NoPath \notin Paths
  BY LoaderAssumption
<1>1. CASE Create \/ ScanDirectory \/ ScanDone \/ LoadFails \/ NoDriverFound
  BY <1>1 DEF Create, ScanDirectory, ScanDone, LoadFails, NoDriverFound, held
<1>2. CASE Load
  BY <1>0, <1>2 DEF Load, Move, Life!Map, Life!Next
<1>3. CASE Startup
  BY <1>0, <1>3 DEF Startup, Move, Life!Start, Life!Next
<1>4. CASE LookUp \/ Destroy
  BY <1>4 DEF LookUp, Destroy, held
<1>5. CASE Initialize
  BY <1>0, <1>5 DEF Initialize, Life!Greet, Life!Next
<1>6. CASE Command
  BY <1>0, <1>6 DEF Command, Life!Serve, Life!Next
<1>7. CASE Teardown
  BY <1>0, <1>7 DEF Teardown, Move, Life!Stop, Life!Next
<1>8. CASE Unmap
  BY <1>0, <1>8 DEF Unmap, Move, Life!Unmap, Life!Next
<1>9. CASE \E path \in Paths : ChangeFile(path)
  BY <1>9 DEF ChangeFile, held
<1>10. CASE UNCHANGED vars
  BY <1>10 DEF vars, held
<1>11. QED  BY <1>1, <1>2, <1>3, <1>4, <1>5, <1>6, <1>7, <1>8, <1>9, <1>10 DEF Next, Loader

\* Every way through create_from_env, the commands and drop starts, greets,
\* stops and unmaps a library as LibraryLife allows, for all environments.
THEOREM LoaderImplementsLife == Spec => ImplementsLife
<1>1. Init => Life!Init
  BY DEF Init, Stage, Life!Init
<1>2. QED  BY InvIsInvariant, LoaderStep, <1>1, PTL DEF Spec, ImplementsLife, Life!Spec

-----------------------------------------------------------------------------
(* Type correctness.                                                       *)

\* What IInv leaves open: the files, the errors, and the bounds.
RestInv ==
    /\ disk \in [Paths -> Files] /\ executes \in BOOLEAN
    /\ use \in {"unused", "started", "stopped"}
    /\ calls <= MaxCalls + 1
    /\ error \in {"none", "NoDriverFound", "DriverLoadingError", "CommandGenericError",
                  "FeatureUnsupported", "DriverProtocolMismatch", "InitializeDriverUnavailable"}
    /\ steady \subseteq Paths /\ changes \in 0..MaxChanges

\* At first nothing is found and nothing has changed.
LEMMA InitRestInv == Init => RestInv
<1> SUFFICES ASSUME Init PROVE RestInv
  OBVIOUS
<1>1. disk \in [Paths -> Files]
  BY LoaderAssumption DEF Init
<1>2. 0 <= MaxCalls + 1 /\ 0 \in 0..MaxChanges
  BY LoaderAssumption
<1>3. QED  BY <1>1, <1>2 DEF Init, RestInv

\* Every step keeps it.
LEMMA NextRestInv == IInv /\ RestInv /\ [Next]_vars => RestInv'
<1> SUFFICES ASSUME IInv, RestInv, [Next]_vars PROVE RestInv'
  OBVIOUS
<1> USE DEF RestInv, world, held, Move
<1>1. CASE Create \/ ScanDirectory \/ ScanDone
  BY <1>1 DEF Create, ScanDirectory, ScanDone
<1>2. CASE LoadFails \/ Load \/ NoDriverFound \/ Startup \/ LookUp
  BY <1>2 DEF LoadFails, Load, NoDriverFound, Startup, LookUp
<1>3. CASE Initialize
  <2>1. calls = 0
    BY <1>3 DEF Initialize, IInv, HeldInv
  <2>2. calls' <= MaxCalls + 1
    BY <1>3, <2>1, LoaderAssumption DEF Initialize
  <2>3. QED  BY <1>3, <2>2 DEF Initialize, Verdict
<1>4. CASE Command
  <2>1. calls \in Nat /\ calls <= MaxCalls /\ calls' = calls + 1
    BY <1>4 DEF Command, IInv, HeldInv
  <2>2. calls' <= MaxCalls + 1
    BY <2>1, LoaderAssumption
  <2>3. QED  BY <1>4, <2>2 DEF Command
<1>5. CASE Destroy \/ Teardown
  BY <1>5 DEF Destroy, Teardown
<1>6. CASE Unmap
  <2>1. 0 <= MaxCalls + 1
    BY LoaderAssumption
  <2>2. QED  BY <1>6, <2>1 DEF Unmap
<1>7. ASSUME NEW path \in Paths, ChangeFile(path) PROVE RestInv'
  <2>1. changes' \in 0..MaxChanges /\ steady' \subseteq Paths
    BY <1>7, LoaderAssumption DEF ChangeFile
  <2>2. disk' \in [Paths -> Files]
    <3>1. IsFiniteSet(Paths)
      BY LoaderAssumption, FS_Product DEF Paths
    <3>2. Newer \in Nat
      BY <3>1, FS_CardinalityType, LoaderAssumption DEF Newer
    <3>3. PICK file \in {NoFile} \cup [time : {Newer}, loads : BOOLEAN] :
            disk' = [disk EXCEPT ![path] = file]
      BY <1>7 DEF ChangeFile
    <3>4. file \in Files
      BY <3>2 DEF Files
    <3>5. QED  BY <3>3, <3>4
  <2>3. QED  BY <1>7, <2>1, <2>2 DEF ChangeFile
<1>8. CASE UNCHANGED vars
  BY <1>8 DEF vars
<1>9. QED  BY <1>1, <1>2, <1>3, <1>4, <1>5, <1>6, <1>7, <1>8 DEF Next, Loader

\* The loader never leaves a value of a wrong kind behind.
THEOREM LoaderTypeCorrect == Spec => []TypeOK
<1>1. IInv /\ RestInv => TypeOK
  <2> SUFFICES ASSUME IInv, RestInv PROVE TypeOK
    OBVIOUS
  <2>1. calls \in 0..(MaxCalls + 1)
    BY LoaderAssumption DEF IInv, HeldInv, RestInv
  <2>2. library \in Paths \cup {NoPath}
    BY DEF IInv, HeldInv
  <2>3. QED  BY <2>1, <2>2 DEF IInv, SearchInv, HeldInv, RestInv, TypeOK
<1>2. QED  BY InvIsInvariant, InitRestInv, NextRestInv, <1>1, PTL DEF Spec

-----------------------------------------------------------------------------
(* What one directory adds to the list of candidates.                      *)

\* The order of a directory names all its candidates, each once.
LEMMA OrderIsComplete ==
    ASSUME NEW d \in Directories, NEW order \in NewestFirst(d), NEW path \in Candidates(d)
    PROVE  Contains(order, path)
<1> DEFINE c == Cardinality(Candidates(d))
<1>1. IsFiniteSet(Candidates(d))
  <2>1. IsFiniteSet({d} \X DriverNames)
    BY LoaderAssumption, FS_Subset, FS_Singleton, FS_Product
  <2>2. QED  BY <2>1, FS_Subset DEF Candidates
<1>2. c \in Nat
  BY <1>1, FS_CardinalityType
<1>3. order \in Injection(1..c, Candidates(d))
  <2>1. order \in [1..c -> Candidates(d)]
    BY DEF NewestFirst
  <2>2. ASSUME NEW i \in 1..c, NEW j \in 1..c, i # j
        PROVE  order[i] # order[j]
    <3>1. i < j \/ j < i
      BY <1>2, <2>2
    <3>2. QED  BY <2>1, <3>1 DEF NewestFirst
  <2> HIDE DEF c
  <2>3. QED  BY <2>1, <2>2 DEF Injection, IsInjective
<1> HIDE DEF c
<1>4. Cardinality(1..c) = c
  BY <1>2, FS_Interval
<1>5. order \in Surjection(1..c, Candidates(d))
  BY <1>1, <1>3, <1>4, FS_Injection DEF c
<1>6. PICK i \in 1..c : order[i] = path
  BY <1>5 DEF Surjection
<1>7. DOMAIN order = 1..c
  BY <1>5 DEF Surjection
<1>8. QED  BY <1>6, <1>7 DEF Contains

\* The candidates of a directory: in it, and of names that the search takes.
LEMMA CandidatePath ==
    ASSUME NEW d \in Directories, NEW path \in Candidates(d)
    PROVE  path \in Paths /\ path[1] = d /\ path[2] \in DriverNames /\ disk[path] # NoFile
BY LoaderAssumption DEF Candidates, Paths

\* The name of the environment first, then the candidates, the newest first:
\* all that is searched there, and nothing behind a worse one only.
LEMMA BlockProperties ==
    ASSUME env \in Environment, disk \in [Paths -> Files],
           NEW d \in Directories, d \in {env.directory, env.exe},
           NEW order \in IF d \in env.readable THEN NewestFirst(d) ELSE {<<>>}
    PROVE  LET block == Named(d) \o order
           IN  /\ block \in Seq(Paths)
               /\ \A i \in DOMAIN block : block[i][1] = d /\ Searched(block[i])
               /\ \A path \in Paths :
                     path[1] = d /\ path # env.path /\ Searched(path) /\ Loads(path)
                     => Contains(block, path)
               /\ \A i, j \in DOMAIN block : i < j /\ Outranks(block[j], block[i]) =>
                     \/ block[j] = env.path
                     \/ \E k \in DOMAIN block : k < i /\ block[k] = block[j]
<1> DEFINE block == Named(d) \o order
           named == <<d, env.name>>
           off == IF env.name = NoName THEN 0 ELSE 1
<1>1. /\ env.name \in Names \cup {NoName}
      /\ env.name # NoName => named \in Paths /\ named[1] = d /\ named[2] = env.name
  BY DEF Environment, Paths
<1>2. /\ order \in Seq(Paths)
      /\ \A i \in DOMAIN order :
            d \in env.readable /\ order \in NewestFirst(d) /\ order[i] \in Candidates(d)
  <2>1. CASE d \in env.readable
    <3>1. order \in Seq(Paths)
      BY <2>1, OrderIsPaths
    <3>2. QED  BY <2>1, <3>1 DEF NewestFirst
  <2>2. CASE d \notin env.readable
    BY <2>2
  <2>3. QED  BY <2>1, <2>2
<1> HIDE DEF named
<1>3. /\ Named(d) \in Seq(Paths) /\ Len(Named(d)) = off
      /\ off = 1 => Named(d)[1] = named
  BY <1>1 DEF Named, named
<1>4. /\ block \in Seq(Paths)
      /\ Len(order) \in Nat /\ DOMAIN order = 1..Len(order) /\ DOMAIN block = 1..(off + Len(order))
      /\ \A i \in 1..(off + Len(order)) :
            block[i] = IF i <= off THEN named ELSE order[i - off]
  <2> DEFINE front == Named(d)
  <2>1. /\ front \in Seq(Paths) /\ Len(front) = off /\ off \in {0, 1}
        /\ \A i \in 1..off : front[i] = named
    BY <1>3
  <2> HIDE DEF front, off
  <2>2. /\ front \o order \in Seq(Paths)
        /\ Len(front \o order) = off + Len(order)
        /\ \A i \in 1..(off + Len(order)) :
              (front \o order)[i] = IF i <= off THEN front[i] ELSE order[i - off]
    BY <1>2, <2>1, ConcatProperties
  <2>3. Len(order) \in Nat /\ DOMAIN order = 1..Len(order)
    BY <1>2, LenProperties
  <2>4. DOMAIN (front \o order) = 1..(off + Len(order))
    BY <2>2, LenProperties
  <2>5. QED  BY <2>1, <2>2, <2>3, <2>4 DEF front
<1> HIDE DEF block
<1>5. ASSUME NEW i \in DOMAIN block
      PROVE  \/ i = 1 /\ off = 1 /\ block[i] = named
             \/ i > off /\ i - off \in DOMAIN order /\ block[i] = order[i - off]
                  /\ d \in env.readable /\ block[i] \in Candidates(d)
  BY <1>2, <1>4, <1>5
<1>6. ASSUME NEW i \in DOMAIN block
      PROVE  block[i] \in Paths /\ block[i][1] = d /\ Searched(block[i])
  <2>1. CASE off = 1 /\ block[i] = named
    BY <1>1, <2>1 DEF Searched
  <2>2. CASE d \in env.readable /\ block[i] \in Candidates(d)
    BY <2>2, CandidatePath DEF Searched
  <2>3. QED  BY <1>5, <2>1, <2>2
<1>7. ASSUME NEW path \in Paths, path[1] = d, path # env.path, Searched(path), Loads(path)
      PROVE  Contains(block, path)
  <2>1. CASE path[2] = env.name
    <3>1. path[2] \in Names /\ path = <<path[1], path[2]>>
      BY DEF Paths
    <3>2. off = 1 /\ path = named
      BY <1>7, <2>1, <3>1, LoaderAssumption DEF named
    <3>3. 1 \in DOMAIN block /\ block[1] = named
      BY <1>4, <3>2
    <3>4. QED  BY <3>2, <3>3 DEF Contains
  <2>2. CASE d \in env.readable /\ path[2] \in DriverNames
    <3>1. path \in Candidates(d)
      BY <1>7, <2>2 DEF Candidates, Loads, Paths
    <3>2. PICK i \in DOMAIN order : order[i] = path
      BY <2>2, <3>1, OrderIsComplete DEF Contains
    <3>3. i + off \in DOMAIN block /\ block[i + off] = path
      BY <1>4, <3>2
    <3>4. QED  BY <3>3 DEF Contains
  <2>3. QED  BY <1>7, <2>1, <2>2 DEF Searched
<1>8. ASSUME NEW i \in DOMAIN block, NEW j \in DOMAIN block, i < j,
             Outranks(block[j], block[i]), block[j] # env.path
      PROVE  \E k \in DOMAIN block : k < i /\ block[k] = block[j]
  <2> DEFINE p == block[j]
             q == block[i]
  <2>1. p[1] = d /\ q[1] = d /\ p \in Paths /\ q \in Paths
    BY <1>6
  <2>2. q[2] # env.name
    BY <1>8, <2>1 DEF Outranks
  <2>3. i > off /\ j > off /\ i - off \in DOMAIN order /\ j - off \in DOMAIN order
        /\ q = order[i - off] /\ p = order[j - off] /\ order \in NewestFirst(d)
        /\ p \in Candidates(d) /\ q \in Candidates(d)
    <3>1. ~(off = 1 /\ q = named)
      BY <1>1, <2>2
    <3>2. QED  BY <1>2, <1>4, <1>5, <1>8, <3>1
  <2>4. CASE p[2] = env.name
    <3>1. p = <<p[1], p[2]>> /\ p[2] \in Names
      BY <2>1 DEF Paths
    <3>2. off = 1 /\ p = named
      BY <2>1, <2>4, <3>1, LoaderAssumption DEF named
    <3>3. 1 \in DOMAIN block /\ block[1] = p /\ 1 < i
      BY <1>4, <2>3, <3>2
    <3>4. QED  BY <3>3
  <2>5. CASE p[2] # env.name
    <3>1. disk[p].time > disk[q].time
      BY <1>8, <2>1, <2>2, <2>5 DEF Outranks
    <3>2. disk[q].time >= disk[p].time
      <4>1. i - off < j - off
        BY <1>4, <1>8
      <4>2. QED  BY <2>3, <4>1 DEF NewestFirst
    <3>3. disk[p].time \in Nat /\ disk[q].time \in Nat
      BY <2>1, <2>3, CandidatePath DEF Files
    <3>4. QED  BY <3>1, <3>2, <3>3
  <2>6. QED  BY <2>4, <2>5
<1>9. QED  BY <1>4, <1>6, <1>7, <1>8 DEF block

\* What the environment and the list are to each other while the list grows.
ListFrom(old, d) ==
    /\ env.path # NoPath => old # <<>> /\ old[1] = env.path
    /\ \/ \A i \in DOMAIN old : old[i] = env.path
       \/ /\ d = env.exe
          /\ \A i \in DOMAIN old : old[i] = env.path \/ old[i][1] = env.directory
          /\ \A path \in Paths : Wanted(path) /\ path[1] = env.directory => Contains(old, path)

\* A directory that comes later holds nothing better, unless it was there
\* before.
LEMMA RankedAppend ==
    ASSUME env \in Environment, disk \in [Paths -> Files],
           NEW old \in Seq(Paths), NEW block \in Seq(Paths), NEW d \in Directories,
           Ranked(old), ListFrom(old, d),
           \A i \in DOMAIN block : block[i][1] = d /\ Searched(block[i]),
           \A i, j \in DOMAIN block : i < j /\ Outranks(block[j], block[i]) =>
               \/ block[j] = env.path
               \/ \E k \in DOMAIN block : k < i /\ block[k] = block[j]
    PROVE  Ranked(old \o block)
<1> DEFINE list == old \o block
           n == Len(old)
<1>1. /\ n \in Nat /\ Len(block) \in Nat
      /\ DOMAIN old = 1..n /\ DOMAIN block = 1..Len(block)
      /\ DOMAIN list = 1..(n + Len(block))
      /\ \A i \in 1..(n + Len(block)) : list[i] = IF i <= n THEN old[i] ELSE block[i - n]
  BY ConcatProperties, LenProperties
<1> HIDE DEF list, n
<1>2. /\ \A i \in DOMAIN list : i <= n => i \in DOMAIN old /\ list[i] = old[i]
      /\ \A i \in DOMAIN list : i > n => i - n \in DOMAIN block /\ list[i] = block[i - n]
      /\ \A i \in DOMAIN old : i \in DOMAIN list /\ list[i] = old[i] /\ i <= n
      /\ \A i \in DOMAIN block : i + n \in DOMAIN list /\ list[i + n] = block[i]
  BY <1>1
<1> SUFFICES ASSUME NEW i \in DOMAIN list, NEW j \in DOMAIN list, i < j, list[i] \in steady,
                    Wanted(list[j]), Outranks(list[j], list[i])
             PROVE  \E k \in DOMAIN list : k < i /\ list[k] = list[j]
  BY DEF Ranked, list
<1>3. list[i] # env.path
  BY DEF Outranks
<1>4. list[j] \in Paths
  <2>1. CASE j <= n
    BY <1>2, <2>1, ElementOfSeq, LenProperties
  <2>2. CASE j > n
    BY <1>2, <2>2, ElementOfSeq, LenProperties
  <2>3. QED  BY <1>1, <2>1, <2>2
<1>5. CASE list[j] = env.path
  <2>1. env.path # NoPath
    BY <1>4, <1>5, LoaderAssumption
  <2>2. 1 \in DOMAIN old /\ old[1] = env.path
    <3>1. old # <<>> /\ old[1] = env.path
      BY <2>1 DEF ListFrom
    <3>2. n \in Nat \ {0}
      BY <3>1, EmptySeq DEF n
    <3>3. QED  BY <1>1, <3>1, <3>2
  <2>3. 1 \in DOMAIN list /\ list[1] = env.path
    BY <1>2, <2>2
  <2>4. 1 < i
    BY <1>1, <1>3, <2>3
  <2>5. QED  BY <1>5, <2>3, <2>4
<1>6. CASE j <= n
  <2>1. i <= n
    BY <1>1, <1>6
  <2>2. \E k \in DOMAIN old : k < i /\ old[k] = old[j]
    BY <1>2, <1>6, <2>1 DEF Ranked
  <2>3. QED  BY <1>2, <1>6, <2>2
<1>7. CASE i > n /\ list[j] # env.path
  <2>1. j > n /\ i - n < j - n
    BY <1>1, <1>7
  <2>2. PICK k \in DOMAIN block : k < i - n /\ block[k] = block[j - n]
    BY <1>2, <1>7, <2>1
  <2>3. k + n < i
    BY <1>1, <2>2
  <2>4. QED  BY <1>2, <2>1, <2>2, <2>3
<1>8. CASE i <= n /\ j > n /\ list[j] # env.path
  <2>1. list[i] = old[i] /\ i \in DOMAIN old /\ list[j][1] = d
    BY <1>2, <1>8
  <2>2. /\ d = env.exe /\ list[i][1] = env.directory
        /\ \A path \in Paths : Wanted(path) /\ path[1] = env.directory => Contains(old, path)
    BY <1>3, <2>1 DEF ListFrom
  <2>3. list[j][1] = env.directory
    BY <1>8, <2>2 DEF Outranks
  <2>4. PICK k \in DOMAIN old : old[k] = list[j]
    BY <1>4, <2>2, <2>3 DEF Contains
  <2>5. CASE k < i
    BY <1>2, <2>4, <2>5
  <2>6. CASE k = i
    <3>1. ~Outranks(list[j], list[j])
      <4>1. disk[list[j]].time \in Nat
        BY <1>4 DEF Wanted, Loads, Files
      <4>2. QED  BY <1>8, <4>1 DEF Outranks
    <3>2. QED  BY <2>1, <2>4, <2>6, <3>1
  <2>7. CASE k > i
    <3>1. \E l \in DOMAIN old : l < i /\ old[l] = old[k]
      BY <2>1, <2>4, <2>7 DEF Ranked
    <3>2. QED  BY <1>2, <2>4, <3>1
  <2>8. QED  BY <1>1, <2>1, <2>4, <2>5, <2>6, <2>7
<1>9. QED  BY <1>1, <1>5, <1>6, <1>7, <1>8

-----------------------------------------------------------------------------
(* The search finds the best library that stays there.                     *)

\* The invariant behind NothingOverlooked and BestIsChosen.
CompleteInv ==
    /\ SearchProgress /\ EnvironmentFirst /\ ListComplete /\ ListRanked
    /\ error = "NoDriverFound" => at = "idle"
    /\ NothingOverlooked /\ BestIsChosen

\* A longer list contains what its parts contain.
LEMMA ContainsConcat ==
    ASSUME NEW old \in Seq(Paths), NEW block \in Seq(Paths), NEW path,
           Contains(old, path) \/ Contains(block, path)
    PROVE  Contains(old \o block, path)
<1>1. /\ Len(old) \in Nat /\ Len(block) \in Nat
      /\ DOMAIN old = 1..Len(old) /\ DOMAIN block = 1..Len(block)
      /\ DOMAIN (old \o block) = 1..(Len(old) + Len(block))
      /\ \A i \in 1..(Len(old) + Len(block)) :
            (old \o block)[i] = IF i <= Len(old) THEN old[i] ELSE block[i - Len(old)]
  BY ConcatProperties, LenProperties
<1>2. CASE Contains(old, path)
  <2>1. PICK i \in DOMAIN old : old[i] = path
    BY <1>2 DEF Contains
  <2>2. i \in DOMAIN (old \o block) /\ (old \o block)[i] = path
    BY <1>1, <2>1
  <2>3. QED  BY <2>2 DEF Contains
<1>3. CASE Contains(block, path)
  <2>1. PICK i \in DOMAIN block : block[i] = path
    BY <1>3 DEF Contains
  <2>2. i + Len(old) \in DOMAIN (old \o block) /\ (old \o block)[i + Len(old)] = path
    BY <1>1, <2>1
  <2>3. QED  BY <2>2 DEF Contains
<1>4. QED  BY <1>2, <1>3

\* Every element of a longer list is one of its parts.
LEMMA ConcatElements ==
    ASSUME NEW old \in Seq(Paths), NEW block \in Seq(Paths), NEW i \in DOMAIN (old \o block)
    PROVE  \/ \E j \in DOMAIN old : (old \o block)[i] = old[j]
           \/ \E j \in DOMAIN block : (old \o block)[i] = block[j]
<1>1. /\ Len(old) \in Nat /\ Len(block) \in Nat
      /\ DOMAIN old = 1..Len(old) /\ DOMAIN block = 1..Len(block)
      /\ DOMAIN (old \o block) = 1..(Len(old) + Len(block))
      /\ \A k \in 1..(Len(old) + Len(block)) :
            (old \o block)[k] = IF k <= Len(old) THEN old[k] ELSE block[k - Len(old)]
  BY ConcatProperties, LenProperties
<1>2. CASE i <= Len(old)
  BY <1>1, <1>2
<1>3. CASE i > Len(old)
  <2>1. i - Len(old) \in DOMAIN block /\ (old \o block)[i] = block[i - Len(old)]
    BY <1>1, <1>3
  <2>2. QED  BY <2>1
<1>4. QED  BY <1>1, <1>2, <1>3

\* A setting as a list: empty without one, else the setting alone.
LEMMA GivenDirectory ==
    ASSUME NEW d \in Directories \cup {NoDirectory}, NEW rest \in Seq(Directories)
    PROVE  /\ Given(d, NoDirectory) = <<>> <=> d = NoDirectory
           /\ Given(d, NoDirectory) \in Seq(Directories)
           /\ d = NoDirectory => Given(d, NoDirectory) \o rest = rest
           /\ d # NoDirectory =>
                 /\ Given(d, NoDirectory) \o rest # <<>>
                 /\ Head(Given(d, NoDirectory) \o rest) = d
                 /\ Tail(Given(d, NoDirectory) \o rest) = rest
                 /\ Head(Given(d, NoDirectory)) = d
                 /\ Tail(Given(d, NoDirectory)) = <<>>
<1>1. CASE d = NoDirectory
  BY <1>1, ConcatEmptySeq DEF Given
<1>2. CASE d # NoDirectory
  <2>1. Given(d, NoDirectory) = <<d>> /\ d \in Directories
    BY <1>2 DEF Given
  <2> DEFINE one == <<d>>
             list == one \o rest
  <2>2. one \in Seq(Directories) /\ Len(one) = 1 /\ one[1] = d
    BY <2>1
  <2> HIDE DEF one
  <2>3. /\ list \in Seq(Directories) /\ Len(rest) \in Nat /\ Len(list) = 1 + Len(rest)
        /\ \A i \in 1..(1 + Len(rest)) : list[i] = IF i <= 1 THEN one[i] ELSE rest[i - 1]
    <3>1. Len(rest) \in Nat
      BY LenProperties
    <3>2. /\ one \o rest \in Seq(Directories) /\ Len(one \o rest) = Len(one) + Len(rest)
          /\ \A i \in 1..(Len(one) + Len(rest)) :
                (one \o rest)[i] = IF i <= Len(one) THEN one[i] ELSE rest[i - Len(one)]
      BY ONLY <2>2, rest \in Seq(Directories), ConcatProperties
    <3>3. QED  BY <2>2, <3>1, <3>2
  <2>4. list # <<>> /\ Head(list) = d
    <3>1. list[1] = d
      BY <2>2, <2>3
    <3> HIDE DEF list
    <3>2. QED  BY <2>3, <3>1
  <2>5. Tail(list) = rest
    <3> HIDE DEF list
    <3>1. /\ Tail(list) \in Seq(Directories) /\ Len(Tail(list)) = Len(rest)
          /\ \A i \in 1..Len(rest) : Tail(list)[i] = list[i + 1]
      BY <2>3, <2>4, HeadTailProperties
    <3>2. \A i \in 1..Len(rest) : Tail(list)[i] = rest[i]
      BY <2>3, <3>1
    <3>3. QED  BY <3>1, <3>2, SeqEqual
  <2>6. <<d>> # <<>> /\ Head(<<d>>) = d /\ Tail(<<d>>) = <<>>
    BY <2>1
  <2>7. QED  BY <1>2, <2>1, <2>2, <2>4, <2>5, <2>6 DEF one
<1>3. QED  BY <1>1, <1>2

\* Where the search is, it looks in the directory of the environment or in that
\* of the program, and knows what stands before it.
LEMMA ScanPlace ==
    ASSUME IInv, SearchProgress, EnvironmentFirst, at = "scan", directories # <<>>
    PROVE  LET d == Head(directories)
           IN  /\ d \in Directories /\ d \in {env.directory, env.exe}
               /\ ListFrom(paths, d)
               /\ \/ /\ Tail(directories) = Given(env.exe, NoDirectory)
                     /\ d = env.directory /\ env.directory # NoDirectory
                     /\ \A i \in DOMAIN paths : paths[i] = env.path
                  \/ /\ Tail(directories) = <<>> /\ d = env.exe
                     /\ \A path \in Paths : Wanted(path) =>
                           Contains(paths, path) \/ path = env.path \/ path[1] = d
<1> DEFINE d == Head(directories)
<1>1. /\ env.path \in Paths \cup {NoPath}
      /\ env.directory \in Directories \cup {NoDirectory}
      /\ env.exe \in Directories \cup {NoDirectory}
  BY LoaderAssumption DEF IInv, SearchInv, Environment
<1>2. d \in Directories
  BY DEF IInv, SearchInv
<1>3. env.path # NoPath => paths # <<>> /\ paths[1] = env.path
  BY DEF EnvironmentFirst
<1>4. \A path \in Paths : Wanted(path) => path = env.path \/ path[1] \in {env.directory, env.exe}
  BY DEF Wanted, Searched
<1>5. \A path \in Paths : path[1] # NoDirectory
  BY LoaderAssumption DEF Paths
<1>6. Given(env.exe, NoDirectory) \in Seq(Directories) /\ <<>> \in Seq(Directories)
  <2>1. <<>> \in Seq(Directories)
    BY EmptySeq
  <2>2. QED  BY ONLY <1>1, <2>1, GivenDirectory
<1>7. CASE /\ directories = Given(env.directory, NoDirectory) \o Given(env.exe, NoDirectory)
           /\ paths = Given(env.path, NoPath)
  <2>1. \A i \in DOMAIN paths : paths[i] = env.path
    BY <1>7 DEF Given
  <2>2. ListFrom(paths, d)
    BY <1>3, <2>1 DEF ListFrom
  <2>3. CASE env.directory # NoDirectory
    <3>1. d = env.directory /\ Tail(directories) = Given(env.exe, NoDirectory)
      BY <1>1, <1>6, <1>7, <2>3, GivenDirectory
    <3>2. QED  BY <1>2, <2>1, <2>2, <2>3, <3>1
  <2>4. CASE env.directory = NoDirectory
    <3>1. directories = Given(env.exe, NoDirectory)
      BY <1>1, <1>6, <1>7, <2>4, GivenDirectory
    <3>2. d = env.exe /\ Tail(directories) = <<>>
      BY <1>1, <1>6, <3>1, GivenDirectory
    <3>3. QED  BY <1>2, <1>4, <1>5, <2>2, <2>4, <3>2
  <2>5. QED  BY <2>3, <2>4
<1>8. CASE /\ directories = Given(env.exe, NoDirectory)
           /\ \A i \in DOMAIN paths : paths[i] = env.path \/ paths[i][1] = env.directory
           /\ \A path \in Paths : Wanted(path) /\ path[1] = env.directory => Contains(paths, path)
  <2>1. d = env.exe /\ Tail(directories) = <<>>
    BY <1>1, <1>6, <1>8, GivenDirectory
  <2>2. ListFrom(paths, d)
    BY <1>3, <1>8, <2>1 DEF ListFrom
  <2>3. QED  BY <1>2, <1>4, <1>8, <2>1, <2>2
<1>9. QED  BY <1>7, <1>8 DEF SearchProgress

\* A step outside create_from_env's first: what stays steady stays as it is.
Settled ==
    /\ env' = env /\ steady' \subseteq steady
    /\ \A path \in steady' : disk'[path] = disk[path]

\* Every step but a new start of the search.
LEMMA SettledStep == RestInv /\ [Next]_vars /\ ~Create => Settled
<1> SUFFICES ASSUME RestInv, [Next]_vars, ~Create PROVE Settled
  OBVIOUS
<1> USE DEF Settled, world
<1>1. CASE ScanDirectory \/ ScanDone \/ LoadFails \/ Load \/ NoDriverFound \/ Startup
             \/ LookUp \/ Initialize \/ Command \/ Destroy \/ Teardown \/ Unmap
  BY <1>1 DEF ScanDirectory, ScanDone, LoadFails, Load, NoDriverFound, Startup,
              LookUp, Initialize, Command, Destroy, Teardown, Unmap
<1>2. ASSUME NEW path \in Paths, ChangeFile(path) PROVE Settled
  <2>1. disk \in [Paths -> Files] /\ steady \subseteq Paths
    BY DEF RestInv
  <2>2. env' = env /\ steady' = steady \ {path}
    BY <1>2 DEF ChangeFile
  <2>3. PICK file : disk' = [disk EXCEPT ![path] = file]
    BY <1>2 DEF ChangeFile
  <2>4. \A other \in steady' : disk'[other] = disk[other]
    BY <2>1, <2>2, <2>3
  <2>5. QED  BY <2>2, <2>4
<1>3. CASE UNCHANGED vars
  BY <1>3 DEF vars
<1>4. QED  BY <1>1, <1>2, <1>3 DEF Next, Loader

\* What is wanted after such a step was wanted before it,
LEMMA WantedBefore ==
    ASSUME Settled, NEW path, Wanted(path)'
    PROVE  Wanted(path)
BY DEF Settled, Wanted, Searched, Loads

\* so that a ranked list stays ranked.
LEMMA RankedCarries ==
    ASSUME Settled, NEW list, Ranked(list), paths' = list
    PROVE  Ranked(paths)'
<1> SUFFICES ASSUME NEW i \in DOMAIN list, NEW j \in DOMAIN list, i < j,
                    list[i] \in steady', Wanted(list[j])', Outranks(list[j], list[i])'
             PROVE  \E k \in DOMAIN list : k < i /\ list[k] = list[j]
  BY DEF Ranked
<1>1. Wanted(list[j]) /\ list[j] \in steady'
  BY WantedBefore DEF Wanted
<1>2. Outranks(list[j], list[i])
  BY <1>1 DEF Outranks, Settled
<1>3. list[i] \in steady
  BY DEF Settled
<1>4. QED  BY <1>1, <1>2, <1>3 DEF Ranked

\* The search moves on by one directory.
LEMMA ScanKeeps ==
    IInv /\ RestInv /\ CompleteInv /\ ScanDirectory => CompleteInv'
<1> SUFFICES ASSUME IInv, RestInv, CompleteInv, ScanDirectory PROVE CompleteInv'
  OBVIOUS
<1> DEFINE d == Head(directories)
<1>1. /\ at = "scan" /\ directories # <<>> /\ directories' = Tail(directories)
      /\ env' = env /\ disk' = disk /\ steady' = steady /\ at' = at /\ error' = error
  BY DEF ScanDirectory, world
<1>2. /\ paths \in Seq(Paths) /\ disk \in [Paths -> Files] /\ env \in Environment
      /\ steady \subseteq Paths
  BY LoaderAssumption DEF IInv, SearchInv, RestInv
<1>3. /\ d \in Directories /\ d \in {env.directory, env.exe}
      /\ ListFrom(paths, d)
      /\ \/ /\ Tail(directories) = Given(env.exe, NoDirectory)
            /\ d = env.directory /\ env.directory # NoDirectory
            /\ \A i \in DOMAIN paths : paths[i] = env.path
         \/ /\ Tail(directories) = <<>> /\ d = env.exe
            /\ \A path \in Paths : Wanted(path) =>
                  Contains(paths, path) \/ path = env.path \/ path[1] = d
  BY <1>1, ScanPlace DEF CompleteInv
<1> HIDE DEF d
<1>4. PICK order \in IF d \in env.readable THEN NewestFirst(d) ELSE {<<>>} :
          paths' = paths \o Named(d) \o order
  BY DEF ScanDirectory, d
<1> DEFINE block == Named(d) \o order
<1>5. /\ block \in Seq(Paths)
      /\ \A i \in DOMAIN block : block[i][1] = d /\ Searched(block[i])
      /\ \A path \in Paths :
            path[1] = d /\ path # env.path /\ Searched(path) /\ Loads(path)
            => Contains(block, path)
      /\ \A i, j \in DOMAIN block : i < j /\ Outranks(block[j], block[i]) =>
            \/ block[j] = env.path
            \/ \E k \in DOMAIN block : k < i /\ block[k] = block[j]
  BY ONLY <1>2, <1>3, <1>4, LoaderAssumption, BlockProperties
<1>6. paths' = paths \o block
  <2>1. Named(d) \in Seq(Paths)
    <3>1. env.name \in Names \cup {NoName}
      BY <1>2 DEF Environment
    <3>2. env.name # NoName => <<d, env.name>> \in Paths
      BY <1>3, <3>1 DEF Paths
    <3>3. QED  BY <3>2 DEF Named
  <2>2. order \in Seq(Paths)
    <3>1. <<>> \in Seq(Paths)
      BY EmptySeq
    <3>2. QED  BY <1>3, <1>4, <3>1, OrderIsPaths
  <2>3. QED  BY ONLY <1>2, <1>4, <2>1, <2>2, ConcatAssociative DEF block
<1> HIDE DEF block
<1>7. ListRanked'
  <2>1. Ranked(paths)
    BY <1>1 DEF CompleteInv, ListRanked
  <2>2. Ranked(paths \o block)
    BY <1>2, <1>3, <1>5, <2>1, RankedAppend
  <2>3. Settled
    BY <1>1 DEF Settled
  <2>4. QED  BY <1>6, <2>2, <2>3, RankedCarries DEF ListRanked
<1>8. EnvironmentFirst'
  <2>1. CASE env.path # NoPath
    <3>1. paths # <<>> /\ paths[1] = env.path
      BY <1>1, <2>1 DEF CompleteInv, EnvironmentFirst
    <3>2. Len(paths) \in Nat \ {0} /\ Len(block) \in Nat
      BY <1>2, <1>5, <3>1, EmptySeq, LenProperties
    <3>3. /\ Len(paths \o block) = Len(paths) + Len(block)
          /\ (paths \o block)[1] = paths[1]
      BY <1>2, <1>5, <3>2, ConcatProperties
    <3>4. paths \o block # <<>>
      <4>1. Len(paths \o block) # 0
        BY <3>2, <3>3
      <4>2. QED  BY <4>1, EmptySeq
    <3>5. QED  BY <1>1, <1>6, <3>1, <3>3, <3>4 DEF EnvironmentFirst
  <2>2. QED  BY <1>1, <2>1 DEF EnvironmentFirst
<1>9. \A path \in Paths : Contains(paths, path) \/ Contains(block, path) => Contains(paths', path)
  BY ONLY <1>2, <1>5, <1>6, ContainsConcat
<1>10. \A path \in Paths : Wanted(path)' => Wanted(path)
  BY <1>1 DEF Wanted, Searched, Loads
<1>11. \A path \in Paths : Wanted(path) /\ path = env.path => Contains(paths, path)
  <2> SUFFICES ASSUME NEW path \in Paths, path = env.path PROVE Contains(paths, path)
    OBVIOUS
  <2>1. paths # <<>> /\ paths[1] = env.path
    BY <1>1, LoaderAssumption DEF CompleteInv, EnvironmentFirst
  <2>2. 1 \in DOMAIN paths
    BY <1>2, <2>1, EmptySeq, LenProperties
  <2>3. QED  BY <2>1, <2>2 DEF Contains
<1>12. \A path \in Paths : Wanted(path) /\ path[1] = d => Contains(paths', path)
  BY <1>5, <1>9, <1>11 DEF Wanted
<1>13. SearchProgress'
  <2>1. CASE /\ Tail(directories) = Given(env.exe, NoDirectory)
             /\ d = env.directory /\ env.directory # NoDirectory
             /\ \A i \in DOMAIN paths : paths[i] = env.path
    <3>1. \A i \in DOMAIN paths' : paths'[i] = env.path \/ paths'[i][1] = env.directory
      <4>1. \A i \in DOMAIN (paths \o block) :
                \/ \E j \in DOMAIN paths : (paths \o block)[i] = paths[j]
                \/ \E j \in DOMAIN block : (paths \o block)[i] = block[j]
        BY ONLY <1>2, <1>5, ConcatElements
      <4>2. QED  BY <1>5, <1>6, <2>1, <4>1
    <3>2. QED  BY <1>1, <1>10, <1>12, <2>1, <3>1 DEF SearchProgress
  <2>2. CASE /\ Tail(directories) = <<>> /\ d = env.exe
             /\ \A path \in Paths : Wanted(path) =>
                   Contains(paths, path) \/ path = env.path \/ path[1] = d
    <3>1. \A path \in Paths : Wanted(path)' => Contains(paths', path)
      BY <1>9, <1>10, <1>11, <1>12, <2>2
    <3>2. QED  BY <1>1, <2>2, <3>1 DEF SearchProgress
  <2>3. QED  BY <1>3, <2>1, <2>2
<1>14. QED  BY <1>1, <1>7, <1>8, <1>13 DEF CompleteInv, ListComplete, NothingOverlooked, BestIsChosen

\* A new search starts with the path of the environment.
LEMMA CreateKeeps == Create => CompleteInv'
<1> SUFFICES ASSUME Create PROVE CompleteInv'
  OBVIOUS
<1>1. /\ at' = "scan" /\ error' = "none" /\ env' = env
      /\ paths' = Given(env.path, NoPath)
      /\ directories' = Given(env.directory, NoDirectory) \o Given(env.exe, NoDirectory)
  BY DEF Create, Move
<1>2. SearchProgress' /\ EnvironmentFirst'
  <2>1. env.path # NoPath => Given(env.path, NoPath) # <<>> /\ Given(env.path, NoPath)[1] = env.path
    BY DEF Given
  <2>2. SearchProgress'
    BY <1>1 DEF SearchProgress, Given
  <2>3. QED  BY <1>1, <2>1, <2>2 DEF EnvironmentFirst
<1>3. ListRanked'
  <2>1. \A i, j \in DOMAIN paths' : ~(i < j)
    BY <1>1 DEF Given
  <2>2. QED  BY <2>1 DEF ListRanked, Ranked
<1>4. QED  BY <1>1, <1>2, <1>3 DEF CompleteInv, ListComplete, NothingOverlooked, BestIsChosen

\* With nothing left to search, the list is complete.
LEMMA ScanDoneKeeps ==
    IInv /\ RestInv /\ CompleteInv /\ ScanDone => CompleteInv'
<1> SUFFICES ASSUME IInv, RestInv, CompleteInv, ScanDone PROVE CompleteInv'
  OBVIOUS
<1>1. /\ at = "scan" /\ at' = "load" /\ directories = <<>> /\ paths' = paths
      /\ env' = env /\ disk' = disk /\ steady' = steady /\ error' = error
  BY DEF ScanDone, Move, search, world
<1>2. env \in Environment
  BY LoaderAssumption DEF IInv, SearchInv
<1>3. \A path \in Paths : Wanted(path) => Contains(paths, path)
  <2>1. /\ env.path \in Paths \cup {NoPath}
        /\ env.directory \in Directories \cup {NoDirectory}
        /\ env.exe \in Directories \cup {NoDirectory}
    BY <1>2 DEF Environment
  <2>2. CASE /\ directories = Given(env.directory, NoDirectory) \o Given(env.exe, NoDirectory)
             /\ paths = Given(env.path, NoPath)
    <3>1. /\ Given(env.directory, NoDirectory) \in Seq(Directories)
          /\ Given(env.exe, NoDirectory) \in Seq(Directories)
      <4>1. <<>> \in Seq(Directories)
        BY EmptySeq
      <4>2. QED  BY ONLY <2>1, <4>1, GivenDirectory
    <3>2. /\ Given(env.directory, NoDirectory) = <<>>
          /\ Given(env.exe, NoDirectory) = <<>>
      <4> DEFINE first == Given(env.directory, NoDirectory)
                 second == Given(env.exe, NoDirectory)
      <4>1. first \in Seq(Directories) /\ second \in Seq(Directories) /\ first \o second = <<>>
        BY <1>1, <2>2, <3>1
      <4> HIDE DEF first, second
      <4>2. first = <<>> /\ second = <<>>
        BY ONLY <4>1, ConcatEqualIffEmpty
      <4>3. QED  BY <4>2 DEF first, second
    <3>3. env.directory = NoDirectory /\ env.exe = NoDirectory
      BY <3>2 DEF Given
    <3>4. \A path \in Paths : Wanted(path) => path = env.path
      BY <3>3, LoaderAssumption DEF Wanted, Searched, Paths
    <3>5. \A path \in Paths : path = env.path => Contains(paths, path)
      BY <2>2, LoaderAssumption DEF Contains, Given
    <3>6. QED  BY <3>4, <3>5
  <2>3. CASE /\ directories = Given(env.exe, NoDirectory)
             /\ \A path \in Paths : Wanted(path) /\ path[1] = env.directory => Contains(paths, path)
    <3>1. env.exe = NoDirectory
      BY <1>1, <2>3 DEF Given
    <3>2. \A path \in Paths : Wanted(path) => path = env.path \/ path[1] = env.directory
      BY <3>1, LoaderAssumption DEF Wanted, Searched, Paths
    <3>3. \A path \in Paths : path = env.path => Contains(paths, path)
      <4> SUFFICES ASSUME NEW path \in Paths, path = env.path PROVE Contains(paths, path)
        OBVIOUS
      <4>1. paths # <<>> /\ paths[1] = env.path
        BY <1>1, LoaderAssumption DEF CompleteInv, EnvironmentFirst
      <4>2. 1 \in DOMAIN paths
        BY <4>1, EmptySeq, LenProperties DEF IInv, SearchInv
      <4>3. QED  BY <4>1, <4>2 DEF Contains
    <3>4. QED  BY <2>3, <3>2, <3>3
  <2>4. QED  BY <1>1, <2>2, <2>3 DEF CompleteInv, SearchProgress
<1>4. Settled
  BY <1>1 DEF Settled
<1>5. ListComplete'
  BY <1>1, <1>3, <1>4, WantedBefore DEF ListComplete
<1>6. ListRanked'
  BY <1>1, <1>4, RankedCarries DEF ListRanked, CompleteInv
<1>7. QED  BY <1>1, <1>5, <1>6
              DEF CompleteInv, SearchProgress, EnvironmentFirst, NothingOverlooked, BestIsChosen

\* What would not load is not missed.
LEMMA LoadFailsKeeps ==
    IInv /\ RestInv /\ CompleteInv /\ LoadFails => CompleteInv'
<1> SUFFICES ASSUME IInv, RestInv, CompleteInv, LoadFails PROVE CompleteInv'
  OBVIOUS
<1>1. /\ at = "load" /\ at' = at /\ paths # <<>> /\ ~Loads(Head(paths)) /\ paths' = Tail(paths)
      /\ env' = env /\ disk' = disk /\ steady' = steady /\ error' = error
  BY DEF LoadFails, world
<1>2. paths \in Seq(Paths)
  BY DEF IInv, SearchInv
<1> DEFINE list == Tail(paths)
           n == Len(list)
<1>3. /\ n \in Nat /\ DOMAIN list = 1..n /\ DOMAIN paths = 1..(n + 1)
      /\ \A i \in 1..n : list[i] = paths[i + 1]
      /\ Head(paths) = paths[1]
  <2>1. /\ list \in Seq(Paths) /\ Len(list) = Len(paths) - 1
        /\ \A i \in 1..n : list[i] = paths[i + 1]
    BY <1>1, <1>2, HeadTailProperties
  <2>2. n \in Nat /\ DOMAIN list = 1..n /\ DOMAIN paths = 1..Len(paths) /\ Len(paths) \in Nat
    BY <1>2, <2>1, LenProperties
  <2>3. Head(paths) = paths[1]
    BY <1>1, <1>2
  <2> HIDE DEF list
  <2>4. QED  BY <2>1, <2>2, <2>3
<1> HIDE DEF list, n
<1>4. Settled
  BY <1>1 DEF Settled
<1>5. ListComplete'
  <2> SUFFICES ASSUME NEW path \in Paths, Wanted(path)' PROVE Contains(list, path)
    BY <1>1 DEF ListComplete, list
  <2>1. Wanted(path)
    BY <1>4, WantedBefore
  <2>2. PICK k \in DOMAIN paths : paths[k] = path
    BY <1>1, <2>1 DEF CompleteInv, ListComplete, Contains
  <2>3. k # 1
    BY <1>1, <1>3, <2>1, <2>2 DEF Wanted
  <2>4. k - 1 \in DOMAIN list /\ list[k - 1] = path
    BY <1>3, <2>2, <2>3
  <2>5. QED  BY <2>4 DEF Contains
<1>6. Ranked(list)
  <2> SUFFICES ASSUME NEW i \in DOMAIN list, NEW j \in DOMAIN list, i < j, list[i] \in steady,
                      Wanted(list[j]), Outranks(list[j], list[i])
               PROVE  \E k \in DOMAIN list : k < i /\ list[k] = list[j]
    BY DEF Ranked
  <2>1. /\ i + 1 \in DOMAIN paths /\ j + 1 \in DOMAIN paths /\ i + 1 < j + 1
        /\ list[i] = paths[i + 1] /\ list[j] = paths[j + 1]
    BY <1>3
  <2>2. PICK k \in DOMAIN paths : k < i + 1 /\ paths[k] = paths[j + 1]
    BY <1>1, <2>1 DEF CompleteInv, ListRanked, Ranked
  <2>3. k # 1
    BY <1>1, <1>3, <2>1, <2>2 DEF Wanted
  <2>4. k - 1 \in DOMAIN list /\ list[k - 1] = list[j] /\ k - 1 < i
    BY <1>3, <2>1, <2>2, <2>3
  <2>5. QED  BY <2>4
<1>7. ListRanked'
  BY <1>1, <1>4, <1>6, RankedCarries DEF ListRanked, list
<1>8. QED  BY <1>1, <1>5, <1>7
              DEF CompleteInv, SearchProgress, EnvironmentFirst, NothingOverlooked, BestIsChosen

\* The first of the list that loads is the best: a better one is in the list,
\* and so before it.
LEMMA LoadKeeps ==
    IInv /\ RestInv /\ CompleteInv /\ Load => CompleteInv'
<1> SUFFICES ASSUME IInv, RestInv, CompleteInv, Load PROVE CompleteInv'
  OBVIOUS
<1>1. /\ at = "load" /\ at' = "startup" /\ paths # <<>> /\ library' = Head(paths)
      /\ env' = env /\ disk' = disk /\ steady' = steady /\ error' = error
  BY DEF Load, Move, world
<1>2. paths \in Seq(Paths) /\ disk \in [Paths -> Files] /\ steady \subseteq Paths
  BY DEF IInv, SearchInv, RestInv
<1>3. 1 \in DOMAIN paths /\ Head(paths) = paths[1] /\ DOMAIN paths \subseteq Nat \ {0}
  <2>1. Len(paths) \in Nat \ {0} /\ DOMAIN paths = 1..Len(paths)
    BY <1>1, <1>2, EmptySeq, LenProperties
  <2>2. QED  BY <1>1, <1>2, <2>1
<1>4. ASSUME NEW path \in steady, Wanted(path), paths[1] \in steady, Outranks(path, paths[1])
      PROVE  FALSE
  <2>1. PICK k \in DOMAIN paths : paths[k] = path
    BY <1>1, <1>2, <1>4 DEF CompleteInv, ListComplete, Contains
  <2>2. CASE k = 1
    <3>1. disk[path].time \in Nat
      BY <1>2, <1>4 DEF Wanted, Loads, Files
    <3>2. QED  BY <1>4, <2>1, <2>2, <3>1 DEF Outranks
  <2>3. CASE k # 1
    <3>1. 1 < k
      BY <1>3, <2>3
    <3>2. PICK l \in DOMAIN paths : l < 1
      BY <1>1, <1>3, <1>4, <2>1, <3>1 DEF CompleteInv, ListRanked, Ranked
    <3>3. QED  BY <1>3, <3>2
  <2>4. QED  BY <2>2, <2>3
<1>5. BestIsChosen'
  BY <1>1, <1>3, <1>4 DEF BestIsChosen, Wanted, Searched, Loads, Outranks
<1>6. QED  BY <1>1, <1>5
              DEF CompleteInv, SearchProgress, EnvironmentFirst, ListComplete, ListRanked, NothingOverlooked

\* A load in vain ends a search that overlooked nothing.
LEMMA NoDriverFoundKeeps ==
    RestInv /\ CompleteInv /\ NoDriverFound => CompleteInv'
<1> SUFFICES ASSUME RestInv, CompleteInv, NoDriverFound PROVE CompleteInv'
  OBVIOUS
<1>1. /\ at = "load" /\ at' = "idle" /\ paths = <<>> /\ error' = "NoDriverFound"
      /\ env' = env /\ disk' = disk /\ steady' = steady
  BY DEF NoDriverFound, Move, world
<1>2. ASSUME NEW path \in steady, Searched(path), Loads(path) PROVE FALSE
  <2>1. Contains(paths, path)
    BY <1>1, <1>2 DEF CompleteInv, ListComplete, Wanted, RestInv
  <2>2. QED  BY <1>1, <2>1 DEF Contains
<1>3. NothingOverlooked'
  BY <1>1, <1>2 DEF NothingOverlooked, Searched, Loads
<1>4. QED  BY <1>1, <1>3
              DEF CompleteInv, SearchProgress, EnvironmentFirst, ListComplete, ListRanked, BestIsChosen

\* Another program changes what is not steady then, and nothing of what is.
LEMMA ChangeKeeps ==
    ASSUME CompleteInv, Settled, UNCHANGED <<search, at, error>>,
           at \in {"scan", "load"} \/ UNCHANGED vars
    PROVE  CompleteInv'
<1>1. CASE UNCHANGED vars
  BY <1>1 DEF CompleteInv, SearchProgress, EnvironmentFirst, ListComplete, ListRanked, Ranked,
              NothingOverlooked, BestIsChosen, Wanted, Searched, Loads, Outranks,
              vars, search, held, world
<1>2. CASE at \in {"scan", "load"}
  <2>1. paths' = paths /\ directories' = directories /\ at' = at /\ error' = error /\ env' = env
    BY DEF search, Settled
  <2>2. \A path \in Paths : Wanted(path)' => Wanted(path)
    BY WantedBefore
  <2>3. SearchProgress' /\ EnvironmentFirst' /\ ListComplete'
    BY <2>1, <2>2 DEF CompleteInv, SearchProgress, EnvironmentFirst, ListComplete
  <2>4. ListRanked'
    BY <1>2, <2>1, RankedCarries DEF CompleteInv, ListRanked
  <2>5. QED  BY <1>2, <2>1, <2>3, <2>4 DEF CompleteInv, NothingOverlooked, BestIsChosen
<1>3. QED  BY <1>1, <1>2

\* Every step keeps it.
LEMMA NextCompleteInv == IInv /\ RestInv /\ CompleteInv /\ [Next]_vars => CompleteInv'
<1> SUFFICES ASSUME IInv, RestInv, CompleteInv, [Next]_vars PROVE CompleteInv'
  OBVIOUS
<1>1. CASE Create
  BY <1>1, CreateKeeps
<1>2. CASE ScanDirectory
  BY <1>2, ScanKeeps
<1>3. CASE ScanDone
  BY <1>3, ScanDoneKeeps
<1>4. CASE LoadFails
  BY <1>4, LoadFailsKeeps
<1>5. CASE Load
  BY <1>5, LoadKeeps
<1>6. CASE NoDriverFound
  BY <1>6, NoDriverFoundKeeps
<1>7. CASE Startup \/ LookUp \/ Initialize \/ Command \/ Destroy \/ Teardown \/ Unmap
  <2>1. /\ at' \notin {"scan", "load", "startup"}
        /\ error' # "NoDriverFound"
    BY <1>7 DEF CompleteInv, Startup, LookUp, Initialize, Command, Destroy, Teardown, Unmap,
                Move, Verdict
  <2>2. QED  BY <2>1 DEF CompleteInv, SearchProgress, EnvironmentFirst, ListComplete, ListRanked,
                         NothingOverlooked, BestIsChosen
<1>8. ASSUME NEW path \in Paths, ChangeFile(path) PROVE CompleteInv'
  <2>1. ~Create
    BY <1>8 DEF ChangeFile, Create, Move
  <2>2. UNCHANGED <<search, at, error>> /\ at \in {"scan", "load"}
    BY <1>8 DEF ChangeFile
  <2>3. QED  BY <2>1, <2>2, SettledStep, ChangeKeeps
<1>9. CASE UNCHANGED vars
  <2>1. Settled /\ UNCHANGED <<search, at, error>>
    BY <1>9 DEF Settled, vars, world
  <2>2. QED  BY <1>9, <2>1, ChangeKeeps
<1>10. QED  BY <1>1, <1>2, <1>3, <1>4, <1>5, <1>6, <1>7, <1>8, <1>9 DEF Next, Loader

\* So it holds in every state that can be reached.
LEMMA CompleteInvIsInvariant == Spec => []CompleteInv
<1>1. Init => CompleteInv
  BY DEF Init, CompleteInv, SearchProgress, EnvironmentFirst, ListComplete, ListRanked,
         NothingOverlooked, BestIsChosen
<1>2. QED  BY InvIsInvariant, InitRestInv, NextRestInv, <1>1, NextCompleteInv, PTL DEF Spec

\* create_from_env says that there is no driver only when none that would load
\* has been there all the time: whatever directories, names, settings and files
\* there are, and whatever other programs do to other files.
THEOREM NothingIsOverlooked == Spec => []NothingOverlooked
<1>1. CompleteInv => NothingOverlooked
  BY DEF CompleteInv
<1>2. QED  BY CompleteInvIsInvariant, <1>1, PTL

\* The library that create_from_env starts is the best of those that would load
\* and have been there all the time.
THEOREM BestIsTaken == Spec => []BestIsChosen
<1>1. CompleteInv => BestIsChosen
  BY DEF CompleteInv
<1>2. QED  BY CompleteInvIsInvariant, <1>1, PTL
=============================================================================
