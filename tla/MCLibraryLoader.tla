-------------------------- MODULE MCLibraryLoader --------------------------
(***************************************************************************)
(* An instance of LibraryLoader for TLC: two directories, two names that   *)
(* the search accepts and one that only the environment can give.          *)
(***************************************************************************)
EXTENDS LibraryLoader

SomeFiles == [time : {1, 2}, loads : BOOLEAN] \cup {NoFile}

\* Any files under the accepted names in the first directory, a driver or none
\* in the second, and a file that loads or none under the other name.
SomeDisks ==
    {[path \in Directories \X Names |->
        CASE path = <<"env", "driver_a">> -> a
          [] path = <<"env", "driver_b">> -> b
          [] path = <<"exe", "driver_a">> -> c
          [] path = <<"env", "other">>    -> d
          [] OTHER                        -> NoFile] :
        a, b \in SomeFiles,
        c \in {NoFile, [time |-> 2, loads |-> TRUE]},
        d \in {NoFile, [time |-> 1, loads |-> TRUE]}}

SomeEnvironments ==
    {[path |-> path, directory |-> directory, name |-> name, exe |-> exe, readable |-> readable] :
        path \in {NoPath, <<"env", "driver_b">>},
        directory \in {NoDirectory, "env"},
        name \in {NoName, "other"},
        exe \in {"env", "exe"},
        readable \in {{"exe"}, {"env", "exe"}}}
=============================================================================
