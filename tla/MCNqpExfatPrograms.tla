-------------------------- MODULE MCNqpExfatPrograms --------------------------
EXTENDS NqpExfatPrograms

File(n, c, s) == [name |-> n, cluster |-> c, size |-> s]

\* Root is clusters 2 and 3, "d" clusters 4 and 10; "a" is clusters 5, 8 and 6, "b"
\* cluster 7, "c" cluster 9; "e" is empty.  "a" has three lines, "b" and "c" one.
MCFat == (2 :> 3) @@ (3 :> 999) @@ (4 :> 10) @@ (10 :> 999) @@ (5 :> 8) @@ (8 :> 6) @@ (6 :> 999)
            @@ (7 :> 999) @@ (9 :> 999)
MCDirectory == (2 :> <<File("a", 5, 5), File("d", 4, 2)>>)
            @@ (3 :> <<File("b", 7, 2), File("e", 0, 0), END>>)
            @@ (4 :> <<File("c", 9, 1), END>>) @@ (10 :> <<END>>)
MCNewlines == {<<5, 1>>, <<8, 0>>, <<6, 0>>, <<7, 1>>, <<9, 0>>}
MCPaths == {<<"a">>, <<"b">>, <<"d", "c">>, <<"d", "x">>, <<"e">>, <<>>}
MCFiles == {0, 5, 7, 9}
MCDirs == {2, 4}
MCCounts == {1, 3}

ASSUME \A dir \in MCDirs : EndMarked(dir)

Job(program, args) == [program |-> program, args |-> args]
MCJobs ==
    {Job("any", <<>>), Job("cli", <<>>)}
    \cup {Job("cat", args) : args \in UNION {[1 .. n -> MCPaths] : n \in 0 .. 3}}
    \cup {Job("ls", <<path>>) : path \in {<<"d">>, <<"x">>, <<>>}}
    \cup {Job("paste", args) : args \in [1 .. 2 -> MCPaths]}

ASSUME WholeFiles
=============================================================================
