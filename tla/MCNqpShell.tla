---------------------------- MODULE MCNqpShell ----------------------------
EXTENDS NqpShell

Node(kind, out, ends, quits) ==
    [kind |-> kind, output |-> out, endless |-> ends, quits |-> quits]
Dir == Node("dir", 0, FALSE, FALSE)
File == Node("file", 0, FALSE, FALSE)

\* yes writes for ever, head may stop reading, many writes more than a pipe holds.
MCVolume ==
    (<<>> :> Dir) @@ (<<"bin">> :> Dir) @@ (<<"text">> :> File)
    @@ (<<"yes">> :> Node("program", 0, TRUE, FALSE))
    @@ (<<"cat">> :> Node("program", 1, FALSE, FALSE))
    @@ (<<"bin", "cat">> :> Node("script", 1, FALSE, FALSE))
    @@ (<<"head">> :> Node("program", 1, FALSE, TRUE))
    @@ (<<"many">> :> Node("program", 2, FALSE, FALSE))

Names == {"bin", "text", "yes", "cat", "head", "many", "none",
          "cd", "ls", "pwd", "clear", "..", "|", "<"}
MCPathOf == [t \in Names |-> [rooted |-> FALSE, names |-> <<t>>]]
            @@ ("/text" :> [rooted |-> TRUE, names |-> <<"text">>])

\* The built-in commands and what is not well formed, with one program; the
\* lines that are run.
MCSessions == {
    {<<"cd", "bin">>, <<"cd", "..">>, <<"cd", "none">>, <<"cd", "text">>, <<"cd">>, <<"ls">>,
     <<"pwd">>, <<"clear">>, <<>>, <<"cat", "<">>, <<"cat", "|", "|", "cat">>, <<"cat", "text">>},
    {<<"yes", "|", "head">>},
    {<<"many", "|", "cat", "/text", "<", "/text">>},
    {<<"many">>, <<"|", "none", "|", "cat", "|", "text", "|", "cat">>}}
\* The first command waits for the last one, which has more to write than is read.
LogSessions == {{<<"many", "|", "many">>}}
MCHostDirs == {[rooted |-> TRUE, names |-> <<>>]}
MCVersions == {"Turin", "Napoli"}
=============================================================================
