--------------------------------- MODULE MCHvfs --------------------------------
EXTENDS Hvfs, TLC

Dir(name) == [name |-> name, dir |-> TRUE, mode |-> <<"0", "5", "0", "0">>, size |-> <<"0">>]
End == [name |-> << >>, dir |-> FALSE, mode |-> << >>, size |-> << >>]
File(name, s) == [name |-> name, dir |-> FALSE, mode |-> <<"4", "6", "0", "0">>, size |-> <<"0", s>>]

\* No archive; what tar makes of a directory; a file before its directory; two
\* entries for one path; a file below a file; a directory without its parent, and
\* with more slashes than it needs; a deeper tree; names without a component; an end before
\* the end of the data; two files before their directories; a name of slashes after a
\* name that was not read to its end.
MCArchives == {
    << >>,
    <<Dir(<<".", "/">>), Dir(<<".", "/", "a", "/">>), File(<<".", "/", "a", "/", "b">>, "2")>>,
    <<File(<<"a", "/", "b">>, "1"), Dir(<<"a", "/">>)>>,
    <<File(<<"b">>, "1"), File(<<"b">>, "2")>>,
    <<File(<<"a">>, "1"), File(<<"a", "/", "b">>, "2")>>,
    <<Dir(<<"/", "a", "/", "/", "b", "/">>), File(<<"/", "b">>, "0")>>,
    <<Dir(<<"a">>), Dir(<<"a", "/", "a">>), File(<<"a", "/", "/", "a", "/", "b">>, "1")>>,
    <<Dir(<<".">>), File(<<"b">>, "1"), File(<<"/">>, "1"), Dir(<<".", "/", "/">>)>>,
    <<Dir(<<"a">>), End, File(<<"b">>, "1")>>,
    <<File(<<"a", "/", "a", "/", "b">>, "1"), File(<<"b", "/", "a">>, "2"), Dir(<<"b">>)>>,
    <<File(<<"a", "/", "b">>, "1"), File(<<"/">>, "2")>> }

\* LONG_MAX is 4095: 7777, 4095 and fff are the largest numbers.
MCBodies == BoundedSeq({"0", "4", "5", "6", "9", "f", "x"}, 4)
            \cup {<<"7", "7", "7", "7">>, <<"1", "0", "0", "0", "0">>, <<"7", "7", "7", "7", "0">>}

MCPerms == {{}}

\* The addresses of vnodes other than the root are interchangeable.
Symmetry == Permutations(Node \ {Root})
================================================================================
