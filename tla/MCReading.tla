------------------------------ MODULE MCReading ------------------------------
(* What gdb says, as the session reads it: its lines, and its paths.        *)
EXTENDS MIText, SourcePaths

-----------------------------------------------------------------------------
(* Lines, spelled.                                                         *)

Alphabet ==
    " !\"#$%&'()*+,-./0123456789:;<=>?@ABCDEFGHIJKLMNOPQRSTUVWXYZ[\\]^_\tabcdefghijklmnopqrstuvwxyz{|}~"
Code(c) == 31 + CHOOSE i \in 1..Len(Alphabet) : SubSeq(Alphabet, i, i) = c
Bytes(str) == [i \in 1..Len(str) |-> Code(SubSeq(str, i, i))]

MCLines ==
    {Bytes(s) : s \in {
        "7^done,bkpt={number=\"2\",at=\"<f+4>\"},x={}",
        "12^error,msg=\"No \\\"x\\\" in \\\\n\\t\"",
        "*stopped,frame={args=[{name=\"a\"},{name=\"b\",value=\"\\303\\251\\001\"}],fullname=\"/s\"}",
        "=thread-group-exited,id=\"i1\"",
        "^done,l=[\"\",\"q\\7\\0018\",frame={},[]]",
        "~\"at \\033[1m\\x41\\e\\q\\\"\"",
        "&\"\\\\\\\\\"",
        "@\"\\377\\376x\\303\"",
        "007^running,\"y\"",
        "(gdb) ",
        "total=3 argc=1",
        "1234^done",
        "^done,a=\"1\"x",
        "+download,{section=\".text\"}"}}
    \* A character and its pieces, raw.
    \cup {Bytes("~\"") \o <<195, 169, 1, 50, 127, 128, 129>> \o Bytes("\"") \o <<13, 10>>}

\* A quote, a comma, a digit, a backslash, a brace, a newline, a control byte,
\* half a character.
MCNoise == {34, 44, 49, 92, 125, 10, 1, 195}

-----------------------------------------------------------------------------
(* A project with two files of one name, and a program built in /build.     *)

MCRoot == <<"", "p">>
MCFiles == {<<"src", "u">>, <<"lib", "u">>, <<"lib", "o">>, <<"m">>}
Build(path) == <<"", "build">> \o path
\* Some are not clean: /build/x/../m, \build\u and ./z/./u.
MCStacks ==
    {<<Build(<<"u">>), Build(<<"x", "..", "m">>)>>,
     <<Build(<<"src", "u">>), Build(<<"src", "o">>)>>,
     <<<<"\\", "", "build", "u">>, <<".", "z", ".", "u">>>>}
MCRewrites == {[from |-> Build(<<>>), to |-> <<"", "p", "lib">>]}
MCDirs == {<<"", "p", "lib">>}

-----------------------------------------------------------------------------
(* Either of the two is read.                                              *)

ReadInit ==
    \/ TextInit /\ PathInit
    \/ whole = <<>> /\ line = <<>> /\ how = "none" /\ PathInit

ReadNext ==
    \/ TextNext /\ UNCHANGED pathVars
    \/ how = "none" /\ PathNext /\ UNCHANGED textVars

ReadSpec == ReadInit /\ [][ReadNext]_<<textVars, pathVars>>
=============================================================================
