------------------------------- MODULE MCLibrary -------------------------------
(***************************************************************************)
(* Instances of Library for TLC: directories that do not contain each      *)
(* other, and the defaults of the program.                                 *)
(***************************************************************************)
EXTENDS Library

Engine(library, target) == [library |-> library, target |-> target]
File(dir, stem, ext) == [dir |-> dir, stem |-> stem, ext |-> ext]

\* One engine, library = target, two of them, two that feed each other.
SeparateRoots == {{Engine(<<"a">>, <<"t">>)},
                  {Engine(<<"a">>, <<"a">>)},
                  {Engine(<<"a">>, <<"t">>), Engine(<<"b">>, <<"t", "b">>)},
                  {Engine(<<"a">>, <<"b">>), Engine(<<"b">>, <<"a">>)}}
Collection == {File(<<"a">>, "x", "avi"), File(<<"a">>, "x", "mp4"), File(<<"b">>, "x", "mov"),
               File(<<"a", "a">>, "x", "avi"), File(<<"a", "t">>, "y", "srt")}

\* main.rb:71: target iPod, library '.'
DefaultRoots == {{Engine(<<>>, <<"iPod">>)}}
OneVideo == {File(<<>>, "x", "avi")}

Allowed == {"avi", "mov", "mp4", "wmv"}
===============================================================================
