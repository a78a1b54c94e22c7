------------------------------ MODULE MCShell ------------------------------
(***************************************************************************)
(* Lines with the paths a, b, a/b and the like.                             *)
(***************************************************************************)
EXTENDS Shell

a  == <<"a">>
b  == <<"b">>
ab == <<"a", "/", "b">>
ba == <<"b", "/", "a">>
rootb == <<"/", "b">>
up    == <<".", ".">>

Line(argv)     == [argv |-> argv, optv |-> << >>]
WithR(argv)    == [argv |-> argv, optv |-> << <<"-", "r">> >>]
One(c, paths)  == {Line(<<c, p>>) : p \in paths}

Cd(paths) == One(<<"c", "d">>, paths)
Mk == One(<<"m", "k">>, {a, ab, ba})
Mv == {Line(<< <<"m", "v">>, p[1], p[2]>>) : p \in {<<a, b>>, <<ab, b>>, <<b, ab>>}}
Rm == One(<<"r", "m">>, {a, ab}) \cup {WithR(<< <<"r", "m">>, p>>) : p \in {a, b}}
Cp == {Line(<< <<"c", "p">>, p[1], p[2]>>) : p \in {<<a, b>>, <<b, ab>>}} \cup {WithR(<< <<"c", "p">>, a, b>>)}
Text == {Line(<< <<"t">>, <<">">>, p>>) : p \in {a, ba}} \cup {Line(<< <<"u">>, <<">", ">">>, ab>>)}
Odd  == {Line(<< >>), WithR(<< >>), Line(<<a>>), Line(<< <<"l", "s">> >>), Line(<< <<"l", "s">>, a, b>>),
         WithR(<< <<"l", "s">> >>), Line(<< <<"p", "w", "d">> >>), Line(<< <<"m", "v">>, a>>),
         Line(<< <<"c", "a", "t">>, a, b>>), Line(<< <<"p", "t">> >>), Line(<< <<"f", "l">> >>)}
More == One(<<"c", "a", "t">>, {a, b}) \cup One(<<"t", "o">>, {a, ab}) \cup Odd

AllLines == Cd({a, up, rootb}) \cup {Line(<< <<"c", "d">> >>)} \cup Mk \cup Mv \cup Rm \cup Cp \cup Text \cup More

\* Paths, and lines with options.
PathChars == {"/", ".", "a"}
LineChars == {" ", "-", "a"}
Both == {PathChars, LineChars}
=============================================================================
