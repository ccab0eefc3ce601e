------------------------------ MODULE MCStartup ------------------------------
(***************************************************************************)
(* The motion modules and what they require; configuration files with the  *)
(* first and the last module of a chain, comments, quotes and an error.    *)
(***************************************************************************)
EXTENDS Startup

MCSupported == {"opencv", "cvresize", "cvbackground", "cvmask", "cvdetect"}
MCRequires ==
  [m \in MCSupported |->
     CASE m = "opencv" -> << >>
       [] m = "cvresize" -> <<"opencv">>
       [] m = "cvbackground" -> <<"cvresize">>
       [] m = "cvmask" -> <<"cvresize", "cvbackground">>
       [] m = "cvdetect" -> <<"opencv", "cvresize", "cvmask">>]

MCDefault == <<"cvdetect">>
MCValues == {<<"none">>, <<"cvmask", ",", "opencv">>}
MCFiles ==
  {<<"motion-mods", Blank, "=", Double, "cvbackground", ",", "cvdetect", Double, "#", NewLine>>,
   <<"motion-mods", NewLine, "motion-mods", "=", "cvmask">>,
   <<"motion-mods", "=", "opencv", NewLine, "motion-mods", "=", "cvresize", ",", "cvmask">>}

\* Any daemon is like any other.
Alike == Permutations(Daemons)

-----------------------------------------------------------------------------
\* The parser, over all short texts.
Texts(n) == UNION {[1..k -> {"k", "=", "v", Blank, Double, "#", Escape, NewLine}] : k \in 0..n}

\* Lines are independent: a line that does not end in an error, or within quotes, and a text
\* after it are read one by one.
ASSUME LinesIndependent ==
  \A line \in Texts(4), text \in Texts(2) :
    LET ended == Feed(Append(line, NewLine))
    IN ended.state = "before key" =>
         Parse(line \o <<NewLine>> \o text) = ended.set \o Parse(text)

\* A value in quotes, in which quotes and backslashes are escaped, is read back, unless there
\* is a blank in it.
Quoted(v) ==
  <<Double>> \o FlattenSeq([i \in DOMAIN v |-> IF v[i] \in {Double, Escape} THEN <<Escape, v[i]>>
                                               ELSE <<v[i]>>]) \o <<Double>>
ASSUME QuotesKeepValues ==
  \A v \in Texts(4) :
    Blank \notin Range(v) => Parse(<<"k", "=">> \o Quoted(v)) = <<<<<<"k">>, v>>>>
=============================================================================
