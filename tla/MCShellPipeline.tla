-------------------------- MODULE MCShellPipeline --------------------------
(***************************************************************************)
(* Instances of ShellPipeline for TLC.  "few" writes a block, which a pipe *)
(* holds, and "many" two, which it does not; "none" writes nothing; "bad"  *)
(* ends with an error, and "nosuch" is not a command.                      *)
(***************************************************************************)
EXTENDS ShellPipeline

MCOutput == [few |-> 1, many |-> 2, none |-> 0, bad |-> 0]

Lines ==
  { <<>>, <<"quit">>, <<"cd", "few">>, <<"echo">>, <<"echo", "few">>, <<"few">>, <<"bad">>,
    <<"nosuch">>, <<"&", "few">>, <<"<", "few">>,
    <<"few", "&">>, <<"nosuch", "&">>, <<"many", "|", "few", "&">>,
    <<"few", "|", "few">>, <<"many", "|", "none">>, <<"none", "|", "many">>,
    <<"none", "|", "nosuch">>, <<"few", "|", "nosuch">>,
    <<"nosuch", "|", "few">>, <<"few", "|", "none", "|", "few">>,
    <<"few", "|", "few", "|", "nosuch">>,
    <<"few", "|">>, <<"few", "|", "|", "few">>, <<"few", "|", "none", "|">>,
    <<"few", "<", "f", ">", "f">>, <<"few", ">", "f", "<", "f">>,
    <<"few", "|", "few", ">", "f">>, <<"few", ">", "f", "|", "few">>,
    <<"few", "<", "f">>, <<"few", "<", "f", "|", "few">>,
    <<"few", "|", "nosuch", "<", "f">> }

\* Every line by itself; the same followed by one that is well; and failing
\* commands left in the background, followed by others.
MCScripts ==
  {<<l>> : l \in Lines} \cup {<<l, <<"few">>>> : l \in Lines} \cup
  {<<<<"nosuch", "&">>, l, m>> :
     l, m \in {<<"few">>, <<"none", "&">>, <<"nosuch", "&">>}}
=============================================================================
