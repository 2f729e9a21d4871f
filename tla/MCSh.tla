-------------------------------- MODULE MCSh --------------------------------
(* The instance of Sh for TLC: every line of up to MaxTokens tokens, and    *)
(* longer ones that combine pipes, blocks, redirections and background.     *)
EXTENDS Sh

CONSTANTS Tokens, MaxTokens

MCScenarios ==
  {<<s>> : s \in UNION {[1..n -> Tokens] : n \in 0..MaxTokens}} \cup
  {<<s>> : s \in {
    <<"a", "|", "b", "|", "c">>,
    <<"(", "a", ";", "b", ")", "|", "c">>,
    <<"a", "<", "f", "|", "b", ">", "g", ">>", "h">>,
    <<"a", "|", "(", "b", ";", "c", ")", "<", "f">>,
    <<"(", "(", "a", "&", "&", ")", ">", "f", ")", ";">>,
    <<"a", "b", "c">>, <<"<", "f", "a", "<", "g", "b">>, <<"a", "|", "b", "&", "c">>, <<"(", "a", "|", "b">>}} \cup
  { << <<"a", "|", "b", "&">>, <<"c", ";", "a">> >>,
    << <<"(", "a", "&", ";", "b", ")", "|", "c", "&">>, <<"eof">>, <<"cd", "f">>, <<"a">> >> }
=============================================================================
