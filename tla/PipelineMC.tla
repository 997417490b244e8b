----------------------------- MODULE PipelineMC -----------------------------
(***************************************************************************)
(* Lines for Pipeline: the empty one, commands alone, in the background    *)
(* and in pipes, sides that are missing or refused, more words than        *)
(* MAX_ARGS, and a | or an & that an older line has left behind the words  *)
(* of a newer one.                                                         *)
(***************************************************************************)
EXTENDS Pipeline

MCLines ==
  {<<>>, <<"cat">>, <<"time", "&">>, <<"kill", "7">>, <<"cat", "|", "wc">>, <<"wc", "&", "|", "cat">>,
   <<"cat", "|">>, <<"|", "cat">>, <<"kill", "7", "|", "cat">>, <<"kill", "|", "wc">>,
   <<"cat", "|", "nice", "7", "1">>, <<"test", "mm", "x">>, <<"test", "sync", "7", "1">>}
=============================================================================
