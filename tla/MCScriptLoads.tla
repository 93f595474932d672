--------------------------- MODULE MCScriptLoads ---------------------------
(***************************************************************************)
(* Instances of ScriptLoads for TLC.                                       *)
(***************************************************************************)
EXTENDS ScriptLoads

CONSTANT frame

\* Every kind of parser's script, two of each fetched kind.
ParserLoad ==
    [parser |-> <<"deferred", "blocking", "inlineModule", "deferred", "inline", "blocking">>,
     inserted |-> <<>>, moves |-> 1, retires |-> 1, removals |-> 0, refusals |-> 1]

\* Inserted scripts of two documents, whose order must hold while elements
\* move between the documents and the frame goes.
InsertedLoad ==
    [parser |-> <<>>,
     inserted |-> <<[async |-> FALSE, doc |-> Main], [async |-> FALSE, doc |-> frame],
                    [async |-> FALSE, doc |-> Main], [async |-> TRUE, doc |-> Main]>>,
     moves |-> 1, retires |-> 1, removals |-> 0, refusals |-> 0]

\* The parser waits while inserted scripts load and run.
MixedLoad ==
    [parser |-> <<"blocking", "deferred">>,
     inserted |-> <<[async |-> FALSE, doc |-> frame], [async |-> FALSE, doc |-> frame]>>,
     moves |-> 0, retires |-> 1, removals |-> 1, refusals |-> 1]

MCWorkloads == {ParserLoad, InsertedLoad, MixedLoad}
=============================================================================
