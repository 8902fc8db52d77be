------------------------------ MODULE MCPipeline ----------------------------
(* The programs that TLC runs through Pipeline.                              *)
EXTENDS Pipeline
S == INSTANCE Samples
MCPrograms == S!Samples \o S!Crossings(S!Pairs) \o S!Crossings(S!Triples)
MCUnrun == S!Others

\* A generator raises inside a try statement.
MCCrashing == <<S!RaisingGenerator>>
MCNone == <<>>
=============================================================================
