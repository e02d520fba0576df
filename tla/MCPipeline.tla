----------------------------- MODULE MCPipeline -----------------------------
\* Instances of Pipeline for TLC.
EXTENDS Pipeline, TLC

CONSTANTS c1, c2, plain, personal, harm, crisis

Levelled == [t \in {plain, personal, harm, crisis} |->
               CASE t = harm -> "HARM" [] t = crisis -> "CRISIS" [] OTHER -> "none"]
Classed  == [t \in {plain, personal, harm, crisis} |-> IF t = personal THEN 2 ELSE 0]

SafetyHere == [t \in Texts |-> Levelled[t]]
ClassHere  == [t \in Texts |-> Classed[t]]

ClientSymmetry == Permutations(Clients)
===============================================================================
