----------------------------- MODULE MCAnalysis -----------------------------
(* An instance of Analysis for TLC. *)
EXTENDS Analysis

Plain1(body) == <<<<"", "", body>>>>

Skilled(rules, skill) == <<<<"", "", rules>>, <<"skill", "s", skill>>>>

\* A prompt with a skill and two tools; then the rules, the skill or a tool change, a tool
\* goes, the tools change places, or the prompt goes.
MCFirstScene ==
    [system |-> <<Skilled("rules", "skill")>>, tools |-> <<<<"read", "1">>, <<"write", "1">>>>]
MCScenes ==
    {MCFirstScene,
     [MCFirstScene EXCEPT !.system = <<Skilled("other rules", "skill")>>],
     [MCFirstScene EXCEPT !.system = <<Skilled("rules", "other skill"), Plain1("more")>>],
     [MCFirstScene EXCEPT !.tools = <<<<"read", "1">>, <<"write", "2">>>>],
     [MCFirstScene EXCEPT !.tools = <<<<"write", "1">>>>],
     [MCFirstScene EXCEPT !.tools = <<<<"write", "1">>, <<"read", "1">>>>],
     [MCFirstScene EXCEPT !.system = <<>>]}

\* Streams differ from bodies at either granularity for Anthropic.
MCModes ==
    {m \in [provider : Provider, streamed : BOOLEAN, granularity : {"step", "human"}] :
        m.streamed /\ m.granularity = "human" => m.provider = "anthropic"}

MCCallIds == <<"c1", "t1", "c2", "t2", "c3", "t3", "c4", "t4">>
=============================================================================
