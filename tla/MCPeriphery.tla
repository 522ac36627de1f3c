----------------------------- MODULE MCPeriphery ----------------------------
EXTENDS Periphery

\* What the objects of a stream say.
Ev(says, block, type) == [says |-> says, block |-> block, type |-> type]
MCSays ==
    "begin" :> Ev("begin", 0, "input") @@ "facts" :> Ev("facts", 0, "output") @@ "end" :> Ev("end", 0, "end") @@
    "start0" :> Ev("start", 0, "thinking") @@ "more0" :> Ev("delta", 0, "thinking") @@ "stop0" :> Ev("stop", 0, "thinking") @@
    "more1" :> Ev("delta", 1, "text") @@
    "start1" :> Ev("start", 1, "tool_use") @@ "call1" :> Ev("delta", 1, "tool_use") @@ "stop1" :> Ev("stop", 1, "tool_use") @@
    "call2" :> Ev("delta", 2, "tool_use") @@ "call3" :> Ev("delta", 3, "tool_use")
MCReplies == {
    [provider |-> "anthropic", format |-> "named", objects |->
       <<<<"begin">>, <<"start0">>, <<"more0", "a">>, <<"stop0">>, <<"start1">>, <<"call1", "b">>, <<"call1", "c">>, <<"stop1">>, <<"facts">>, <<"end">>>>],
    [provider |-> "openai", format |-> "events", objects |->
       <<<<"more0", "a">>, <<"more1", "b">>, <<"call2", "c">>, <<"call3", "d">>, <<"call2", "e">>, <<"facts">>>>],
    [provider |-> "gemini", format |-> "crlf", objects |->
       <<<<"more0", "a">>, <<"more1", "b">>, <<"more1", "c">>, <<"call2", "d">>, <<"facts">>>>],
    [provider |-> "gemini", format |-> "array", objects |->
       <<<<"more0", "a">>, <<"more1", "b">>, <<"more1", "c">>, <<"call2", "d">>, <<"facts">>>>]}
MCPieces == {"a", "b", "c", "d", "e"}
MCFrames == {<<<<1, 2>>, <<>>, <<3>>>>, <<<<1>>, <<1, 2, 3, 4>>, <<2>>>>}

\* A port number at two addresses, which an agent and the shell it was started from share.
MCLocal == [ip |-> "localhost", port |-> 1]
MCLan == [ip |-> "lan", port |-> 1]
MCPeers == {MCLocal, MCLan}
MCKinds == 1 :> "proxy" @@ 2 :> "generic" @@ 3 :> "claude-code" @@ 4 :> "aider"
MCClients ==
    {[peer |-> MCLocal, users |-> S] : S \in {{2}, {3}, {2, 3}}} \cup
    {[peer |-> MCLan, users |-> {4}]}

\* Fewer envelopes when two subscribers look on.
MCEnvelopes ==
    [a \in SUBSET {"tui", "web"} |-> IF a = {} THEN 0 ELSE IF Cardinality(a) = 1 THEN 3 ELSE 2]
=============================================================================
