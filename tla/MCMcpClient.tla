---------------------------- MODULE MCMcpClient ----------------------------
(* Jobs of two callers, with and without a shutdown, and a piped server.   *)
EXTENDS McpClient, TLC

CONSTANTS c1, c2

MCCaller == {c1, c2}
Calls(n, m) == (c1 :> n) @@ (c2 :> m)
One == [calls |-> 1, pipelined |-> FALSE]
Pages == [calls |-> 2, pipelined |-> FALSE]
Pipelined == [calls |-> 2, pipelined |-> TRUE]
Idle == [calls |-> 0, pipelined |-> FALSE]

Load(jobs, script, shutdown) == [work |-> jobs, script |-> script, shutdown |-> shutdown]
Script == <<Line("initialize", 1, NoCall), Line("garbled", 0, NoCall), Line("initialized", 0, NoCall),
            Line("garbled", 0, NoCall), Line("call", 2, <<c1, 1>>), Line("answer", 3, NoCall)>>
NotText == <<Line("call", 1, <<c1, 1>>), Line("call", 2, <<c1, 2>>), Line("not_text", 0, NoCall),
             Line("call", 3, <<c1, 3>>)>>

MCWorkloads ==
  {Load(Calls(One, One), <<>>, FALSE), Load(Calls(One, Idle), <<>>, TRUE),
   Load(Calls(Pipelined, Idle), <<>>, FALSE), Load(Calls(Pages, Idle), <<>>, FALSE),
   Load(Calls(Idle, Idle), Script, FALSE), Load(Calls(Idle, Idle), NotText, FALSE)}

\* Enough lines to fill both pipes.
MCPipes == {Load(Calls([Pipelined EXCEPT !.calls = 3], Idle), <<>>, FALSE)}
=============================================================================
