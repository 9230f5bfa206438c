------------------------------ MODULE MCServices ------------------------------
(* The services with what TLC needs: the senders, the files, the tool calls and  *)
(* the policies of the instance.                                                 *)
EXTENDS Services, TLC

MCSender == ("m1" :> "u1") @@ ("m2" :> "u1") @@ ("m3" :> "u2")
MCFileOf == ("n1" :> "f1") @@ ("n2" :> "f1") @@ ("n3" :> "f2")
MCReadAs == ("n1" :> "n1") @@ ("n2" :> "n3") @@ ("n3" :> "n3") @@ ("unknown" :> "unknown")
MCAnswers == {<<>>, <<FALSE>>, <<TRUE, FALSE, TRUE>>}

\* A call: its tool, how bad its command is, and where it reaches.
ToolCall(tool, severity, remote, safe, outside) ==
    [tool |-> tool, severity |-> severity, system |-> FALSE, remote |-> remote,
     safe |-> safe, outside |-> outside]
MCCalls == {ToolCall("read_file", 0, FALSE, FALSE, FALSE),
            ToolCall("execute_command", 0, FALSE, TRUE, FALSE),
            ToolCall("execute_command", 9, FALSE, FALSE, FALSE),
            ToolCall("http_request", 0, TRUE, FALSE, FALSE)}
MCPolicies == {[blocked |-> {}, files |-> TRUE, shell |-> TRUE,
                categories |-> {"read", "write", "execute", "network"}],
               [blocked |-> {"execute_command"}, files |-> FALSE, shell |-> FALSE,
                categories |-> {"read", "write"}]}
=============================================================================
