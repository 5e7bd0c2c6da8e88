------------------------------ MODULE MCStdio -------------------------------
(***************************************************************************)
(* Instances of Stdio for TLC.                                             *)
(***************************************************************************)
EXTENDS Stdio, TLC

CallTool(params) == [object |-> TRUE, jsonrpc |-> TRUE, method |-> "tools/call",
                     id |-> "value", params |-> params]
Request(method) == [CallTool("notobject") EXCEPT !.method = method]

Initialize == Request("initialize")

(* Every method, and every way tools/call can be asked.                    *)
Requests == {Request(method) : method \in Methods} \cup {CallTool(p) : p \in Params}

(* Each way a message can be no request, and the odd ids.                  *)
OddMessages ==
    {[Initialize EXCEPT !.object = FALSE], [Initialize EXCEPT !.jsonrpc = FALSE],
     [Initialize EXCEPT !.id = "missing"], [Initialize EXCEPT !.id = "null"],
     [Request("none") EXCEPT !.id = "missing"],
     [Request("other") EXCEPT !.id = "missing"]}

AllMessages == Requests \cup OddMessages
FewMessages == {Initialize, Request("tools/list"), CallTool("args"), CallTool("noargs"),
                [Request("other") EXCEPT !.id = "missing"]}
=============================================================================
