----------------------------- MODULE MCServices -----------------------------
(* The services around the cores, checked side by side: none of them       *)
(* shares state with another, so each behaviour picks one and leaves the   *)
(* others as they start.  Of a service whose operations fall into groups   *)
(* that touch no common variable a behaviour picks one group.              *)
EXTENDS ValidationStream, StreamingChecker, InputManager, LspServer, WorkspaceIndex,
        SharedUniverse, Servers, IpcBridge, Metrics

CONSTANTS t1, t2, x, y, p1, p2

VARIABLE part

MCVerdict == [e \in {x, y} |-> IF e = x THEN "Valid" ELSE "Partial"]
MCBatches == {<<[id |-> 1, expr |-> x]>>, <<[id |-> 1, expr |-> y]>>,
              <<[id |-> 2, expr |-> x], [id |-> 1, expr |-> y]>>}
MCSourceTexts == {{x}, {x, y}}
MCAsked == {<<1, 2>>, <<2, 1>>}
MCTypes == {[id |-> 1, fingerprint |-> p1, interface |-> FALSE],
            [id |-> 2, fingerprint |-> p2, interface |-> TRUE]}

state == <<streamVars, checkVars, inputVars, lspVars, indexVars, sharedVars, serverVars,
           bridgeVars, metricVars>>

Still(service, active, vars) == IF service = active THEN TRUE ELSE UNCHANGED vars

Only(active) ==
    /\ UNCHANGED part
    /\ Still("stream", active, streamVars)
    /\ Still("checker", active, checkVars)
    /\ Still("inputs", active, inputVars)
    /\ Still("lsp", active, lspVars)
    /\ Still("index", active, indexVars)
    /\ Still("universe", active, sharedVars)
    /\ Still("servers", active, serverVars)
    /\ Still("bridge", active, bridgeVars)
    /\ Still("metrics", active, metricVars)

ServicesInit ==
    /\ StreamInit /\ CheckInit /\ InputInit /\ LspInit /\ IndexInit /\ SharedInit
    /\ ServerInit /\ BridgeInit /\ MetricsInit
    /\ part \in {"stream", "checker", "inputs", "lsp", "index", "answers", "scopes", "imports",
                 "servers", "bridge", "counters", "gauges"}

ServicesNext ==
    \/ part = "stream" /\ StreamNext /\ Only("stream")
    \/ part = "checker" /\ CheckNext /\ Only("checker")
    \/ part = "inputs" /\ InputNext /\ Only("inputs")
    \/ part = "lsp" /\ LspNext /\ Only("lsp")
    \/ part = "index" /\ IndexNext /\ Only("index")
    \/ part = "answers" /\ (TransactionNext \/ AnswerNext) /\ Only("universe")
    \/ part = "scopes" /\ ScopeNext /\ Only("universe")
    \/ part = "imports" /\ ImportNext /\ Only("universe")
    \/ part = "servers" /\ ServerNext /\ Only("servers")
    \/ part = "bridge" /\ BridgeNext /\ Only("bridge")
    \/ part = "counters" /\ (CountersNext \/ WholeNext) /\ Only("metrics")
    \/ part = "gauges" /\ (GaugesNext \/ WholeNext) /\ Only("metrics")

ServicesSpec ==
    /\ ServicesInit
    /\ [][ServicesNext]_<<part, state>>
    /\ part = "stream" => StreamFairness

\* Each service's variables keep their types.
ServicesTypeOK ==
    /\ StreamTypeOK /\ CheckTypeOK /\ InputTypeOK /\ LspTypeOK /\ IndexTypeOK
    /\ SharedTypeOK /\ ServerTypeOK /\ BridgeTypeOK /\ MetricsTypeOK
=============================================================================
