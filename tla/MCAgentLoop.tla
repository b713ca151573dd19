---------------------------- MODULE MCAgentLoop ----------------------------
(***************************************************************************)
(* AgentLoop for TLC, and the mapping under which it implements            *)
(* MessageLanes: a message waits in one of the queues, or in the hands of  *)
(* the loop.                                                               *)
(***************************************************************************)
EXTENDS AgentLoop

InLine == Elems(prompts) \cup Elems(pending) \cup Elems(steeringQueue) \cup Elems(followUpQueue)

Promise == INSTANCE MessageLanes WITH waiting <- InLine

(* Through every poll, batch, throw and restart, the agent's two queues    *)
(* and its loop keep the promise of MessageLanes (agent.ts, agent-loop.ts).*)
KeepsPromise == Promise!Spec
=============================================================================
