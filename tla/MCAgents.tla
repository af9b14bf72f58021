------------------------------- MODULE MCAgents -------------------------------
(***************************************************************************)
(* The agent processes and the tokens of the profiles, checked in one run: *)
(* they share no state, `part` says which of them moves, and the other     *)
(* stays where it begins.                                                  *)
(***************************************************************************)
EXTENDS AgentLifecycle, ProfileTokens

VARIABLE part

agentVars  == vars
agentsVars == <<agentVars, tokensVars, part>>

AgentsInit ==
  /\ part \in {"agents", "tokens"}
  /\ Init
  /\ TokensInit /\ active = "p" /\ stored["p"] # NoToken
  /\ part # "tokens" => stored["q"] # NoToken /\ norefresh = {}

AgentsNext ==
  /\ \/ part = "agents" /\ Next /\ UNCHANGED tokensVars
     \/ part = "tokens" /\ TokensNext /\ UNCHANGED agentVars
  /\ UNCHANGED part

AgentsSpec ==
  /\ AgentsInit /\ [][AgentsNext]_agentsVars
  /\ Fairness
  /\ \A c \in Calls : WF_tokensVars(part = "tokens" /\ CallStep(c))
  /\ SF_tokensVars(part = "tokens" /\ \E c \in Calls : StartCheck(c))

==============================================================================
