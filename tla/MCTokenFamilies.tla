-------------------------- MODULE MCTokenFamilies --------------------------
EXTENDS TokenFamilies, TLC

CONSTANTS Console, Center, Mcp, C1, C2

\* One code for a first-party client, one for the MCP client.
MCCodeClient == C1 :> Console @@ C2 :> Mcp

Symmetric == Permutations(Families) \cup Permutations(Procs)
=============================================================================
