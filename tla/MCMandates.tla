------------------------------ MODULE MCMandates ------------------------------
(***************************************************************************)
(* Small instances of Mandates: a lead agent that may delegate to a helper,*)
(* and a helper that may delegate back, over four actions.                 *)
(***************************************************************************)
EXTENDS Mandates

CONSTANTS lead, helper, read, pay, share, wipe, invoice, k1, k2

MCAgents == {lead, helper}
MCCapabilities == [a \in MCAgents |-> {read, pay}]
MCPassportExpiry == [a \in MCAgents |-> IF a = lead THEN 3 ELSE 2]

Grant(agent, actions, gated, prohibited, limit, delegates, expiresAt) ==
    [agent |-> agent, resources |-> {invoice}, actions |-> actions, gated |-> gated,
     prohibited |-> prohibited, limit |-> limit, delegable |-> delegates # {},
     delegates |-> delegates, maxDepth |-> 2, expiresAt |-> expiresAt]

RootGrant == Grant(lead, {read, pay}, {pay}, {wipe}, 1, {lead, helper}, 2)
\* accepted as a child, with no limit of its own and a gate on an action that
\* the root does not list
ChildGrant == Grant(helper, {read, pay}, {pay, share}, {wipe}, NoLimit, {lead}, 1)
\* refused as a child: lists an action that the root gates, without the gate
WideGrant == Grant(helper, {read, pay}, {}, {wipe}, 1, {lead}, 2)

MCGrants == {RootGrant, ChildGrant, WideGrant}

Ask(key, agent, mandate, action, amount) ==
    [key |-> key, agent |-> agent, mandate |-> mandate, action |-> action,
     resource |-> invoice, amount |-> amount]

ReportTypes == {"POLICY_DECIDED", "HUMAN_RESOLVED", "MANDATE_REVOKED"}
MCRequests == {Ask(k1, lead, 1, read, 1), Ask(k1, lead, 1, pay, 1), Ask(k2, helper, 2, share, 2)}
==============================================================================
