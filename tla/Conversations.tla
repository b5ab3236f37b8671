---------------------------- MODULE Conversations ----------------------------
(***************************************************************************)
(* Conversations between a customer or employee, an external agent that    *)
(* acts for them, and the people who take over:                            *)
(*   packages/db/src/tennis/external-agent.ts, gateway.ts,                 *)
(*   gateway-guard.ts and agent-guard.ts.                                  *)
(*                                                                         *)
(* A message is dispatched to the agent once, under a delegation that lets *)
(* it call the business API for 15 minutes.  Messages of the web are sent  *)
(* by PMS, which waits for the answer; messages of a gateway are fetched   *)
(* and completed by an outside component.  Every change of mode starts a   *)
(* new generation of the conversation; so does the platform when it        *)
(* suspends the tenant (auth.ts).                                          *)
(*                                                                         *)
(* Transactions hold the tenant's lock and are one action each; between    *)
(* those of one send, and between resolving a delegation and the business  *)
(* transaction it is for, everything else may happen.                      *)
(***************************************************************************)
EXTENDS Integers, FiniteSets

CONSTANTS
  Conversations,
  WebMessages,      \* messages sent through sendAssistantMessage
  GatewayMessages,  \* messages received through a gateway integration
  In,               \* the conversation of each message
  Senders,          \* concurrent invocations of sendAssistantMessage
  MaxGeneration,    \* bound: changes of mode and suspensions of a conversation
  MaxRevision,      \* bound: changes of the integration
  MaxCommands,      \* bound: business commands of one request
  Nil               \* a row that does not exist, an idle invocation

VARIABLES
  serving,          \* tennis.tenants.active
  mode, generation, \* tennis.agent_conversations
  role,             \* tennis.agent_messages: by whom a message was stored
  dispatches,       \* tennis.agent_message_dispatches
  delegations,      \* tennis.agent_delegations, by request
  replies,          \* messages with a reply:<message> of the assistant
  sends,            \* what each invocation is doing
  calls,            \* how often PMS called the agent for a message
  integration,      \* tennis.gateway_integrations
  bindings,         \* gateway_bindings of the conversations
  inbox,            \* tennis.gateway_messages
  acting,           \* delegations resolved by a business call under way
  commands          \* business commands committed for each request

conversation == <<mode, generation, role, replies>>
requests     == <<dispatches, delegations>>
gateway      == <<integration, bindings, inbox>>
business     == <<acting, commands>>
vars == <<serving, conversation, requests, sends, calls, gateway, business>>

Messages == WebMessages \cup GatewayMessages

ASSUME ConversationAssumption ==
  /\ WebMessages \cap GatewayMessages = {}
  /\ In \in [Messages -> Conversations]
  /\ MaxGeneration \in Nat /\ MaxRevision \in Nat /\ MaxCommands \in Nat
  /\ Nil \notin Messages

Generations == 1 .. MaxGeneration + 1

Dispatch == [generation: Generations, status: {"IN_FLIGHT", "SUCCEEDED", "UNCERTAIN"}]

\* A delegation is the token of one request, which is its message.
Delegation == [request: Messages, generation: Generations, bound: BOOLEAN, expired: BOOLEAN]

Send == [message: WebMessages, step: {"issue", "resolve", "call", "reply", "fail", "close"},
         generation: Generations \cup {0}]

Integration == [active: BOOLEAN, paused: BOOLEAN, expired: BOOLEAN, revision: 1 .. MaxRevision + 1]

\* completion_hash stands for the outcome it hashes.
InboxRow == [generation: Generations, token: BOOLEAN, snapshot: BOOLEAN,
             completion: {"SUCCEEDED", "UNCERTAIN", Nil}]

ASSUME RowsAssumption ==
  /\ Nil \notin Dispatch /\ Nil \notin Send /\ Nil \notin InboxRow
  /\ Nil \notin {"user", "staff", "SUCCEEDED", "UNCERTAIN"}
-----------------------------------------------------------------------------
(***************************************************************************)
(* A person takes over, or gives back; the platform suspends the tenant,   *)
(* or restores it.  Neither an employee nor a customer of a suspended      *)
(* tenant is authorised (access.ts:63, customers.ts:180).                  *)
(***************************************************************************)
\* A conversation of the gateway begins with its first message, which leaves its
\* row of gateway_conversations; the others are there from the start.
Bound(c) == \E m \in GatewayMessages : In[m] = c /\ inbox[m] # Nil
Exists(c) == (\E m \in GatewayMessages : In[m] = c) => Bound(c)

HandoffConversation(c, to) ==
  /\ serving /\ Exists(c) /\ generation[c] <= MaxGeneration
  /\ mode' = [mode EXCEPT ![c] = to]
  /\ generation' = [generation EXCEPT ![c] = @ + 1]
  /\ delegations' = {d \in delegations : In[d.request] # c}
  /\ UNCHANGED <<serving, role, replies, dispatches, sends, calls, gateway, business>>

\* setPlatformTenantStatus: the mode stays, whatever the agent left without a result.
SuspendTenant ==
  /\ serving
  /\ \A c \in Conversations : Exists(c) => generation[c] <= MaxGeneration
  /\ serving' = FALSE
  /\ delegations' = {}
  /\ generation' = [c \in Conversations |-> IF Exists(c) THEN generation[c] + 1 ELSE generation[c]]
  /\ UNCHANGED <<mode, role, replies, dispatches, sends, calls, gateway, business>>

RestoreTenant ==
  /\ ~serving /\ serving' = TRUE
  /\ UNCHANGED <<conversation, requests, sends, calls, gateway, business>>
-----------------------------------------------------------------------------
(***************************************************************************)
(* Delegations.                                                            *)
(***************************************************************************)
\* The dispatches that leave the current generation of c without a known result.
Unresolved(c) ==
  {m \in Messages : /\ In[m] = c /\ dispatches[m] # Nil
                    /\ dispatches[m].generation = generation[c]
                    /\ dispatches[m].status # "SUCCEEDED"}

\* A message is dispatched once, and not beside another one.
Fault_NonePending(m) == dispatches[m] = Nil /\ \A n \in Unresolved(In[m]) : dispatches[n].status # "IN_FLIGHT"
NonePending(m) == dispatches[m] = Nil /\ Unresolved(In[m]) = {}

\* issueDelegationInTransaction; a gateway adds its binding before the commit.
IssueDelegation(m, bound) ==
  LET c == In[m] IN
  /\ serving /\ mode[c] = "AGENT" /\ role[m] = "user"
  /\ NonePending(m)
  /\ dispatches' = [dispatches EXCEPT ![m] = [generation |-> generation[c], status |-> "IN_FLIGHT"]]
  /\ delegations' = delegations \cup
       {[request |-> m, generation |-> generation[c], bound |-> bound, expired |-> FALSE]}

\* Fifteen minutes pass.
DelegationExpires(d) ==
  /\ d \in delegations /\ ~d.expired
  /\ delegations' = (delegations \ {d}) \cup {[d EXCEPT !.expired = TRUE]}
  /\ UNCHANGED <<serving, conversation, dispatches, sends, calls, gateway, business>>

\* assertBinding: a gateway's credential and the binding are in use.
Connected == serving /\ integration.active /\ ~integration.paused /\ ~integration.expired
Usable(c) == Connected /\ bindings[c] = "ACTIVE"

\* assertDelegation, in the transaction of the business command.
Fault_AssertDelegation(d) ==
  /\ d \in delegations /\ ~d.expired
  /\ mode[In[d.request]] = "AGENT" /\ generation[In[d.request]] = d.generation
AssertDelegation(d) ==
  /\ d \in delegations /\ ~d.expired
  /\ mode[In[d.request]] = "AGENT" /\ generation[In[d.request]] = d.generation
  /\ d.bound => Usable(In[d.request])

\* The agent calls the business API: the token is resolved, with a transaction of
\* its own, before the command's transaction.
ResolveDelegation(d) ==
  /\ d \notin acting
  /\ AssertDelegation(d)
  /\ acting' = acting \cup {d}
  /\ UNCHANGED <<serving, conversation, requests, sends, calls, gateway, commands>>

CommitCommand(d) ==
  LET m == d.request IN
  /\ d \in acting /\ AssertDelegation(d)
  /\ commands[m] < MaxCommands
  /\ commands' = [commands EXCEPT ![m] = @ + 1]
  /\ acting' = acting \ {d}
  /\ UNCHANGED <<serving, conversation, requests, sends, calls, gateway>>

\* The command is refused, or given up.
EndCommand(d) ==
  /\ d \in acting
  /\ acting' = acting \ {d}
  /\ UNCHANGED <<serving, conversation, requests, sends, calls, gateway, commands>>
-----------------------------------------------------------------------------
(***************************************************************************)
(* sendAssistantMessage.                                                   *)
(***************************************************************************)
Step(s, step) == sends' = [sends EXCEPT ![s].step = step]
Idle(s) == sends' = [sends EXCEPT ![s] = Nil]

\* The message is stored, or found when it is sent again; what an employee writes
\* after taking over is not for the agent.
StoreMessage(s, m, by) ==
  /\ serving /\ sends[s] = Nil /\ Exists(In[m])
  /\ by = "staff" => mode[In[m]] = "HUMAN"
  /\ role' = [role EXCEPT ![m] = IF @ = Nil THEN by ELSE @]
  /\ sends' = IF mode[In[m]] = "HUMAN" \/ m \in replies THEN sends
              ELSE [sends EXCEPT ![s] = [message |-> m, step |-> "issue", generation |-> 0]]
  /\ UNCHANGED <<serving, mode, generation, replies, requests, calls, gateway, business>>

IssueForSend(s) ==
  /\ sends[s] # Nil /\ sends[s].step = "issue"
  /\ \/ /\ IssueDelegation(sends[s].message, FALSE)
        /\ sends' = [sends EXCEPT ![s].step = "resolve",
                                  ![s].generation = generation[In[sends[s].message]]]
     \/ /\ \/ ~serving \/ mode[In[sends[s].message]] = "HUMAN"
           \/ role[sends[s].message] # "user"
           \/ ~NonePending(sends[s].message)
        /\ Idle(s)
        /\ UNCHANGED requests
  /\ UNCHANGED <<serving, conversation, calls, gateway, business>>

\* The token of send s.
Token(s) == {d \in delegations : d.request = sends[s].message}

RecheckBeforeDispatch(s) ==
  /\ sends[s] # Nil /\ sends[s].step = "resolve"
  /\ Step(s, IF \E d \in Token(s) : AssertDelegation(d) THEN "call" ELSE "fail")
  /\ UNCHANGED <<serving, conversation, requests, calls, gateway, business>>

CallAgent(s) ==
  /\ sends[s] # Nil /\ sends[s].step = "call"
  /\ calls' = [calls EXCEPT ![sends[s].message] = @ + 1]
  /\ Step(s, "reply")
  /\ UNCHANGED <<serving, conversation, requests, gateway, business>>

\* No usable answer within 30 seconds.
AgentFails(s) ==
  /\ sends[s] # Nil /\ sends[s].step = "reply"
  /\ Step(s, "fail")
  /\ UNCHANGED <<serving, conversation, requests, calls, gateway, business>>

StoreReply(s) ==
  LET m == sends[s].message
      c == In[m] IN
  /\ sends[s] # Nil /\ sends[s].step = "reply"
  /\ IF serving /\ mode[c] = "AGENT" /\ generation[c] = sends[s].generation
     THEN /\ replies' = replies \cup {m}
          /\ dispatches' = [dispatches EXCEPT ![m].status = "SUCCEEDED"]
          /\ Step(s, "close")
     ELSE /\ Step(s, "fail")
          /\ UNCHANGED <<replies, dispatches>>
  /\ UNCHANGED <<serving, mode, generation, role, delegations, calls, gateway, business>>

MarkUncertain(s) ==
  /\ sends[s] # Nil /\ sends[s].step = "fail"
  /\ dispatches' = [dispatches EXCEPT ![sends[s].message].status = "UNCERTAIN"]
  /\ Step(s, "close")
  /\ UNCHANGED <<serving, conversation, delegations, calls, gateway, business>>

DeleteDelegation(s) ==
  /\ sends[s] # Nil /\ sends[s].step = "close"
  /\ delegations' = delegations \ Token(s)
  /\ Idle(s)
  /\ UNCHANGED <<serving, conversation, dispatches, calls, gateway, business>>

\* The process stops between two steps.
Crash(s) ==
  /\ sends[s] # Nil
  /\ Idle(s)
  /\ UNCHANGED <<serving, conversation, requests, calls, gateway, business>>
-----------------------------------------------------------------------------
(***************************************************************************)
(* The gateway.  Each of its calls begins by asserting its credential and  *)
(* binding; one that fails changes nothing.                                *)
(***************************************************************************)
CreateGatewayBinding(c) ==
  /\ Connected /\ bindings[c] = Nil
  /\ bindings' = [bindings EXCEPT ![c] = "ACTIVE"]
  /\ UNCHANGED <<serving, conversation, requests, sends, calls, integration, inbox, business>>

\* The delegations stay: a new binding would have conversations of its own.
RevokeGatewayBinding(c) ==
  /\ serving /\ bindings[c] = "ACTIVE"
  /\ bindings' = [bindings EXCEPT ![c] = "REVOKED"]
  /\ UNCHANGED <<serving, conversation, requests, sends, calls, integration, inbox, business>>

\* The same external message again finds the row that is there.
ReceiveGatewayMessage(m) ==
  /\ Usable(In[m]) /\ inbox[m] = Nil
  /\ role' = [role EXCEPT ![m] = "user"]
  /\ inbox' = [inbox EXCEPT ![m] =
                 [generation |-> generation[In[m]], token |-> FALSE, snapshot |-> FALSE,
                  completion |-> Nil]]
  /\ UNCHANGED <<serving, mode, generation, replies, requests, sends, calls, integration, bindings, business>>

\* A grant that was given is given again as it is, and changes nothing.
GrantGatewayMessage(m) ==
  /\ Usable(In[m]) /\ inbox[m] # Nil
  /\ mode[In[m]] = "AGENT" /\ inbox[m].generation = generation[In[m]]
  /\ ~inbox[m].snapshot
  /\ IssueDelegation(m, TRUE)
  /\ inbox' = [inbox EXCEPT ![m].token = TRUE, ![m].snapshot = TRUE]
  /\ UNCHANGED <<serving, conversation, sends, calls, integration, bindings, business>>

\* A completion that was accepted is only answered again.
CompleteGatewayMessage(m, status) ==
  /\ Usable(In[m]) /\ inbox[m] # Nil
  /\ inbox[m].completion = Nil /\ inbox[m].token
  /\ status = "SUCCEEDED" =>
       mode[In[m]] = "AGENT" /\ generation[In[m]] = inbox[m].generation
  /\ replies' = IF status = "SUCCEEDED" THEN replies \cup {m} ELSE replies
  /\ dispatches' = [dispatches EXCEPT ![m].status = status]
  /\ delegations' = {d \in delegations : d.request # m}
  /\ inbox' = [inbox EXCEPT ![m].completion = status]
  /\ UNCHANGED <<serving, mode, generation, role, sends, calls, integration, bindings, business>>

\* invalidateIntegrationGrants: the conversations of the integration start anew, in
\* the hands of a person if a request has no known result.
Fault_ModeAfter(c) ==
  IF \E m \in Unresolved(c) : dispatches[m].status = "IN_FLIGHT" THEN "HUMAN" ELSE mode[c]
ModeAfter(c) == IF Unresolved(c) # {} THEN "HUMAN" ELSE mode[c]

InvalidateIntegrationGrants ==
  /\ \A c \in Conversations : Bound(c) => generation[c] <= MaxGeneration
  /\ delegations' = {d \in delegations : ~Bound(In[d.request])}
  /\ inbox' = [m \in GatewayMessages |->
                 IF inbox[m] = Nil THEN Nil
                 ELSE [inbox[m] EXCEPT !.token = FALSE, !.snapshot = FALSE]]
  /\ generation' = [c \in Conversations |-> IF Bound(c) THEN generation[c] + 1 ELSE generation[c]]
  /\ mode' = [c \in Conversations |-> IF Bound(c) THEN ModeAfter(c) ELSE mode[c]]
  /\ dispatches' = [m \in Messages |->
                      IF m \in GatewayMessages /\ inbox[m] # Nil /\ dispatches[m] # Nil
                           /\ dispatches[m].status = "IN_FLIGHT"
                      THEN [dispatches[m] EXCEPT !.status = "UNCERTAIN"]
                      ELSE dispatches[m]]

\* updateTenantGatewayIntegration
UpdateIntegration(action) ==
  /\ serving /\ integration.active /\ integration.revision <= MaxRevision
  /\ action = "pause" => ~integration.paused
  /\ action = "resume" => integration.paused /\ ~integration.expired
  /\ integration' = [integration EXCEPT
       !.paused = IF action = "pause" THEN TRUE ELSE IF action = "resume" THEN FALSE ELSE @,
       !.expired = IF action = "rotate" THEN FALSE ELSE @,
       !.active = action # "revoke",
       !.revision = @ + 1]
  /\ InvalidateIntegrationGrants
  /\ UNCHANGED <<serving, role, replies, sends, calls, bindings, business>>

\* revokeGatewayIntegration: the platform revokes it, even again.
RevokeGatewayIntegration ==
  /\ integration.revision <= MaxRevision
  /\ integration' = [integration EXCEPT !.active = FALSE, !.revision = @ + 1]
  /\ InvalidateIntegrationGrants
  /\ UNCHANGED <<serving, role, replies, sends, calls, bindings, business>>

\* The credential's last day passes; nothing else changes.
IntegrationExpires ==
  /\ ~integration.expired
  /\ integration' = [integration EXCEPT !.expired = TRUE]
  /\ UNCHANGED <<serving, conversation, requests, sends, calls, bindings, inbox, business>>
-----------------------------------------------------------------------------
Init ==
  /\ serving = TRUE
  /\ mode = [c \in Conversations |-> "AGENT"]
  /\ generation = [c \in Conversations |-> 1]
  /\ role = [m \in Messages |-> Nil]
  /\ dispatches = [m \in Messages |-> Nil]
  /\ delegations = {}
  /\ replies = {}
  /\ sends = [s \in Senders |-> Nil]
  /\ calls = [m \in Messages |-> 0]
  /\ integration = [active |-> TRUE, paused |-> FALSE, expired |-> FALSE, revision |-> 1]
  /\ bindings = [c \in Conversations |-> Nil]
  /\ inbox = [m \in GatewayMessages |-> Nil]
  /\ acting = {}
  /\ commands = [m \in Messages |-> 0]

Person == \E c \in Conversations, to \in {"AGENT", "HUMAN"} : HandoffConversation(c, to)

Platform == SuspendTenant \/ RestoreTenant

Agent ==
  \/ \E d \in delegations : DelegationExpires(d) \/ ResolveDelegation(d)
  \/ \E d \in acting : CommitCommand(d) \/ EndCommand(d)

Web ==
  \/ \E s \in Senders, m \in WebMessages, by \in {"user", "staff"} : StoreMessage(s, m, by)
  \/ \E s \in Senders :
       \/ IssueForSend(s)
       \/ RecheckBeforeDispatch(s)
       \/ CallAgent(s)
       \/ AgentFails(s)
       \/ StoreReply(s)
       \/ MarkUncertain(s)
       \/ DeleteDelegation(s)
       \/ Crash(s)

Gateway ==
  \/ \E c \in Conversations : CreateGatewayBinding(c) \/ RevokeGatewayBinding(c)
  \/ \E m \in GatewayMessages : ReceiveGatewayMessage(m) \/ GrantGatewayMessage(m)
  \/ \E m \in GatewayMessages, status \in {"SUCCEEDED", "UNCERTAIN"} :
       CompleteGatewayMessage(m, status)
  \/ \E action \in {"pause", "resume", "revoke", "rotate"} : UpdateIntegration(action)
  \/ RevokeGatewayIntegration
  \/ IntegrationExpires

Next == Person \/ Platform \/ Agent \/ Web \/ Gateway

Spec == Init /\ [][Next]_vars

\* The behaviours of Spec in which no person acts.
Unattended == Init /\ [][Platform \/ Agent \/ Web \/ Gateway]_vars
-----------------------------------------------------------------------------
(***************************************************************************)
(* Properties.                                                             *)
(***************************************************************************)
TypeOK ==
  /\ serving \in BOOLEAN
  /\ mode \in [Conversations -> {"AGENT", "HUMAN"}]
  /\ generation \in [Conversations -> Generations]
  /\ role \in [Messages -> {"user", "staff", Nil}]
  /\ dispatches \in [Messages -> Dispatch \cup {Nil}]
  /\ delegations \subseteq Delegation /\ acting \subseteq Delegation
  /\ replies \subseteq Messages
  /\ sends \in [Senders -> Send \cup {Nil}]
  /\ calls \in [Messages -> Nat]
  /\ integration \in Integration
  /\ bindings \in [Conversations -> {"ACTIVE", "REVOKED", Nil}]
  /\ inbox \in [GatewayMessages -> InboxRow \cup {Nil}]
  /\ commands \in [Messages -> 0 .. MaxCommands]

\* An agent whose result is unknown is not run again, and nothing runs beside it: a
\* generation of a conversation has at most one request without a known result,
\* PMS calls the agent once at most for a message, and a message has a reply
\* exactly if its dispatch succeeded.
OneAtATime ==
  /\ TypeOK
  /\ \A c \in Conversations : \A m, n \in Unresolved(c) : m = n
  /\ \A m \in Messages : calls[m] <= 1
  /\ replies = {m \in Messages : dispatches[m] # Nil /\ dispatches[m].status = "SUCCEEDED"}

\* docs/tennis/agent-access-management.md:15: while a request of a conversation has
\* no known result the agent goes on only after its reply, or after a person gave
\* the conversation back.  No change of the integration clears it silently; the one
\* step that does is the suspension of the tenant (auth.ts:572).
UnresolvedIsNotForgotten ==
  [][\A c \in Conversations :
       Unresolved(c) # {} /\ mode[c] = "AGENT" /\ mode'[c] = "AGENT" =>
         \/ Unresolved(c)' = Unresolved(c)
         \/ Unresolved(c) \subseteq replies'
         \/ HandoffConversation(c, "AGENT")
         \/ SuspendTenant]_vars

\* docs/tennis/implementation-status.md:208: an unknown result of the external agent
\* must be checked before it resumes.  While nobody takes a conversation over or gives
\* it back (Unattended), the agent has at most one request of it without a known
\* result, of whatever generation: none is dispatched beside one left open.
NoneBesideTheUnknown ==
  \A c \in Conversations :
    \A m, n \in {m \in Messages : In[m] = c /\ dispatches[m] # Nil} :
      dispatches[m].status # "SUCCEEDED" /\ dispatches[n].status # "SUCCEEDED" => m = n

\* docs/tennis/operator-completion.md:168: a command is committed for the agent
\* only under the request that was dispatched in the present generation, while the
\* agent has the conversation and, for a gateway, while its credential and binding
\* are in use, whatever was resolved before; nothing is committed for a message
\* once a person took over.
CommandsAreCurrent ==
  [][\A m \in Messages : commands'[m] # commands[m] =>
       /\ dispatches[m] # Nil /\ dispatches[m].generation = generation[In[m]]
       /\ mode[In[m]] = "AGENT"
       /\ m \in GatewayMessages => Usable(In[m])]_vars
=============================================================================
