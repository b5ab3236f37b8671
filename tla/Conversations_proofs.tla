-------------------------- MODULE Conversations_proofs --------------------------
(***************************************************************************)
(* Proofs about Conversations: an agent runs one request at a time, a      *)
(* request without a known result is not forgotten, and commands are       *)
(* committed only under the present one.  They hold for any number of      *)
(* conversations, messages, invocations, changes of mode, suspensions and  *)
(* revisions.                                                              *)
(*                                                                         *)
(* The inductive invariant is ConversationInv.  A step changes which       *)
(* requests of a conversation are unresolved in one of few ways            *)
(* (UnresolvedMove), from which the first two results follow.              *)
(***************************************************************************)
EXTENDS Conversations, TLAPS

Succeeded(m) == dispatches[m] # Nil /\ dispatches[m].status = "SUCCEEDED"

\* No dispatch is of a later generation than its conversation's.
GenerationsGrow ==
  \A m \in Messages : dispatches[m] # Nil => dispatches[m].generation <= generation[In[m]]

AtMostOne == \A c \in Conversations : \A m, n \in Unresolved(c) : m = n

RepliesAreSuccesses == replies = {m \in Messages : Succeeded(m)}

\* A delegation is of the dispatch of its request, and a gateway's is bound.
DelegationsFit ==
  \A d \in delegations :
    /\ dispatches[d.request] # Nil
    /\ dispatches[d.request].generation = d.generation
    /\ d.bound <=> d.request \in GatewayMessages

Issued(s) == sends[s] # Nil /\ sends[s].step # "issue"

\* An invocation that issued a dispatch has its message for itself: before the call
\* the agent was not called, and before the reply the dispatch has not succeeded.
SendsFit ==
  /\ \A s \in Senders : Issued(s) =>
       /\ dispatches[sends[s].message] # Nil
       /\ sends[s].step \in {"resolve", "call"} => calls[sends[s].message] = 0
       /\ sends[s].step # "close" => dispatches[sends[s].message].status # "SUCCEEDED"
  /\ \A r, s \in Senders : Issued(r) /\ Issued(s) /\ sends[r].message = sends[s].message => r = s

CallsFit ==
  \A m \in Messages : calls[m] <= 1 /\ (dispatches[m] = Nil => calls[m] = 0)

\* A message of a gateway is dispatched once it was received, and has succeeded only
\* once it was completed.
InboxFits ==
  \A m \in GatewayMessages :
    /\ inbox[m] = Nil => dispatches[m] = Nil
    /\ inbox[m] # Nil => /\ inbox[m].token => dispatches[m] # Nil
                         /\ inbox[m].completion = Nil => ~Succeeded(m)

ConversationInv ==
  /\ TypeOK /\ GenerationsGrow /\ AtMostOne /\ RepliesAreSuccesses
  /\ DelegationsFit /\ SendsFit /\ CallsFit /\ InboxFits

(***************************************************************************)
(* Types.                                                                  *)
(***************************************************************************)
LEMMA InvalidateType ==
  ASSUME TypeOK, InvalidateIntegrationGrants
  PROVE  /\ mode' \in [Conversations -> {"AGENT", "HUMAN"}]
         /\ generation' \in [Conversations -> Generations]
         /\ dispatches' \in [Messages -> Dispatch \cup {Nil}]
         /\ delegations' \subseteq delegations
         /\ inbox' \in [GatewayMessages -> InboxRow \cup {Nil}]
<1>1. mode' \in [Conversations -> {"AGENT", "HUMAN"}]
  BY DEF TypeOK, InvalidateIntegrationGrants, ModeAfter
<1>2. generation' \in [Conversations -> Generations]
  <2>1. ASSUME NEW c \in Conversations
        PROVE  (IF Bound(c) THEN generation[c] + 1 ELSE generation[c]) \in Generations
    <3>1. generation[c] \in 1 .. MaxGeneration + 1 /\ MaxGeneration \in Nat
      BY ConversationAssumption DEF TypeOK, Generations
    <3>2. Bound(c) => generation[c] <= MaxGeneration
      BY DEF InvalidateIntegrationGrants
    <3> QED
      BY <3>1, <3>2 DEF Generations
  <2> QED
    BY <2>1 DEF InvalidateIntegrationGrants
<1>3. dispatches' \in [Messages -> Dispatch \cup {Nil}]
  <2>1. dispatches \in [Messages -> Dispatch \cup {Nil}]
    BY DEF TypeOK
  <2>. QED BY <2>1 DEF InvalidateIntegrationGrants, Dispatch
<1>4. inbox' \in [GatewayMessages -> InboxRow \cup {Nil}]
  BY DEF TypeOK, InvalidateIntegrationGrants, InboxRow
<1> QED
  BY <1>1, <1>2, <1>3, <1>4 DEF InvalidateIntegrationGrants

LEMMA IssueType ==
  ASSUME TypeOK, NEW m \in Messages, NEW bound \in BOOLEAN, IssueDelegation(m, bound)
  PROVE  /\ dispatches' \in [Messages -> Dispatch \cup {Nil}]
         /\ delegations' \subseteq Delegation
         /\ generation[In[m]] \in Generations
<1>1. generation[In[m]] \in Generations
  BY ConversationAssumption DEF TypeOK
<1>2. dispatches' \in [Messages -> Dispatch \cup {Nil}]
  BY <1>1 DEF TypeOK, IssueDelegation, Dispatch
<1>3. [request |-> m, generation |-> generation[In[m]], bound |-> bound, expired |-> FALSE] \in Delegation
  BY <1>1 DEF Delegation
<1> QED
  BY <1>1, <1>2, <1>3 DEF TypeOK, IssueDelegation

LEMMA AgentType ==
  ASSUME TypeOK, Agent
  PROVE  TypeOK'
<1>1. ASSUME NEW d \in delegations, DelegationExpires(d)
      PROVE  TypeOK'
  <2>1. d \in Delegation
    BY DEF TypeOK
  <2>2. [d EXCEPT !.expired = TRUE] \in Delegation
    BY <2>1 DEF Delegation
  <2> QED
    BY <1>1, <2>2 DEF TypeOK, DelegationExpires, conversation, gateway, business
<1>2. ASSUME NEW d \in delegations, ResolveDelegation(d)
      PROVE  TypeOK'
  BY <1>2 DEF TypeOK, ResolveDelegation, conversation, requests, gateway
<1>3. ASSUME NEW d \in acting, CommitCommand(d)
      PROVE  TypeOK'
  <2>1. commands' \in [Messages -> 0 .. MaxCommands]
    <3>1. d.request \in Messages /\ MaxCommands \in Nat
      BY ConversationAssumption DEF TypeOK, Delegation
    <3>2. commands[d.request] + 1 \in 0 .. MaxCommands
      BY <1>3, <3>1 DEF TypeOK, CommitCommand
    <3>3. commands' = [commands EXCEPT ![d.request] = commands[d.request] + 1]
      BY <1>3 DEF CommitCommand
    <3> QED
      BY <3>1, <3>2, <3>3 DEF TypeOK
  <2> QED
    BY <1>3, <2>1 DEF TypeOK, CommitCommand, conversation, requests, gateway
<1>4. ASSUME NEW d \in acting, EndCommand(d)
      PROVE  TypeOK'
  BY <1>4 DEF TypeOK, EndCommand, conversation, requests, gateway
<1> QED
  BY <1>1, <1>2, <1>3, <1>4 DEF Agent

LEMMA WebType ==
  ASSUME TypeOK, SendsFit, Web
  PROVE  TypeOK'
<1>1. ASSUME NEW s \in Senders, NEW m \in WebMessages, NEW by \in {"user", "staff"}, StoreMessage(s, m, by)
      PROVE  TypeOK'
  <2>1. sends' \in [Senders -> Send \cup {Nil}]
    <3>1. [message |-> m, step |-> "issue", generation |-> 0] \in Send
      BY DEF Send
    <3> QED
      BY <1>1, <3>1 DEF TypeOK, StoreMessage
  <2>2. role' \in [Messages -> {"user", "staff", Nil}]
    BY <1>1 DEF TypeOK, StoreMessage
  <2> QED
    BY <1>1, <2>1, <2>2 DEF TypeOK, StoreMessage, requests, gateway, business
<1>2. ASSUME NEW s \in Senders, IssueForSend(s)
      PROVE  TypeOK'
  <2> DEFINE m == sends[s].message
  <2>1. sends[s] \in Send /\ m \in WebMessages /\ m \in Messages
    BY <1>2 DEF TypeOK, IssueForSend, Send, Messages
  <2>2. CASE UNCHANGED requests
    <3>1. sends' \in [Senders -> Send \cup {Nil}]
      <4>1. CASE Idle(s)
        BY <4>1 DEF TypeOK, Idle
      <4>2. CASE IssueDelegation(m, FALSE)
        <5>1. generation[In[m]] \in Generations
          BY <2>1, <4>2, IssueType
        <5>2. [sends[s] EXCEPT !.step = "resolve", !.generation = generation[In[m]]] \in Send
          BY <2>1, <5>1 DEF Send
        <5>3. Idle(s) \/ sends' = [sends EXCEPT ![s].step = "resolve", ![s].generation = generation[In[m]]]
          BY <1>2 DEF IssueForSend
        <5>4. sends' = [sends EXCEPT ![s].step = "resolve", ![s].generation = generation[In[m]]] =>
                sends' = [sends EXCEPT ![s] = [sends[s] EXCEPT !.step = "resolve", !.generation = generation[In[m]]]]
          BY <2>1 DEF TypeOK, Send
        <5> HIDE DEF m
        <5> QED
          BY <4>1, <5>2, <5>3, <5>4 DEF TypeOK
      <4> QED
        BY <1>2, <4>1, <4>2 DEF IssueForSend
    <3> QED
      BY <1>2, <2>2, <3>1 DEF TypeOK, IssueForSend, requests, conversation, gateway, business
  <2>3. CASE IssueDelegation(m, FALSE) /\
             sends' = [sends EXCEPT ![s].step = "resolve", ![s].generation = generation[In[m]]]
    <3>1. /\ dispatches' \in [Messages -> Dispatch \cup {Nil}]
          /\ delegations' \subseteq Delegation
          /\ generation[In[m]] \in Generations
      BY <2>1, <2>3, IssueType
    <3>2. sends' \in [Senders -> Send \cup {Nil}]
      BY <2>1, <2>3, <3>1 DEF TypeOK, Send
    <3> QED
      BY <1>2, <3>1, <3>2 DEF TypeOK, IssueForSend, conversation, gateway, business
  <2> QED
    BY <1>2, <2>2, <2>3 DEF IssueForSend
<1>3. ASSUME NEW s \in Senders, NEW step \in {"resolve", "call", "reply", "fail", "close"},
             sends[s] # Nil, sends' = [sends EXCEPT ![s].step = step] \/ Idle(s)
      PROVE  sends' \in [Senders -> Send \cup {Nil}]
  <2>1. sends[s] \in Send
    BY <1>3 DEF TypeOK
  <2> QED
    BY <1>3, <2>1 DEF TypeOK, Send, Idle
<1>4. ASSUME NEW s \in Senders, RecheckBeforeDispatch(s) \/ AgentFails(s)
      PROVE  TypeOK'
  <2>1. sends' \in [Senders -> Send \cup {Nil}]
    BY <1>3, <1>4 DEF RecheckBeforeDispatch, AgentFails, Step
  <2> QED
    BY <1>4, <2>1 DEF TypeOK, RecheckBeforeDispatch, AgentFails, conversation, requests, gateway, business
<1>5. ASSUME NEW s \in Senders, CallAgent(s)
      PROVE  TypeOK'
  <2>1. sends' \in [Senders -> Send \cup {Nil}]
    BY <1>3, <1>5 DEF CallAgent, Step
  <2>2. calls' \in [Messages -> Nat]
    <3>1. sends[s].message \in Messages
      BY <1>5 DEF TypeOK, CallAgent, Send, Messages
    <3>2. calls[sends[s].message] + 1 \in Nat
      BY <3>1 DEF TypeOK
    <3>3. calls' = [calls EXCEPT ![sends[s].message] = calls[sends[s].message] + 1]
      BY <1>5 DEF CallAgent
    <3> QED
      BY <3>1, <3>2, <3>3 DEF TypeOK
  <2> QED
    BY <1>5, <2>1, <2>2 DEF TypeOK, CallAgent, conversation, requests, gateway, business
<1>6. ASSUME NEW s \in Senders, StoreReply(s) \/ MarkUncertain(s)
      PROVE  TypeOK'
  <2> DEFINE m == sends[s].message
  <2>1. sends' \in [Senders -> Send \cup {Nil}]
    BY <1>3, <1>6 DEF StoreReply, MarkUncertain, Step
  <2>2. sends[s] \in Send /\ m \in Messages /\ dispatches[m] \in Dispatch
    BY <1>6 DEF TypeOK, SendsFit, Issued, StoreReply, MarkUncertain, Send, Messages
  <2>3. dispatches' \in [Messages -> Dispatch \cup {Nil}]
    <3>1. \/ dispatches' = dispatches
          \/ dispatches' = [dispatches EXCEPT ![m].status = "SUCCEEDED"]
          \/ dispatches' = [dispatches EXCEPT ![m].status = "UNCERTAIN"]
      BY <1>6 DEF StoreReply, MarkUncertain
    <3> HIDE DEF m
    <3> QED
      BY <2>2, <3>1 DEF TypeOK, Dispatch
  <2>4. replies' \subseteq Messages
    BY <1>6, <2>2 DEF TypeOK, StoreReply, MarkUncertain, conversation
  <2> QED
    BY <1>6, <2>1, <2>3, <2>4 DEF TypeOK, StoreReply, MarkUncertain, conversation, gateway, business
<1>7. ASSUME NEW s \in Senders, DeleteDelegation(s) \/ Crash(s)
      PROVE  TypeOK'
  <2>1. sends' \in [Senders -> Send \cup {Nil}]
    BY <1>7 DEF TypeOK, DeleteDelegation, Crash, Idle
  <2> QED
    BY <1>7, <2>1 DEF TypeOK, DeleteDelegation, Crash, conversation, requests, gateway, business
<1> QED
  BY <1>1, <1>2, <1>4, <1>5, <1>6, <1>7 DEF Web

LEMMA GatewayType ==
  ASSUME TypeOK, InboxFits, Gateway
  PROVE  TypeOK'
<1>1. ASSUME NEW c \in Conversations, CreateGatewayBinding(c) \/ RevokeGatewayBinding(c)
      PROVE  TypeOK'
  BY <1>1 DEF TypeOK, CreateGatewayBinding, RevokeGatewayBinding, conversation, requests, business
<1>2. ASSUME NEW m \in GatewayMessages, ReceiveGatewayMessage(m)
      PROVE  TypeOK'
  <2>1. m \in Messages /\ generation[In[m]] \in Generations
    BY ConversationAssumption DEF TypeOK, Messages
  <2>2. inbox' \in [GatewayMessages -> InboxRow \cup {Nil}]
    BY <1>2, <2>1 DEF TypeOK, ReceiveGatewayMessage, InboxRow
  <2>3. role' \in [Messages -> {"user", "staff", Nil}]
    BY <1>2, <2>1 DEF TypeOK, ReceiveGatewayMessage
  <2> QED
    BY <1>2, <2>2, <2>3 DEF TypeOK, ReceiveGatewayMessage, requests, business
<1>3. ASSUME NEW m \in GatewayMessages, GrantGatewayMessage(m)
      PROVE  TypeOK'
  <2>1. m \in Messages /\ inbox[m] \in InboxRow
    BY <1>3 DEF TypeOK, GrantGatewayMessage, Messages
  <2>2. dispatches' \in [Messages -> Dispatch \cup {Nil}] /\ delegations' \subseteq Delegation
    BY <1>3, <2>1, IssueType DEF GrantGatewayMessage
  <2>3. inbox' \in [GatewayMessages -> InboxRow \cup {Nil}]
    BY <1>3, <2>1 DEF TypeOK, GrantGatewayMessage, InboxRow
  <2> QED
    BY <1>3, <2>2, <2>3 DEF TypeOK, GrantGatewayMessage, conversation, business
<1>4. ASSUME NEW m \in GatewayMessages, NEW status \in {"SUCCEEDED", "UNCERTAIN"},
             CompleteGatewayMessage(m, status)
      PROVE  TypeOK'
  <2>1. m \in Messages /\ inbox[m] \in InboxRow /\ dispatches[m] \in Dispatch
    BY <1>4 DEF TypeOK, InboxFits, CompleteGatewayMessage, Messages
  <2>2. dispatches' \in [Messages -> Dispatch \cup {Nil}]
    BY <1>4, <2>1 DEF TypeOK, CompleteGatewayMessage, Dispatch
  <2>3. inbox' \in [GatewayMessages -> InboxRow \cup {Nil}]
    BY <1>4, <2>1 DEF TypeOK, CompleteGatewayMessage, InboxRow
  <2>4. replies' \subseteq Messages /\ delegations' \subseteq Delegation
    BY <1>4, <2>1 DEF TypeOK, CompleteGatewayMessage
  <2> QED
    BY <1>4, <2>2, <2>3, <2>4 DEF TypeOK, CompleteGatewayMessage, business
<1>5. ASSUME NEW action \in {"pause", "resume", "revoke", "rotate"}, UpdateIntegration(action)
      PROVE  TypeOK'
  <2>1. integration' \in Integration
    <3>1. integration.revision + 1 \in 1 .. MaxRevision + 1
      BY <1>5, ConversationAssumption DEF TypeOK, UpdateIntegration, Integration
    <3>2. PICK p \in BOOLEAN, x \in BOOLEAN, a \in BOOLEAN :
            integration' = [integration EXCEPT !.paused = p, !.expired = x, !.active = a,
                                               !.revision = integration.revision + 1]
      BY <1>5 DEF TypeOK, UpdateIntegration, Integration
    <3> QED
      BY <3>1, <3>2 DEF TypeOK, Integration
  <2> QED
    BY <1>5, <2>1, InvalidateType DEF TypeOK, UpdateIntegration, business
<1>6. CASE RevokeGatewayIntegration
  <2>1. integration' \in Integration
    <3>1. integration.revision + 1 \in 1 .. MaxRevision + 1
      BY <1>6, ConversationAssumption DEF TypeOK, RevokeGatewayIntegration, Integration
    <3>2. integration' = [integration EXCEPT !.active = FALSE, !.revision = integration.revision + 1]
      BY <1>6 DEF RevokeGatewayIntegration
    <3> QED
      BY <3>1, <3>2 DEF TypeOK, Integration
  <2> QED
    BY <1>6, <2>1, InvalidateType DEF TypeOK, RevokeGatewayIntegration, business
<1>7. CASE IntegrationExpires
  BY <1>7 DEF TypeOK, IntegrationExpires, Integration, conversation, requests, business
<1> QED
  BY <1>1, <1>2, <1>3, <1>4, <1>5, <1>6, <1>7 DEF Gateway

LEMMA TypeStep ==
  ASSUME TypeOK, SendsFit, InboxFits, [Next]_vars
  PROVE  TypeOK'
<1>1. CASE UNCHANGED vars
  BY <1>1 DEF TypeOK, vars, conversation, requests, gateway, business
<1>2. ASSUME NEW c \in Conversations, NEW to \in {"AGENT", "HUMAN"}, HandoffConversation(c, to)
      PROVE  TypeOK'
  <2>1. generation' \in [Conversations -> Generations] /\ mode' \in [Conversations -> {"AGENT", "HUMAN"}]
    BY <1>2, ConversationAssumption DEF TypeOK, HandoffConversation, Generations
  <2>2. delegations' \subseteq Delegation
    BY <1>2 DEF TypeOK, HandoffConversation
  <2> QED
    BY <1>2, <2>1, <2>2 DEF TypeOK, HandoffConversation, gateway, business
<1>3. CASE SuspendTenant
  <2>1. ASSUME NEW c \in Conversations
        PROVE  (IF Exists(c) THEN generation[c] + 1 ELSE generation[c]) \in Generations
    <3>1. generation[c] \in 1 .. MaxGeneration + 1 /\ MaxGeneration \in Nat
      BY ConversationAssumption DEF TypeOK, Generations
    <3>2. Exists(c) => generation[c] <= MaxGeneration
      BY <1>3 DEF SuspendTenant
    <3> QED
      BY <3>1, <3>2 DEF Generations
  <2>2. generation' \in [Conversations -> Generations]
    BY <1>3, <2>1 DEF SuspendTenant
  <2> QED
    BY <1>3, <2>2 DEF TypeOK, SuspendTenant, gateway, business
<1>4. CASE RestoreTenant
  BY <1>4 DEF TypeOK, RestoreTenant, conversation, requests, gateway, business
<1> QED
  BY <1>1, <1>2, <1>3, <1>4, AgentType, WebType, GatewayType DEF Next, Person, Platform

(***************************************************************************)
(* Steps.                                                                  *)
(***************************************************************************)
UnresolvedMove(c) ==
  \/ Unresolved(c)' = Unresolved(c)
  \/ \E m \in Messages : m \in replies' /\ Unresolved(c)' = Unresolved(c) \ {m}
  \/ Unresolved(c) = {} /\ \E m \in Messages : Unresolved(c)' = {m}
  \/ /\ Unresolved(c)' = {}
     /\ \/ mode'[c] = "HUMAN"
        \/ Unresolved(c) = {}
        \/ HandoffConversation(c, "AGENT")
        \/ SuspendTenant

\* What each action is shown to keep.
Kept ==
  /\ GenerationsGrow' /\ RepliesAreSuccesses' /\ DelegationsFit'
  /\ SendsFit' /\ CallsFit' /\ InboxFits'
  /\ \A c \in Conversations : UnresolvedMove(c)

\* A row that is there, as the types have it.
LEMMA Rows ==
  ASSUME TypeOK
  PROVE  /\ \A m \in Messages : In[m] \in Conversations /\ generation[In[m]] \in Nat
         /\ \A c \in Conversations : generation[c] \in Nat
         /\ \A m \in Messages : dispatches[m] # Nil => dispatches[m] \in Dispatch
         /\ \A s \in Senders : sends[s] # Nil =>
              sends[s] \in Send /\ sends[s].message \in Messages /\ sends[s].message \notin GatewayMessages
         /\ \A d \in delegations : d \in Delegation /\ d.request \in Messages
         /\ WebMessages \subseteq Messages /\ GatewayMessages \subseteq Messages
<1>1. \A c \in Conversations : generation[c] \in Nat
  BY ConversationAssumption DEF TypeOK, Generations
<1>2. \A m \in Messages : In[m] \in Conversations
  BY ConversationAssumption
<1>3. \A s \in Senders : sends[s] # Nil =>
        sends[s] \in Send /\ sends[s].message \in Messages /\ sends[s].message \notin GatewayMessages
  BY ConversationAssumption DEF TypeOK, Send, Messages
<1>4. \A d \in delegations : d \in Delegation /\ d.request \in Messages
  BY DEF TypeOK, Delegation
<1>5. \A m \in Messages : dispatches[m] # Nil => dispatches[m] \in Dispatch
  BY DEF TypeOK
<1> QED
  BY <1>1, <1>2, <1>3, <1>4, <1>5 DEF Messages

\* Nothing the invariant is about changes but, perhaps, messages stored, bindings,
\* the integration and what business calls do.
LEMMA QuietKeeps ==
  ASSUME ConversationInv,
         UNCHANGED <<generation, replies, dispatches, delegations, sends, calls, inbox>>
  PROVE  Kept
BY DEF ConversationInv, Kept, GenerationsGrow, RepliesAreSuccesses, Succeeded, DelegationsFit,
       SendsFit, Issued, CallsFit, InboxFits, UnresolvedMove, Unresolved

\* Delegations go, or change only in their time.
LEMMA DelegationsKeep ==
  ASSUME ConversationInv,
         UNCHANGED <<generation, replies, dispatches, sends, calls, inbox>>,
         \A d \in delegations' : \E e \in delegations :
           d.request = e.request /\ d.generation = e.generation /\ d.bound = e.bound
  PROVE  Kept
<1>1. DelegationsFit'
  BY DEF ConversationInv, DelegationsFit
<1> QED
  BY <1>1 DEF ConversationInv, Kept, GenerationsGrow, RepliesAreSuccesses, Succeeded,
       SendsFit, Issued, CallsFit, InboxFits, UnresolvedMove, Unresolved

LEMMA HandoffKeeps ==
  ASSUME ConversationInv, TypeOK', NEW c0 \in Conversations, NEW to \in {"AGENT", "HUMAN"},
         HandoffConversation(c0, to)
  PROVE  Kept
<1>1. /\ \A m \in Messages : In[m] \in Conversations /\ generation[In[m]] \in Nat
      /\ \A c \in Conversations : generation[c] \in Nat
      /\ \A m \in Messages : dispatches[m] # Nil => dispatches[m] \in Dispatch
  BY Rows DEF ConversationInv
<1>2. /\ \A c \in Conversations : generation'[c] = IF c = c0 THEN generation[c] + 1 ELSE generation[c]
      /\ mode'[c0] = to
      /\ delegations' \subseteq delegations
      /\ UNCHANGED <<replies, dispatches, sends, calls, inbox>>
  BY DEF ConversationInv, TypeOK, HandoffConversation, gateway
<1>3. \A m \in Messages : dispatches[m] # Nil =>
        dispatches[m].generation \in Nat /\ dispatches[m].generation <= generation[In[m]]
  BY <1>1 DEF ConversationInv, GenerationsGrow, Dispatch, Generations
<1>4. GenerationsGrow'
  BY <1>1, <1>2, <1>3 DEF GenerationsGrow
<1>5. RepliesAreSuccesses' /\ DelegationsFit' /\ SendsFit' /\ CallsFit' /\ InboxFits'
  BY <1>2 DEF ConversationInv, RepliesAreSuccesses, Succeeded, DelegationsFit, SendsFit, Issued,
     CallsFit, InboxFits
<1>6. ASSUME NEW c \in Conversations
      PROVE  UnresolvedMove(c)
  <2>1. CASE c = c0
    <3>1. Unresolved(c0)' = {}
      <4>1. \A m \in Messages : In[m] = c0 /\ dispatches[m] # Nil =>
              dispatches[m].generation # generation'[c0]
        BY <1>1, <1>2, <1>3
      <4> QED
        BY <1>2, <4>1 DEF Unresolved
    <3> QED
      BY <1>2, <2>1, <3>1 DEF UnresolvedMove
  <2>2. CASE c # c0
    BY <1>2, <2>2 DEF UnresolvedMove, Unresolved
  <2> QED
    BY <2>1, <2>2
<1> QED
  BY <1>4, <1>5, <1>6 DEF Kept

LEMMA SuspendKeeps ==
  ASSUME ConversationInv, SuspendTenant
  PROVE  Kept
<1>1. /\ \A m \in Messages : In[m] \in Conversations
      /\ \A c \in Conversations : generation[c] \in Nat
      /\ \A m \in Messages : dispatches[m] # Nil => dispatches[m] \in Dispatch
  BY Rows DEF ConversationInv
<1>2. /\ \A c \in Conversations : generation'[c] = IF Exists(c) THEN generation[c] + 1 ELSE generation[c]
      /\ delegations' = {}
      /\ UNCHANGED <<replies, dispatches, sends, calls, inbox>>
  BY DEF SuspendTenant, gateway
<1>3. \A m \in Messages : dispatches[m] # Nil =>
        dispatches[m].generation \in Nat /\ dispatches[m].generation <= generation[In[m]]
  BY <1>1 DEF ConversationInv, GenerationsGrow, Dispatch, Generations
<1>4. GenerationsGrow'
  BY <1>1, <1>2, <1>3 DEF GenerationsGrow
<1>5. RepliesAreSuccesses' /\ DelegationsFit' /\ SendsFit' /\ CallsFit' /\ InboxFits'
  BY <1>2 DEF ConversationInv, RepliesAreSuccesses, Succeeded, DelegationsFit, SendsFit, Issued,
     CallsFit, InboxFits
<1>6. ASSUME NEW c \in Conversations
      PROVE  UnresolvedMove(c)
  <2>1. CASE Exists(c)
    <3>1. \A m \in Messages : In[m] = c /\ dispatches[m] # Nil =>
            dispatches[m].generation # generation'[c]
      BY <1>1, <1>2, <1>3, <2>1
    <3>2. Unresolved(c)' = {}
      BY <1>2, <3>1 DEF Unresolved
    <3> QED
      BY <3>2 DEF UnresolvedMove
  <2>2. CASE ~Exists(c)
    BY <1>2, <2>2 DEF UnresolvedMove, Unresolved
  <2> QED
    BY <2>1, <2>2
<1> QED
  BY <1>4, <1>5, <1>6 DEF Kept

\* A request becomes the only one without a result.
LEMMA IssueMoves ==
  ASSUME ConversationInv, NEW m0 \in Messages, NonePending(m0), NEW d0,
         d0.request = m0, d0.generation = generation[In[m0]], d0.bound <=> m0 \in GatewayMessages,
         delegations' = delegations \cup {d0},
         dispatches' = [dispatches EXCEPT ![m0] = [generation |-> generation[In[m0]], status |-> "IN_FLIGHT"]],
         UNCHANGED <<generation, replies, calls>>
  PROVE  /\ GenerationsGrow' /\ RepliesAreSuccesses' /\ DelegationsFit' /\ CallsFit'
         /\ \A c \in Conversations : UnresolvedMove(c)
         /\ dispatches[m0] = Nil /\ ~Succeeded(m0)'
         /\ dispatches'[m0] # Nil /\ dispatches'[m0].status = "IN_FLIGHT"
         /\ \A m \in Messages \ {m0} : dispatches'[m] = dispatches[m]
<1> DEFINE row == [generation |-> generation[In[m0]], status |-> "IN_FLIGHT"]
<1>1. /\ \A m \in Messages : In[m] \in Conversations /\ generation[In[m]] \in Nat
      /\ \A m \in Messages : dispatches[m] # Nil => dispatches[m] \in Dispatch
      /\ \A d \in delegations : d.request \in Messages
      /\ TypeOK
  BY Rows DEF ConversationInv
<1>2. dispatches[m0] = Nil /\ Unresolved(In[m0]) = {}
  BY DEF NonePending
<1>3. /\ dispatches'[m0] = row
      /\ \A m \in Messages \ {m0} : dispatches'[m] = dispatches[m]
  BY <1>1 DEF TypeOK
<1>4. row # Nil /\ row.status = "IN_FLIGHT" /\ row.generation = generation[In[m0]]
  <2>1. generation[In[m0]] \in Generations
    BY <1>1 DEF TypeOK
  <2>2. row \in Dispatch
    BY <2>1 DEF Dispatch
  <2> QED
    BY <2>2, RowsAssumption
<1> HIDE DEF row
<1>5. GenerationsGrow'
  BY <1>1, <1>3, <1>4 DEF ConversationInv, GenerationsGrow
<1>6. RepliesAreSuccesses' /\ ~Succeeded(m0)'
  BY <1>2, <1>3, <1>4 DEF ConversationInv, RepliesAreSuccesses, Succeeded
<1>7. DelegationsFit'
  <2>1. ASSUME NEW d \in delegations
        PROVE  dispatches'[d.request] = dispatches[d.request]
    BY <1>1, <1>2, <1>3 DEF ConversationInv, DelegationsFit
  <2> QED
    BY <1>2, <1>3, <1>4, <2>1 DEF ConversationInv, DelegationsFit
<1>8. CallsFit'
  BY <1>2, <1>3, <1>4 DEF ConversationInv, CallsFit
<1>9. ASSUME NEW c \in Conversations
      PROVE  UnresolvedMove(c)
  <2>1. CASE c = In[m0]
    <3>1. Unresolved(c)' = {m0}
      <4>1. \A m \in Messages \ {m0} : m \in Unresolved(c)' <=> m \in Unresolved(c)
        BY <1>3 DEF Unresolved
      <4>2. m0 \in Unresolved(c)'
        BY <1>3, <1>4, <2>1 DEF Unresolved
      <4>3. Unresolved(c)' \subseteq Messages
        BY DEF Unresolved
      <4> QED
        BY <1>2, <2>1, <4>1, <4>2, <4>3
    <3> QED
      BY <1>2, <2>1, <3>1 DEF UnresolvedMove
  <2>2. CASE c # In[m0]
    <3>1. Unresolved(c)' = Unresolved(c)
      BY <1>3, <2>2 DEF Unresolved
    <3> QED
      BY <3>1 DEF UnresolvedMove
  <2> QED
    BY <2>1, <2>2
<1> QED
  BY <1>2, <1>3, <1>4, <1>5, <1>6, <1>7, <1>8, <1>9

\* An invocation moves on, or ends, and nothing else changes.
LEMMA SendsKeep ==
  ASSUME ConversationInv,
         UNCHANGED <<generation, replies, dispatches, calls, inbox>>,
         delegations' \subseteq delegations,
         NEW s0 \in Senders,
         \A s \in Senders \ {s0} : sends'[s] = sends[s],
         sends'[s0] # Nil /\ sends'[s0].step # "issue" =>
           /\ sends[s0] # Nil /\ sends[s0].message = sends'[s0].message
           /\ sends[s0].step \in {"resolve", "call", "reply", "fail"}
           /\ sends'[s0].step \in {"resolve", "call"} => sends[s0].step \in {"resolve", "call"}
  PROVE  Kept
<1>1. GenerationsGrow' /\ RepliesAreSuccesses' /\ DelegationsFit' /\ CallsFit' /\ InboxFits'
  BY DEF ConversationInv, GenerationsGrow, RepliesAreSuccesses, Succeeded, DelegationsFit, CallsFit, InboxFits
<1>2. \A c \in Conversations : UnresolvedMove(c)
  BY DEF UnresolvedMove, Unresolved
<1>3. \A s \in Senders : Issued(s)' => Issued(s) /\ sends'[s].message = sends[s].message
  BY DEF Issued
<1>4. SendsFit'
  <2>1. ASSUME NEW s \in Senders, Issued(s)'
        PROVE  /\ dispatches[sends'[s].message] # Nil
               /\ sends'[s].step \in {"resolve", "call"} => calls[sends'[s].message] = 0
               /\ sends'[s].step # "close" => dispatches[sends'[s].message].status # "SUCCEEDED"
    <3>1. CASE s # s0
      BY <1>3, <2>1, <3>1 DEF ConversationInv, SendsFit
    <3>2. CASE s = s0
      BY <1>3, <2>1, <3>2 DEF ConversationInv, SendsFit, Issued
    <3> QED
      BY <3>1, <3>2
  <2>2. \A r, s \in Senders : Issued(r)' /\ Issued(s)' /\ sends'[r].message = sends'[s].message => r = s
    BY <1>3 DEF ConversationInv, SendsFit
  <2> QED
    BY <2>1, <2>2 DEF SendsFit
<1> QED
  BY <1>1, <1>2, <1>4 DEF Kept

LEMMA StoreMessageKeeps ==
  ASSUME ConversationInv, TypeOK', NEW s0 \in Senders, NEW m0 \in WebMessages, NEW by \in {"user", "staff"},
         StoreMessage(s0, m0, by)
  PROVE  Kept
<1> DEFINE job == [message |-> m0, step |-> "issue", generation |-> 0]
<1>1. sends' = sends \/ sends' = [sends EXCEPT ![s0] = job]
  BY DEF StoreMessage
<1>2. UNCHANGED <<generation, replies, dispatches, delegations, calls, inbox>>
  BY DEF StoreMessage, requests, gateway
<1>3. CASE sends' = sends
  BY <1>2, <1>3, QuietKeeps
<1>4. CASE sends' = [sends EXCEPT ![s0] = job]
  <2>1. sends'[s0].step = "issue" /\ \A s \in Senders \ {s0} : sends'[s] = sends[s]
    BY <1>4 DEF ConversationInv, TypeOK
  <2> QED
    BY <1>2, <2>1, SendsKeep
<1> QED
  BY <1>1, <1>3, <1>4

LEMMA IssueForSendKeeps ==
  ASSUME ConversationInv, TypeOK', NEW s0 \in Senders, IssueForSend(s0)
  PROVE  Kept
<1>0. PICK m0 \in Messages : m0 = sends[s0].message
  BY Rows DEF ConversationInv, IssueForSend
<1>1. /\ TypeOK /\ sends[s0] \in Send /\ sends[s0] # Nil /\ sends[s0].step = "issue"
      /\ m0 \notin GatewayMessages
      /\ \A s \in Senders : sends[s] # Nil => sends[s].message \in Messages
      /\ \A s \in Senders : sends[s] # Nil => sends[s].message \notin GatewayMessages
      /\ GatewayMessages \subseteq Messages
  BY <1>0, Rows DEF ConversationInv, IssueForSend
<1>2. UNCHANGED <<generation, replies, calls, inbox>>
  BY DEF IssueForSend, conversation, gateway
<1>3. CASE Idle(s0) /\ UNCHANGED requests
  <2>1. sends'[s0] = Nil /\ \A s \in Senders \ {s0} : sends'[s] = sends[s]
    BY <1>1, <1>3 DEF Idle, TypeOK
  <2> QED
    BY <1>2, <1>3, <2>1, SendsKeep DEF requests
<1>4. CASE IssueDelegation(m0, FALSE) /\
           sends' = [sends EXCEPT ![s0].step = "resolve", ![s0].generation = generation[In[m0]]]
  <2>1. /\ GenerationsGrow' /\ RepliesAreSuccesses' /\ DelegationsFit' /\ CallsFit'
        /\ \A c \in Conversations : UnresolvedMove(c)
        /\ dispatches[m0] = Nil /\ ~Succeeded(m0)'
        /\ dispatches'[m0] # Nil /\ dispatches'[m0].status = "IN_FLIGHT"
        /\ \A m \in Messages \ {m0} : dispatches'[m] = dispatches[m]
    <3> DEFINE d0 == [request |-> m0, generation |-> generation[In[m0]], bound |-> FALSE, expired |-> FALSE]
    <3>1. /\ NonePending(m0) /\ delegations' = delegations \cup {d0}
          /\ dispatches' = [dispatches EXCEPT ![m0] =
                              [generation |-> generation[In[m0]], status |-> "IN_FLIGHT"]]
      BY <1>4 DEF IssueDelegation
    <3>2. d0.request = m0 /\ d0.generation = generation[In[m0]] /\ (d0.bound <=> m0 \in GatewayMessages)
      BY <1>1
    <3>3. UNCHANGED <<generation, replies, calls>>
      BY <1>2
    <3> HIDE DEF d0
    <3> QED
      BY <3>1, <3>2, <3>3, IssueMoves
  <2>2. /\ sends'[s0].message = m0 /\ sends'[s0].step = "resolve"
        /\ \A s \in Senders \ {s0} : sends'[s] = sends[s]
    BY <1>0, <1>1, <1>4 DEF TypeOK, Send
  <2>3. calls[m0] = 0
    BY <1>1, <2>1 DEF ConversationInv, CallsFit
  <2>4. \A s \in Senders \ {s0} : Issued(s)' => Issued(s) /\ sends[s].message # m0
    BY <2>1, <2>2 DEF ConversationInv, SendsFit, Issued
  <2>5. SendsFit'
    <3>1. ASSUME NEW s \in Senders, Issued(s)'
          PROVE  /\ dispatches'[sends'[s].message] # Nil
                 /\ sends'[s].step \in {"resolve", "call"} => calls'[sends'[s].message] = 0
                 /\ sends'[s].step # "close" => dispatches'[sends'[s].message].status # "SUCCEEDED"
      <4>1. CASE s = s0
        BY <1>2, <2>1, <2>2, <2>3, <4>1
      <4>2. CASE s # s0
        <5>1. /\ sends'[s] = sends[s] /\ Issued(s)
              /\ dispatches'[sends[s].message] = dispatches[sends[s].message]
          BY <1>1, <2>1, <2>2, <2>4, <3>1, <4>2 DEF Issued
        <5> QED
          BY <1>2, <5>1 DEF ConversationInv, SendsFit
      <4> QED
        BY <4>1, <4>2
    <3>2. ASSUME NEW r \in Senders, NEW s \in Senders, Issued(r)', Issued(s)',
                 sends'[r].message = sends'[s].message
          PROVE  r = s
      <4>1. CASE r # s0 /\ s # s0
        BY <2>2, <2>4, <3>2, <4>1 DEF ConversationInv, SendsFit
      <4>2. CASE r = s0 \/ s = s0
        BY <2>2, <2>4, <3>2, <4>2
      <4> QED
        BY <4>1, <4>2
    <3> QED
      BY <3>1, <3>2 DEF SendsFit
  <2>6. InboxFits'
    BY <1>1, <1>2, <2>1 DEF ConversationInv, InboxFits, Succeeded
  <2> QED
    BY <2>1, <2>5, <2>6 DEF Kept
<1> QED
  BY <1>0, <1>3, <1>4 DEF IssueForSend

LEMMA CallKeeps ==
  ASSUME ConversationInv, TypeOK', NEW s0 \in Senders, CallAgent(s0)
  PROVE  Kept
<1> DEFINE m0 == sends[s0].message
<1>1. /\ TypeOK /\ sends[s0] \in Send /\ sends[s0] # Nil /\ sends[s0].step = "call" /\ m0 \in Messages
  BY Rows DEF ConversationInv, CallAgent
<1>2. /\ UNCHANGED <<generation, replies, dispatches, delegations, inbox>>
      /\ calls' = [calls EXCEPT ![m0] = calls[m0] + 1]
      /\ sends' = [sends EXCEPT ![s0].step = "reply"]
  BY DEF CallAgent, Step, conversation, requests, gateway
<1>3. /\ sends'[s0].message = m0 /\ sends'[s0].step = "reply" /\ sends'[s0] # Nil
      /\ \A s \in Senders \ {s0} : sends'[s] = sends[s]
  <2>1. [sends[s0] EXCEPT !.step = "reply"] \in Send
    BY <1>1 DEF Send
  <2>2. /\ sends'[s0] = [sends[s0] EXCEPT !.step = "reply"]
        /\ \A s \in Senders \ {s0} : sends'[s] = sends[s]
    BY <1>1, <1>2 DEF TypeOK
  <2>3. sends'[s0].message = m0 /\ sends'[s0].step = "reply"
    BY <1>1, <2>2 DEF Send
  <2>4. sends'[s0] # Nil
    BY <2>1, <2>2, RowsAssumption
  <2> QED
    BY <2>2, <2>3, <2>4
<1>4. Issued(s0) /\ calls[m0] = 0 /\ dispatches[m0] # Nil /\ dispatches[m0].status # "SUCCEEDED"
  BY <1>1 DEF Issued, ConversationInv, SendsFit
<1>5. calls'[m0] = 1 /\ \A m \in Messages \ {m0} : calls'[m] = calls[m]
  BY <1>1, <1>2, <1>4 DEF TypeOK
<1>6. GenerationsGrow' /\ RepliesAreSuccesses' /\ DelegationsFit' /\ InboxFits'
  BY <1>2 DEF ConversationInv, GenerationsGrow, RepliesAreSuccesses, Succeeded, DelegationsFit, InboxFits
<1>7. \A c \in Conversations : UnresolvedMove(c)
  BY <1>2 DEF UnresolvedMove, Unresolved
<1> HIDE DEF m0
<1>8. CallsFit'
  BY <1>2, <1>4, <1>5 DEF ConversationInv, CallsFit
<1>9. SendsFit'
  <2>1. \A s \in Senders : Issued(s)' => Issued(s) /\ sends'[s].message = sends[s].message
    BY <1>3, <1>4 DEF Issued, m0
  <2>2. ASSUME NEW s \in Senders \ {s0}, Issued(s)'
        PROVE  sends[s].message # m0 /\ sends[s].message \in Messages
    <3>1. Issued(s) /\ sends[s] # Nil
      BY <2>1, <2>2 DEF Issued
    <3> QED
      BY <1>4, <3>1, Rows DEF ConversationInv, SendsFit, m0
  <2>3. ASSUME NEW s \in Senders, Issued(s)'
        PROVE  /\ dispatches'[sends'[s].message] # Nil
               /\ sends'[s].step \in {"resolve", "call"} => calls'[sends'[s].message] = 0
               /\ sends'[s].step # "close" => dispatches'[sends'[s].message].status # "SUCCEEDED"
    <3>1. CASE s = s0
      BY <1>2, <1>3, <1>4, <3>1
    <3>2. CASE s # s0
      <4>1. calls'[sends[s].message] = calls[sends[s].message] /\ sends'[s] = sends[s] /\ Issued(s)
        BY <1>3, <1>5, <2>1, <2>2, <2>3, <3>2
      <4> QED
        BY <1>2, <4>1 DEF ConversationInv, SendsFit
    <3> QED
      BY <3>1, <3>2
  <2>4. \A r, s \in Senders : Issued(r)' /\ Issued(s)' /\ sends'[r].message = sends'[s].message => r = s
    BY <2>1 DEF ConversationInv, SendsFit
  <2> QED
    BY <2>3, <2>4 DEF SendsFit
<1> QED
  BY <1>6, <1>7, <1>8, <1>9 DEF Kept

\* The result of a request becomes known, or known to be unknown.
LEMMA ResultMoves ==
  ASSUME ConversationInv, NEW m0 \in Messages, NEW status \in {"SUCCEEDED", "UNCERTAIN"},
         dispatches[m0] # Nil, ~Succeeded(m0),
         dispatches' = [dispatches EXCEPT ![m0].status = status],
         replies' = IF status = "SUCCEEDED" THEN replies \cup {m0} ELSE replies,
         delegations' \subseteq delegations,
         UNCHANGED <<generation, calls>>
  PROVE  /\ GenerationsGrow' /\ RepliesAreSuccesses' /\ DelegationsFit' /\ CallsFit'
         /\ \A c \in Conversations : UnresolvedMove(c)
         /\ dispatches'[m0] # Nil /\ dispatches'[m0].status = status
         /\ \A m \in Messages \ {m0} : dispatches'[m] = dispatches[m]
<1> DEFINE row == [dispatches[m0] EXCEPT !.status = status]
<1>1. /\ \A m \in Messages : dispatches[m] # Nil => dispatches[m] \in Dispatch
      /\ \A d \in delegations : d.request \in Messages
      /\ TypeOK /\ replies \subseteq Messages
  BY Rows DEF ConversationInv, TypeOK
<1>2. /\ dispatches'[m0] = row
      /\ \A m \in Messages \ {m0} : dispatches'[m] = dispatches[m]
  BY <1>1 DEF TypeOK, Dispatch
<1>3. row # Nil /\ row.status = status /\ row.generation = dispatches[m0].generation
  <2>1. row \in Dispatch /\ row.status = status /\ row.generation = dispatches[m0].generation
    BY <1>1 DEF Dispatch
  <2> QED
    BY <2>1, RowsAssumption
<1> HIDE DEF row
<1>4. GenerationsGrow'
  BY <1>2, <1>3 DEF ConversationInv, GenerationsGrow
<1>5. RepliesAreSuccesses'
  BY <1>2, <1>3 DEF ConversationInv, RepliesAreSuccesses, Succeeded
<1>6. DelegationsFit'
  BY <1>1, <1>2, <1>3 DEF ConversationInv, DelegationsFit
<1>7. CallsFit'
  BY <1>2, <1>3 DEF ConversationInv, CallsFit
<1>8. ASSUME NEW c \in Conversations
      PROVE  UnresolvedMove(c)
  <2>1. \A m \in Messages \ {m0} : m \in Unresolved(c)' <=> m \in Unresolved(c)
    BY <1>2 DEF Unresolved
  <2>2. Unresolved(c) \subseteq Messages /\ Unresolved(c)' \subseteq Messages
    BY DEF Unresolved
  <2>3. CASE status = "SUCCEEDED"
    <3>1. m0 \notin Unresolved(c)' /\ m0 \in replies'
      BY <1>2, <1>3, <2>3 DEF Unresolved
    <3>2. Unresolved(c)' = Unresolved(c) \ {m0}
      BY <2>1, <2>2, <3>1
    <3> QED
      BY <3>1, <3>2 DEF UnresolvedMove
  <2>4. CASE status = "UNCERTAIN"
    <3>1. m0 \in Unresolved(c)' <=> m0 \in Unresolved(c)
      BY <1>2, <1>3, <2>4 DEF Unresolved, Succeeded
    <3>2. Unresolved(c)' = Unresolved(c)
      BY <2>1, <2>2, <3>1
    <3> QED
      BY <3>2 DEF UnresolvedMove
  <2> QED
    BY <2>3, <2>4
<1> QED
  BY <1>2, <1>3, <1>4, <1>5, <1>6, <1>7, <1>8

\* The invocation that has message m0 learns or loses its result.
LEMMA SendResultKeeps ==
  ASSUME ConversationInv, TypeOK', NEW s0 \in Senders, NEW status \in {"SUCCEEDED", "UNCERTAIN"},
         Issued(s0), sends[s0].step # "close",
         dispatches' = [dispatches EXCEPT ![sends[s0].message].status = status],
         replies' = IF status = "SUCCEEDED" THEN replies \cup {sends[s0].message} ELSE replies,
         sends' = [sends EXCEPT ![s0].step = "close"],
         UNCHANGED <<generation, delegations, calls, inbox>>
  PROVE  Kept
<1>0. PICK m0 \in Messages : m0 = sends[s0].message
  BY Rows DEF ConversationInv, Issued
<1>1. /\ TypeOK /\ sends[s0] \in Send /\ m0 \notin GatewayMessages
      /\ \A s \in Senders : sends[s] # Nil => sends[s].message \in Messages
      /\ GatewayMessages \subseteq Messages
  BY <1>0, Rows DEF ConversationInv, Issued
<1>2. dispatches[m0] # Nil /\ ~Succeeded(m0)
  BY <1>0 DEF ConversationInv, SendsFit, Succeeded
<1>3. /\ GenerationsGrow' /\ RepliesAreSuccesses' /\ DelegationsFit' /\ CallsFit'
      /\ \A c \in Conversations : UnresolvedMove(c)
      /\ dispatches'[m0] # Nil /\ dispatches'[m0].status = status
      /\ \A m \in Messages \ {m0} : dispatches'[m] = dispatches[m]
  BY <1>0, <1>2, ResultMoves
<1>4. /\ sends'[s0].message = m0 /\ sends'[s0].step = "close"
      /\ \A s \in Senders \ {s0} : sends'[s] = sends[s]
  BY <1>0, <1>1 DEF TypeOK, Send
<1>5. \A s \in Senders : Issued(s)' => Issued(s) /\ sends'[s].message = sends[s].message
  BY <1>0, <1>4 DEF Issued
<1>6. \A s \in Senders \ {s0} : Issued(s) => sends[s].message # m0
  BY <1>0 DEF ConversationInv, SendsFit
<1>7. SendsFit'
  <2>1. ASSUME NEW s \in Senders, Issued(s)'
        PROVE  /\ dispatches'[sends'[s].message] # Nil
               /\ sends'[s].step \in {"resolve", "call"} => calls'[sends'[s].message] = 0
               /\ sends'[s].step # "close" => dispatches'[sends'[s].message].status # "SUCCEEDED"
    <3>1. CASE s = s0
      BY <1>3, <1>4, <3>1
    <3>2. CASE s # s0
      <4>1. /\ sends'[s] = sends[s] /\ Issued(s)
            /\ dispatches'[sends[s].message] = dispatches[sends[s].message]
        BY <1>1, <1>3, <1>4, <1>5, <1>6, <2>1, <3>2 DEF Issued
      <4> QED
        BY <4>1 DEF ConversationInv, SendsFit
    <3> QED
      BY <3>1, <3>2
  <2>2. \A r, s \in Senders : Issued(r)' /\ Issued(s)' /\ sends'[r].message = sends'[s].message => r = s
    BY <1>5 DEF ConversationInv, SendsFit
  <2> QED
    BY <2>1, <2>2 DEF SendsFit
<1>8. InboxFits'
  BY <1>1, <1>3 DEF ConversationInv, InboxFits, Succeeded
<1> QED
  BY <1>3, <1>7, <1>8 DEF Kept

\* An invocation goes from one step to the next, and nothing else changes.
LEMMA StepKeeps ==
  ASSUME ConversationInv, NEW s0 \in Senders, NEW step \in {"call", "fail"}, Step(s0, step), sends[s0] # Nil,
         step = "call" => sends[s0].step = "resolve",
         sends[s0].step \in {"resolve", "call", "reply"},
         UNCHANGED <<generation, replies, dispatches, delegations, calls, inbox>>
  PROVE  Kept
<1>1. TypeOK /\ sends[s0] \in Send
  BY DEF ConversationInv, TypeOK
<1>2. /\ sends'[s0].message = sends[s0].message /\ sends'[s0].step = step
      /\ \A s \in Senders \ {s0} : sends'[s] = sends[s]
  BY <1>1 DEF Step, TypeOK, Send
<1> QED
  BY <1>2, SendsKeep

LEMMA WebKeeps ==
  ASSUME ConversationInv, TypeOK', Web
  PROVE  Kept
<1>1. ASSUME NEW s \in Senders, NEW m \in WebMessages, NEW by \in {"user", "staff"}, StoreMessage(s, m, by)
      PROVE  Kept
  BY <1>1, StoreMessageKeeps
<1>2. ASSUME NEW s \in Senders, RecheckBeforeDispatch(s)
      PROVE  Kept
  <2>1. PICK step \in {"call", "fail"} : Step(s, step)
    BY <1>2 DEF RecheckBeforeDispatch
  <2>2. /\ sends[s] # Nil /\ sends[s].step = "resolve"
        /\ UNCHANGED <<generation, replies, dispatches, delegations, calls, inbox>>
    BY <1>2 DEF RecheckBeforeDispatch, conversation, requests, gateway
  <2> QED
    BY <2>1, <2>2, StepKeeps
<1>3. ASSUME NEW s \in Senders, AgentFails(s)
      PROVE  Kept
  BY <1>3, StepKeeps DEF AgentFails, conversation, requests, gateway
<1>4. ASSUME NEW s \in Senders, StoreReply(s)
      PROVE  Kept
  <2>1. /\ sends[s] # Nil /\ sends[s].step = "reply" /\ Issued(s)
        /\ UNCHANGED <<generation, delegations, calls, inbox>>
    BY <1>4 DEF StoreReply, Issued, gateway
  <2>2. CASE Step(s, "fail") /\ UNCHANGED <<replies, dispatches>>
    BY <2>1, <2>2, StepKeeps
  <2>3. CASE /\ replies' = replies \cup {sends[s].message}
             /\ dispatches' = [dispatches EXCEPT ![sends[s].message].status = "SUCCEEDED"]
             /\ Step(s, "close")
    BY <2>1, <2>3, SendResultKeeps DEF Step
  <2> QED
    BY <1>4, <2>2, <2>3 DEF StoreReply
<1>5. ASSUME NEW s \in Senders, MarkUncertain(s)
      PROVE  Kept
  <2>1. /\ sends[s] # Nil /\ sends[s].step = "fail" /\ Issued(s)
        /\ UNCHANGED <<generation, replies, delegations, calls, inbox>>
        /\ dispatches' = [dispatches EXCEPT ![sends[s].message].status = "UNCERTAIN"]
        /\ sends' = [sends EXCEPT ![s].step = "close"]
    BY <1>5 DEF MarkUncertain, Issued, Step, conversation, gateway
  <2> QED
    BY <2>1, SendResultKeeps
<1>6. ASSUME NEW s \in Senders, DeleteDelegation(s) \/ Crash(s)
      PROVE  Kept
  <2>1. sends'[s] = Nil /\ \A r \in Senders \ {s} : sends'[r] = sends[r]
    BY <1>6 DEF DeleteDelegation, Crash, Idle, ConversationInv, TypeOK
  <2>2. UNCHANGED <<generation, replies, dispatches, calls, inbox>> /\ delegations' \subseteq delegations
    BY <1>6 DEF DeleteDelegation, Crash, conversation, requests, gateway
  <2> QED
    BY <2>1, <2>2, SendsKeep
<1> QED
  BY <1>1, <1>2, <1>3, <1>4, <1>5, <1>6, IssueForSendKeeps, CallKeeps DEF Web
LEMMA AgentKeeps ==
  ASSUME ConversationInv, Agent
  PROVE  Kept
<1>1. ASSUME NEW d \in delegations, DelegationExpires(d)
      PROVE  Kept
  <2>1. UNCHANGED <<generation, replies, dispatches, sends, calls, inbox>>
    BY <1>1 DEF DelegationExpires, conversation, gateway
  <2>2. d \in Delegation
    BY Rows DEF ConversationInv
  <2> DEFINE late == [d EXCEPT !.expired = TRUE]
  <2>3. late.request = d.request /\ late.generation = d.generation /\ late.bound = d.bound
    BY <2>2 DEF Delegation
  <2>4. delegations' = (delegations \ {d}) \cup {late}
    BY <1>1 DEF DelegationExpires
  <2> HIDE DEF late
  <2>5. \A e \in delegations' : \E f \in delegations :
          e.request = f.request /\ e.generation = f.generation /\ e.bound = f.bound
    BY <2>3, <2>4
  <2> QED
    BY <2>1, <2>5, DelegationsKeep
<1>2. ASSUME NEW d, ResolveDelegation(d) \/ CommitCommand(d) \/ EndCommand(d)
      PROVE  Kept
  <2>1. UNCHANGED <<generation, replies, dispatches, delegations, sends, calls, inbox>>
    BY <1>2 DEF ResolveDelegation, CommitCommand, EndCommand, conversation, requests, gateway
  <2> QED
    BY <2>1, QuietKeeps
<1> QED
  BY <1>1, <1>2 DEF Agent

LEMMA ReceiveKeeps ==
  ASSUME ConversationInv, TypeOK', NEW m0 \in GatewayMessages, ReceiveGatewayMessage(m0)
  PROVE  Kept
<1>1. /\ UNCHANGED <<generation, replies, dispatches, delegations, sends, calls>>
      /\ inbox[m0] = Nil
      /\ inbox' = [inbox EXCEPT ![m0] = [generation |-> generation[In[m0]], token |-> FALSE,
                                         snapshot |-> FALSE, completion |-> Nil]]
  BY DEF ReceiveGatewayMessage, requests
<1>2. dispatches[m0] = Nil
  BY <1>1 DEF ConversationInv, InboxFits
<1>3. /\ ~inbox'[m0].token
      /\ \A m \in GatewayMessages \ {m0} : inbox'[m] = inbox[m]
  BY <1>1 DEF ConversationInv, TypeOK
<1>4. inbox'[m0] # Nil
  <2>1. [generation |-> generation[In[m0]], token |-> FALSE, snapshot |-> FALSE,
         completion |-> Nil] \in InboxRow
    BY Rows, ConversationAssumption DEF ConversationInv, TypeOK, InboxRow, Messages
  <2> QED
    BY <1>1, <2>1, RowsAssumption DEF ConversationInv, TypeOK
<1>5. InboxFits'
  BY <1>1, <1>2, <1>3, <1>4 DEF ConversationInv, InboxFits, Succeeded
<1> QED
  BY <1>1, <1>5 DEF ConversationInv, Kept, GenerationsGrow, RepliesAreSuccesses, Succeeded,
     DelegationsFit, SendsFit, Issued, CallsFit, UnresolvedMove, Unresolved

\* What a gateway's message does to its own dispatch does not touch the invocations.
LEMMA GatewayLeavesSends ==
  ASSUME ConversationInv, NEW m0 \in GatewayMessages,
         \A m \in Messages \ {m0} : dispatches'[m] = dispatches[m],
         UNCHANGED <<sends, calls>>
  PROVE  SendsFit'
<1>1. \A s \in Senders : Issued(s) =>
        /\ sends[s].message \in Messages \ {m0}
        /\ dispatches'[sends[s].message] = dispatches[sends[s].message]
  BY Rows DEF ConversationInv, Issued
<1> QED
  BY <1>1 DEF ConversationInv, SendsFit, Issued

LEMMA GrantKeeps ==
  ASSUME ConversationInv, TypeOK', NEW m0 \in GatewayMessages, GrantGatewayMessage(m0)
  PROVE  Kept
<1> DEFINE d0 == [request |-> m0, generation |-> generation[In[m0]], bound |-> TRUE, expired |-> FALSE]
<1>1. /\ UNCHANGED <<generation, replies, sends, calls>>
      /\ inbox[m0] # Nil
      /\ inbox' = [inbox EXCEPT ![m0].token = TRUE, ![m0].snapshot = TRUE]
      /\ NonePending(m0) /\ delegations' = delegations \cup {d0}
      /\ dispatches' = [dispatches EXCEPT ![m0] =
                          [generation |-> generation[In[m0]], status |-> "IN_FLIGHT"]]
  BY DEF GrantGatewayMessage, IssueDelegation, conversation
<1>2. m0 \in Messages
  BY DEF Messages
<1>3. /\ GenerationsGrow' /\ RepliesAreSuccesses' /\ DelegationsFit' /\ CallsFit'
      /\ \A c \in Conversations : UnresolvedMove(c)
      /\ ~Succeeded(m0)' /\ dispatches'[m0] # Nil
      /\ \A m \in Messages \ {m0} : dispatches'[m] = dispatches[m]
  <2>1. d0.request = m0 /\ d0.generation = generation[In[m0]] /\ (d0.bound <=> m0 \in GatewayMessages)
    OBVIOUS
  <2>2. UNCHANGED <<generation, replies, calls>>
    BY <1>1
  <2> HIDE DEF d0
  <2> QED
    BY <1>1, <1>2, <2>1, <2>2, IssueMoves
<1>4. SendsFit'
  BY <1>1, <1>3, GatewayLeavesSends
<1>5. InboxFits'
  <2>1. \A m \in GatewayMessages \ {m0} : inbox'[m] = inbox[m] /\ dispatches'[m] = dispatches[m]
    BY <1>1, <1>3 DEF ConversationInv, TypeOK, Messages
  <2>2. inbox'[m0] # Nil
    <3>1. m0 \in DOMAIN inbox /\ inbox[m0] \in InboxRow
      BY <1>1 DEF ConversationInv, TypeOK
    <3>2. [[inbox[m0] EXCEPT !.token = TRUE] EXCEPT !.snapshot = TRUE] \in InboxRow
      BY <3>1 DEF InboxRow
    <3>3. inbox' = [[inbox EXCEPT ![m0].token = TRUE] EXCEPT ![m0].snapshot = TRUE]
      BY <1>1, <3>1
    <3>4. inbox'[m0] = [[inbox[m0] EXCEPT !.token = TRUE] EXCEPT !.snapshot = TRUE]
      BY <3>1, <3>3
    <3> QED
      BY <3>2, <3>4, RowsAssumption
  <2> QED
    BY <1>3, <2>1, <2>2 DEF ConversationInv, InboxFits, Succeeded
<1> QED
  BY <1>3, <1>4, <1>5 DEF Kept

LEMMA CompleteKeeps ==
  ASSUME ConversationInv, TypeOK', NEW m0 \in GatewayMessages, NEW status \in {"SUCCEEDED", "UNCERTAIN"},
         CompleteGatewayMessage(m0, status)
  PROVE  Kept
<1>1. /\ UNCHANGED <<generation, sends, calls>>
      /\ inbox[m0] # Nil /\ inbox[m0].completion = Nil /\ inbox[m0].token
      /\ inbox' = [inbox EXCEPT ![m0].completion = status]
      /\ replies' = IF status = "SUCCEEDED" THEN replies \cup {m0} ELSE replies
      /\ dispatches' = [dispatches EXCEPT ![m0].status = status]
      /\ delegations' \subseteq delegations
  BY DEF CompleteGatewayMessage
<1>2. m0 \in Messages /\ dispatches[m0] # Nil /\ ~Succeeded(m0)
  BY <1>1 DEF ConversationInv, InboxFits, Messages
<1>3. /\ GenerationsGrow' /\ RepliesAreSuccesses' /\ DelegationsFit' /\ CallsFit'
      /\ \A c \in Conversations : UnresolvedMove(c)
      /\ dispatches'[m0] # Nil
      /\ \A m \in Messages \ {m0} : dispatches'[m] = dispatches[m]
  <2>1. UNCHANGED <<generation, calls>>
    BY <1>1
  <2> QED
    BY <1>1, <1>2, <2>1, ResultMoves
<1>4. SendsFit'
  BY <1>1, <1>3, GatewayLeavesSends
<1>5. InboxFits'
  <2>1. \A m \in GatewayMessages \ {m0} : inbox'[m] = inbox[m] /\ dispatches'[m] = dispatches[m]
    BY <1>1, <1>3 DEF ConversationInv, TypeOK, Messages
  <2>2. m0 \in DOMAIN inbox /\ inbox[m0] \in InboxRow
    BY <1>1 DEF ConversationInv, TypeOK
  <2>3. inbox'[m0] = [inbox[m0] EXCEPT !.completion = status]
    BY <1>1, <2>2
  <2>4. /\ inbox'[m0] \in InboxRow
        /\ inbox'[m0].completion = status /\ inbox'[m0].token = inbox[m0].token
    BY <2>2, <2>3 DEF InboxRow
  <2>5. status # Nil /\ inbox'[m0] # Nil
    BY <2>4, RowsAssumption
  <2> QED
    BY <1>3, <2>1, <2>4, <2>5 DEF ConversationInv, InboxFits, Succeeded
<1> QED
  BY <1>3, <1>4, <1>5 DEF Kept
LEMMA InvalidateKeeps ==
  ASSUME ConversationInv, TypeOK', InvalidateIntegrationGrants, UNCHANGED <<replies, sends, calls>>
  PROVE  Kept
<1>1. /\ \A m \in Messages : In[m] \in Conversations
      /\ \A c \in Conversations : generation[c] \in Nat
      /\ \A m \in Messages : dispatches[m] # Nil => dispatches[m] \in Dispatch
      /\ \A d \in delegations : d.request \in Messages
  BY Rows DEF ConversationInv
<1>2. \A c \in Conversations :
        generation'[c] = IF Bound(c) THEN generation[c] + 1 ELSE generation[c]
  BY DEF InvalidateIntegrationGrants
<1>3. \A c \in Conversations : Bound(c) => mode'[c] = ModeAfter(c)
  BY DEF InvalidateIntegrationGrants
\* A dispatch under way becomes uncertain, and nothing else of it changes.
<1>4. ASSUME NEW m \in Messages
      PROVE  /\ dispatches'[m] = Nil <=> dispatches[m] = Nil
             /\ dispatches[m] # Nil => dispatches'[m].generation = dispatches[m].generation
             /\ Succeeded(m)' <=> Succeeded(m)
  <2>1. CASE dispatches[m] # Nil /\ dispatches[m].status = "IN_FLIGHT"
    <3>1. [dispatches[m] EXCEPT !.status = "UNCERTAIN"] \in Dispatch
      BY <1>1, <2>1 DEF Dispatch
    <3>2. dispatches'[m] = dispatches[m] \/ dispatches'[m] = [dispatches[m] EXCEPT !.status = "UNCERTAIN"]
      BY DEF InvalidateIntegrationGrants
    <3>3. dispatches'[m] # Nil
      BY <2>1, <3>1, <3>2, RowsAssumption
    <3>4. /\ dispatches'[m].generation = dispatches[m].generation
          /\ dispatches'[m].status # "SUCCEEDED"
      BY <1>1, <2>1, <3>2 DEF Dispatch
    <3> QED
      BY <2>1, <3>3, <3>4 DEF Succeeded
  <2>2. CASE ~(dispatches[m] # Nil /\ dispatches[m].status = "IN_FLIGHT")
    <3>1. dispatches'[m] = dispatches[m]
      BY <2>2 DEF InvalidateIntegrationGrants
    <3> QED
      BY <3>1 DEF Succeeded
  <2> QED
    BY <2>1, <2>2
<1>5. \A m \in Messages : m \notin GatewayMessages \/ inbox[m] = Nil => dispatches'[m] = dispatches[m]
  BY DEF InvalidateIntegrationGrants
<1>6. ASSUME NEW m \in Messages, dispatches[m] # Nil
      PROVE  /\ dispatches[m].generation \in Nat
             /\ dispatches[m].generation <= generation[In[m]]
             /\ generation[In[m]] <= generation'[In[m]]
  <2>1. dispatches[m].generation \in Nat
    BY <1>1, <1>6 DEF Dispatch, Generations
  <2> QED
    BY <1>1, <1>2, <1>6, <2>1 DEF ConversationInv, GenerationsGrow
<1>7. GenerationsGrow'
  <2>1. ASSUME NEW m \in Messages, dispatches'[m] # Nil
        PROVE  dispatches'[m].generation <= generation'[In[m]]
    <3>1. /\ dispatches'[m].generation = dispatches[m].generation
          /\ dispatches[m].generation \in Nat
          /\ dispatches[m].generation <= generation[In[m]]
          /\ generation[In[m]] <= generation'[In[m]]
      BY <1>4, <1>6, <2>1
    <3>2. generation[In[m]] \in Nat /\ generation'[In[m]] \in Nat
      BY <1>1, <1>2
    <3> QED
      BY <3>1, <3>2
  <2> QED
    BY <2>1 DEF GenerationsGrow
<1>8. RepliesAreSuccesses' /\ CallsFit'
  BY <1>4 DEF ConversationInv, RepliesAreSuccesses, CallsFit
<1>9. DelegationsFit'
  <2>1. delegations' \subseteq delegations
    BY DEF InvalidateIntegrationGrants
  <2> QED
    BY <1>1, <1>4, <2>1 DEF ConversationInv, DelegationsFit
<1>10. SendsFit'
  <2>1. \A s \in Senders : Issued(s) => dispatches'[sends[s].message] = dispatches[sends[s].message]
    BY <1>5, Rows DEF ConversationInv, Issued
  <2> QED
    BY <2>1 DEF ConversationInv, SendsFit, Issued
<1>11. InboxFits'
  <2>1. ASSUME NEW m \in GatewayMessages
        PROVE  /\ inbox'[m] = Nil <=> inbox[m] = Nil
               /\ inbox[m] # Nil => ~inbox'[m].token /\ inbox'[m].completion = inbox[m].completion
    <3>1. CASE inbox[m] = Nil
      BY <3>1 DEF InvalidateIntegrationGrants
    <3>2. CASE inbox[m] # Nil
      <4>1. inbox[m] \in InboxRow
        BY <3>2 DEF ConversationInv, TypeOK
      <4>2. inbox'[m] = [inbox[m] EXCEPT !.token = FALSE, !.snapshot = FALSE]
        BY <3>2 DEF InvalidateIntegrationGrants
      <4>3. /\ inbox'[m] \in InboxRow
            /\ ~inbox'[m].token /\ inbox'[m].completion = inbox[m].completion
        BY <4>1, <4>2 DEF InboxRow
      <4> QED
        BY <3>2, <4>3, RowsAssumption
    <3> QED
      BY <3>1, <3>2
  <2>2. ASSUME NEW m \in GatewayMessages
        PROVE  /\ inbox'[m] = Nil => dispatches'[m] = Nil
               /\ inbox'[m] # Nil => /\ inbox'[m].token => dispatches'[m] # Nil
                                     /\ inbox'[m].completion = Nil => ~Succeeded(m)'
    BY <1>4, <2>1 DEF ConversationInv, InboxFits, Messages
  <2> QED
    BY <2>2 DEF InboxFits
<1>12. ASSUME NEW c \in Conversations
       PROVE  UnresolvedMove(c)
  <2>1. CASE Bound(c)
    <3>1. \A m \in Messages : dispatches'[m] # Nil /\ In[m] = c => dispatches'[m].generation # generation'[c]
      BY <1>1, <1>2, <1>4, <1>6, <2>1
    <3>2. Unresolved(c)' = {}
      BY <3>1 DEF Unresolved
    <3>3. mode'[c] = "HUMAN" \/ Unresolved(c) = {}
      BY <1>3, <2>1 DEF ModeAfter
    <3> QED
      BY <3>2, <3>3 DEF UnresolvedMove
  <2>2. CASE ~Bound(c)
    <3>1. \A m \in Messages : In[m] = c => dispatches'[m] = dispatches[m]
      BY <1>5, <2>2 DEF Bound
    <3>2. generation'[c] = generation[c]
      BY <1>2, <2>2
    <3>3. Unresolved(c)' = Unresolved(c)
      BY <3>1, <3>2 DEF Unresolved
    <3> QED
      BY <3>3 DEF UnresolvedMove
  <2> QED
    BY <2>1, <2>2
<1> QED
  BY <1>7, <1>8, <1>9, <1>10, <1>11, <1>12 DEF Kept

LEMMA GatewayKeeps ==
  ASSUME ConversationInv, TypeOK', Gateway
  PROVE  Kept
<1>1. ASSUME NEW c \in Conversations, CreateGatewayBinding(c) \/ RevokeGatewayBinding(c)
      PROVE  Kept
  <2>1. UNCHANGED <<generation, replies, dispatches, delegations, sends, calls, inbox>>
    BY <1>1 DEF CreateGatewayBinding, RevokeGatewayBinding, conversation, requests
  <2> QED
    BY <2>1, QuietKeeps
<1>2. ASSUME NEW action \in {"pause", "resume", "revoke", "rotate"}, UpdateIntegration(action)
      PROVE  Kept
  <2>1. InvalidateIntegrationGrants /\ UNCHANGED <<replies, sends, calls>>
    BY <1>2 DEF UpdateIntegration
  <2> QED
    BY <2>1, InvalidateKeeps
<1>3. CASE RevokeGatewayIntegration
  <2>1. InvalidateIntegrationGrants /\ UNCHANGED <<replies, sends, calls>>
    BY <1>3 DEF RevokeGatewayIntegration
  <2> QED
    BY <2>1, InvalidateKeeps
<1>4. CASE IntegrationExpires
  <2>1. UNCHANGED <<generation, replies, dispatches, delegations, sends, calls, inbox>>
    BY <1>4 DEF IntegrationExpires, conversation, requests
  <2> QED
    BY <2>1, QuietKeeps
<1> QED
  BY <1>1, <1>2, <1>3, <1>4, ReceiveKeeps, GrantKeeps, CompleteKeeps DEF Gateway

(***************************************************************************)
(* The invariant.                                                          *)
(***************************************************************************)
LEMMA StepKept ==
  ASSUME ConversationInv, [Next]_vars
  PROVE  TypeOK' /\ Kept
<1>1. TypeOK'
  BY TypeStep DEF ConversationInv
<1>2. CASE UNCHANGED vars
  <2>1. UNCHANGED <<generation, replies, dispatches, delegations, sends, calls, inbox>>
    BY <1>2 DEF vars, conversation, requests, gateway
  <2> QED
    BY <1>1, <2>1, QuietKeeps
<1>3. CASE Person
  BY <1>1, <1>3, HandoffKeeps DEF Person
<1>4. CASE RestoreTenant
  <2>1. UNCHANGED <<generation, replies, dispatches, delegations, sends, calls, inbox>>
    BY <1>4 DEF RestoreTenant, conversation, requests, gateway
  <2> QED
    BY <1>1, <2>1, QuietKeeps
<1> QED
  BY <1>1, <1>2, <1>3, <1>4, SuspendKeeps, AgentKeeps, WebKeeps, GatewayKeeps DEF Next, Platform

LEMMA ConversationStep ==
  ASSUME ConversationInv, [Next]_vars
  PROVE  ConversationInv'
<1>1. TypeOK' /\ Kept
  BY StepKept
<1>2. AtMostOne'
  <2>1. ASSUME NEW c \in Conversations, NEW m \in Unresolved(c)', NEW n \in Unresolved(c)'
        PROVE  m = n
    <3>1. \A k, l \in Unresolved(c) : k = l
      BY DEF ConversationInv, AtMostOne
    <3>2. UnresolvedMove(c)
      BY <1>1 DEF Kept
    <3> QED
      BY <2>1, <3>1, <3>2 DEF UnresolvedMove
  <2> QED
    BY <2>1 DEF AtMostOne
<1> QED
  BY <1>1, <1>2 DEF ConversationInv, Kept

LEMMA ConversationInit ==
  ASSUME Init
  PROVE  ConversationInv
<1>1. TypeOK
  BY ConversationAssumption DEF Init, TypeOK, Generations, Integration
<1>2. \A m \in Messages : dispatches[m] = Nil
  BY DEF Init
<1> QED
  BY <1>1, <1>2 DEF Init, ConversationInv, GenerationsGrow, AtMostOne, Unresolved, RepliesAreSuccesses,
     Succeeded, DelegationsFit, SendsFit, Issued, CallsFit, InboxFits, Messages

\* The inductive invariant holds of every behaviour.
THEOREM ConversationsAreCorrect == Spec => []ConversationInv
<1>1. Init => ConversationInv
  BY ConversationInit
<1>2. ConversationInv /\ [Next]_vars => ConversationInv'
  BY ConversationStep
<1> QED
  BY <1>1, <1>2, PTL DEF Spec

\* sendAssistantMessage, grantGatewayMessage, completeGatewayMessage: a generation of
\* a conversation has at most one request without a known result, PMS calls the agent
\* once at most for a message, and a reply is a dispatch that succeeded.
THEOREM AgentsRunOneAtATime == Spec => []OneAtATime
<1>1. ConversationInv => OneAtATime
  BY DEF ConversationInv, OneAtATime, AtMostOne, RepliesAreSuccesses, Succeeded, CallsFit
<1> QED
  BY <1>1, ConversationsAreCorrect, PTL

\* A step that leaves the agent in charge leaves its unresolved request, answers it, is
\* a person who gives the conversation back, or the suspension of the tenant.
LEMMA UnresolvedStep ==
  ASSUME ConversationInv, [Next]_vars, NEW c \in Conversations,
         Unresolved(c) # {}, mode[c] = "AGENT", mode'[c] = "AGENT"
  PROVE  \/ Unresolved(c)' = Unresolved(c)
         \/ Unresolved(c) \subseteq replies'
         \/ HandoffConversation(c, "AGENT")
         \/ SuspendTenant
<1>1. UnresolvedMove(c)
  BY StepKept DEF Kept
<1>2. \A m, n \in Unresolved(c) : m = n
  BY DEF ConversationInv, AtMostOne
<1>3. ASSUME NEW m \in Messages, m \in replies', Unresolved(c)' = Unresolved(c) \ {m}
      PROVE  Unresolved(c)' = Unresolved(c) \/ Unresolved(c) \subseteq replies'
  <2>1. CASE m \in Unresolved(c)
    BY <1>2, <1>3, <2>1
  <2>2. CASE m \notin Unresolved(c)
    BY <1>3, <2>2
  <2> QED
    BY <2>1, <2>2
<1> QED
  BY <1>1, <1>3 DEF UnresolvedMove

\* docs/tennis/agent-access-management.md:15: while the agent stays in charge, an unknown
\* result is cleared only by its reply, by a person who gives the conversation back, or
\* by the suspension of the tenant.
THEOREM UnknownResultsStay == Spec => UnresolvedIsNotForgotten
<1>1. ASSUME ConversationInv, [Next]_vars
      PROVE  [\A c \in Conversations :
                Unresolved(c) # {} /\ mode[c] = "AGENT" /\ mode'[c] = "AGENT" =>
                  \/ Unresolved(c)' = Unresolved(c)
                  \/ Unresolved(c) \subseteq replies'
                  \/ HandoffConversation(c, "AGENT")
                  \/ SuspendTenant]_vars
  BY <1>1, UnresolvedStep
<1> QED
  BY <1>1, ConversationsAreCorrect, PTL DEF Spec, UnresolvedIsNotForgotten

\* A command is committed only by CommitCommand, for the request of its delegation.
LEMMA OnlyCommitsCount ==
  ASSUME ConversationInv, [Next]_vars, NEW m \in Messages, commands'[m] # commands[m]
  PROVE  \E d \in acting : d.request = m /\ AssertDelegation(d)
<1>1. ASSUME NEW d \in acting, CommitCommand(d)
      PROVE  \E e \in acting : e.request = m /\ AssertDelegation(e)
  <2>1. commands' = [commands EXCEPT ![d.request] = commands[d.request] + 1] /\ AssertDelegation(d)
    BY <1>1 DEF CommitCommand
  <2>2. d.request = m
    BY <2>1 DEF ConversationInv, TypeOK
  <2> QED
    BY <2>1, <2>2
<1>2. CASE UNCHANGED vars
  BY <1>2 DEF vars, business
<1>3. CASE Person \/ Platform
  BY <1>3 DEF Person, Platform, HandoffConversation, SuspendTenant, RestoreTenant, business
<1>4. CASE Agent
  BY <1>1, <1>4 DEF Agent, DelegationExpires, ResolveDelegation, EndCommand, business
<1>5. CASE Web
  BY <1>5 DEF Web, StoreMessage, IssueForSend, RecheckBeforeDispatch, CallAgent, AgentFails, StoreReply,
     MarkUncertain, DeleteDelegation, Crash, business
<1>6. CASE Gateway
  BY <1>6 DEF Gateway, CreateGatewayBinding, RevokeGatewayBinding, ReceiveGatewayMessage,
     GrantGatewayMessage, CompleteGatewayMessage, UpdateIntegration, RevokeGatewayIntegration,
     IntegrationExpires, business
<1> QED
  BY <1>2, <1>3, <1>4, <1>5, <1>6 DEF Next

\* assertDelegation inside the transaction: a command is committed only under the
\* request that was dispatched in the present generation, while the agent has the
\* conversation and a gateway's credential and binding are in use.
THEOREM CommandsFollowTheRequest == Spec => CommandsAreCurrent
<1>1. ASSUME ConversationInv, [Next]_vars, NEW m \in Messages, commands'[m] # commands[m]
      PROVE  /\ dispatches[m] # Nil /\ dispatches[m].generation = generation[In[m]]
             /\ mode[In[m]] = "AGENT"
             /\ m \in GatewayMessages => Usable(In[m])
  <2>1. PICK d \in acting : d.request = m /\ AssertDelegation(d)
    BY <1>1, OnlyCommitsCount
  <2> QED
    BY <1>1, <2>1 DEF ConversationInv, DelegationsFit, AssertDelegation
<1>2. ASSUME ConversationInv, [Next]_vars
      PROVE  [\A m \in Messages : commands'[m] # commands[m] =>
                /\ dispatches[m] # Nil /\ dispatches[m].generation = generation[In[m]]
                /\ mode[In[m]] = "AGENT"
                /\ m \in GatewayMessages => Usable(In[m])]_vars
  BY <1>1, <1>2
<1> QED
  BY <1>2, ConversationsAreCorrect, PTL DEF Spec, CommandsAreCurrent
=============================================================================
