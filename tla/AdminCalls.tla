----------------------------- MODULE AdminCalls -----------------------------
(***************************************************************************)
(* The calls of the admin clients that consist of one goroutine: requests  *)
(* to a server, then a value on one of two unbuffered channels, of which   *)
(* the await command receives one value. Each operation is given by the    *)
(* steps of its goroutine.                                                 *)
(***************************************************************************)
EXTENDS Naturals, Sequences

Request(ok, err)    == [do |-> "request", message |-> "", ok |-> ok, err |-> err]
Close(ok, err)      == [do |-> "close", message |-> "", ok |-> ok, err |-> err]
Send(message, next) == [do |-> "send", message |-> message, ok |-> next, err |-> next]
Return == 0

\* A request, its error or its result, return.
OneRequest == <<Request(3, 2), Send("error", Return), Send("done", Return)>>

-----------------------------------------------------------------------------
(* kadmin                                                                  *)

\* A bug: the success is reported before the error is looked at.
DoneFirst == <<Request(3, 3), Send("error", Return), Send("done", 2)>>

\* No return after the error: the goroutine goes on to report the success.
CreateTopic == <<Request(3, 2), Send("error", 3), Send("done", Return)>>
DeleteTopic == <<Request(3, 2), Send("error", 3), Send("done", Return)>>

DeleteCGroup  == OneRequest
PublishRecord == OneRequest

\* The groups, then their members.
ListCGroups == <<Request(2, 3), Request(4, 3),
                 Send("error", Return), Send("done", Return)>>

\* The error of closing the client again is only logged.
CheckConnectivity == OneRequest
GetClusterConfig  == OneRequest
GetBrokerConfig   == OneRequest

-----------------------------------------------------------------------------
(* sradmin                                                                 *)

DeleteSubject           == OneRequest
DeleteSchema            == OneRequest
CreateSchema            == OneRequest
GetLatestSchema         == OneRequest
GetSchemaById           == OneRequest
ListGlobalCompatibility == OneRequest
CheckSrConnection       == OneRequest

-----------------------------------------------------------------------------
(* kcadmin: every request is run by execReq, which reads the body after    *)
(* the request and closes it last. A body that cannot be closed is an      *)
(* error too, reported after what has been reported already.               *)

ExecReq == <<Request(2, 5), Request(3, 6),
             Send("done", 4), Close(Return, 5),
             Send("error", Return), Send("error", 4)>>

ListConnectors  == ExecReq
PauseConnector  == ExecReq
ResumeConnector == ExecReq
DeleteConnector == ExecReq
ListVersion     == ExecReq

\* The values go to a goroutine that passes the first of them on.
CheckKcConnection == ExecReq

-----------------------------------------------------------------------------
Program ==
  [CreateTopic |-> CreateTopic, DeleteTopic |-> DeleteTopic,
   DeleteCGroup |-> DeleteCGroup, PublishRecord |-> PublishRecord,
   ListCGroups |-> ListCGroups, CheckConnectivity |-> CheckConnectivity,
   GetClusterConfig |-> GetClusterConfig, GetBrokerConfig |-> GetBrokerConfig,
   DeleteSubject |-> DeleteSubject, DeleteSchema |-> DeleteSchema,
   CreateSchema |-> CreateSchema, GetLatestSchema |-> GetLatestSchema,
   GetSchemaById |-> GetSchemaById,
   ListGlobalCompatibility |-> ListGlobalCompatibility,
   CheckSrConnection |-> CheckSrConnection,
   ListConnectors |-> ListConnectors, PauseConnector |-> PauseConnector,
   ResumeConnector |-> ResumeConnector, DeleteConnector |-> DeleteConnector,
   ListVersion |-> ListVersion, CheckKcConnection |-> CheckKcConnection]

Operations == DOMAIN Program
Relayed    == {"CheckKcConnection"}

VARIABLES
  op,     \* the operation called, "none" before
  pc,     \* the step its goroutine is at
  relay,  \* the value the goroutine in between holds
  failed, \* history: a request the call depends on has failed
  answer  \* the message AwaitCompletion returned

vars == <<op, pc, relay, failed, answer>>

Init == /\ op = "none" /\ pc = Return /\ relay = "none"
        /\ failed = FALSE /\ answer = "none"

Call(o) ==
  /\ op = "none"
  /\ op' = o /\ pc' = 1
  /\ UNCHANGED <<relay, failed, answer>>

Step == Program[op][pc]
AtStep(what) == op # "none" /\ pc # Return /\ Step.do = what

RequestSucceeds ==
  /\ AtStep("request")
  /\ pc' = Step.ok
  /\ UNCHANGED <<op, relay, failed, answer>>

RequestFails ==
  /\ AtStep("request")
  /\ pc' = Step.err
  /\ failed' = TRUE
  /\ UNCHANGED <<op, relay, answer>>

CloseBody ==
  /\ AtStep("close")
  /\ pc' \in {Step.ok, Step.err}
  /\ UNCHANGED <<op, relay, failed, answer>>

\* A send blocks for ever when the one value that is received has been.
Report ==
  /\ AtStep("send")
  /\ IF op \in Relayed
     THEN relay = "none" /\ relay' = Step.message /\ UNCHANGED answer
     ELSE answer = "none" /\ answer' = Step.message /\ UNCHANGED relay
  /\ pc' = Step.ok
  /\ UNCHANGED <<op, failed>>

PassOn ==
  /\ relay # "none" /\ answer = "none"
  /\ answer' = relay
  /\ UNCHANGED <<op, pc, relay, failed>>

Goroutine == RequestSucceeds \/ RequestFails \/ CloseBody \/ Report

Next == (\E o \in Operations : Call(o)) \/ Goroutine \/ PassOn

Spec == Init /\ [][Next]_vars

Fairness == WF_vars(Goroutine) /\ WF_vars(PassOn)

TypeOK ==
  /\ op \in Operations \union {"none"}
  /\ pc \in 0 .. 6
  /\ relay \in {"none", "error", "done"}
  /\ failed \in BOOLEAN
  /\ answer \in {"none", "error", "done"}

\* Whatever a goroutine goes on to do after its first report, the page that
\* called is answered, once, and told the truth about its request.
Contract == INSTANCE AdminCall WITH called <- op # "none"
=============================================================================
