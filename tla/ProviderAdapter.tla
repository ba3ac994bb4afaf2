------------------------------ MODULE ProviderAdapter ------------------------------
(* The provider-neutral adapter behind cited explanations: one session object shared   *)
(* by every HTTP request of the process.  execute() first prepares the request and the  *)
(* offline explanation (awaits), then admits, charges and calls the transport in one     *)
(* synchronous segment; a timer races the answer, a timed-out call is only told to stop  *)
(* and may answer later, one retry is allowed, and an answer is validated after a        *)
(* further await before it is accepted.  Every other execution runs in between.          *)
(*                                                                                       *)
(* The transport is the environment: it may answer, fail, stay silent for ever, answer    *)
(* for another request, ignore the abort signal, and change an answer it handed over.     *)
(* Text, schema, citation, usage and authority checks of an answer are its field `sound`.  *)
EXTENDS Integers, FiniteSets

CONSTANTS Executions,   \* calls of execute()
          RequestIds,   \* request ids; a client may send one twice (x-request-id)
          Packs,        \* evidence packs
          InputUnits,   \* Packs -> token upper bound of the pack
          MaxInput, MaxOutput, Budget, MaxRetries   \* ProviderAdapterLimits

\* adapterLimits() admits no other value.
MaxConcurrentRequests == 1

ASSUME LimitsAssumption ==
    /\ InputUnits \in [Packs -> Nat]
    /\ MaxInput \in Nat /\ MaxOutput \in Nat /\ Budget \in Nat /\ MaxRetries \in Nat

VARIABLES mode,       \* DISABLED or MOCK_VALIDATION, fixed when the session is created
          active,     \* activeRequests
          consumed,   \* consumedSessionTokenUnits
          pc,         \* where each execution stands
          request,    \* what each execution was asked
          attempts,   \* calls made by each execution
          call,       \* the life of each transport call
          outcome,    \* what Promise.race settled with, for the current call
          answer,     \* the object the transport handed over, which it can still reach
          checked,    \* the adapter's own copy of it
          account,    \* budgetBefore, chargedSessionTokenUnits, budgetAfter
          result      \* how the execution was completed

vars == <<mode, active, consumed, pc, request, attempts, call, outcome, answer,
          checked, account, result>>

Requests == [id : RequestIds, pack : Packs]
Answers == [id : RequestIds, pack : Packs, sound : BOOLEAN]
Tries == 1 .. MaxRetries + 1
Accepted == "MOCK_ADVISORY_ACCEPTED"
InFlight == {"calling", "validating", "checking"}

AdapterInit ==
    /\ mode \in {"DISABLED", "MOCK_VALIDATION"}
    /\ active = 0 /\ consumed = 0
    /\ pc = [e \in Executions |-> "idle"]
    /\ request \in [Executions -> Requests]
    /\ attempts = [e \in Executions |-> 0]
    /\ call = [e \in Executions |-> [n \in Tries |-> "none"]]
    /\ outcome = [e \in Executions |-> "none"]
    /\ answer = [e \in Executions |-> [id |-> request[e].id, pack |-> request[e].pack,
                                       sound |-> FALSE]]
    /\ checked = answer
    /\ account = [e \in Executions |-> [before |-> 0, charged |-> 0, after |-> 0]]
    /\ result = [e \in Executions |-> "none"]

\* complete(): the result, and the budget as it stands now.
Complete(e, why, charged) ==
    /\ pc' = [pc EXCEPT ![e] = "settled"]
    /\ result' = [result EXCEPT ![e] = why]
    /\ account' = [account EXCEPT ![e] = [before |-> account[e].before,
                                          charged |-> charged, after |-> consumed]]

\* complete() inside the try block, with its `finally`.
Finish(e, why) ==
    /\ Complete(e, why, account[e].charged)
    /\ active' = active - 1
    /\ UNCHANGED consumed

\* execute() is called and awaits the request digest and the offline explanation.
Execute(e) ==
    /\ pc[e] = "idle"
    /\ pc' = [pc EXCEPT ![e] = "preparing"]
    /\ UNCHANGED <<mode, active, consumed, request, attempts, call, outcome, answer,
                   checked, account, result>>

\* A pack or request id that fails its invariant throws before anything is counted.
InputInvalid(e) ==
    /\ pc[e] = "preparing"
    /\ pc' = [pc EXCEPT ![e] = "thrown"]
    /\ UNCHANGED <<mode, active, consumed, request, attempts, call, outcome, answer,
                   checked, account, result>>

Reservation(e) == InputUnits[request[e].pack] + MaxOutput
\* Mutant: only the input is reserved.
Affordable_InputOnly(e) == consumed + InputUnits[request[e].pack] <= Budget
Affordable(e) == consumed + Reservation(e) <= Budget

\* The body of the retry loop up to its await: reserve, charge, call the transport.
Reserve(e, before, charged) ==
    /\ consumed' = consumed + Reservation(e)
    /\ account' = [account EXCEPT ![e] = [before |-> before,
                                          charged |-> charged + Reservation(e), after |-> 0]]
    /\ attempts' = [attempts EXCEPT ![e] = @ + 1]
    /\ call' = [call EXCEPT ![e][attempts[e] + 1] = "running"]
    /\ outcome' = [outcome EXCEPT ![e] = "none"]
    /\ pc' = [pc EXCEPT ![e] = "calling"]

RefusalOf(e) ==
    CASE mode = "DISABLED"                        -> "PROVIDER_DISABLED"
      [] mode # "DISABLED" /\ active >= MaxConcurrentRequests
                                                  -> "PROVIDER_CONCURRENCY_LIMIT"
      [] mode # "DISABLED" /\ active < MaxConcurrentRequests
         /\ InputUnits[request[e].pack] > MaxInput -> "PROVIDER_INPUT_LIMIT_EXCEEDED"
      [] OTHER                                    -> "none"

Turned(e, why, before) ==
    /\ pc' = [pc EXCEPT ![e] = "settled"]
    /\ result' = [result EXCEPT ![e] = why]
    /\ account' = [account EXCEPT ![e] = [before |-> before, charged |-> 0,
                                          after |-> consumed]]
    /\ UNCHANGED <<active, consumed, attempts, call, outcome>>

\* From budgetBefore to the first call of the transport nothing is awaited.
Admit(e) ==
    /\ pc[e] = "preparing"
    /\ \/ /\ RefusalOf(e) # "none"
          /\ Turned(e, RefusalOf(e), consumed)
       \/ /\ RefusalOf(e) = "none"
          /\ ~ Affordable(e)
          /\ Turned(e, "PROVIDER_SESSION_BUDGET_EXCEEDED", consumed)
       \/ /\ RefusalOf(e) = "none"
          /\ Affordable(e)
          /\ active' = active + 1
          /\ Reserve(e, consumed, 0)
          /\ UNCHANGED result
    /\ UNCHANGED <<mode, request, answer, checked>>

\* The transport answers.  The answer of a call that was told to stop is dropped.
Answer(e, n, a) ==
    /\ \/ /\ call[e][n] = "running"
          /\ call' = [call EXCEPT ![e][n] = "answered"]
          /\ outcome' = [outcome EXCEPT ![e] = "RESPONSE"]
          /\ answer' = [answer EXCEPT ![e] = a]
       \/ /\ call[e][n] = "aborted"
          /\ call' = [call EXCEPT ![e][n] = "late"]
          /\ UNCHANGED <<outcome, answer>>
    /\ UNCHANGED <<mode, active, consumed, pc, request, attempts, checked, account, result>>

FailCall(e, n) ==
    /\ call[e][n] = "running"
    /\ call' = [call EXCEPT ![e][n] = "failed"]
    /\ outcome' = [outcome EXCEPT ![e] = "FAILED"]
    /\ UNCHANGED <<mode, active, consumed, pc, request, attempts, answer, checked,
                   account, result>>

\* The transport changes an answer the adapter has not copied yet.
ChangeAnswer(e, a) ==
    /\ pc[e] \in {"validating", "checking"}
    /\ answer' = [answer EXCEPT ![e] = a]
    /\ UNCHANGED <<mode, active, consumed, pc, request, attempts, call, outcome, checked,
                   account, result>>

\* Mutant: the signal is aborted and the answer is still awaited.
Timeout_OnlyAborts(e) ==
    /\ pc[e] = "calling" /\ outcome[e] = "none"
    /\ call' = [call EXCEPT ![e][attempts[e]] = "aborted"]
    /\ UNCHANGED <<mode, active, consumed, pc, request, attempts, outcome, answer, checked,
                   account, result>>

\* The timer of the current call: abort the signal, then resolve the race.
Timeout(e) ==
    /\ pc[e] = "calling" /\ outcome[e] = "none"
    /\ call' = [call EXCEPT ![e][attempts[e]] = "aborted"]
    /\ outcome' = [outcome EXCEPT ![e] = "TIMEOUT"]
    /\ UNCHANGED <<mode, active, consumed, pc, request, attempts, answer, checked,
                   account, result>>

LastAttempt(e) == attempts[e] = MaxRetries + 1

\* The await of the race returns after the transport failed or the timer fired.
Retry(e) ==
    /\ pc[e] = "calling" /\ outcome[e] \in {"TIMEOUT", "FAILED"}
    /\ \/ /\ LastAttempt(e)
          /\ Finish(e, IF outcome[e] = "TIMEOUT" THEN "PROVIDER_TIMEOUT"
                                                 ELSE "PROVIDER_TRANSPORT_FAILED")
          /\ UNCHANGED <<attempts, call, outcome>>
       \/ /\ ~ LastAttempt(e)
          /\ ~ Affordable(e)
          /\ Finish(e, "PROVIDER_SESSION_BUDGET_EXCEEDED")
          /\ UNCHANGED <<attempts, call, outcome>>
       \/ /\ ~ LastAttempt(e)
          /\ Affordable(e)
          /\ Reserve(e, account[e].before, account[e].charged)
          /\ UNCHANGED <<active, result>>
    /\ UNCHANGED <<mode, request, answer, checked>>

\* It returns with an answer; the request is first prepared again and compared.
Validate(e) ==
    /\ pc[e] = "calling" /\ outcome[e] = "RESPONSE"
    /\ pc' = [pc EXCEPT ![e] = "validating"]
    /\ UNCHANGED <<mode, active, consumed, request, attempts, call, outcome, answer,
                   checked, account, result>>

\* The answer is detached: everything below works on the canonical copy.
Detach(e) ==
    /\ pc[e] = "validating"
    /\ checked' = [checked EXCEPT ![e] = answer[e]]
    /\ pc' = [pc EXCEPT ![e] = "checking"]
    /\ UNCHANGED <<mode, active, consumed, request, attempts, call, outcome, answer,
                   account, result>>

\* The request digest covers the request id and the pack.
Verdict(e) ==
    CASE checked[e].id # request[e].id     -> "PROVIDER_REQUEST_ID_MISMATCH"
      [] checked[e].id = request[e].id /\ checked[e].pack # request[e].pack
                                           -> "PROVIDER_REQUEST_ID_MISMATCH"
      [] checked[e].id = request[e].id /\ checked[e].pack = request[e].pack
         /\ ~ checked[e].sound             -> "PROVIDER_RESPONSE_SCHEMA_INVALID"
      [] OTHER                             -> Accepted

\* Mutant: the object that was handed over is returned, not the copy that was checked.
Check_ReturnsLive(e) ==
    /\ pc[e] = "checking"
    /\ Finish(e, Verdict(e))
    /\ checked' = [checked EXCEPT ![e] = answer[e]]
    /\ UNCHANGED <<mode, request, attempts, call, outcome, answer>>

\* Mutant: an answer that fails its checks is asked for again.
Check_AsksAgain(e) ==
    /\ pc[e] = "checking"
    /\ IF Verdict(e) # Accepted /\ ~ LastAttempt(e) /\ Affordable(e)
       THEN /\ Reserve(e, account[e].before, account[e].charged)
            /\ UNCHANGED <<active, result>>
       ELSE Finish(e, Verdict(e)) /\ UNCHANGED <<attempts, call, outcome>>
    /\ UNCHANGED <<mode, request, answer, checked>>

Check(e) ==
    /\ pc[e] = "checking"
    /\ Finish(e, Verdict(e))
    /\ UNCHANGED <<mode, request, attempts, call, outcome, answer, checked>>

AdapterStep(e) ==
    \/ Admit(e) \/ Timeout(e) \/ Retry(e) \/ Validate(e) \/ Detach(e) \/ Check(e)

\* An answer names some request the transport has been given, this one or another.
AnswersTo(f) == {[id |-> request[f].id, pack |-> request[f].pack, sound |-> s] :
                     s \in BOOLEAN}

Transport(e) ==
    \/ \E n \in Tries : FailCall(e, n)
    \/ \E n \in Tries, f \in Executions : \E a \in AnswersTo(f) : Answer(e, n, a)
    \/ \E f \in Executions : \E a \in AnswersTo(f) : ChangeAnswer(e, a)

AdapterNext ==
    \E e \in Executions :
        Execute(e) \/ InputInvalid(e) \/ AdapterStep(e) \/ Transport(e)

AdapterSpec == AdapterInit /\ [][AdapterNext]_vars

\* Timers fire and promises that are settled are continued; nothing is assumed of the
\* transport, nor that anyone calls execute().
FairAdapterSpec == AdapterSpec /\ \A e \in Executions : WF_vars(AdapterStep(e))

---------------------------------------------------------------------------------------
Results == {"none", Accepted, "PROVIDER_DISABLED", "PROVIDER_CONCURRENCY_LIMIT",
            "PROVIDER_INPUT_LIMIT_EXCEEDED", "PROVIDER_SESSION_BUDGET_EXCEEDED",
            "PROVIDER_TIMEOUT", "PROVIDER_TRANSPORT_FAILED",
            "PROVIDER_REQUEST_ID_MISMATCH", "PROVIDER_RESPONSE_SCHEMA_INVALID"}

AccountType == [before : Nat, charged : Nat, after : Nat]

AdapterTypeOK ==
    /\ mode \in {"DISABLED", "MOCK_VALIDATION"}
    /\ active \in Nat /\ consumed \in Nat
    /\ pc \in [Executions -> {"idle", "preparing", "thrown", "settled"} \cup InFlight]
    /\ request \in [Executions -> Requests]
    /\ attempts \in [Executions -> 0 .. MaxRetries + 1]
    /\ call \in [Executions -> [Tries ->
           {"none", "running", "aborted", "answered", "failed", "late"}]]
    /\ outcome \in [Executions -> {"none", "RESPONSE", "FAILED", "TIMEOUT"}]
    /\ answer \in [Executions -> Answers] /\ checked \in [Executions -> Answers]
    /\ account \in [Executions -> AccountType]
    /\ result \in [Executions -> Results]

(* The session's budget is never overspent, and the metrics returned beside an answer    *)
(* explain it: what the session consumed between an execution's two snapshots is that     *)
(* execution's own charge, although others are admitted, refused and settled in between    *)
(* and a charge is never given back (provider-adapter.ts:898, 948-959; TESTING.md: the      *)
(* cumulative session budget fails closed before unsafe continuation).                      *)
BudgetBalances ==
    /\ consumed <= Budget
    /\ \A e \in Executions :
         /\ pc[e] = "settled" => account[e].after = account[e].before + account[e].charged
         /\ pc[e] \in InFlight => consumed = account[e].before + account[e].charged

(* One adapter session permits one concurrent request (DOMAIN_MODEL.md:335): however the   *)
(* executions interleave, at most one is between its admission and its completion, it is    *)
(* the one activeRequests counts, and it alone has a transport call that was not told to      *)
(* stop, even while calls that timed out are still running.                                   *)
OneRequestAtATime ==
    /\ active = Cardinality({e \in Executions : pc[e] \in InFlight})
    /\ active <= MaxConcurrentRequests
    /\ \A e, f \in Executions, n, m \in Tries :
         call[e][n] = "running" /\ call[f][m] = "running" => e = f /\ n = m

(* However the executions of a session interleave, its shared counters stay true: what was   *)
(* charged explains what was consumed, and the slot is held by the one that runs.              *)
SessionIsAccounted == BudgetBalances /\ OneRequestAtATime

(* An accepted advisory is sound and answers the request it is returned for, though the     *)
(* transport may answer late, answer another request whose client sent the same request id,   *)
(* or change the object after handing it over (validateProviderAdvisoryResponse detaches       *)
(* the answer before it looks at it, and returns what it looked at).                            *)
AdvisoryIsForItsRequest ==
    \A e \in Executions : result[e] = Accepted =>
        /\ checked[e].sound
        /\ checked[e].id = request[e].id /\ checked[e].pack = request[e].pack

(* Timeout/transport failures retry only within policy; schema/identity/citation failures    *)
(* never retry (README.md:82): a second call follows a call that timed out or failed, and an    *)
(* answer that was read is the last thing its execution asks the transport for.                  *)
RetriesFollowFailures ==
    \A e \in Executions, n \in Tries : n + 1 \in Tries /\ call[e][n + 1] # "none" =>
        call[e][n] \in {"aborted", "late", "failed"}

(* Every execution that was called settles, whatever the transport does: silence is cut off   *)
(* by the timer, the retry ends, and no refusal waits for the slot (invokeTransport races a     *)
(* timer it always clears).                                                                       *)
EveryExecutionSettles ==
    \A e \in Executions : pc[e] = "preparing" ~> pc[e] \in {"settled", "thrown"}
====
