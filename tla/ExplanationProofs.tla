-------------------------- MODULE ExplanationProofs --------------------------
(***************************************************************************)
(* Proofs about explanations: the session of the provider adapter, for any *)
(* executions and limits; and of what an assessment is made of: the        *)
(* comparison of claims, the cited explanations and the impact analysis,   *)
(* for any claims, questions, Twins and requirements.                      *)
(***************************************************************************)
EXTENDS ProviderAdapter, CitedExplanation, FiniteSetTheorems, SequenceTheorems,
        WellFoundedInduction, TLAPS

-----------------------------------------------------------------------------
(***************************************************************************)
(* The session.  The budget and the retry policy both rest on the slot: as *)
(* long as at most one execution is in flight, what the session consumed   *)
(* can be read off that execution's account, and the only call without an  *)
(* abort is its current one.                                               *)
(***************************************************************************)

\* At most one execution is in flight and activeRequests counts it.
SlotInv ==
    \/ /\ active = 0
       /\ \A e \in Executions : pc[e] \notin InFlight
    \/ /\ active = 1
       /\ \E e \in Executions : /\ pc[e] \in InFlight
                                /\ \A f \in Executions : pc[f] \in InFlight => f = e

\* What the calls of one execution look like at each point of its life.
CallsOf(e) ==
    /\ pc[e] \in {"idle", "preparing", "thrown"} => attempts[e] = 0
    /\ pc[e] \in InFlight => attempts[e] \in Tries
    /\ \A n \in Tries :
         /\ n > attempts[e] => call[e][n] = "none"
         /\ n < attempts[e] => call[e][n] \in {"aborted", "late", "failed"}
         /\ call[e][n] = "running" =>
                pc[e] = "calling" /\ n = attempts[e] /\ outcome[e] = "none"
         /\ pc[e] = "calling" /\ n = attempts[e] /\ outcome[e] = "none" =>
                call[e][n] = "running"
         /\ pc[e] = "calling" /\ n = attempts[e] /\ outcome[e] \in {"TIMEOUT", "FAILED"} =>
                call[e][n] \in {"aborted", "late", "failed"}

CallInv == \A e \in Executions : CallsOf(e)

\* An accepted advisory was accepted when it was settled.
AdvisoryInv ==
    \A e \in Executions : result[e] = Accepted =>
        /\ pc[e] = "settled"
        /\ checked[e].sound
        /\ checked[e].id = request[e].id /\ checked[e].pack = request[e].pack

AdapterInv == AdapterTypeOK /\ SlotInv /\ CallInv /\ BudgetBalances /\ AdvisoryInv

---------------------------------------------------------------------------------------
LEMMA InitEstablishes == AdapterInit => AdapterInv
<1> SUFFICES ASSUME AdapterInit PROVE AdapterInv
    OBVIOUS
<1> USE LimitsAssumption
<1>1. AdapterTypeOK
    <2>1. answer \in [Executions -> Answers]
        BY DEF AdapterInit, Answers, Requests
    <2> QED
        BY <2>1 DEF AdapterInit, AdapterTypeOK, AccountType, Results, InFlight, Tries
<1>2. SlotInv
    BY DEF AdapterInit, SlotInv, InFlight
<1>3. CallInv
    BY DEF AdapterInit, CallInv, CallsOf, InFlight, Tries
<1>4. BudgetBalances
    BY DEF AdapterInit, BudgetBalances, InFlight
<1>5. AdvisoryInv
    BY DEF AdapterInit, AdvisoryInv, Accepted
<1> QED
    BY <1>1, <1>2, <1>3, <1>4, <1>5 DEF AdapterInv

---------------------------------------------------------------------------------------
(* Admit and Retry make the same three kinds of step; the lemmas below say what a step   *)
(* of each kind does, so that the invariant is argued once per kind.                      *)

\* The execution is turned away before it holds the slot.
TurnedAway(e) ==
    /\ pc[e] = "preparing"
    /\ \E why \in Results \ {"none", Accepted} : Turned(e, why, consumed)
    /\ UNCHANGED <<mode, request, answer, checked>>

\* The execution takes the slot and makes its first call.
TakesSlot(e) ==
    /\ pc[e] = "preparing" /\ active < MaxConcurrentRequests /\ Affordable(e)
    /\ active' = active + 1
    /\ Reserve(e, consumed, 0)
    /\ UNCHANGED <<mode, request, answer, checked, result>>

\* The execution calls the transport again.
CallsAgain(e) ==
    /\ pc[e] = "calling" /\ outcome[e] \in {"TIMEOUT", "FAILED"}
    /\ ~ LastAttempt(e) /\ Affordable(e)
    /\ Reserve(e, account[e].before, account[e].charged)
    /\ UNCHANGED <<mode, active, request, answer, checked, result>>

\* The execution gives up and releases the slot.
GivesUp(e) ==
    /\ pc[e] = "calling" /\ outcome[e] \in {"TIMEOUT", "FAILED"}
    /\ \E why \in Results \ {"none", Accepted} : Finish(e, why)
    /\ UNCHANGED <<mode, request, attempts, call, outcome, answer, checked>>

LEMMA AdmitKinds ==
    ASSUME AdapterInv, NEW e \in Executions, Admit(e)
    PROVE  TurnedAway(e) \/ TakesSlot(e)
<1>1. CASE RefusalOf(e) # "none" /\ Turned(e, RefusalOf(e), consumed)
    <2>1. RefusalOf(e) \in Results \ {"none", Accepted}
        BY <1>1 DEF RefusalOf, Results, Accepted
    <2> QED
        BY <1>1, <2>1 DEF Admit, TurnedAway
<1>2. CASE Turned(e, "PROVIDER_SESSION_BUDGET_EXCEEDED", consumed)
    <2>1. "PROVIDER_SESSION_BUDGET_EXCEEDED" \in Results \ {"none", Accepted}
        BY DEF Results, Accepted
    <2> QED
        BY <1>2, <2>1 DEF Admit, TurnedAway
<1>3. CASE /\ RefusalOf(e) = "none" /\ Affordable(e)
           /\ active' = active + 1 /\ Reserve(e, consumed, 0) /\ UNCHANGED result
    <2>1. active < MaxConcurrentRequests
        <3> SUFFICES ASSUME active >= MaxConcurrentRequests PROVE FALSE
            BY DEF AdapterInv, AdapterTypeOK, MaxConcurrentRequests
        <3>1. CASE mode = "DISABLED"
            BY <1>3, <3>1 DEF RefusalOf
        <3>2. CASE mode # "DISABLED"
            BY <1>3, <3>2 DEF RefusalOf, MaxConcurrentRequests
        <3> QED
            BY <3>1, <3>2
    <2> QED
        BY <1>3, <2>1 DEF Admit, TakesSlot
<1> QED
    BY <1>1, <1>2, <1>3 DEF Admit

LEMMA RetryKinds ==
    ASSUME NEW e \in Executions, Retry(e)
    PROVE  CallsAgain(e) \/ GivesUp(e)
<1>1. {"PROVIDER_TIMEOUT", "PROVIDER_TRANSPORT_FAILED", "PROVIDER_SESSION_BUDGET_EXCEEDED"}
          \subseteq Results \ {"none", Accepted}
    BY DEF Results, Accepted
<1>2. CASE /\ UNCHANGED <<attempts, call, outcome>>
           /\ Finish(e, IF outcome[e] = "TIMEOUT" THEN "PROVIDER_TIMEOUT"
                                                  ELSE "PROVIDER_TRANSPORT_FAILED")
    BY <1>1, <1>2 DEF Retry, GivesUp
<1>3. CASE /\ Finish(e, "PROVIDER_SESSION_BUDGET_EXCEEDED")
           /\ UNCHANGED <<attempts, call, outcome>>
    BY <1>1, <1>3 DEF Retry, GivesUp
<1>4. CASE /\ ~ LastAttempt(e) /\ Affordable(e)
           /\ Reserve(e, account[e].before, account[e].charged)
           /\ UNCHANGED <<active, result>>
    BY <1>4 DEF Retry, CallsAgain
<1> QED
    BY <1>2, <1>3, <1>4 DEF Retry

\* What checking an answer may conclude.
LEMMA VerdictKinds ==
    ASSUME NEW e \in Executions
    PROVE  /\ Verdict(e) \in Results
           /\ Verdict(e) = Accepted => /\ checked[e].sound
                                       /\ checked[e].id = request[e].id
                                       /\ checked[e].pack = request[e].pack
BY DEF Verdict, Results, Accepted

---------------------------------------------------------------------------------------
(* The types. *)
LEMMA ReserveTypes ==
    ASSUME AdapterTypeOK, NEW e \in Executions, NEW b \in Nat, NEW c \in Nat,
           Reserve(e, b, c), attempts[e] + 1 \in 0 .. MaxRetries + 1
    PROVE  /\ consumed' \in Nat
           /\ account' \in [Executions -> AccountType]
           /\ attempts' \in [Executions -> 0 .. MaxRetries + 1]
           /\ call' \in [Executions -> [Tries ->
                  {"none", "running", "aborted", "answered", "failed", "late"}]]
           /\ outcome' \in [Executions -> {"none", "RESPONSE", "FAILED", "TIMEOUT"}]
           /\ pc' \in [Executions -> {"idle", "preparing", "thrown", "settled"} \cup InFlight]
<1>1. Reservation(e) \in Nat
    BY LimitsAssumption DEF Reservation, AdapterTypeOK, Requests
<1>2. account' \in [Executions -> AccountType]
    BY <1>1 DEF Reserve, AdapterTypeOK, AccountType
<1>3. consumed' \in Nat
    BY <1>1 DEF Reserve, AdapterTypeOK
<1>4. call' \in [Executions -> [Tries ->
                  {"none", "running", "aborted", "answered", "failed", "late"}]]
    BY DEF Reserve, AdapterTypeOK
<1>5. attempts' \in [Executions -> 0 .. MaxRetries + 1]
    BY DEF Reserve, AdapterTypeOK
<1>6. outcome' \in [Executions -> {"none", "RESPONSE", "FAILED", "TIMEOUT"}]
    BY DEF Reserve, AdapterTypeOK
<1>7. pc' \in [Executions -> {"idle", "preparing", "thrown", "settled"} \cup InFlight]
    BY DEF Reserve, AdapterTypeOK, InFlight
<1> QED
    BY <1>2, <1>3, <1>4, <1>5, <1>6, <1>7

LEMMA FinishTypes ==
    ASSUME AdapterTypeOK, NEW e \in Executions, NEW why \in Results, Finish(e, why),
           active > 0
    PROVE  /\ active' \in Nat /\ consumed' \in Nat
           /\ account' \in [Executions -> AccountType]
           /\ result' \in [Executions -> Results]
           /\ pc' \in [Executions -> {"idle", "preparing", "thrown", "settled"} \cup InFlight]
<1>1. account' \in [Executions -> AccountType]
    BY DEF Finish, Complete, AdapterTypeOK, AccountType
<1>2. result' \in [Executions -> Results]
    BY DEF Finish, Complete, AdapterTypeOK
<1>3. pc' \in [Executions -> {"idle", "preparing", "thrown", "settled"} \cup InFlight]
    BY DEF Finish, Complete, AdapterTypeOK
<1> QED
    BY <1>1, <1>2, <1>3 DEF Finish, AdapterTypeOK

LEMMA InFlightHoldsSlot ==
    ASSUME SlotInv, NEW e \in Executions, pc[e] \in InFlight
    PROVE  active = 1 /\ \A f \in Executions : pc[f] \in InFlight => f = e
BY DEF SlotInv

LEMMA TypeStep ==
    ASSUME AdapterInv, [AdapterNext]_vars
    PROVE  AdapterTypeOK'
<1> USE DEF AdapterInv
<1>1. CASE UNCHANGED vars
    BY <1>1 DEF vars, AdapterTypeOK
<1>2. ASSUME NEW e \in Executions, Execute(e) \/ InputInvalid(e) \/ Validate(e)
      PROVE  AdapterTypeOK'
    BY <1>2 DEF Execute, InputInvalid, Validate, AdapterTypeOK, InFlight
<1>3. ASSUME NEW e \in Executions, TurnedAway(e)
      PROVE  AdapterTypeOK'
    <2>1. account' \in [Executions -> AccountType]
        BY <1>3 DEF TurnedAway, Turned, AdapterTypeOK, AccountType
    <2>2. result' \in [Executions -> Results]
        BY <1>3 DEF TurnedAway, Turned, AdapterTypeOK
    <2> QED
        BY <1>3, <2>1, <2>2 DEF TurnedAway, Turned, AdapterTypeOK
<1>4. ASSUME NEW e \in Executions, TakesSlot(e)
      PROVE  AdapterTypeOK'
    <2>1. attempts[e] + 1 \in 0 .. MaxRetries + 1
        BY <1>4, LimitsAssumption DEF TakesSlot, CallInv, CallsOf
    <2> HIDE DEF AdapterInv
    <2>2. AdapterTypeOK
        BY DEF AdapterInv
    <2>3. consumed \in Nat /\ 0 \in Nat /\ Reserve(e, consumed, 0)
        BY <1>4, <2>2 DEF TakesSlot, AdapterTypeOK
    <2>4. active' \in Nat
        BY <1>4, <2>2 DEF TakesSlot, AdapterTypeOK
    <2>5. /\ consumed' \in Nat
          /\ account' \in [Executions -> AccountType]
          /\ attempts' \in [Executions -> 0 .. MaxRetries + 1]
          /\ call' \in [Executions -> [Tries ->
                  {"none", "running", "aborted", "answered", "failed", "late"}]]
          /\ outcome' \in [Executions -> {"none", "RESPONSE", "FAILED", "TIMEOUT"}]
          /\ pc' \in [Executions -> {"idle", "preparing", "thrown", "settled"} \cup InFlight]
        BY <2>1, <2>2, <2>3, ReserveTypes
    <2> QED
        BY <1>4, <2>2, <2>4, <2>5 DEF TakesSlot, AdapterTypeOK
<1>5. ASSUME NEW e \in Executions, CallsAgain(e)
      PROVE  AdapterTypeOK'
    <2>2. AdapterTypeOK
        OBVIOUS
    <2> HIDE DEF AdapterInv
    <2>6. attempts[e] \in 0 .. MaxRetries + 1 /\ attempts[e] # MaxRetries + 1
        BY <1>5, <2>2 DEF CallsAgain, LastAttempt, AdapterTypeOK
    <2>1. attempts[e] + 1 \in 0 .. MaxRetries + 1
        BY <2>6, LimitsAssumption
    <2>3. /\ account[e].before \in Nat /\ account[e].charged \in Nat
          /\ Reserve(e, account[e].before, account[e].charged)
        BY <1>5, <2>2 DEF CallsAgain, AdapterTypeOK, AccountType
    <2>5. /\ consumed' \in Nat
          /\ account' \in [Executions -> AccountType]
          /\ attempts' \in [Executions -> 0 .. MaxRetries + 1]
          /\ call' \in [Executions -> [Tries ->
                  {"none", "running", "aborted", "answered", "failed", "late"}]]
          /\ outcome' \in [Executions -> {"none", "RESPONSE", "FAILED", "TIMEOUT"}]
          /\ pc' \in [Executions -> {"idle", "preparing", "thrown", "settled"} \cup InFlight]
        BY <2>1, <2>2, <2>3, ReserveTypes
    <2> QED
        BY <1>5, <2>2, <2>5 DEF CallsAgain, AdapterTypeOK
<1>6. ASSUME NEW e \in Executions, GivesUp(e)
      PROVE  AdapterTypeOK'
    <2>1. PICK why \in Results : Finish(e, why)
        BY <1>6 DEF GivesUp
    <2>2. active > 0
        BY <1>6, InFlightHoldsSlot DEF GivesUp, InFlight
    <2> QED
        BY <1>6, <2>1, <2>2, FinishTypes DEF GivesUp, AdapterTypeOK
<1>7. ASSUME NEW e \in Executions, Check(e)
      PROVE  AdapterTypeOK'
    <2>1. Verdict(e) \in Results /\ Finish(e, Verdict(e))
        BY <1>7, VerdictKinds DEF Check
    <2>2. active > 0
        BY <1>7, InFlightHoldsSlot DEF Check, InFlight
    <2> QED
        BY <1>7, <2>1, <2>2, FinishTypes DEF Check, AdapterTypeOK
<1>8. ASSUME NEW e \in Executions, Timeout(e) \/ Detach(e)
      PROVE  AdapterTypeOK'
    <2>1. CASE Timeout(e)
        <3>1. call' \in [Executions -> [Tries ->
                  {"none", "running", "aborted", "answered", "failed", "late"}]]
            BY <2>1 DEF Timeout, AdapterTypeOK
        <3>2. outcome' \in [Executions -> {"none", "RESPONSE", "FAILED", "TIMEOUT"}]
            BY <2>1 DEF Timeout, AdapterTypeOK
        <3> QED
            BY <2>1, <3>1, <3>2 DEF Timeout, AdapterTypeOK
    <2>2. CASE Detach(e)
        <3>1. checked' \in [Executions -> Answers]
            BY <2>2 DEF Detach, AdapterTypeOK
        <3>2. pc' \in [Executions -> {"idle", "preparing", "thrown", "settled"} \cup InFlight]
            BY <2>2 DEF Detach, AdapterTypeOK, InFlight
        <3> QED
            BY <2>2, <3>1, <3>2 DEF Detach, AdapterTypeOK
    <2> QED
        BY <1>8, <2>1, <2>2
<1>9. ASSUME NEW e \in Executions, NEW n \in Tries, FailCall(e, n)
      PROVE  AdapterTypeOK'
    BY <1>9 DEF FailCall, AdapterTypeOK
<1>10. ASSUME NEW e \in Executions, NEW a \in Answers,
              ChangeAnswer(e, a) \/ \E n \in Tries : Answer(e, n, a)
       PROVE  AdapterTypeOK'
    <2>1. CASE ChangeAnswer(e, a)
        BY <2>1 DEF ChangeAnswer, AdapterTypeOK
    <2>2. ASSUME NEW n \in Tries, Answer(e, n, a) PROVE AdapterTypeOK'
        <3>1. call' \in [Executions -> [Tries ->
                  {"none", "running", "aborted", "answered", "failed", "late"}]]
            <4>1. call \in [Executions -> [Tries ->
                      {"none", "running", "aborted", "answered", "failed", "late"}]]
                BY DEF AdapterTypeOK
            <4>2. \/ call' = [call EXCEPT ![e][n] = "answered"]
                  \/ call' = [call EXCEPT ![e][n] = "late"]
                BY <2>2 DEF Answer
            <4> QED
                BY <4>1, <4>2
        <3>2. outcome' \in [Executions -> {"none", "RESPONSE", "FAILED", "TIMEOUT"}]
            BY <2>2 DEF Answer, AdapterTypeOK
        <3>3. answer' \in [Executions -> Answers]
            <4>1. answer \in [Executions -> Answers]
                BY DEF AdapterTypeOK
            <4>2. answer' = answer \/ answer' = [answer EXCEPT ![e] = a]
                BY <2>2 DEF Answer
            <4> QED
                BY <4>1, <4>2
        <3> QED
            BY <2>2, <3>1, <3>2, <3>3 DEF Answer, AdapterTypeOK
    <2> QED
        BY <1>10, <2>1, <2>2
<1>11. \A f \in Executions : AnswersTo(f) \subseteq Answers
    BY DEF AnswersTo, Answers, AdapterTypeOK, Requests
<1> QED
    BY <1>1, <1>2, <1>3, <1>4, <1>5, <1>6, <1>7, <1>8, <1>9, <1>10, <1>11,
       AdmitKinds, RetryKinds DEF AdapterNext, AdapterStep, Transport

---------------------------------------------------------------------------------------
(* The slot. *)
LEMMA SlotStep ==
    ASSUME AdapterInv, [AdapterNext]_vars
    PROVE  SlotInv'
<1>0. SlotInv /\ pc \in [Executions -> {"idle", "preparing", "thrown", "settled"} \cup InFlight]
    BY DEF AdapterInv, AdapterTypeOK
<1>1. CASE UNCHANGED <<pc, active>>
    BY <1>0, <1>1 DEF SlotInv
<1>2. ASSUME NEW e \in Executions, UNCHANGED active,
             \A f \in Executions : pc'[f] \in InFlight <=> pc[f] \in InFlight
      PROVE  SlotInv'
    BY <1>0, <1>2 DEF SlotInv
<1>3. ASSUME NEW e \in Executions, TakesSlot(e)
      PROVE  SlotInv'
    <2>1. active = 0 /\ \A f \in Executions : pc[f] \notin InFlight
        BY <1>0, <1>3 DEF SlotInv, TakesSlot, MaxConcurrentRequests
    <2>2. active' = 1 /\ pc' = [pc EXCEPT ![e] = "calling"]
        BY <1>3, <2>1 DEF TakesSlot, Reserve
    <2> QED
        BY <1>0, <2>1, <2>2 DEF SlotInv, InFlight
<1>4. ASSUME NEW e \in Executions, pc[e] \in InFlight, active' = active - 1,
             pc' = [pc EXCEPT ![e] = "settled"]
      PROVE  SlotInv'
    <2>1. active = 1 /\ \A f \in Executions : pc[f] \in InFlight => f = e
        BY <1>0, <1>4, InFlightHoldsSlot
    <2> QED
        BY <1>0, <1>4, <2>1 DEF SlotInv, InFlight
<1>5. ASSUME NEW e \in Executions, AdapterStep(e) PROVE SlotInv'
    <2>1. CASE TurnedAway(e)
        BY <1>0, <1>2, <2>1 DEF TurnedAway, Turned, InFlight
    <2>2. CASE CallsAgain(e)
        BY <1>0, <1>2, <2>2 DEF CallsAgain, Reserve, InFlight
    <2>3. CASE GivesUp(e)
        BY <1>4, <2>3 DEF GivesUp, Finish, Complete, InFlight
    <2>4. CASE Check(e)
        BY <1>4, <2>4 DEF Check, Finish, Complete, InFlight
    <2>5. CASE Validate(e) \/ Detach(e)
        BY <1>0, <1>2, <2>5 DEF Validate, Detach, InFlight
    <2>6. CASE Timeout(e)
        BY <1>1, <2>6 DEF Timeout
    <2> QED
        BY <1>3, <1>5, <2>1, <2>2, <2>3, <2>4, <2>5, <2>6, AdmitKinds, RetryKinds
        DEF AdapterStep
<1>6. ASSUME NEW e \in Executions, Execute(e) \/ InputInvalid(e) PROVE SlotInv'
    BY <1>0, <1>2, <1>6 DEF Execute, InputInvalid, InFlight
<1>7. ASSUME NEW e \in Executions, Transport(e) PROVE SlotInv'
    BY <1>1, <1>7 DEF Transport, FailCall, Answer, ChangeAnswer
<1>8. CASE UNCHANGED vars
    BY <1>1, <1>8 DEF vars
<1> QED
    BY <1>5, <1>6, <1>7, <1>8 DEF AdapterNext

---------------------------------------------------------------------------------------
(* The budget. *)
LEMMA BudgetStep ==
    ASSUME AdapterInv, [AdapterNext]_vars
    PROVE  BudgetBalances'
<1>0. /\ SlotInv /\ BudgetBalances
      /\ pc \in [Executions -> {"idle", "preparing", "thrown", "settled"} \cup InFlight]
      /\ account \in [Executions -> AccountType]
      /\ consumed \in Nat
      /\ \A e \in Executions : Reservation(e) \in Nat
    BY LimitsAssumption DEF AdapterInv, AdapterTypeOK, Reservation, Requests
<1>1. CASE UNCHANGED <<pc, consumed, account>>
    BY <1>0, <1>1 DEF BudgetBalances
<1>2. ASSUME UNCHANGED <<consumed, account>>,
             \A f \in Executions :
                 /\ pc'[f] \in InFlight => pc[f] \in InFlight
                 /\ pc'[f] = "settled" => pc[f] = "settled"
      PROVE  BudgetBalances'
    BY <1>0, <1>2 DEF BudgetBalances
<1>3. ASSUME NEW e \in Executions, NEW b \in Nat, NEW c \in Nat,
             Reserve(e, b, c), Affordable(e), b + c = consumed,
             \A f \in Executions : pc[f] \in InFlight => f = e
      PROVE  BudgetBalances'
    <2>1. consumed' = b + (c + Reservation(e)) /\ consumed' <= Budget
        BY <1>0, <1>3, LimitsAssumption DEF Reserve, Affordable
    <2>2. /\ account' = [account EXCEPT ![e] = [before |-> b, charged |-> c + Reservation(e),
                                                 after |-> 0]]
          /\ pc' = [pc EXCEPT ![e] = "calling"]
        BY <1>3 DEF Reserve
    <2>3. account'[e].before = b /\ account'[e].charged = c + Reservation(e)
        BY <1>0, <2>2
    <2>4. \A f \in Executions : f # e => pc'[f] = pc[f] /\ account'[f] = account[f]
        BY <1>0, <2>2
    <2>5. pc'[e] = "calling" /\ \A f \in Executions : f # e => pc[f] \notin InFlight
        BY <1>0, <1>3, <2>2
    <2> QED
        BY <1>0, <2>1, <2>3, <2>4, <2>5 DEF BudgetBalances, InFlight
<1>4. ASSUME NEW e \in Executions, NEW b \in Nat, NEW c \in Nat, b + c = consumed,
             pc' = [pc EXCEPT ![e] = "settled"], UNCHANGED consumed,
             account' = [account EXCEPT ![e] = [before |-> b, charged |-> c,
                                                after |-> consumed]]
      PROVE  BudgetBalances'
    <2>1. account'[e].after = account'[e].before + account'[e].charged
        BY <1>0, <1>4
    <2>2. \A f \in Executions : f # e => pc'[f] = pc[f] /\ account'[f] = account[f]
        BY <1>0, <1>4
    <2>3. pc'[e] = "settled"
        BY <1>0, <1>4
    <2> QED
        BY <1>0, <1>4, <2>1, <2>2, <2>3 DEF BudgetBalances, InFlight
<1>5. ASSUME NEW e \in Executions, NEW why \in Results, pc[e] \in InFlight, Finish(e, why)
      PROVE  BudgetBalances'
    <2>1. /\ account[e].before \in Nat /\ account[e].charged \in Nat
          /\ account[e].before + account[e].charged = consumed
        BY <1>0, <1>5 DEF BudgetBalances, AccountType
    <2> QED
        BY <1>4, <1>5, <2>1 DEF Finish, Complete
<1>6. ASSUME NEW e \in Executions, TurnedAway(e)
      PROVE  BudgetBalances'
    <2>1. consumed + 0 = consumed /\ 0 \in Nat
        BY <1>0
    <2> QED
        BY <1>0, <1>4, <1>6, <2>1 DEF TurnedAway, Turned
<1>7. ASSUME NEW e \in Executions, TakesSlot(e)
      PROVE  BudgetBalances'
    <2>1. \A f \in Executions : pc[f] \notin InFlight
        BY <1>0, <1>7 DEF SlotInv, TakesSlot, MaxConcurrentRequests
    <2>2. consumed + 0 = consumed /\ 0 \in Nat
        BY <1>0
    <2> QED
        BY <1>0, <1>3, <1>7, <2>1, <2>2 DEF TakesSlot
<1>8. ASSUME NEW e \in Executions, CallsAgain(e)
      PROVE  BudgetBalances'
    <2>1. pc[e] \in InFlight
        BY <1>8 DEF CallsAgain, InFlight
    <2>2. /\ account[e].before \in Nat /\ account[e].charged \in Nat
          /\ account[e].before + account[e].charged = consumed
        BY <1>0, <2>1 DEF BudgetBalances, AccountType
    <2>3. \A f \in Executions : pc[f] \in InFlight => f = e
        BY <1>0, <2>1, InFlightHoldsSlot
    <2> QED
        BY <1>3, <1>8, <2>2, <2>3 DEF CallsAgain
<1>9. ASSUME NEW e \in Executions, AdapterStep(e) PROVE BudgetBalances'
    <2>1. CASE GivesUp(e)
        BY <1>5, <2>1 DEF GivesUp, InFlight
    <2>2. CASE Check(e)
        BY <1>5, <2>2, VerdictKinds DEF Check, InFlight
    <2>3. CASE Validate(e) \/ Detach(e)
        BY <1>0, <1>2, <2>3 DEF Validate, Detach, InFlight
    <2>4. CASE Timeout(e)
        BY <1>1, <2>4 DEF Timeout
    <2> QED
        BY <1>6, <1>7, <1>8, <1>9, <2>1, <2>2, <2>3, <2>4, AdmitKinds, RetryKinds
        DEF AdapterStep
<1>10. ASSUME NEW e \in Executions, Execute(e) \/ InputInvalid(e) PROVE BudgetBalances'
    BY <1>0, <1>2, <1>10 DEF Execute, InputInvalid, InFlight
<1>11. ASSUME NEW e \in Executions, Transport(e) PROVE BudgetBalances'
    BY <1>1, <1>11 DEF Transport, FailCall, Answer, ChangeAnswer
<1>12. CASE UNCHANGED vars
    BY <1>1, <1>12 DEF vars
<1> QED
    BY <1>9, <1>10, <1>11, <1>12 DEF AdapterNext

---------------------------------------------------------------------------------------
(* The calls. *)
LEMMA CallStep ==
    ASSUME AdapterInv, [AdapterNext]_vars
    PROVE  CallInv'
<1>0. /\ CallInv
      /\ pc \in [Executions -> {"idle", "preparing", "thrown", "settled"} \cup InFlight]
      /\ attempts \in [Executions -> 0 .. MaxRetries + 1]
      /\ call \in [Executions -> [Tries ->
             {"none", "running", "aborted", "answered", "failed", "late"}]]
      /\ outcome \in [Executions -> {"none", "RESPONSE", "FAILED", "TIMEOUT"}]
      /\ MaxRetries \in Nat
    BY LimitsAssumption DEF AdapterInv, AdapterTypeOK
<1>1. ASSUME NEW e \in Executions, CallsOf(e)',
             \A f \in Executions \ {e} :
                 /\ pc'[f] = pc[f] /\ attempts'[f] = attempts[f]
                 /\ call'[f] = call[f] /\ outcome'[f] = outcome[f]
      PROVE  CallInv'
    BY <1>0, <1>1 DEF CallInv, CallsOf
<1>2. CASE UNCHANGED <<pc, attempts, call, outcome>>
    BY <1>0, <1>2 DEF CallInv, CallsOf
<1>3. ASSUME NEW e \in Executions, NEW b, NEW c, Reserve(e, b, c), attempts[e] <= MaxRetries,
             \A n \in 1 .. attempts[e] : call[e][n] \in {"aborted", "late", "failed"}
      PROVE  CallInv'
    <2> DEFINE k == attempts[e] + 1
    <2>1. /\ k \in Tries /\ attempts'[e] = k /\ pc'[e] = "calling" /\ outcome'[e] = "none"
          /\ call'[e] = [call[e] EXCEPT ![k] = "running"]
        BY <1>0, <1>3 DEF Reserve, Tries
    <2>2. \A n \in Tries : n > attempts[e] => call[e][n] = "none"
        BY <1>0 DEF CallInv, CallsOf
    <2>3. call[e] \in [Tries -> {"none", "running", "aborted", "answered", "failed", "late"}]
        BY <1>0
    <2>4. \A n \in Tries : /\ n = k => call'[e][n] = "running"
                           /\ n < k => call'[e][n] \in {"aborted", "late", "failed"}
                           /\ n > k => call'[e][n] = "none"
        BY <1>0, <1>3, <2>1, <2>2, <2>3 DEF Tries
    <2>5. k \in Nat /\ Tries \subseteq Nat
        BY <1>0 DEF Tries
    <2>6. CallsOf(e)'
        <3> HIDE DEF k
        <3>1. \A n \in Tries : /\ n > k \/ n < k \/ n = k
                               /\ n > k => ~ (n < k) /\ n # k
                               /\ n < k => n # k
            BY <2>5
        <3>2. "calling" \in InFlight /\ "calling" \notin {"idle", "preparing", "thrown"}
            BY DEF InFlight
        <3>3. /\ "none" \notin {"TIMEOUT", "FAILED"} /\ "running" # "none"
              /\ "running" \notin {"aborted", "late", "failed"}
            OBVIOUS
        <3> QED
            BY <2>1, <2>4, <3>1, <3>2, <3>3, Zenon DEF CallsOf
    <2> QED
        BY <1>0, <1>1, <1>3, <2>6 DEF Reserve
<1>4. ASSUME NEW e \in Executions, TakesSlot(e) PROVE CallInv'
    <2>1. attempts[e] = 0
        BY <1>0, <1>4 DEF TakesSlot, CallInv, CallsOf
    <2> QED
        BY <1>0, <1>3, <1>4, <2>1 DEF TakesSlot
<1>5. ASSUME NEW e \in Executions, CallsAgain(e) PROVE CallInv'
    <2>1. attempts[e] <= MaxRetries
        BY <1>0, <1>5 DEF CallsAgain, LastAttempt
    <2>2. \A n \in 1 .. attempts[e] : call[e][n] \in {"aborted", "late", "failed"}
        BY <1>0, <1>5, <2>1 DEF CallsAgain, CallInv, CallsOf, Tries
    <2> QED
        BY <1>3, <1>5, <2>1, <2>2 DEF CallsAgain
<1>6. ASSUME NEW e \in Executions, TurnedAway(e) \/ GivesUp(e) \/ Validate(e) \/ Detach(e)
             \/ Check(e) \/ Execute(e) \/ InputInvalid(e)
      PROVE  CallInv'
    <2>1. UNCHANGED <<attempts, call, outcome>>
        BY <1>6 DEF TurnedAway, Turned, GivesUp, Validate, Detach, Check, Execute, InputInvalid
    <2>2. /\ \A f \in Executions \ {e} : pc'[f] = pc[f]
          /\ \/ pc[e] \in {"idle", "preparing"} /\ pc'[e] \in {"preparing", "thrown", "settled"}
             \/ pc[e] \in InFlight /\ pc'[e] \in {"validating", "checking", "settled"}
                /\ (pc[e] = "calling" => outcome[e] # "none")
        BY <1>0, <1>6 DEF TurnedAway, Turned, GivesUp, Finish, Complete, Validate, Detach, Check,
                          Execute, InputInvalid, InFlight
    <2>3. CallsOf(e)
        BY <1>0 DEF CallInv
    <2>4. CallsOf(e)'
        BY <2>1, <2>2, <2>3 DEF CallsOf, InFlight
    <2> QED
        BY <1>1, <2>1, <2>2, <2>4
<1>7. ASSUME NEW e \in Executions, NEW n \in Tries, NEW was, NEW now, NEW then,
             call[e][n] = was, call' = [call EXCEPT ![e][n] = now],
             UNCHANGED <<pc, attempts>>,
             \/ /\ was = "running"
                /\ outcome' = [outcome EXCEPT ![e] = then]
                /\ \/ now = "answered" /\ then = "RESPONSE"
                   \/ now = "failed" /\ then = "FAILED"
                   \/ now = "aborted" /\ then = "TIMEOUT"
             \/ was = "aborted" /\ now = "late" /\ UNCHANGED outcome
      PROVE  CallInv'
    <2>1. /\ CallsOf(e) /\ n \in Tries
          /\ call[e] \in [Tries -> {"none", "running", "aborted", "answered", "failed", "late"}]
        BY <1>0 DEF CallInv
    <2>2. call'[e] = [call[e] EXCEPT ![n] = now]
        BY <1>0, <1>7
    <2>3. \A m \in Tries : call'[e][m] = IF m = n THEN now ELSE call[e][m]
        BY <2>1, <2>2
    <2>4. CallsOf(e)'
        <3>1. CASE was = "aborted"
            BY <1>7, <2>1, <2>3, <3>1 DEF CallsOf
        <3>2. CASE was = "running"
            <4>1. pc[e] = "calling" /\ n = attempts[e] /\ outcome'[e] = then
                BY <1>0, <1>7, <2>1, <3>2 DEF CallsOf
            <4>2. now \in {"answered", "failed", "aborted"} /\ then # "none"
                BY <1>7, <3>2
            <4>3. then \in {"TIMEOUT", "FAILED"} => now \in {"aborted", "failed"}
                BY <1>7, <3>2
            <4>4. attempts[e] \in Int /\ Tries \subseteq Int
                BY <1>0 DEF Tries
            <4> QED
                BY <1>7, <2>1, <2>3, <4>1, <4>2, <4>3, <4>4 DEF CallsOf, InFlight
        <3> QED
            BY <1>7, <3>1, <3>2
    <2> QED
        BY <1>0, <1>1, <1>7, <2>4
<1>8. ASSUME NEW e \in Executions, Timeout(e) PROVE CallInv'
    <2>1. attempts[e] \in Tries /\ call[e][attempts[e]] = "running"
        BY <1>0, <1>8 DEF Timeout, CallInv, CallsOf, InFlight
    <2> QED
        BY <1>7, <1>8, <2>1 DEF Timeout
<1>9. ASSUME NEW e \in Executions, AdapterStep(e) PROVE CallInv'
    BY <1>4, <1>5, <1>6, <1>8, <1>9, AdmitKinds, RetryKinds DEF AdapterStep
<1>10. ASSUME NEW e \in Executions, Transport(e) PROVE CallInv'
    <2>1. ASSUME NEW n \in Tries, FailCall(e, n) PROVE CallInv'
        BY <1>7, <2>1 DEF FailCall
    <2>2. ASSUME NEW n \in Tries, NEW a, Answer(e, n, a) PROVE CallInv'
        BY <1>7, <2>2 DEF Answer
    <2>3. ASSUME NEW a, ChangeAnswer(e, a) PROVE CallInv'
        BY <1>2, <2>3 DEF ChangeAnswer
    <2> QED
        BY <1>10, <2>1, <2>2, <2>3 DEF Transport
<1>11. CASE UNCHANGED vars
    BY <1>2, <1>11 DEF vars
<1> QED
    BY <1>6, <1>9, <1>10, <1>11 DEF AdapterNext

---------------------------------------------------------------------------------------
(* The advisory. *)
LEMMA AdvisoryStep ==
    ASSUME AdapterInv, [AdapterNext]_vars
    PROVE  AdvisoryInv'
<1>0. /\ AdvisoryInv
      /\ pc \in [Executions -> {"idle", "preparing", "thrown", "settled"} \cup InFlight]
      /\ result \in [Executions -> Results]
      /\ checked \in [Executions -> Answers]
    BY DEF AdapterInv, AdapterTypeOK
<1>1. ASSUME NEW e \in Executions, pc[e] # "settled", UNCHANGED request,
             \A f \in Executions \ {e} : /\ pc'[f] = pc[f] /\ result'[f] = result[f]
                                         /\ checked'[f] = checked[f],
             result'[e] = Accepted =>
                 /\ pc'[e] = "settled" /\ checked'[e].sound
                 /\ checked'[e].id = request[e].id /\ checked'[e].pack = request[e].pack
      PROVE  AdvisoryInv'
    BY <1>0, <1>1 DEF AdvisoryInv
<1>2. CASE UNCHANGED <<pc, result, checked, request>>
    BY <1>0, <1>2 DEF AdvisoryInv
<1>3. ASSUME NEW e \in Executions, pc[e] # "settled", UNCHANGED <<request, result>>,
             \A f \in Executions \ {e} : pc'[f] = pc[f] /\ checked'[f] = checked[f]
      PROVE  AdvisoryInv'
    BY <1>0, <1>1, <1>3 DEF AdvisoryInv
<1>4. ASSUME NEW e \in Executions, NEW why \in Results \ {"none", Accepted},
             pc[e] # "settled", pc' = [pc EXCEPT ![e] = "settled"],
             result' = [result EXCEPT ![e] = why], UNCHANGED <<request, checked>>
      PROVE  AdvisoryInv'
    BY <1>0, <1>1, <1>4
<1>5. ASSUME NEW e \in Executions, Check(e) PROVE AdvisoryInv'
    <2>1. /\ pc' = [pc EXCEPT ![e] = "settled"] /\ pc[e] # "settled"
          /\ result' = [result EXCEPT ![e] = Verdict(e)] /\ UNCHANGED <<request, checked>>
        BY <1>5 DEF Check, Finish, Complete
    <2>2. Verdict(e) = Accepted => /\ checked[e].sound
                                   /\ checked[e].id = request[e].id
                                   /\ checked[e].pack = request[e].pack
        BY VerdictKinds
    <2>3. result'[e] = Verdict(e) /\ pc'[e] = "settled"
        BY <1>0, <2>1
    <2>4. \A f \in Executions \ {e} : /\ pc'[f] = pc[f] /\ result'[f] = result[f]
                                      /\ checked'[f] = checked[f]
        BY <1>0, <2>1
    <2> QED
        BY <1>1, <2>1, <2>2, <2>3, <2>4
<1>6. ASSUME NEW e \in Executions, AdapterStep(e) PROVE AdvisoryInv'
    <2>1. CASE TurnedAway(e)
        BY <1>4, <2>1 DEF TurnedAway, Turned
    <2>2. CASE GivesUp(e)
        BY <1>4, <2>2 DEF GivesUp, Finish, Complete
    <2>3. CASE TakesSlot(e) \/ CallsAgain(e) \/ Validate(e) \/ Detach(e)
        BY <1>0, <1>3, <2>3 DEF TakesSlot, CallsAgain, Reserve, Validate, Detach
    <2>4. CASE Timeout(e)
        BY <1>2, <2>4 DEF Timeout
    <2> QED
        BY <1>5, <1>6, <2>1, <2>2, <2>3, <2>4, AdmitKinds, RetryKinds DEF AdapterStep
<1>7. ASSUME NEW e \in Executions, Execute(e) \/ InputInvalid(e) PROVE AdvisoryInv'
    BY <1>0, <1>3, <1>7 DEF Execute, InputInvalid
<1>8. ASSUME NEW e \in Executions, Transport(e) PROVE AdvisoryInv'
    BY <1>2, <1>8 DEF Transport, FailCall, Answer, ChangeAnswer
<1>9. CASE UNCHANGED vars
    BY <1>2, <1>9 DEF vars
<1> QED
    BY <1>6, <1>7, <1>8, <1>9 DEF AdapterNext

---------------------------------------------------------------------------------------
LEMMA Preserved == ASSUME AdapterInv, [AdapterNext]_vars PROVE AdapterInv'
BY TypeStep, SlotStep, CallStep, BudgetStep, AdvisoryStep DEF AdapterInv

LEMMA Invariance == AdapterSpec => []AdapterInv
<1>1. AdapterInv /\ [AdapterNext]_vars => AdapterInv'
    BY Preserved
<1> QED
    BY InitEstablishes, <1>1, PTL DEF AdapterSpec

\* Types, and no execution calls the transport more often than the policy allows.
THEOREM AdapterTypeCorrect == AdapterSpec => []AdapterTypeOK
<1>1. AdapterInv => AdapterTypeOK
    BY DEF AdapterInv
<1> QED
    BY Invariance, <1>1, PTL

\* The budget is never overspent and every execution's metrics account for its own charge.
THEOREM BudgetCorrect == AdapterSpec => []BudgetBalances
<1>1. AdapterInv => BudgetBalances
    BY DEF AdapterInv
<1> QED
    BY Invariance, <1>1, PTL

\* One execution in flight, counted by activeRequests, with the only unaborted call.
THEOREM SlotCorrect == AdapterSpec => []OneRequestAtATime
<1>1. AdapterInv => OneRequestAtATime
    <2> SUFFICES ASSUME AdapterInv PROVE OneRequestAtATime
        OBVIOUS
    <2>1. SlotInv /\ CallInv
        BY DEF AdapterInv
    <2>2. active <= MaxConcurrentRequests
        BY <2>1 DEF SlotInv, MaxConcurrentRequests
    <2>3. active = Cardinality({e \in Executions : pc[e] \in InFlight})
        <3>1. CASE active = 0 /\ \A e \in Executions : pc[e] \notin InFlight
            <4>1. {e \in Executions : pc[e] \in InFlight} = {}
                BY <3>1
            <4> QED
                BY <3>1, <4>1, FS_EmptySet
        <3>2. CASE /\ active = 1
                   /\ \E e \in Executions : /\ pc[e] \in InFlight
                                           /\ \A f \in Executions : pc[f] \in InFlight => f = e
            <4>1. PICK e \in Executions :
                      pc[e] \in InFlight /\ \A f \in Executions : pc[f] \in InFlight => f = e
                BY <3>2
            <4>2. {f \in Executions : pc[f] \in InFlight} = {e}
                BY <4>1
            <4> QED
                BY <3>2, <4>2, FS_Singleton
        <3> QED
            BY <2>1, <3>1, <3>2 DEF SlotInv
    <2>4. ASSUME NEW e \in Executions, NEW f \in Executions, NEW n \in Tries, NEW m \in Tries,
                 call[e][n] = "running", call[f][m] = "running"
          PROVE  e = f /\ n = m
        <3>1. pc[e] = "calling" /\ n = attempts[e] /\ pc[f] = "calling" /\ m = attempts[f]
            BY <2>1, <2>4 DEF CallInv, CallsOf
        <3>2. pc[e] \in InFlight /\ pc[f] \in InFlight
            BY <3>1 DEF InFlight
        <3>3. e = f
            BY <2>1, <3>2 DEF SlotInv
        <3> QED
            BY <3>1, <3>3
    <2> QED
        BY <2>2, <2>3, <2>4 DEF OneRequestAtATime
<1> QED
    BY Invariance, <1>1, PTL

\* The counters of a session are true whatever its executions and the transport do.
THEOREM SessionCorrect == AdapterSpec => []SessionIsAccounted
<1>1. BudgetBalances /\ OneRequestAtATime => SessionIsAccounted
    BY DEF SessionIsAccounted
<1> QED
    BY <1>1, BudgetCorrect, SlotCorrect, PTL

\* An accepted advisory is the copy that was checked, and it answers its own request.
THEOREM AdvisoryCorrect == AdapterSpec => []AdvisoryIsForItsRequest
<1>1. AdapterInv => AdvisoryIsForItsRequest
    BY DEF AdapterInv, AdvisoryInv, AdvisoryIsForItsRequest
<1> QED
    BY Invariance, <1>1, PTL

\* A call is repeated only after a timeout or a failure of the transport.
THEOREM RetryCorrect == AdapterSpec => []RetriesFollowFailures
<1>1. AdapterInv => RetriesFollowFailures
    <2> SUFFICES ASSUME AdapterInv, NEW e \in Executions, NEW n \in Tries,
                        n + 1 \in Tries, call[e][n + 1] # "none"
                 PROVE  call[e][n] \in {"aborted", "late", "failed"}
        BY DEF RetriesFollowFailures
    <2>1. /\ CallsOf(e) /\ attempts[e] \in 0 .. MaxRetries + 1 /\ MaxRetries \in Nat
        BY LimitsAssumption DEF AdapterInv, AdapterTypeOK, CallInv
    <2>2. ~ (n + 1 > attempts[e])
        BY <2>1 DEF CallsOf
    <2>3. n < attempts[e]
        BY <2>1, <2>2 DEF Tries
    <2> QED
        BY <2>1, <2>3 DEF CallsOf
<1> QED
    BY Invariance, <1>1, PTL

-----------------------------------------------------------------------------
\* A set of natural numbers that is not empty has a least element.
LEMMA LeastNatural ==
    ASSUME NEW S \in SUBSET Nat, S # {}
    PROVE  \E least \in S : \A i \in S : least <= i
  <1>1. PICK m \in S : \A y \in S : <<y, m>> \notin OpToRel(<, Nat)
    BY NatLessThanWellFounded, WFMin, Zenon
  <1>2. \A y \in S : ~ (y < m)
    BY <1>1 DEF OpToRel
  <1> QED
    BY <1>2

-----------------------------------------------------------------------------
(***************************************************************************)
(* ClaimComparison: what the comparison of two claims decides.             *)
(***************************************************************************)
\* The times of a claim can be compared.
LEMMA TimesAreNumbers ==
    ASSUME NEW claim, Applicable(claim)
    PROVE  /\ claim.from \in Nat \cup {NoTime}
           /\ claim.until \in Nat \cup {NoTime}
           /\ claim.until # NoTime => 0 < claim.until /\ claim.from < claim.until
  <1>1. Instants \subseteq Nat
    BY ClaimSetAssumption
  <1>2. claim.from \in Nat \cup {NoTime}
    BY <1>1 DEF Applicable
  <1>3. claim.until \in (Nat \ {0}) \cup {NoTime}
    BY DEF Applicable
  <1>4. claim.until # NoTime => claim.from < claim.until
    BY DEF Applicable
  <1> QED
    BY <1>2, <1>3, <1>4 DEF NoTime

\* Claims that applicability does not keep apart apply together in some
\* circumstance: at the later of their beginnings, in the values either names.
LEMMA OverlapHasCircumstance ==
    ASSUME NEW one, NEW two, Applicable(one), Applicable(two),
           compareClaimApplicability(one, two) = "OVERLAPS"
    PROVE  \E circumstance \in Circumstances :
              AppliesIn(one, circumstance) /\ AppliesIn(two, circumstance)
  <1> DEFINE later == IF one.from > two.from THEN one.from ELSE two.from
             at    == IF later = NoTime THEN 0 ELSE later
  <1>1. PICK any \in DimensionValues : TRUE
    BY ClaimSetAssumption
  <1> DEFINE valued(d) == IF d \in DOMAIN one.dimensions THEN one.dimensions[d]
                          ELSE IF d \in DOMAIN two.dimensions THEN two.dimensions[d]
                          ELSE any
             is == [d \in Dimensions |-> valued(d)]
             together == [is |-> is, at |-> at]
  <1>2. /\ conflictingDimensions(one, two) = {}
        /\ intervalsOverlap(one, two)
    BY DEF compareClaimApplicability
  <1>3. at \in Instants
    BY ClaimSetAssumption DEF Applicable, NoTime
  <1>4. is \in [Dimensions -> DimensionValues]
    <2>1. \A d \in Dimensions : valued(d) \in DimensionValues
      BY DEF Applicable
    <2> QED
      BY <2>1
  <1>5. together \in Circumstances
    BY <1>3, <1>4 DEF Circumstances
  <1>6. /\ one.from = NoTime \/ one.from <= at
        /\ two.from = NoTime \/ two.from <= at
    BY TimesAreNumbers DEF NoTime
  <1>7. /\ one.until = NoTime \/ at < one.until
        /\ two.until = NoTime \/ at < two.until
    BY <1>2, TimesAreNumbers DEF NoTime, intervalsOverlap, startsBeforeEnds
  <1>8. \A d \in DOMAIN one.dimensions : is[d] = one.dimensions[d]
    BY DEF Applicable
  <1>9. \A d \in DOMAIN two.dimensions : is[d] = two.dimensions[d]
    BY <1>2 DEF Applicable, conflictingDimensions
  <1>10. together.is = is /\ together.at = at
    OBVIOUS
  <1> HIDE DEF at, is, together
  <1>11. AppliesIn(one, together) /\ AppliesIn(two, together)
    BY <1>6, <1>7, <1>8, <1>9, <1>10 DEF AppliesIn
  <1> QED
    BY <1>5, <1>11

\* And claims that it keeps apart never apply together.
LEMMA CircumstanceOverlaps ==
    ASSUME NEW one, NEW two, Applicable(one), Applicable(two),
           NEW circumstance \in Circumstances,
           AppliesIn(one, circumstance), AppliesIn(two, circumstance)
    PROVE  compareClaimApplicability(one, two) = "OVERLAPS"
  <1>1. conflictingDimensions(one, two) = {}
    BY DEF conflictingDimensions, AppliesIn
  <1>2. circumstance.at \in Nat
    BY ClaimSetAssumption DEF Circumstances
  <1>3. intervalsOverlap(one, two)
    BY <1>2, TimesAreNumbers DEF intervalsOverlap, startsBeforeEnds, AppliesIn, NoTime
  <1> QED
    BY <1>1, <1>3 DEF compareClaimApplicability

\* So two claims get a finding, of whichever kind, exactly when they differ.
LEMMA ComparedExactly ==
    ASSUME NEW one, NEW two, Applicable(one), Applicable(two)
    PROVE  compareClaims(one, two) \in {"INCOMPATIBLE", "AMBIGUOUS"} <=> Differ(one, two)
  <1>1. compareClaimApplicability(one, two) \in {"OVERLAPS", "DISJOINT"}
    BY DEF compareClaimApplicability
  <1>2. ASSUME Differ(one, two)
        PROVE  compareClaims(one, two) \in {"INCOMPATIBLE", "AMBIGUOUS"}
    <2>1. PICK c \in Circumstances : AppliesIn(one, c) /\ AppliesIn(two, c)
      BY <1>2 DEF Differ
    <2>2. compareClaimApplicability(one, two) = "OVERLAPS"
      BY <2>1, CircumstanceOverlaps
    <2> QED
      BY <1>2, <2>2 DEF compareClaims, compareClaimValues, Differ
  <1>3. ASSUME compareClaims(one, two) \in {"INCOMPATIBLE", "AMBIGUOUS"}
        PROVE  Differ(one, two)
    <2>1. /\ one.key = two.key
          /\ compareClaimApplicability(one, two) = "OVERLAPS"
          /\ one.value # two.value
      BY <1>1, <1>3 DEF compareClaims, compareClaimValues
    <2> QED
      BY <2>1, OverlapHasCircumstance, Zenon DEF Differ
  <1> QED
    BY <1>2, <1>3

LEMMA DifferEitherWay ==
    ASSUME NEW one, NEW two
    PROVE  Differ(one, two) <=> Differ(two, one)
  BY DEF Differ

\* The kinds that make the one finding or the other.
LEMMA FindingKinds ==
    ASSUME NEW one, NEW two
    PROVE  /\ compareClaims(one, two) = "INCOMPATIBLE" =>
                  one.value.kind = two.value.kind /\ one.value.kind \in ScalarKinds
           /\ compareClaims(one, two) = "AMBIGUOUS" =>
                  one.value.kind # two.value.kind \/ one.value.kind \notin ScalarKinds
  BY DEF compareClaims, compareClaimValues

-----------------------------------------------------------------------------
(***************************************************************************)
(* ClaimComparison: the findings of a set.                                 *)
(***************************************************************************)
\* A pair has a finding when its two claims, the lower id first, have it.
LEMMA FindingOfPair ==
    ASSUME NEW set, DOMAIN set.claims \subseteq Nat, NEW relation,
           NEW c \in ActiveClaims(set), NEW d \in ActiveClaims(set)
    PROVE  {c, d} \in FindingsOf(set, relation) <=>
               \/ c < d /\ compareClaims(set.claims[c], set.claims[d]) = relation
               \/ d < c /\ compareClaims(set.claims[d], set.claims[c]) = relation
  <1> DEFINE found(i, j) ==
                 i < j /\ compareClaims(set.claims[i], set.claims[j]) = relation
  <1>1. c \in Nat /\ d \in Nat
    BY DEF ActiveClaims
  <1>2. ASSUME {c, d} \in FindingsOf(set, relation)
        PROVE  found(c, d) \/ found(d, c)
    <2>1. PICK p \in ActiveClaims(set) \X ActiveClaims(set) :
              found(p[1], p[2]) /\ {p[1], p[2]} = {c, d}
      BY <1>2 DEF FindingsOf
    <2>2. p[1] \in Nat /\ p[2] \in Nat
      BY <2>1 DEF ActiveClaims
    <2>3. (p[1] = c /\ p[2] = d) \/ (p[1] = d /\ p[2] = c)
      BY <1>1, <2>1, <2>2
    <2> QED
      BY <2>1, <2>3
  <1>3. ASSUME NEW i \in ActiveClaims(set), NEW j \in ActiveClaims(set), found(i, j)
        PROVE  {i, j} \in FindingsOf(set, relation)
    <2>1. <<i, j>> \in ActiveClaims(set) \X ActiveClaims(set)
      OBVIOUS
    <2> QED
      BY <1>3, <2>1 DEF FindingsOf
  <1>4. {d, c} = {c, d}
    OBVIOUS
  <1> QED
    BY <1>2, <1>3, <1>4

LEMMA PairCardinality ==
    ASSUME NEW x, NEW y
    PROVE  Cardinality({x, y}) = IF x = y THEN 1 ELSE 2
  <1>1. IsFiniteSet({x}) /\ Cardinality({x}) = 1
    BY FS_Singleton
  <1>2. {x, y} = {x} \cup {y}
    OBVIOUS
  <1>3. Cardinality({x} \cup {y}) = IF y \in {x} THEN 1 ELSE 1 + 1
    BY <1>1, FS_AddElement
  <1> QED
    BY <1>2, <1>3
-----------------------------------------------------------------------------
(***************************************************************************)
(* Sequences of values, each made of the one before it.                    *)
(***************************************************************************)
\* Turn n makes of one value in D the next.
TurnsBy(f, D, step, start, N) ==
    /\ f \in [0 .. N -> D]
    /\ f[0] = start
    /\ \A n \in 1 .. N : f[n] = step[n][f[n - 1]]

\* What the turns make of a start is a sequence: a least number of turns without one
\* has a predecessor with one.
LEMMA IteratesByTurn ==
    ASSUME NEW D, NEW N \in Nat, NEW step \in [1 .. N -> [D -> D]], NEW start \in D
    PROVE  \E f : TurnsBy(f, D, step, start, N)
  <1> DEFINE Missing == {k \in 0 .. N : ~ \E f : TurnsBy(f, D, step, start, k)}
  <1> USE DEF TurnsBy
  <1>1. ASSUME Missing # {}
        PROVE  FALSE
    <2>0. Missing \in SUBSET Nat
      OBVIOUS
    <2>1. PICK k \in Missing : \A i \in Missing : k <= i
      <3> HIDE DEF Missing
      <3> QED
        BY <1>1, <2>0, LeastNatural
    <2>2. CASE k = 0
      <3>1. TurnsBy([n \in 0 .. 0 |-> start], D, step, start, 0)
        OBVIOUS
      <3> QED
        BY <2>1, <2>2, <3>1
    <2>3. CASE k # 0
      <3>1. k \in 1 .. N /\ k - 1 \in 0 .. N /\ k - 1 \notin Missing
        <4>1. k \in 1 .. N /\ k - 1 \in 0 .. N /\ k - 1 < k
          BY <2>1, <2>3
        <4> HIDE DEF Missing
        <4> QED
          BY <2>1, <4>1
      <3>2. PICK f : TurnsBy(f, D, step, start, k - 1)
        BY <3>1
      <3> DEFINE longer == [n \in 0 .. k |-> IF n = k THEN step[k][f[k - 1]] ELSE f[n]]
      <3>3. f[k - 1] \in D
        BY <3>1, <3>2
      <3>4. longer \in [0 .. k -> D]
        BY <3>1, <3>2, <3>3
      <3>5. longer[0] = start
        BY <2>3, <3>1, <3>2
      <3>6. ASSUME NEW n \in 1 .. k
            PROVE  longer[n] = step[n][longer[n - 1]]
        <4>1. n - 1 \in 0 .. k /\ n - 1 # k /\ n \in 0 .. k
          BY <3>1
        <4>2. longer[n - 1] = f[n - 1]
          BY <4>1
        <4>3. CASE n = k
          BY <4>1, <4>2, <4>3
        <4>4. CASE n # k
          BY <3>1, <3>2, <4>1, <4>2, <4>4
        <4> QED
          BY <4>3, <4>4
      <3> HIDE DEF longer
      <3>7. TurnsBy(longer, D, step, start, k)
        BY <3>4, <3>5, <3>6
      <3> QED
        BY <2>1, <3>7
    <2> QED
      BY <2>2, <2>3
  <1>2. N \in 0 .. N
    OBVIOUS
  <1> HIDE DEF TurnsBy
  <1> QED
    BY <1>1, <1>2

-----------------------------------------------------------------------------
(***************************************************************************)
(* ClaimComparison: the lines of claims that supersede each other.         *)
(***************************************************************************)
\* A sequence in D that goes on from start by a step.
GoesBy(f, D, step, start, N) ==
    /\ f \in [0 .. N -> D]
    /\ f[0] = start
    /\ \A n \in 1 .. N : f[n] = step[f[n - 1]]

\* What a step makes of a start, over and over, is a sequence of any length.
LEMMA Iterates ==
    ASSUME NEW D, NEW step \in [D -> D], NEW start \in D, NEW N \in Nat
    PROVE  \E f : GoesBy(f, D, step, start, N)
  <1> DEFINE turns == [n \in 1 .. N |-> step]
  <1>1. turns \in [1 .. N -> [D -> D]]
    OBVIOUS
  <1>2. PICK f : TurnsBy(f, D, turns, start, N)
    <2> HIDE DEF turns
    <2> QED
      BY <1>1, IteratesByTurn
  <1>3. GoesBy(f, D, step, start, N)
    BY <1>2 DEF GoesBy, TurnsBy
  <1> QED
    BY <1>3

\* A set of claims whose links are in order.
Reconcilable(set) ==
    /\ Created(set.claims)
    /\ validateSupersessions(set)

\* A claim supersedes another exactly when a link leads from that one to it.
LEMMA LinkOfClaim ==
    ASSUME NEW set, Reconcilable(set), NEW c \in DOMAIN set.claims, NEW b
    PROVE  set.claims[c].supersedes = b /\ b # NoClaim
               <=> \E l \in set.links : l.predecessor = b /\ l.successor = c
  <1>1. {set.claims[c].supersedes} \ {NoClaim} =
            {l.predecessor : l \in {k \in set.links : k.successor = c}}
    BY DEF Reconcilable, validateSupersessions, LinksMatch
  <1>2. \A l \in set.links : l.predecessor \in DOMAIN set.claims
    BY DEF Reconcilable, validateSupersessions, LinksMatch
  <1> QED
    BY <1>1, <1>2 DEF Reconcilable, Created

LEMMA SizeIsNat ==
    ASSUME NEW set, Reconcilable(set)
    PROVE  Cardinality(DOMAIN set.claims) \in Nat
  BY FS_CardinalityType DEF Reconcilable, Created

\* The paths along the links, a step at a time.
LEMMA OnwardSteps ==
    ASSUME NEW set, Reconcilable(set)
    PROVE  LET N == Cardinality(DOMAIN set.claims) IN
           Onward(set) = [n \in 0 .. N |-> IF n = 0 THEN DOMAIN set.claims
                                           ELSE Successors(set, Onward(set)[n - 1])]
  <1> DEFINE N == Cardinality(DOMAIN set.claims)
             D == SUBSET DOMAIN set.claims
             step == [ids \in D |-> Successors(set, ids)]
             Is(f) == f = [n \in 0 .. N |-> IF n = 0 THEN DOMAIN set.claims
                                            ELSE Successors(set, f[n - 1])]
  <1>1. N \in Nat
    BY SizeIsNat
  <1>2. step \in [D -> D]
    BY DEF Successors, Reconcilable, validateSupersessions, LinksMatch
  <1>3. DOMAIN set.claims \in D
    OBVIOUS
  <1>4. PICK f : GoesBy(f, D, step, DOMAIN set.claims, N)
    <2> HIDE DEF N, D, step
    <2> QED
      BY <1>1, <1>2, <1>3, Iterates
  <1>5. ASSUME NEW n \in 0 .. N, n # 0
        PROVE  f[n] = Successors(set, f[n - 1])
    <2>1. n - 1 \in 0 .. N /\ n \in 1 .. N
      BY <1>1, <1>5
    <2>2. f[n] = step[f[n - 1]] /\ f[n - 1] \in D
      BY <1>4, <2>1 DEF GoesBy
    <2> QED
      BY <2>2
  <1>6. Is(f)
    <2> HIDE DEF D, step, N
    <2> QED
      BY <1>1, <1>4, <1>5 DEF GoesBy
  <1>7. Onward(set) = CHOOSE g : Is(g)
    BY Zenon DEF Onward
  <1>8. Is(Onward(set))
    <2> HIDE DEF Is
    <2> QED
      BY <1>6, <1>7, Zenon
  <1> QED
    BY <1>8

\* The claims behind a claim, a step at a time.
LEMMA LineageSteps ==
    ASSUME NEW set, Reconcilable(set), NEW c \in DOMAIN set.claims
    PROVE  LET N == Cardinality(DOMAIN set.claims) IN
           /\ Lineage(set, c)[0] = {c}
           /\ \A n \in 1 .. N :
                 Lineage(set, c)[n] = WithSuperseded(set, Lineage(set, c)[n - 1])
           /\ \A n \in 0 .. N : Lineage(set, c)[n] \subseteq DOMAIN set.claims
  <1> DEFINE N == Cardinality(DOMAIN set.claims)
             D == SUBSET DOMAIN set.claims
             step == [ids \in D |-> WithSuperseded(set, ids)]
             Is(f) == f = [n \in 0 .. N |->
                          IF n = 0 THEN {c} ELSE WithSuperseded(set, f[n - 1])]
  <1>1. N \in Nat
    BY SizeIsNat
  <1>0. ASSUME NEW ids \in D
         PROVE  WithSuperseded(set, ids) \in D
    <2>1. ASSUME NEW d \in ids, set.claims[d].supersedes # NoClaim
          PROVE  set.claims[d].supersedes \in DOMAIN set.claims
      <3>1. PICK l \in set.links : l.predecessor = set.claims[d].supersedes
        BY <1>0, <2>1, LinkOfClaim
      <3> QED
        BY <3>1 DEF Reconcilable, validateSupersessions, LinksMatch
    <2> QED
      BY <2>1 DEF WithSuperseded
  <1>2. step \in [D -> D]
    BY <1>0
  <1>3. {c} \in D
    OBVIOUS
  <1>4. PICK f : GoesBy(f, D, step, {c}, N)
    <2> HIDE DEF N, D, step
    <2> QED
      BY <1>1, <1>2, <1>3, Iterates
  <1>5. ASSUME NEW n \in 0 .. N, n # 0
        PROVE  f[n] = WithSuperseded(set, f[n - 1])
    <2>1. n - 1 \in 0 .. N /\ n \in 1 .. N
      BY <1>1, <1>5
    <2>2. f[n] = step[f[n - 1]] /\ f[n - 1] \in D
      BY <1>4, <2>1 DEF GoesBy
    <2> QED
      BY <2>2
  <1>6. Is(f)
    <2> HIDE DEF D, step, N
    <2> QED
      BY <1>1, <1>4, <1>5 DEF GoesBy
  <1>7. Lineage(set, c) = CHOOSE g : Is(g)
    BY Zenon DEF Lineage
  <1>8. Is(Lineage(set, c))
    <2> HIDE DEF Is
    <2> QED
      BY <1>6, <1>7, Zenon
  <1> DEFINE back == Lineage(set, c)
  <1>10. /\ back[0] = {c}
         /\ \A n \in 1 .. N : back[n] = WithSuperseded(set, back[n - 1])
    <2>1. back = [n \in 0 .. N |-> IF n = 0 THEN {c} ELSE WithSuperseded(set, back[n - 1])]
      BY <1>8
    <2> HIDE DEF back, N
    <2>2. \A n \in 0 .. N :
              back[n] = IF n = 0 THEN {c} ELSE WithSuperseded(set, back[n - 1])
      BY <2>1, Zenon
    <2>3. 0 \in 0 .. N /\ \A n \in 1 .. N : n \in 0 .. N /\ n # 0
      BY <1>1
    <2> QED
      BY <2>2, <2>3
  <1>9. \A n \in 0 .. N : Lineage(set, c)[n] \in D
    <2> DEFINE Astray == {n \in 0 .. N : Lineage(set, c)[n] \notin D}
    <2>1. ASSUME Astray # {}
          PROVE  FALSE
      <3>0. Astray \in SUBSET Nat
        BY <1>1
      <3>1. PICK n \in Astray : \A i \in Astray : n <= i
        <4> HIDE DEF Astray
        <4> QED
          BY <2>1, <3>0, LeastNatural
      <3>20. Lineage(set, c)[0] \in D
        BY <1>3, <1>10
      <3>2. n # 0 /\ n - 1 \in 0 .. N
        BY <1>1, <3>1, <3>20
      <3>3. Lineage(set, c)[n - 1] \in D
        BY <3>1, <3>2
      <3>4. Lineage(set, c)[n] = WithSuperseded(set, Lineage(set, c)[n - 1])
        BY <1>1, <1>10, <3>1, <3>2
      <3> QED
        BY <1>0, <3>1, <3>3, <3>4
    <2> QED
      BY <2>1
  <1> QED
    BY <1>9, <1>10

\* The same, about one step of it.
LEMMA LineageStep ==
    ASSUME NEW set, Reconcilable(set), NEW c \in DOMAIN set.claims,
           NEW n \in 0 .. Cardinality(DOMAIN set.claims), n # 0
    PROVE  /\ n - 1 \in 0 .. Cardinality(DOMAIN set.claims)
           /\ Lineage(set, c)[n] = WithSuperseded(set, Lineage(set, c)[n - 1])
           /\ Lineage(set, c)[n] \subseteq DOMAIN set.claims
           /\ Lineage(set, c)[n - 1] \subseteq DOMAIN set.claims
  <1> DEFINE N == Cardinality(DOMAIN set.claims)
  <1>1. n - 1 \in 0 .. N /\ n \in 1 .. N
    BY SizeIsNat
  <1> QED
    BY <1>1, LineageSteps

LEMMA LineageStarts ==
    ASSUME NEW set, Reconcilable(set), NEW c \in DOMAIN set.claims
    PROVE  /\ 0 \in 0 .. Cardinality(DOMAIN set.claims)
           /\ Lineage(set, c)[0] = {c}
  <1>1. 0 \in 0 .. Cardinality(DOMAIN set.claims)
    BY SizeIsNat
  <1> QED
    BY <1>1, LineageSteps

\* What is behind a claim stays behind it, a step further back.
LEMMA LineageGrows ==
    ASSUME NEW set, Reconcilable(set), NEW c \in DOMAIN set.claims,
           NEW n \in 0 .. Cardinality(DOMAIN set.claims)
    PROVE  Lineage(set, c)[n] \subseteq Ancestry(set, c)
  <1> DEFINE N == Cardinality(DOMAIN set.claims)
             Lost == {i \in 0 .. N : ~ Lineage(set, c)[N - i] \subseteq Ancestry(set, c)}
  <1>1. N \in Nat
    BY SizeIsNat
  <1>2. ASSUME Lost # {}
        PROVE  FALSE
    <2>1. Lost \in SUBSET Nat
      BY <1>1
    <2>2. PICK i \in Lost : \A j \in Lost : i <= j
      <3> HIDE DEF Lost
      <3> QED
        BY <1>2, <2>1, LeastNatural
    <2>3. i # 0
      BY <1>1, <2>2 DEF Ancestry
    <2>4. i - 1 \in 0 .. N /\ i - 1 \notin Lost
      BY <1>1, <2>2, <2>3
    <2>5. N - i + 1 \in 0 .. N /\ N - i + 1 # 0 /\ N - (i - 1) = N - i + 1
      BY <1>1, <2>2, <2>3
    <2>6. (N - i + 1) - 1 = N - i
      BY <1>1, <2>2
    <2>7. Lineage(set, c)[N - i] \subseteq Lineage(set, c)[N - i + 1]
      BY <2>5, <2>6, LineageStep DEF WithSuperseded
    <2> QED
      BY <2>2, <2>4, <2>5, <2>7
  <1>3. N - n \in 0 .. N /\ N - (N - n) = n
    BY <1>1
  <1> QED
    BY <1>2, <1>3

\* What is behind a claim is behind the one that supersedes it.
LEMMA LineagePassedOn ==
    ASSUME NEW set, Reconcilable(set), NEW a \in DOMAIN set.claims, NEW b \in DOMAIN set.claims,
           set.claims[b].supersedes = a,
           NEW n \in 0 .. Cardinality(DOMAIN set.claims), n # 0
    PROVE  Lineage(set, a)[n - 1] \subseteq Lineage(set, b)[n]
  <1> DEFINE N == Cardinality(DOMAIN set.claims)
             Lost == {i \in 1 .. N : ~ Lineage(set, a)[i - 1] \subseteq Lineage(set, b)[i]}
  <1>1. N \in Nat
    BY SizeIsNat
  <1>2. ASSUME Lost # {}
        PROVE  FALSE
    <2>1. Lost \in SUBSET Nat
      BY <1>1
    <2>2. PICK i \in Lost : \A j \in Lost : i <= j
      <3> HIDE DEF Lost
      <3> QED
        BY <1>2, <2>1, LeastNatural
    <2>3. i \in 0 .. N /\ i # 0
      BY <1>1, <2>2
    <2>4. Lineage(set, b)[i] = WithSuperseded(set, Lineage(set, b)[i - 1])
      BY <2>3, LineageStep
    <2>5. CASE i = 1
      <3>1. Lineage(set, b)[0] = {b} /\ Lineage(set, a)[0] = {a}
        BY LineageStarts
      <3>2. a # NoClaim
        BY DEF Reconcilable, Created
      <3>3. i - 1 = 0
        BY <2>5
      <3> QED
        BY <2>2, <2>4, <3>1, <3>2, <3>3 DEF WithSuperseded
    <2>6. CASE i # 1
      <3>1. i - 1 \in 0 .. N /\ i - 1 # 0 /\ i - 1 \notin Lost /\ i - 1 \in 1 .. N
        BY <1>1, <2>2, <2>3, <2>6
      <3>2. Lineage(set, a)[i - 1] = WithSuperseded(set, Lineage(set, a)[(i - 1) - 1])
        BY <3>1, LineageStep
      <3>3. Lineage(set, a)[(i - 1) - 1] \subseteq Lineage(set, b)[i - 1]
        BY <3>1
      <3>4. Lineage(set, a)[i - 1] \subseteq Lineage(set, b)[i]
        BY <2>4, <3>2, <3>3 DEF WithSuperseded
      <3> QED
        BY <2>2, <3>4
    <2> QED
      BY <2>5, <2>6
  <1>3. n \in 1 .. N
    BY <1>1
  <1> QED
    BY <1>2, <1>3

\* Following the links from any claim comes to an active one: otherwise there
\* would be a path as long as there are claims.
LEMMA SomeActive ==
    ASSUME NEW set, Reconcilable(set), NEW c \in DOMAIN set.claims
    PROVE  \E a \in ActiveClaims(set) : c \in Ancestry(set, a)
  <1> SUFFICES ASSUME \A a \in ActiveClaims(set) : c \notin Ancestry(set, a)
               PROVE  FALSE
    OBVIOUS
  <1> DEFINE N == Cardinality(DOMAIN set.claims)
             Leads(n) == \E a \in Onward(set)[n] :
                            a \in DOMAIN set.claims /\ c \in Lineage(set, a)[n]
             Ended == {n \in 0 .. N : ~ Leads(n)}
  <1>1. N \in Nat
    BY SizeIsNat
  <1>2. N \in Ended
    BY <1>1 DEF Reconcilable, validateSupersessions, Acyclic
  <1>3. PICK n \in Ended : \A i \in Ended : n <= i
    <2>1. Ended \in SUBSET Nat /\ Ended # {}
      BY <1>1, <1>2
    <2> HIDE DEF Ended
    <2> QED
      BY <2>1, LeastNatural
  <1>4. n # 0
    <2>1. 0 \in 0 .. N /\ Onward(set)[0] = DOMAIN set.claims
      BY <1>1, OnwardSteps
    <2>2. Leads(0)
      BY <2>1, LineageStarts
    <2> QED
      BY <1>3, <2>2
  <1>5. n \in 0 .. N /\ n - 1 \in 0 .. N /\ n - 1 \notin Ended
    BY <1>1, <1>3, <1>4
  <1>6. PICK a \in Onward(set)[n - 1] :
            a \in DOMAIN set.claims /\ c \in Lineage(set, a)[n - 1]
    BY <1>5
  <1>7. a \notin ActiveClaims(set)
    BY <1>5, <1>6, LineageGrows
  <1>8. PICK l \in set.links : l.predecessor = a
    BY <1>6, <1>7 DEF ActiveClaims
  <1>9. l.successor \in DOMAIN set.claims
    BY <1>8 DEF Reconcilable, validateSupersessions, LinksMatch
  <1>10. set.claims[l.successor].supersedes = a
    BY <1>8, <1>9, LinkOfClaim
  <1>11. c \in Lineage(set, l.successor)[n]
    BY <1>4, <1>5, <1>6, <1>9, <1>10, LineagePassedOn
  <1>12. Onward(set)[n] = Successors(set, Onward(set)[n - 1])
    BY <1>4, <1>5, OnwardSteps
  <1>13. l.successor \in Onward(set)[n]
    BY <1>6, <1>8, <1>12 DEF Successors
  <1> QED
    BY <1>3, <1>9, <1>11, <1>13

\* A claim behind another is that one, or there is a link from it to a claim
\* that is behind the other a step earlier.
LEMMA BehindByLink ==
    ASSUME NEW set, Reconcilable(set), NEW a \in DOMAIN set.claims, NEW c,
           NEW n \in 0 .. Cardinality(DOMAIN set.claims), c \in Lineage(set, a)[n],
           \A i \in 0 .. n - 1 : c \notin Lineage(set, a)[i]
    PROVE  \/ n = 0 /\ c = a
           \/ /\ n # 0
              /\ \E l \in set.links :
                    l.predecessor = c /\ l.successor \in Lineage(set, a)[n - 1]
  <1>1. CASE n = 0
    BY <1>1, LineageStarts
  <1>2. CASE n # 0
    <2>1. c \notin Lineage(set, a)[n - 1]
      BY <1>2, SizeIsNat
    <2>2. PICK d \in Lineage(set, a)[n - 1] :
              c = set.claims[d].supersedes /\ c # NoClaim
      BY <1>2, <2>1, LineageStep DEF WithSuperseded
    <2>3. d \in DOMAIN set.claims
      BY <1>2, <2>2, LineageStep
    <2>4. \E l \in set.links : l.predecessor = c /\ l.successor = d
      BY <2>2, <2>3, LinkOfClaim
    <2> QED
      BY <1>2, <2>2, <2>4
  <1> QED
    BY <1>1, <1>2

\* The same of a claim in an ancestry.
LEMMA AncestorByLink ==
    ASSUME NEW set, Reconcilable(set), NEW a \in DOMAIN set.claims,
           NEW c \in Ancestry(set, a), c # a
    PROVE  \E l \in set.links :
              l.predecessor = c /\ l.successor \in Ancestry(set, a)
  <1> DEFINE N == Cardinality(DOMAIN set.claims)
             At == {n \in 0 .. N : c \in Lineage(set, a)[n]}
  <1>1. N \in Nat
    BY SizeIsNat
  <1>2. At \in SUBSET Nat /\ At # {}
    BY <1>1 DEF Ancestry
  <1>3. PICK n \in At : \A i \in At : n <= i
    <2> HIDE DEF At
    <2> QED
      BY <1>2, LeastNatural
  <1>4. \A i \in 0 .. n - 1 : c \notin Lineage(set, a)[i]
    BY <1>1, <1>3
  <1>5. n # 0 /\ \E l \in set.links :
            l.predecessor = c /\ l.successor \in Lineage(set, a)[n - 1]
    BY <1>3, <1>4, BehindByLink
  <1>6. n - 1 \in 0 .. N
    BY <1>1, <1>3, <1>5
  <1> QED
    BY <1>5, <1>6, LineageGrows

\* No claim has two successors, so that two ways on from one claim stay together.
LEMMA OneActive ==
    ASSUME NEW set, Reconcilable(set), NEW a \in ActiveClaims(set), NEW b \in ActiveClaims(set),
           NEW c \in Ancestry(set, a) \cap Ancestry(set, b)
    PROVE  a = b
  <1> SUFFICES ASSUME a # b
               PROVE  FALSE
    OBVIOUS
  <1> DEFINE N == Cardinality(DOMAIN set.claims)
             Shared == {n \in 0 .. N :
                           Lineage(set, a)[n] \cap Ancestry(set, b) # {}}
  <1>1. N \in Nat
    BY SizeIsNat
  <1>2. /\ a \in DOMAIN set.claims /\ b \in DOMAIN set.claims
        /\ \A l \in set.links : l.predecessor # a /\ l.predecessor # b
    BY DEF ActiveClaims
  <1>3. Shared \in SUBSET Nat /\ N \in Shared
    BY <1>1 DEF Ancestry
  <1>4. PICK n \in Shared : \A i \in Shared : n <= i
    <2> HIDE DEF Shared
    <2> QED
      BY <1>3, LeastNatural
  <1>5. PICK d : d \in Lineage(set, a)[n] /\ d \in Ancestry(set, b)
    BY <1>4
  <1>6. \A i \in 0 .. n - 1 : d \notin Lineage(set, a)[i]
    BY <1>1, <1>4, <1>5
  <1>7. n \in 0 .. N
    BY <1>4
  <1>8. CASE n = 0
    <2>1. d = a
      BY <1>2, <1>5, <1>8, LineageStarts
    <2> QED
      BY <1>2, <1>5, <2>1, AncestorByLink
  <1>9. CASE n # 0
    <2>1. PICK l \in set.links :
              l.predecessor = d /\ l.successor \in Lineage(set, a)[n - 1]
      BY <1>2, <1>5, <1>6, <1>7, <1>9, BehindByLink
    <2>2. d # b
      BY <1>2, <2>1
    <2>3. PICK k \in set.links : k.predecessor = d /\ k.successor \in Ancestry(set, b)
      BY <1>2, <1>5, <2>2, AncestorByLink
    <2>4. k = l
      BY <2>1, <2>3 DEF Reconcilable, validateSupersessions, NoFork
    <2>5. n - 1 \in Shared
      BY <1>1, <1>7, <1>9, <2>1, <2>3, <2>4
    <2> QED
      BY <1>1, <1>4, <2>5
  <1> QED
    BY <1>8, <1>9

-----------------------------------------------------------------------------
\* In every set of claims that createClaim can have made and that is accepted,
\* each claim speaks through exactly one active claim, and the findings are the
\* pairs of active claims that differ where both apply, told apart by their kinds.
THEOREM FindingsCorrect == ClaimSetInit => FindingsAreTheClashes
  <1> SUFFICES ASSUME ClaimSetInit, reconcileClaimSet(claimSet).error = "NONE"
               PROVE  FindingsAreTheClashes
    BY DEF FindingsAreTheClashes
  <1> DEFINE set    == claimSet
             found  == reconcileClaimSet(set)
             claims == set.claims
             live == ActiveClaims(set)
  <1>1. Reconcilable(set)
    BY ClaimSetAssumption DEF ClaimSetInit, Reconcilable, Created, reconcileClaimSet
  <1>2. \A c \in DOMAIN claims : Applicable(claims[c])
    BY ClaimSetAssumption DEF ClaimSetInit, Created
  <1>3. /\ found.active = live
        /\ found.conflict = FindingsOf(set, "INCOMPATIBLE")
        /\ found.ambiguous = FindingsOf(set, "AMBIGUOUS")
    BY <1>1 DEF reconcileClaimSet, Reconcilable
  <1>4. DOMAIN claims \subseteq Nat
    BY <1>1 DEF Reconcilable, Created
  <1>5. live \subseteq DOMAIN claims
    BY DEF ActiveClaims
  <1> HIDE DEF set, found, claims, live
  <1>6. ASSUME NEW c \in DOMAIN claims
        PROVE  Cardinality({a \in found.active : c \in Ancestry(set, a)}) = 1
    <2>1. PICK a \in live : c \in Ancestry(set, a)
      BY <1>1, SomeActive DEF claims, live
    <2>2. \A b \in live : c \in Ancestry(set, b) => b = a
      BY <1>1, <2>1, OneActive DEF live
    <2>3. {b \in found.active : c \in Ancestry(set, b)} = {a}
      BY <1>3, <2>1, <2>2
    <2> QED
      BY <2>3, FS_Singleton
  <1>7. found.conflict \cap found.ambiguous = {}
    <2>1. ASSUME NEW pair \in found.conflict, pair \in found.ambiguous
          PROVE  FALSE
      <3>1. PICK c \in live, d \in live : pair = {c, d}
        BY <1>3, <2>1 DEF FindingsOf, live
      <3>2. c \in Nat /\ d \in Nat
        BY <1>4, <1>5
      <3>3. /\ {c, d} \in FindingsOf(set, "INCOMPATIBLE")
            /\ {c, d} \in FindingsOf(set, "AMBIGUOUS")
        BY <1>3, <2>1, <3>1
      <3> QED
        BY <1>4, <3>2, <3>3, FindingOfPair DEF live, claims
    <2> QED
      BY <2>1
  <1>8. ASSUME NEW c \in live, NEW d \in live
        PROVE  LET known == {claims[c].value.kind, claims[d].value.kind} IN
               /\ {c, d} \in found.conflict \cup found.ambiguous
                     <=> Differ(claims[c], claims[d])
               /\ {c, d} \in found.conflict
                     => known \subseteq ScalarKinds /\ Cardinality(known) = 1
               /\ {c, d} \in found.ambiguous
                     => ~ known \subseteq ScalarKinds \/ Cardinality(known) = 2
    <2> DEFINE one == claims[c]
               two == claims[d]
               known == {one.value.kind, two.value.kind}
    <2>1. /\ c \in Nat /\ d \in Nat
          /\ Applicable(one) /\ Applicable(two)
      BY <1>2, <1>4, <1>5
    <2>2. \A relation : {c, d} \in FindingsOf(set, relation) <=>
              \/ c < d /\ compareClaims(one, two) = relation
              \/ d < c /\ compareClaims(two, one) = relation
      BY <1>4, FindingOfPair DEF live, claims
    <2>3. /\ compareClaims(one, two) \in {"INCOMPATIBLE", "AMBIGUOUS"} <=> Differ(one, two)
          /\ compareClaims(two, one) \in {"INCOMPATIBLE", "AMBIGUOUS"} <=> Differ(two, one)
          /\ Differ(one, two) <=> Differ(two, one)
      BY <2>1, ComparedExactly, DifferEitherWay
    <2>4. c = d => ~ Differ(one, two)
      BY DEF Differ
    <2>5. Cardinality(known) =
              IF one.value.kind = two.value.kind THEN 1 ELSE 2
      BY PairCardinality
    <2> HIDE DEF one, two
    <2>6. {c, d} \in found.conflict \cup found.ambiguous <=> Differ(one, two)
      BY <1>3, <2>1, <2>2, <2>3, <2>4
    <2>7. {c, d} \in found.conflict
              => known \subseteq ScalarKinds /\ Cardinality(known) = 1
      BY <1>3, <2>2, <2>5, FindingKinds
    <2>8. {c, d} \in found.ambiguous
              => ~ known \subseteq ScalarKinds \/ Cardinality(known) = 2
      BY <1>3, <2>2, <2>5, FindingKinds
    <2> QED
      BY <2>6, <2>7, <2>8 DEF one, two
  <1> QED
    BY <1>3, <1>6, <1>7, <1>8 DEF FindingsAreTheClashes, set, found, claims

-----------------------------------------------------------------------------
(***************************************************************************)
(* CitedExplanation: sizes of sets that are made one for one.              *)
(***************************************************************************)
\* What a function makes of the elements of a finite set is finite, and of the
\* same size if it makes different things of different elements.
LEMMA MadeOneForOne ==
    ASSUME NEW S, IsFiniteSet(S), NEW f, DOMAIN f = S, f \in [S -> {f[x] : x \in S}],
           NEW T, T = {f[x] : x \in S},
           \A x, y \in S : f[x] = f[y] => x = y
    PROVE  IsFiniteSet(T) /\ Cardinality(T) = Cardinality(S)
  <1>1. f \in [S -> T]
    OBVIOUS
  <1>2. \A t \in T : \E x \in S : f[x] = t
    OBVIOUS
  <1>3. f \in Surjection(S, T) /\ f \in Injection(S, T)
    BY <1>1, <1>2 DEF Injection, IsInjective, Surjection
  <1>4. f \in Bijection(S, T)
    BY <1>3 DEF Bijection
  <1>5. ExistsBijection(S, T)
    BY <1>4 DEF ExistsBijection
  <1> QED
    BY <1>5, FS_Bijection

LEMMA MadeIsFinite ==
    ASSUME NEW S, IsFiniteSet(S), NEW f, f \in [S -> {f[x] : x \in S}],
           NEW T, T = {f[x] : x \in S}
    PROVE  IsFiniteSet(T)
  <1>1. f \in Surjection(S, T)
    BY DEF Surjection
  <1> QED
    BY <1>1, FS_Surjection

LEMMA DisjointSizes ==
    ASSUME NEW S, NEW T, IsFiniteSet(S), IsFiniteSet(T), S \cap T = {}
    PROVE  /\ IsFiniteSet(S \cup T)
           /\ Cardinality(S \cup T) = Cardinality(S) + Cardinality(T)
  <1>1. Cardinality(S) \in Nat /\ Cardinality(T) \in Nat
    BY FS_CardinalityType
  <1>2. Cardinality(S \cap T) = 0
    BY FS_EmptySet
  <1>3. /\ IsFiniteSet(S \cup T)
        /\ Cardinality(S \cup T) = Cardinality(S) + Cardinality(T) - Cardinality(S \cap T)
    BY FS_Union
  <1> QED
    BY <1>1, <1>2, <1>3

-----------------------------------------------------------------------------
(***************************************************************************)
(* CitedExplanation: the findings of an assessment, kind by kind.          *)
(***************************************************************************)
Disputed == {"CONFLICT", "AMBIGUOUS"}

DisputeFindings(q) == {f \in allFindings(q) : f.kind \in Disputed}
SupportFindings(q, kinds) ==
    {f \in allFindings(q) : f.kind = "MISSING" /\ f.support \in kinds}
StaleFindings(q) == {f \in allFindings(q) : f.kind = "STALE"}
GapFindings(q, reasons) ==
    {f \in allFindings(q) : f.kind = "IMPACT_GAP" /\ f.reason \in reasons}

SupportKinds == {"EVIDENCE_SOURCE", "VALIDATION_RESULT"}

\* The forms of a finding.
Conflicting(pair)     == [kind |-> "CONFLICT", claims |-> pair]
Ambiguous(pair)       == [kind |-> "AMBIGUOUS", claims |-> pair]
Unsupported(m)        == [kind |-> "MISSING", support |-> m.support, key |-> m.key]
StaleBy(changes)      == [kind |-> "STALE", changes |-> changes]
GapOf(found, r)       == [kind |-> "IMPACT_GAP", requirement |-> r.id,
                          reason |-> found[r].reason, path |-> SupportingPath(found[r])]

LEMMA FindingForms ==
    ASSUME NEW q, NEW f
    PROVE  f \in allFindings(q) <=>
               \/ \E pair \in reconcileClaimSet(q.set).conflict : f = Conflicting(pair)
               \/ \E pair \in reconcileClaimSet(q.set).ambiguous : f = Ambiguous(pair)
               \/ \E m \in q.missing : f = Unsupported(m)
               \/ q.changes # 0 /\ f = StaleBy(q.changes)
               \/ \E r \in DOMAIN Outcome(q) :
                     Outcome(q)[r].reason # "NONE" /\ f = GapOf(Outcome(q), r)
  BY DEF allFindings, ImpactGaps, Conflicting, Ambiguous, Unsupported, StaleBy, GapOf

\* An assessed question.
Assessed(q) == Askable(q) /\ q.assessed

\* The pairs of claims that are disputed.
DisputedPairs(q) ==
    {pair \in SUBSET DOMAIN q.set.claims :
        \E c, d \in DOMAIN q.set.claims :
            /\ pair = {c, d} /\ ~ Superseded(q, c) /\ ~ Superseded(q, d)
            /\ Differ(q.set.claims[c], q.set.claims[d])}

\* The pairs with a finding are the disputed ones, each with one finding.
LEMMA FindingsArePairs ==
    ASSUME NEW q, Assessed(q)
    PROVE  LET found == reconcileClaimSet(q.set) IN
           /\ found.conflict \cup found.ambiguous = DisputedPairs(q)
           /\ found.conflict \cap found.ambiguous = {}
  <1> DEFINE set   == q.set
             found == reconcileClaimSet(set)
             live  == ActiveClaims(set)
  <1>1. Created(set.claims) /\ found.error = "NONE"
    BY DEF Assessed, Askable
  <1>2. /\ found.conflict = FindingsOf(set, "INCOMPATIBLE")
        /\ found.ambiguous = FindingsOf(set, "AMBIGUOUS")
    BY <1>1 DEF reconcileClaimSet
  <1>3. DOMAIN set.claims \subseteq Nat /\ \A c \in DOMAIN set.claims : Applicable(set.claims[c])
    BY <1>1 DEF Created
  <1>4. \A c : c \in live <=> c \in DOMAIN set.claims /\ ~ Superseded(q, c)
    BY DEF ActiveClaims, Superseded
  <1>5. \A pair : pair \in FindingsOf(set, "INCOMPATIBLE") \cup FindingsOf(set, "AMBIGUOUS")
                      => \E c, d \in live : pair = {c, d}
    BY DEF FindingsOf
  <1> HIDE DEF set, found, live
  <1>6. ASSUME NEW c \in live, NEW d \in live
        PROVE  /\ {c, d} \in found.conflict \cup found.ambiguous
                      <=> Differ(set.claims[c], set.claims[d])
               /\ ~ ({c, d} \in found.conflict /\ {c, d} \in found.ambiguous)
    <2> DEFINE one == set.claims[c]
               two == set.claims[d]
    <2>1. /\ c \in Nat /\ d \in Nat
          /\ Applicable(one) /\ Applicable(two)
      BY <1>3, <1>4
    <2>2. \A relation : {c, d} \in FindingsOf(set, relation) <=>
              \/ c < d /\ compareClaims(one, two) = relation
              \/ d < c /\ compareClaims(two, one) = relation
      BY <1>3, FindingOfPair DEF live
    <2>3. /\ compareClaims(one, two) \in {"INCOMPATIBLE", "AMBIGUOUS"} <=> Differ(one, two)
          /\ compareClaims(two, one) \in {"INCOMPATIBLE", "AMBIGUOUS"} <=> Differ(two, one)
          /\ Differ(one, two) <=> Differ(two, one)
      BY <2>1, ComparedExactly, DifferEitherWay
    <2>4. c = d => ~ Differ(one, two)
      BY DEF Differ
    <2> HIDE DEF one, two
    <2>5. {c, d} \in found.conflict \cup found.ambiguous <=> Differ(one, two)
      BY <1>2, <2>1, <2>2, <2>3, <2>4
    <2>6. ~ ({c, d} \in found.conflict /\ {c, d} \in found.ambiguous)
      BY <1>2, <2>1, <2>2
    <2> QED
      BY <2>5, <2>6 DEF one, two
  <1>7. ASSUME NEW pair
        PROVE  pair \in found.conflict \cup found.ambiguous <=> pair \in DisputedPairs(q)
    <2>1. ASSUME pair \in found.conflict \cup found.ambiguous
          PROVE  pair \in DisputedPairs(q)
      <3>1. PICK c \in live, d \in live : pair = {c, d}
        BY <1>2, <1>5, <2>1
      <3> QED
        BY <1>4, <1>6, <2>1, <3>1 DEF DisputedPairs, set
    <2>2. ASSUME pair \in DisputedPairs(q)
          PROVE  pair \in found.conflict \cup found.ambiguous
      <3>1. PICK c \in DOMAIN set.claims, d \in DOMAIN set.claims :
                /\ pair = {c, d} /\ ~ Superseded(q, c) /\ ~ Superseded(q, d)
                /\ Differ(set.claims[c], set.claims[d])
        BY <2>2 DEF DisputedPairs, set
      <3> QED
        BY <1>4, <1>6, <3>1
    <2> QED
      BY <2>1, <2>2
  <1>8. ASSUME NEW pair \in found.conflict, pair \in found.ambiguous
        PROVE  FALSE
    <2>1. PICK c \in live, d \in live : pair = {c, d}
      BY <1>2, <1>5, <1>8
    <2> QED
      BY <1>6, <1>8, <2>1
  <1> QED
    BY <1>7, <1>8 DEF found, set

-----------------------------------------------------------------------------
(***************************************************************************)
(* CitedExplanation: the outcome of an analysis.                           *)
(***************************************************************************)
LEMMA LinkedAreFinite ==
    ASSUME NEW twin, NEW requirement, NEW state
    PROVE  IsFiniteSet(ValidationPaths(twin, requirement, state))
  <1> DEFINE First(v) == CHOOSE e \in ValidationEdges(twin, state, v) :
                            \A f \in ValidationEdges(twin, state, v) :
                                e.relationship.id <= f.relationship.id
             V == {w \in ResultNodes : /\ KeyOf[w] = requirement.key
                                       /\ ValidationEdges(twin, state, w) # {}}
             PathTo(v) == pathFromState(requirement, Append(state.edges, First(v)), v)
             made == [v \in V |-> PathTo(v)]
  <1>1. IsFiniteSet(V)
    BY NodesAreFinite, FS_Subset
  <1>2. ValidationPaths(twin, requirement, state) = {PathTo(v) : v \in V}
    BY DEF ValidationPaths
  <1> HIDE DEF V, PathTo
  <1>3. {PathTo(v) : v \in V} = {made[v] : v \in V} /\ made \in [V -> {made[v] : v \in V}]
    OBVIOUS
  <1> HIDE DEF made
  <1> QED
    BY <1>1, <1>2, <1>3, MadeIsFinite

LEMMA SingletonIsFinite == \A x : IsFiniteSet({x})
  BY FS_Singleton

LEMMA ValidationForms ==
    ASSUME NEW twin, NEW requirement, NEW state
    PROVE  LET found == validationOutcome(twin, requirement, state) IN
           /\ found.reason \in GapReasons \cup {"NONE"}
           /\ IsFiniteSet(found.paths)
  <1> DEFINE implementation == {pathFromState(requirement, state.edges, NoResult)}
             linked == ValidationPaths(twin, requirement, state)
             found == validationOutcome(twin, requirement, state)
  <1>1. IsFiniteSet(implementation) /\ IsFiniteSet(linked)
    BY SingletonIsFinite, LinkedAreFinite
  <1> HIDE DEF implementation, linked
  <1>2. \/ found = Found(implementation, "REQUIRED_VALIDATION_RESULT_ABSENT")
        \/ found = Found(implementation, "REQUIRED_VALIDATION_PATH_ABSENT")
        \/ found = Found(linked, "IMPLEMENTATION_SUPPORT_UNAVAILABLE")
        \/ found = Found(linked, "NONE")
    BY DEF validationOutcome, implementation, linked
  <1> QED
    BY <1>1, <1>2 DEF Found, GapReasons, ValidationGaps

LEMMA OutcomeForms ==
    ASSUME NEW in, NEW requirement
    PROVE  LET found == requirementOutcome(in, requirement) IN
           /\ found.reason \in GapReasons \cup {"NONE"}
           /\ IsFiniteSet(found.paths)
  <1> DEFINE states == {s \in canonicalPathsFrom(in.twin, requirement.root) :
                            s.node = requirement.asset}
             state == CHOOSE s \in states : TRUE
             implementation == pathFromState(requirement, state.edges, NoResult)
             validated == validationOutcome(in.twin, requirement, state)
             found == requirementOutcome(in, requirement)
  <1>1. /\ validated.reason \in GapReasons \cup {"NONE"}
        /\ IsFiniteSet(validated.paths)
    BY ValidationForms
  <1>2. IsFiniteSet({}) /\ IsFiniteSet({implementation})
    BY SingletonIsFinite, FS_EmptySet
  <1> HIDE DEF validated, implementation, state
  <1>3. \/ found = Found({}, "CRITICAL_IMPLEMENTATION_ASSET_ABSENT")
        \/ found = Found({}, "CRITICAL_IMPLEMENTATION_PATH_ABSENT")
        \/ found = Found({implementation}, "IMPLEMENTATION_SUPPORT_UNAVAILABLE")
        \/ found = Found({implementation}, "NONE")
        \/ found = validated
    BY DEF requirementOutcome, implementation, validated, state
  <1> QED
    BY <1>1, <1>2, <1>3 DEF Found, GapReasons

\* Every requirement of an assessment has an outcome, and they lead to finitely
\* many paths.
LEMMA OutcomesOfAssessment ==
    ASSUME NEW q, Assessed(q)
    PROVE  /\ DOMAIN Outcome(q) = q.analysed.requirements
           /\ \A r \in q.analysed.requirements :
                 Outcome(q)[r] = requirementOutcome(q.analysed, r)
           /\ IsFiniteSet(ImpactPaths(q))
  <1> DEFINE R == q.analysed.requirements
  <1>1. /\ IsFiniteSet(R)
        /\ analyzeChangeImpact(q.analysed).error = "NONE"
    BY DEF Assessed, Askable
  <1>2. Outcome(q) = [r \in R |-> requirementOutcome(q.analysed, r)]
    BY <1>1 DEF Outcome, analyzeChangeImpact
  <1> DEFINE found == Outcome(q)
             all == UNION {found[r].paths : r \in R}
             lists == [r \in R |-> found[r].paths]
             keys == [p \in all |-> p.key]
  <1>3. DOMAIN found = R /\ \A r \in R : found[r] = requirementOutcome(q.analysed, r)
    BY <1>2
  <1>4. \A r \in R : IsFiniteSet(found[r].paths)
    BY <1>3, OutcomeForms
  <1>5. ImpactPaths(q) = {keys[p] : p \in all} /\ keys \in [all -> {keys[p] : p \in all}]
    BY DEF ImpactPaths
  <1> HIDE DEF R, found
  <1>6. IsFiniteSet({lists[r] : r \in R})
    <2>1. lists \in [R -> {lists[r] : r \in R}]
      OBVIOUS
    <2> HIDE DEF lists
    <2> QED
      BY <1>1, <2>1, MadeIsFinite DEF R
  <1>7. all = UNION {lists[r] : r \in R} /\ \A s \in {lists[r] : r \in R} : IsFiniteSet(s)
    BY <1>4
  <1>8. IsFiniteSet(all)
    BY <1>6, <1>7, FS_UNION
  <1> HIDE DEF all, keys
  <1>9. IsFiniteSet(ImpactPaths(q))
    BY <1>5, <1>8, MadeIsFinite
  <1> QED
    BY <1>3, <1>9 DEF found, R

-----------------------------------------------------------------------------
(***************************************************************************)
(* CitedExplanation: how many findings of each kind there are.             *)
(***************************************************************************)
\* What tells the forms apart.
LEMMA FormsDiffer ==
    /\ \A pair : Conflicting(pair).kind = "CONFLICT" /\ Ambiguous(pair).kind = "AMBIGUOUS"
    /\ \A m : Unsupported(m).kind = "MISSING" /\ Unsupported(m).support = m.support
    /\ \A changes : StaleBy(changes).kind = "STALE"
    /\ \A found, r : /\ GapOf(found, r).kind = "IMPACT_GAP"
                     /\ GapOf(found, r).reason = found[r].reason
  BY DEF Conflicting, Ambiguous, Unsupported, StaleBy, GapOf

LEMMA DisputeFindingsAre ==
    ASSUME NEW q, NEW f
    PROVE  f \in DisputeFindings(q) <=>
               \/ \E pair \in reconcileClaimSet(q.set).conflict : f = Conflicting(pair)
               \/ \E pair \in reconcileClaimSet(q.set).ambiguous : f = Ambiguous(pair)
  BY FindingForms, FormsDiffer DEF DisputeFindings, Disputed

LEMMA SupportFindingsAre ==
    ASSUME NEW q, NEW kinds, NEW f
    PROVE  f \in SupportFindings(q, kinds)
               <=> \E m \in q.missing : m.support \in kinds /\ f = Unsupported(m)
  BY FindingForms, FormsDiffer DEF SupportFindings

LEMMA StaleFindingsAre ==
    ASSUME NEW q, NEW f
    PROVE  f \in StaleFindings(q) <=> q.changes # 0 /\ f = StaleBy(q.changes)
  BY FindingForms, FormsDiffer DEF StaleFindings

LEMMA GapFindingsAre ==
    ASSUME NEW q, NEW reasons, NEW f
    PROVE  f \in GapFindings(q, reasons)
               <=> \E r \in DOMAIN Outcome(q) :
                      /\ Outcome(q)[r].reason \in reasons \ {"NONE"}
                      /\ f = GapOf(Outcome(q), r)
  BY FindingForms, FormsDiffer DEF GapFindings

LEMMA DisputesAreCounted ==
    ASSUME NEW q, Assessed(q)
    PROVE  IsFiniteSet(DisputeFindings(q)) /\ Cardinality(DisputeFindings(q)) = Disputes(q)
  <1> DEFINE compared == reconcileClaimSet(q.set)
             pairs    == DisputedPairs(q)
             made == [pair \in pairs |-> IF pair \in compared.conflict
                                         THEN Conflicting(pair) ELSE Ambiguous(pair)]
  <1>1. /\ compared.conflict \cup compared.ambiguous = pairs
        /\ compared.conflict \cap compared.ambiguous = {}
    BY FindingsArePairs
  <1>2. IsFiniteSet(pairs)
    <2>1. IsFiniteSet(DOMAIN q.set.claims)
      BY DEF Assessed, Askable, Created
    <2> QED
      BY <2>1, FS_SUBSET, FS_Subset DEF DisputedPairs
  <1>3. Disputes(q) = Cardinality(pairs)
    BY DEF Disputes, DisputedPairs
  <1>4. \A pair : /\ Conflicting(pair).claims = pair
                  /\ Ambiguous(pair).claims = pair
    BY DEF Conflicting, Ambiguous
  <1> HIDE DEF compared, pairs
  <1>5. \A f : f \in DisputeFindings(q) <=>
            \/ \E pair \in compared.conflict : f = Conflicting(pair)
            \/ \E pair \in compared.ambiguous : f = Ambiguous(pair)
    BY DisputeFindingsAre DEF compared
  <1>6. DisputeFindings(q) = {made[pair] : pair \in pairs}
    BY <1>1, <1>5
  <1>7. made \in [pairs -> {made[pair] : pair \in pairs}]
    OBVIOUS
  <1>8. \A x, y \in pairs : made[x] = made[y] => x = y
    BY <1>4
  <1>9. DOMAIN made = pairs
    OBVIOUS
  <1> HIDE DEF made
  <1> QED
    BY <1>2, <1>3, <1>6, <1>7, <1>8, <1>9, MadeOneForOne

LEMMA SupportIsCounted ==
    ASSUME NEW q, Assessed(q), NEW kinds
    PROVE  /\ IsFiniteSet(SupportFindings(q, kinds))
           /\ Cardinality(SupportFindings(q, kinds))
                  = Cardinality({m \in q.missing : m.support \in kinds})
  <1> DEFINE some == {m \in q.missing : m.support \in kinds}
             made == [m \in some |-> Unsupported(m)]
  <1>1. IsFiniteSet(some)
    BY FS_Subset DEF Assessed, Askable
  <1>2. \A m \in some : m = [support |-> m.support, key |-> m.key]
    BY DEF Assessed, Askable
  <1>3. SupportFindings(q, kinds) = {made[m] : m \in some}
    <2>1. \A m \in some : made[m] = Unsupported(m)
      OBVIOUS
    <2>2. \A f : f \in SupportFindings(q, kinds)
                    <=> \E m \in q.missing : m.support \in kinds /\ f = Unsupported(m)
      BY SupportFindingsAre
    <2> HIDE DEF made
    <2>3. \A f : f \in SupportFindings(q, kinds) <=> \E m \in some : f = made[m]
      BY <2>1, <2>2
    <2> QED
      BY <2>3
  <1>4. \A m, n \in some : made[m] = made[n] => m = n
    BY <1>2 DEF Unsupported
  <1>5. DOMAIN made = some /\ made \in [some -> {made[m] : m \in some}]
    OBVIOUS
  <1> HIDE DEF made, some
  <1>6. /\ IsFiniteSet(SupportFindings(q, kinds))
        /\ Cardinality(SupportFindings(q, kinds)) = Cardinality(some)
    BY <1>1, <1>3, <1>4, <1>5, MadeOneForOne
  <1> QED
    BY <1>6 DEF some

LEMMA StaleIsCounted ==
    ASSUME NEW q
    PROVE  /\ IsFiniteSet(StaleFindings(q))
           /\ Cardinality(StaleFindings(q)) = IF q.changes = 0 THEN 0 ELSE 1
  <1>1. StaleFindings(q) = IF q.changes = 0 THEN {} ELSE {StaleBy(q.changes)}
    BY StaleFindingsAre
  <1> QED
    BY <1>1, FS_EmptySet, FS_Singleton

LEMMA GapsAreCounted ==
    ASSUME NEW q, Assessed(q), NEW reasons, "NONE" \notin reasons
    PROVE  /\ IsFiniteSet(GapFindings(q, reasons))
           /\ Cardinality(GapFindings(q, reasons)) = Gaps(q, reasons)
  <1> DEFINE R    == q.analysed.requirements
             some == {r \in R : Outcome(q)[r].reason \in reasons}
             made == [r \in some |-> GapOf(Outcome(q), r)]
  <1>1. IsFiniteSet(R) /\ \A r, s \in R : r.id = s.id => r = s
    BY DEF Assessed, Askable, DeclarationsAccepted
  <1>2. IsFiniteSet(some)
    BY <1>1, FS_Subset
  <1>3. DOMAIN Outcome(q) = R
    BY OutcomesOfAssessment
  <1>4. GapFindings(q, reasons) = {made[r] : r \in some}
    <2>1. \A r \in some : made[r] = GapOf(Outcome(q), r)
      OBVIOUS
    <2>2. \A f : f \in GapFindings(q, reasons)
                    <=> \E r \in DOMAIN Outcome(q) :
                           /\ Outcome(q)[r].reason \in reasons \ {"NONE"}
                           /\ f = GapOf(Outcome(q), r)
      BY GapFindingsAre
    <2> HIDE DEF made
    <2>3. \A f : f \in GapFindings(q, reasons) <=> \E r \in some : f = made[r]
      BY <1>3, <2>1, <2>2
    <2> QED
      BY <2>3
  <1>5. \A r, s \in some : made[r] = made[s] => r = s
    BY <1>1 DEF GapOf
  <1>6. DOMAIN made = some /\ made \in [some -> {made[r] : r \in some}]
    OBVIOUS
  <1>7. Gaps(q, reasons) = Cardinality(some)
    BY DEF Gaps
  <1> HIDE DEF made, some
  <1> QED
    BY <1>2, <1>4, <1>5, <1>6, <1>7, MadeOneForOne

\* All findings that say that something is missing or out of date.
OpenFindings(q) == {f \in allFindings(q) : f.kind \notin Disputed}

LEMMA OpenAreCounted ==
    ASSUME NEW q, Assessed(q)
    PROVE  LET stale == IF q.changes = 0 THEN 0 ELSE 1 IN
           /\ IsFiniteSet(OpenFindings(q))
           /\ Cardinality(OpenFindings(q)) =
                  Cardinality(q.missing) + stale + Gaps(q, GapReasons)
           /\ IsFiniteSet(allFindings(q))
           /\ Cardinality(allFindings(q)) = Disputes(q) + Cardinality(OpenFindings(q))
  <1> DEFINE stale == IF q.changes = 0 THEN 0 ELSE 1
             support == SupportFindings(q, SupportKinds)
             gap == GapFindings(q, GapReasons)
  <1>1. {m \in q.missing : m.support \in SupportKinds} = q.missing
    BY DEF Assessed, Askable, SupportKinds
  <1>2. IsFiniteSet(support) /\ Cardinality(support) = Cardinality(q.missing)
    BY <1>1, SupportIsCounted
  <1>3. "NONE" \notin GapReasons
    BY DEF GapReasons, ValidationGaps
  <1>4. IsFiniteSet(gap) /\ Cardinality(gap) = Gaps(q, GapReasons)
    BY <1>3, GapsAreCounted
  <1>5. IsFiniteSet(StaleFindings(q)) /\ Cardinality(StaleFindings(q)) = stale
    BY StaleIsCounted
  <1>6. \A f \in allFindings(q) :
            /\ f.kind \in Disputed \cup {"MISSING", "STALE", "IMPACT_GAP"}
            /\ f.kind = "MISSING" => f.support \in SupportKinds
            /\ f.kind = "IMPACT_GAP" => f.reason \in GapReasons
    <2> SUFFICES ASSUME NEW f \in allFindings(q)
                 PROVE  /\ f.kind \in Disputed \cup {"MISSING", "STALE", "IMPACT_GAP"}
                        /\ f.kind = "MISSING" => f.support \in SupportKinds
                        /\ f.kind = "IMPACT_GAP" => f.reason \in GapReasons
      OBVIOUS
    <2>1. CASE \E pair \in reconcileClaimSet(q.set).conflict : f = Conflicting(pair)
      BY <2>1 DEF Conflicting, Disputed
    <2>2. CASE \E pair \in reconcileClaimSet(q.set).ambiguous : f = Ambiguous(pair)
      BY <2>2 DEF Ambiguous, Disputed
    <2>3. CASE \E m \in q.missing : f = Unsupported(m)
      BY <1>1, <2>3 DEF Unsupported, Disputed
    <2>4. CASE f = StaleBy(q.changes)
      BY <2>4 DEF StaleBy, Disputed
    <2>5. CASE \E r \in DOMAIN Outcome(q) :
                  Outcome(q)[r].reason # "NONE" /\ f = GapOf(Outcome(q), r)
      BY <2>5, OutcomesOfAssessment, OutcomeForms DEF GapOf, Disputed
    <2> QED
      BY <2>1, <2>2, <2>3, <2>4, <2>5, FindingForms
  <1>7. /\ OpenFindings(q) = (support \cup StaleFindings(q)) \cup gap
        /\ support \cap StaleFindings(q) = {}
        /\ (support \cup StaleFindings(q)) \cap gap = {}
    BY <1>6 DEF OpenFindings, SupportFindings, StaleFindings, GapFindings, Disputed
  <1>8. /\ allFindings(q) = DisputeFindings(q) \cup OpenFindings(q)
        /\ DisputeFindings(q) \cap OpenFindings(q) = {}
    BY DEF DisputeFindings, OpenFindings
  <1> HIDE DEF support, gap, stale
  <1>9. /\ IsFiniteSet(support \cup StaleFindings(q))
        /\ Cardinality(support \cup StaleFindings(q)) = Cardinality(q.missing) + stale
    BY <1>2, <1>5, <1>7, DisjointSizes
  <1>10. /\ IsFiniteSet(OpenFindings(q))
         /\ Cardinality(OpenFindings(q)) = Cardinality(q.missing) + stale + Gaps(q, GapReasons)
    BY <1>4, <1>7, <1>9, DisjointSizes
  <1>11. /\ IsFiniteSet(allFindings(q))
         /\ Cardinality(allFindings(q)) = Disputes(q) + Cardinality(OpenFindings(q))
    BY <1>8, <1>10, DisputesAreCounted, DisjointSizes
  <1> QED
    BY <1>10, <1>11 DEF stale

-----------------------------------------------------------------------------
(***************************************************************************)
(* CitedExplanation: what a pack is made of.                               *)
(***************************************************************************)
\* The corrections an assessment depends on are those of its claim set.
LEMMA SupersessionsAreExact == ASSUME NEW q PROVE exactSupersessions(q) = q.set.links
  BY DEF exactSupersessions

\* What the question is about, and the pack of it.
Named(q) == questionSelection(q, q.set.links)

Pack(q) == [error |-> "NONE", question |-> q.question, items |-> Items(q, Named(q))]

SourceItem(q, c) == [item |-> "EVIDENCE_SOURCE", source |-> q.of[c].source]
ClaimItem(q, c)  == [item |-> "CLAIM", claim |-> c, label |-> q.of[c].label]
LinkItem(l)      == [item |-> "CLAIM_SUPERSESSION", link |-> l]
FindingItem(f)   == [item |-> "RECONCILIATION_FINDING", finding |-> f]
PathItem(p)      == [item |-> "IMPACT_PATH", path |-> p]

LEMMA ItemForms ==
    ASSUME NEW q, NEW i
    PROVE  i \in Pack(q).items <=>
               \/ i = AssessmentItem
               \/ \E c \in Named(q).claims : i = SourceItem(q, c)
               \/ \E c \in Named(q).claims : i = ClaimItem(q, c)
               \/ \E l \in Named(q).links : i = LinkItem(l)
               \/ \E f \in Named(q).findings : i = FindingItem(f)
               \/ \E p \in Named(q).paths : i = PathItem(p)
  <1> DEFINE selected == Named(q)
  <1>1. Pack(q).items = Items(q, selected)
    BY DEF Pack
  <1> HIDE DEF selected
  <1>2. i \in Items(q, selected) <=>
            \/ i = AssessmentItem
            \/ \E c \in selected.claims : i = SourceItem(q, c)
            \/ \E c \in selected.claims : i = ClaimItem(q, c)
            \/ \E l \in selected.links : i = LinkItem(l)
            \/ \E f \in selected.findings : i = FindingItem(f)
            \/ \E p \in selected.paths : i = PathItem(p)
    BY DEF Items, SourceItem, ClaimItem, LinkItem, FindingItem, PathItem
  <1> QED
    BY <1>1, <1>2 DEF selected

LEMMA ItemsDiffer ==
    /\ AssessmentItem.item = "ASSESSMENT"
    /\ \A q, c : /\ SourceItem(q, c).item = "EVIDENCE_SOURCE"
                 /\ SourceItem(q, c).source = q.of[c].source
    /\ \A q, c : /\ ClaimItem(q, c).item = "CLAIM"
                 /\ ClaimItem(q, c).claim = c /\ ClaimItem(q, c).label = q.of[c].label
    /\ \A l : LinkItem(l).item = "CLAIM_SUPERSESSION" /\ LinkItem(l).link = l
    /\ \A f : FindingItem(f).item = "RECONCILIATION_FINDING" /\ FindingItem(f).finding = f
    /\ \A p : PathItem(p).item = "IMPACT_PATH" /\ PathItem(p).path = p
  BY DEF AssessmentItem, SourceItem, ClaimItem, LinkItem, FindingItem, PathItem

\* The items of one kind.
LEMMA ItemsOfKind ==
    ASSUME NEW q, NEW i
    PROVE  /\ i \in Of(Pack(q), "CLAIM") <=> \E c \in Named(q).claims : i = ClaimItem(q, c)
           /\ i \in Of(Pack(q), "CLAIM_SUPERSESSION") <=> \E l \in Named(q).links : i = LinkItem(l)
           /\ i \in Of(Pack(q), "RECONCILIATION_FINDING")
                  <=> \E f \in Named(q).findings : i = FindingItem(f)
           /\ i \in Of(Pack(q), "IMPACT_PATH") <=> \E p \in Named(q).paths : i = PathItem(p)
  BY ItemForms, ItemsDiffer DEF Of

LEMMA FindingsInPack ==
    ASSUME NEW q
    PROVE  /\ FindingsIn(Pack(q)) = Named(q).findings
           /\ supersededClaimIds(Pack(q)) = {l.predecessor : l \in Named(q).links}
  <1>1. \A f : f \in FindingsIn(Pack(q)) <=> f \in Named(q).findings
    BY ItemsOfKind, ItemsDiffer DEF FindingsIn
  <1>2. \A c : c \in supersededClaimIds(Pack(q)) <=> \E l \in Named(q).links : c = l.predecessor
    BY ItemsOfKind, ItemsDiffer DEF supersededClaimIds
  <1> QED
    BY <1>1, <1>2

\* The parts of what a question is about.
LEMMA NamedParts ==
    ASSUME NEW q
    PROVE  /\ Named(q).findings = {f \in allFindings(q) : Relevant(q.question, f)}
           /\ Named(q).links = IF q.question = "POST_CORRECTION" THEN q.set.links ELSE {}
           /\ Named(q).claims = ClaimsNamed(Named(q).findings)
                  \cup UNION {{l.predecessor, l.successor} : l \in Named(q).links}
           /\ Named(q).paths = IF q.question = "IMPACT" THEN ImpactPaths(q)
                               ELSE PathsNamed(Named(q).findings)
  BY DEF Named, questionSelection, selectionOf

\* The links and paths of a pack are as many as what they are made of.
LEMMA ItemsAreCounted ==
    ASSUME NEW q, Assessed(q)
    PROVE  /\ q.question = "POST_CORRECTION" =>
                 Cardinality(Of(Pack(q), "CLAIM_SUPERSESSION")) = Cardinality(q.set.links)
           /\ q.question = "IMPACT" =>
                 Cardinality(Of(Pack(q), "IMPACT_PATH")) = Cardinality(ImpactPaths(q))
  <1>1. ASSUME q.question = "POST_CORRECTION"
        PROVE  Cardinality(Of(Pack(q), "CLAIM_SUPERSESSION")) = Cardinality(q.set.links)
    <2> DEFINE links == q.set.links
               made == [l \in links |-> LinkItem(l)]
    <2>1. IsFiniteSet(links)
      BY DEF Assessed, Askable
    <2>2. Named(q).links = links
      BY <1>1, NamedParts
    <2> HIDE DEF links
    <2>3. \A i : i \in Of(Pack(q), "CLAIM_SUPERSESSION") <=> \E l \in links : i = made[l]
      BY <2>2, ItemsOfKind
    <2>4. Of(Pack(q), "CLAIM_SUPERSESSION") = {made[l] : l \in links}
      BY <2>3
    <2>5. \A k, l \in links : made[k] = made[l] => k = l
      BY ItemsDiffer
    <2>6. DOMAIN made = links /\ made \in [links -> {made[l] : l \in links}]
      OBVIOUS
    <2> HIDE DEF made, links
    <2> QED
      BY <2>1, <2>4, <2>5, <2>6, MadeOneForOne DEF links
  <1>2. ASSUME q.question = "IMPACT"
        PROVE  Cardinality(Of(Pack(q), "IMPACT_PATH")) = Cardinality(ImpactPaths(q))
    <2> DEFINE paths == ImpactPaths(q)
               made == [p \in paths |-> PathItem(p)]
    <2>1. IsFiniteSet(paths)
      BY OutcomesOfAssessment
    <2>2. Named(q).paths = paths
      BY <1>2, NamedParts
    <2> HIDE DEF paths
    <2>3. \A i : i \in Of(Pack(q), "IMPACT_PATH") <=> \E p \in paths : i = made[p]
      BY <2>2, ItemsOfKind
    <2>4. Of(Pack(q), "IMPACT_PATH") = {made[p] : p \in paths}
      BY <2>3
    <2>5. \A o, p \in paths : made[o] = made[p] => o = p
      BY ItemsDiffer
    <2>6. DOMAIN made = paths /\ made \in [paths -> {made[p] : p \in paths}]
      OBVIOUS
    <2> HIDE DEF made
    <2> QED
      BY <2>1, <2>4, <2>5, <2>6, MadeOneForOne DEF paths
  <1> QED
    BY <1>1, <1>2

-----------------------------------------------------------------------------
(***************************************************************************)
(* CitedExplanation: what the items of a pack name.                        *)
(***************************************************************************)
LEMMA LinksAreOfClaims ==
    ASSUME NEW q, Assessed(q), NEW l \in q.set.links
    PROVE  /\ l.predecessor # l.successor
           /\ {l.predecessor, l.successor} \subseteq DOMAIN q.set.claims
  <1>1. LinksMatch(q.set)
    BY DEF Assessed, Askable, reconcileClaimSet, validateSupersessions
  <1> QED
    BY <1>1 DEF LinksMatch

LEMMA DisputesAreOfClaims ==
    ASSUME NEW q, Assessed(q), NEW f \in DisputeFindings(q)
    PROVE  \E c, d \in DOMAIN q.set.claims :
              /\ c # d /\ f.claims = {c, d}
              /\ ~ Superseded(q, c) /\ ~ Superseded(q, d)
              /\ Differ(q.set.claims[c], q.set.claims[d])
              /\ Differ(q.set.claims[d], q.set.claims[c])
  <1>1. \E pair \in DisputedPairs(q) : f.claims = pair
    <2>1. PICK pair : /\ f = Conflicting(pair) \/ f = Ambiguous(pair)
                      /\ \/ pair \in reconcileClaimSet(q.set).conflict
                         \/ pair \in reconcileClaimSet(q.set).ambiguous
      BY DisputeFindingsAre
    <2>2. pair \in DisputedPairs(q)
      BY <2>1, FindingsArePairs
    <2>3. f.claims = pair
      BY <2>1 DEF Conflicting, Ambiguous
    <2> QED
      BY <2>2, <2>3
  <1>2. PICK c, d \in DOMAIN q.set.claims :
            /\ f.claims = {c, d} /\ ~ Superseded(q, c) /\ ~ Superseded(q, d)
            /\ Differ(q.set.claims[c], q.set.claims[d])
    BY <1>1 DEF DisputedPairs
  <1>3. Differ(q.set.claims[d], q.set.claims[c])
    BY <1>2, DifferEitherWay
  <1>4. c # d
    BY <1>2 DEF Differ
  <1> QED
    BY <1>2, <1>3, <1>4

LEMMA ClaimsAreConcerned ==
    ASSUME NEW q, Assessed(q)
    PROVE  Named(q).claims \subseteq Concerned(q)
  <1> SUFFICES ASSUME NEW c \in Named(q).claims
               PROVE  c \in Concerned(q)
    OBVIOUS
  <1>1. CASE c \in ClaimsNamed(Named(q).findings)
    <2>1. PICK f \in Named(q).findings : f.kind \in Disputed /\ c \in f.claims
      BY <1>1 DEF ClaimsNamed, Disputed
    <2>2. f \in DisputeFindings(q) /\ Relevant(q.question, f)
      BY <2>1, NamedParts DEF DisputeFindings
    <2>3. q.question \in {"RELEASE", "NEXT_ACTIONS", "CONFLICTS"}
      BY <2>1, <2>2 DEF Relevant, Disputed
    <2>4. PICK a, b \in DOMAIN q.set.claims :
              /\ f.claims = {a, b} /\ ~ Superseded(q, a) /\ ~ Superseded(q, b)
              /\ Differ(q.set.claims[a], q.set.claims[b])
              /\ Differ(q.set.claims[b], q.set.claims[a])
      BY <2>2, DisputesAreOfClaims
    <2> QED
      BY <2>1, <2>3, <2>4 DEF Concerned
  <1>2. CASE c \notin ClaimsNamed(Named(q).findings)
    <2>1. PICK l \in Named(q).links : c \in {l.predecessor, l.successor}
      BY <1>2, NamedParts
    <2>2. q.question = "POST_CORRECTION" /\ l \in q.set.links
      BY <2>1, NamedParts
    <2>3. c \in DOMAIN q.set.claims
      BY <2>1, <2>2, LinksAreOfClaims
    <2> QED
      BY <2>1, <2>2, <2>3 DEF Concerned
  <1> QED
    BY <1>1, <1>2

LEMMA PathsInPack ==
    ASSUME NEW q, Assessed(q), NEW f \in Named(q).findings
    PROVE  PathsNamed({f}) \subseteq Named(q).paths
  <1>1. CASE q.question = "IMPACT"
    <2> SUFFICES ASSUME f.kind = "IMPACT_GAP", NEW p \in f.path
                 PROVE  p \in ImpactPaths(q)
      BY <1>1, NamedParts DEF PathsNamed
    <2>1. f \in GapFindings(q, {f.reason})
      BY NamedParts DEF GapFindings
    <2>2. PICK r \in DOMAIN Outcome(q) : f = GapOf(Outcome(q), r)
      BY <2>1, GapFindingsAre
    <2>3. p \in SupportingPath(Outcome(q)[r])
      BY <2>2 DEF GapOf
    <2> DEFINE paths == Outcome(q)[r].paths
    <2>4. paths # {} /\ p = (CHOOSE o \in paths : TRUE).key
      BY <2>3 DEF SupportingPath
    <2>5. \E o \in paths : p = o.key
      BY <2>4
    <2>6. r \in q.analysed.requirements
      BY <2>2, OutcomesOfAssessment
    <2> QED
      BY <2>5, <2>6 DEF ImpactPaths
  <1>2. CASE q.question # "IMPACT"
    <2>1. PathsNamed({f}) \subseteq PathsNamed(Named(q).findings)
      BY DEF PathsNamed
    <2> QED
      BY <1>2, <2>1, NamedParts
  <1> QED
    BY <1>1, <1>2

\* A renderer finds in the pack whatever an item of it names.
LEMMA PackResolves ==
    ASSUME NEW q, Assessed(q), NEW i \in Pack(q).items
    PROVE  Resolves(Pack(q), i)
  <1>1. {j.claim : j \in Of(Pack(q), "CLAIM")} = Named(q).claims
    <2>1. \A c : (\E j \in Of(Pack(q), "CLAIM") : c = j.claim) <=> c \in Named(q).claims
      BY ItemsOfKind, ItemsDiffer
    <2> QED
      BY <2>1
  <1>2. {j.path : j \in Of(Pack(q), "IMPACT_PATH")} = Named(q).paths
    <2>1. \A p : (\E j \in Of(Pack(q), "IMPACT_PATH") : p = j.path) <=> p \in Named(q).paths
      BY ItemsOfKind, ItemsDiffer
    <2> QED
      BY <2>1
  <1>3. CASE i.item = "CLAIM_SUPERSESSION"
    <2>1. i.link \in Named(q).links
      BY <1>3, ItemForms, ItemsDiffer
    <2>2. {i.link.predecessor, i.link.successor} \subseteq Named(q).claims
      BY <2>1, NamedParts
    <2> QED
      BY <1>1, <1>3, <2>2 DEF Resolves
  <1>4. CASE i.item = "RECONCILIATION_FINDING"
    <2>1. i.finding \in Named(q).findings
      BY <1>4, ItemForms, ItemsDiffer
    <2>2. ClaimsNamed({i.finding}) \subseteq ClaimsNamed(Named(q).findings)
      BY <2>1 DEF ClaimsNamed
    <2>3. ClaimsNamed({i.finding}) \subseteq Named(q).claims
      BY <2>2, NamedParts
    <2>4. PathsNamed({i.finding}) \subseteq Named(q).paths
      BY <2>1, PathsInPack
    <2> QED
      BY <1>1, <1>2, <1>4, <2>3, <2>4 DEF Resolves
  <1>5. CASE i.item \notin {"CLAIM_SUPERSESSION", "RECONCILIATION_FINDING"}
    BY <1>5 DEF Resolves
  <1> QED
    BY <1>3, <1>4, <1>5

-----------------------------------------------------------------------------
(***************************************************************************)
(* CitedExplanation: the statements that a renderer makes of a pack.       *)
(***************************************************************************)
Statements(q) == UNION {StatementsOf(Pack(q), i) : i \in Pack(q).items}

ClaimStatement(q, c) ==
    statement(q.of[c].label,
              IF c \in supersededClaimIds(Pack(q)) THEN "HISTORICAL" ELSE "CURRENT",
              {ClaimItem(q, c)})

LinkStatement(q, l) ==
    statement("FACT", "CORRECTION",
              {LinkItem(l)} \cup ClaimItems(Pack(q), {l.predecessor, l.successor}))

FindingCites(q, f) == {FindingItem(f)} \cup NamedBy(Pack(q), f)

FindingSays(f) ==
    CASE f.kind = "MISSING"    -> f.support
      [] f.kind = "IMPACT_GAP" -> f.reason
      [] OTHER                 -> f.kind

FindingStatement(q, f) ==
    statement(IF f.kind \in Disputed THEN "CONFLICT" ELSE "GAP", FindingSays(f),
              FindingCites(q, f))

ActionStatement(q, f) == statement("NEXT_ACTION", f.kind, FindingCites(q, f))

PathStatement(p) == statement("FACT", "PATH", {PathItem(p)})

LEMMA StatementsOfItems ==
    ASSUME NEW q
    PROVE  /\ StatementsOf(Pack(q), AssessmentItem) = {}
           /\ \A c : StatementsOf(Pack(q), SourceItem(q, c)) = {}
           /\ \A c : StatementsOf(Pack(q), ClaimItem(q, c)) = {ClaimStatement(q, c)}
           /\ \A l : StatementsOf(Pack(q), LinkItem(l)) = {LinkStatement(q, l)}
           /\ \A f : StatementsOf(Pack(q), FindingItem(f))
                         = {FindingStatement(q, f), ActionStatement(q, f)}
           /\ \A p : StatementsOf(Pack(q), PathItem(p)) = {PathStatement(p)}
  <1> DEFINE pack == Pack(q)
  <1> HIDE DEF pack
  <1>1. /\ StatementsOf(pack, AssessmentItem) = {}
        /\ \A c : StatementsOf(pack, SourceItem(q, c)) = {}
    BY ItemsDiffer DEF StatementsOf
  <1>2. ASSUME NEW c
        PROVE  StatementsOf(pack, ClaimItem(q, c)) =
                   {statement(q.of[c].label,
                              IF c \in supersededClaimIds(pack) THEN "HISTORICAL" ELSE "CURRENT",
                              {ClaimItem(q, c)})}
    BY ItemsDiffer DEF StatementsOf, addClaimStatement
  <1>3. ASSUME NEW l
        PROVE  StatementsOf(pack, LinkItem(l)) =
                   {statement("FACT", "CORRECTION",
                              {LinkItem(l)} \cup ClaimItems(pack, {l.predecessor, l.successor}))}
    BY ItemsDiffer DEF StatementsOf, addSupersessionStatement
  <1>4. ASSUME NEW f
        PROVE  StatementsOf(pack, FindingItem(f)) =
                   {statement(IF f.kind \in Disputed THEN "CONFLICT" ELSE "GAP", FindingSays(f),
                              {FindingItem(f)} \cup NamedBy(pack, f)),
                    statement("NEXT_ACTION", f.kind, {FindingItem(f)} \cup NamedBy(pack, f))}
    BY ItemsDiffer DEF StatementsOf, addFindingStatements, FindingSays, Disputed
  <1>5. ASSUME NEW p
        PROVE  StatementsOf(pack, PathItem(p)) = {statement("FACT", "PATH", {PathItem(p)})}
    BY ItemsDiffer DEF StatementsOf, addImpactPathStatement
  <1> QED
    BY <1>1, <1>2, <1>3, <1>4, <1>5
    DEF pack, ClaimStatement, LinkStatement, FindingStatement, ActionStatement, PathStatement,
        FindingCites

LEMMA StatementForms ==
    ASSUME NEW q, NEW s
    PROVE  s \in Statements(q) <=>
               \/ \E c \in Named(q).claims : s = ClaimStatement(q, c)
               \/ \E l \in Named(q).links : s = LinkStatement(q, l)
               \/ \E f \in Named(q).findings :
                     s = FindingStatement(q, f) \/ s = ActionStatement(q, f)
               \/ \E p \in Named(q).paths : s = PathStatement(p)
  <1>1. s \in Statements(q) <=> \E i \in Pack(q).items : s \in StatementsOf(Pack(q), i)
    BY DEF Statements
  <1>2. ASSUME NEW i \in Pack(q).items, s \in StatementsOf(Pack(q), i)
        PROVE  \/ \E c \in Named(q).claims : s = ClaimStatement(q, c)
               \/ \E l \in Named(q).links : s = LinkStatement(q, l)
               \/ \E f \in Named(q).findings :
                     s = FindingStatement(q, f) \/ s = ActionStatement(q, f)
               \/ \E p \in Named(q).paths : s = PathStatement(p)
    <2>1. CASE \/ i = AssessmentItem
               \/ \E c \in Named(q).claims : i = SourceItem(q, c)
      BY <1>2, <2>1, StatementsOfItems
    <2>2. CASE \E c \in Named(q).claims : i = ClaimItem(q, c)
      BY <1>2, <2>2, StatementsOfItems
    <2>3. CASE \E l \in Named(q).links : i = LinkItem(l)
      BY <1>2, <2>3, StatementsOfItems
    <2>4. CASE \E f \in Named(q).findings : i = FindingItem(f)
      BY <1>2, <2>4, StatementsOfItems
    <2>5. CASE \E p \in Named(q).paths : i = PathItem(p)
      BY <1>2, <2>5, StatementsOfItems
    <2> QED
      BY <2>1, <2>2, <2>3, <2>4, <2>5, ItemForms
  <1>3. ASSUME NEW c \in Named(q).claims, s = ClaimStatement(q, c)
        PROVE  s \in Statements(q)
    <2>1. ClaimItem(q, c) \in Pack(q).items
      BY ItemForms
    <2> QED
      BY <1>1, <1>3, <2>1, StatementsOfItems
  <1>4. ASSUME NEW l \in Named(q).links, s = LinkStatement(q, l)
        PROVE  s \in Statements(q)
    <2>1. LinkItem(l) \in Pack(q).items
      BY ItemForms
    <2> QED
      BY <1>1, <1>4, <2>1, StatementsOfItems
  <1>5. ASSUME NEW f \in Named(q).findings,
               s = FindingStatement(q, f) \/ s = ActionStatement(q, f)
        PROVE  s \in Statements(q)
    <2>1. FindingItem(f) \in Pack(q).items
      BY ItemForms
    <2> QED
      BY <1>1, <1>5, <2>1, StatementsOfItems
  <1>6. ASSUME NEW p \in Named(q).paths, s = PathStatement(p)
        PROVE  s \in Statements(q)
    <2>1. PathItem(p) \in Pack(q).items
      BY ItemForms
    <2> QED
      BY <1>1, <1>6, <2>1, StatementsOfItems
  <1> QED
    BY <1>1, <1>2, <1>3, <1>4, <1>5, <1>6

\* Of all the findings a statement cites only its own.
LEMMA OneFindingCited ==
    ASSUME NEW q, NEW f, NEW g, FindingItem(g) \in FindingCites(q, f)
    PROVE  g = f
  <1>1. FindingItem(g) \notin NamedBy(Pack(q), f)
    BY ItemsDiffer DEF NamedBy, ClaimItems, PathItems, Of
  <1> QED
    BY <1>1, ItemsDiffer DEF FindingCites

LEMMA CitesDiffer ==
    ASSUME NEW q, NEW f, NEW g, FindingCites(q, f) = FindingCites(q, g)
    PROVE  f = g
  <1>1. FindingItem(f) \in FindingCites(q, f)
    BY DEF FindingCites
  <1> QED
    BY <1>1, OneFindingCited

LEMMA StatementParts ==
    /\ \A q, c : /\ ClaimStatement(q, c).category = q.of[c].label
                 /\ ClaimStatement(q, c).cites = {ClaimItem(q, c)}
                 /\ ClaimStatement(q, c).says =
                        IF c \in supersededClaimIds(Pack(q)) THEN "HISTORICAL" ELSE "CURRENT"
    /\ \A q, l : /\ LinkStatement(q, l).category = "FACT"
                 /\ LinkStatement(q, l).says = "CORRECTION"
    /\ \A q, f : /\ FindingStatement(q, f).category =
                        IF f.kind \in Disputed THEN "CONFLICT" ELSE "GAP"
                 /\ FindingStatement(q, f).says = FindingSays(f)
                 /\ FindingStatement(q, f).cites = FindingCites(q, f)
    /\ \A q, f : /\ ActionStatement(q, f).category = "NEXT_ACTION"
                 /\ ActionStatement(q, f).says = f.kind
                 /\ ActionStatement(q, f).cites = FindingCites(q, f)
    /\ \A p : PathStatement(p).category = "FACT" /\ PathStatement(p).says = "PATH"
  BY DEF statement, ClaimStatement, LinkStatement, FindingStatement, ActionStatement, PathStatement

-----------------------------------------------------------------------------
(***************************************************************************)
(* CitedExplanation: the counts that an answer states.                     *)
(***************************************************************************)
LEMMA LabelsOfClaims ==
    ASSUME NEW q, Assessed(q), NEW c \in Named(q).claims
    PROVE  c \in DOMAIN q.set.claims /\ q.of[c].label \in {"FACT", "INFERENCE"}
  BY ClaimsAreConcerned DEF Concerned, Assessed, Askable

LEMMA StatementsAreCounted ==
    ASSUME NEW q, Assessed(q)
    PROVE  /\ Cardinality({s \in Statements(q) : s.category = "CONFLICT"})
                  = Cardinality({f \in Named(q).findings : f.kind \in Disputed})
           /\ Cardinality({s \in Statements(q) : s.category = "GAP"})
                  = Cardinality({f \in Named(q).findings : f.kind \notin Disputed})
           /\ Cardinality({s \in Statements(q) : s.category = "NEXT_ACTION"})
                  = Cardinality(Named(q).findings)
  <1> DEFINE findings == Named(q).findings
             disputes == {f \in findings : f.kind \in Disputed}
             open     == {f \in findings : f.kind \notin Disputed}
  <1>1. IsFiniteSet(findings)
    BY NamedParts, OpenAreCounted, FS_Subset
  <1> HIDE DEF findings
  <1>2. IsFiniteSet(disputes) /\ IsFiniteSet(open)
    BY <1>1, FS_Subset
  <1>3. ASSUME NEW s
        PROVE  /\ s \in Statements(q) /\ s.category = "CONFLICT"
                      <=> \E f \in disputes : s = FindingStatement(q, f)
               /\ s \in Statements(q) /\ s.category = "GAP"
                      <=> \E f \in open : s = FindingStatement(q, f)
               /\ s \in Statements(q) /\ s.category = "NEXT_ACTION"
                      <=> \E f \in findings : s = ActionStatement(q, f)
    <2>1. CASE \E c \in Named(q).claims : s = ClaimStatement(q, c)
      <3>1. s.category \in {"FACT", "INFERENCE"}
        BY <2>1, LabelsOfClaims, StatementParts
      <3> QED
        BY <3>1, StatementParts
    <2>2. CASE \E l \in Named(q).links : s = LinkStatement(q, l)
      BY <2>2, StatementParts
    <2>3. CASE \E p \in Named(q).paths : s = PathStatement(p)
      BY <2>3, StatementParts
    <2>4. CASE \E f \in findings : s = FindingStatement(q, f)
      <3>1. s \in Statements(q)
        BY <2>4, StatementForms DEF findings
      <3> QED
        BY <2>4, <3>1, StatementParts, CitesDiffer
    <2>5. CASE \E f \in findings : s = ActionStatement(q, f)
      <3>1. s \in Statements(q)
        BY <2>5, StatementForms DEF findings
      <3> QED
        BY <2>5, <3>1, StatementParts
    <2>6. CASE s \notin Statements(q)
      BY <2>6, StatementForms DEF findings
    <2> QED
      BY <2>1, <2>2, <2>3, <2>4, <2>5, <2>6, StatementForms DEF findings
  <1>4. \A f, g : FindingStatement(q, f) = FindingStatement(q, g) => f = g
    BY StatementParts, CitesDiffer
  <1>5. \A f, g : ActionStatement(q, f) = ActionStatement(q, g) => f = g
    BY StatementParts, CitesDiffer
  <1>6. ASSUME NEW some \in {disputes, open}, NEW made, made = [f \in some |-> FindingStatement(q, f)],
               NEW T, T = {made[f] : f \in some}
        PROVE  Cardinality(T) = Cardinality(some)
    <2>1. IsFiniteSet(some)
      BY <1>2
    <2>2. DOMAIN made = some /\ made \in [some -> {made[f] : f \in some}]
      BY <1>6
    <2>3. \A f, g \in some : made[f] = made[g] => f = g
      BY <1>4, <1>6
    <2> QED
      BY <1>6, <2>1, <2>2, <2>3, MadeOneForOne
  <1>7. ASSUME NEW made, made = [f \in findings |-> ActionStatement(q, f)],
               NEW T, T = {made[f] : f \in findings}
        PROVE  Cardinality(T) = Cardinality(findings)
    <2>2. DOMAIN made = findings /\ made \in [findings -> {made[f] : f \in findings}]
      BY <1>7
    <2>3. \A f, g \in findings : made[f] = made[g] => f = g
      BY <1>5, <1>7
    <2> QED
      BY <1>1, <1>7, <2>2, <2>3, MadeOneForOne
  <1> HIDE DEF disputes, open
  <1>8. Cardinality({s \in Statements(q) : s.category = "CONFLICT"}) = Cardinality(disputes)
    <2> DEFINE made == [f \in disputes |-> FindingStatement(q, f)]
    <2>1. {s \in Statements(q) : s.category = "CONFLICT"} = {made[f] : f \in disputes}
      BY <1>3
    <2> QED
      BY <1>6, <2>1
  <1>9. Cardinality({s \in Statements(q) : s.category = "GAP"}) = Cardinality(open)
    <2> DEFINE made == [f \in open |-> FindingStatement(q, f)]
    <2>1. {s \in Statements(q) : s.category = "GAP"} = {made[f] : f \in open}
      BY <1>3
    <2> QED
      BY <1>6, <2>1
  <1>10. Cardinality({s \in Statements(q) : s.category = "NEXT_ACTION"}) = Cardinality(findings)
    <2> DEFINE made == [f \in findings |-> ActionStatement(q, f)]
             T    == {made[f] : f \in findings}
    <2>1. {s \in Statements(q) : s.category = "NEXT_ACTION"} = T
      BY <1>3
    <2>2. made = [f \in findings |-> ActionStatement(q, f)] /\ T = {made[f] : f \in findings}
      OBVIOUS
    <2> HIDE DEF made, T
    <2>3. Cardinality(T) = Cardinality(findings)
      BY <1>7, <2>2
    <2> QED
      BY <2>1, <2>3
  <1> QED
    BY <1>8, <1>9, <1>10 DEF disputes, open, findings

\* The findings a question is about, by their kinds.
LEMMA FindingsNamed ==
    ASSUME NEW q, Assessed(q)
    PROVE  /\ q.question \in {"RELEASE", "NEXT_ACTIONS"} => Named(q).findings = allFindings(q)
           /\ q.question = "CONFLICTS" => Named(q).findings = DisputeFindings(q)
           /\ q.question = "IMPACT" => Named(q).findings = GapFindings(q, GapReasons)
           /\ q.question = "MISSING_VALIDATION" =>
                 Named(q).findings = SupportFindings(q, {"VALIDATION_RESULT"})
                                         \cup GapFindings(q, ValidationGaps)
           /\ q.question = "POST_CORRECTION" => Named(q).findings = StaleFindings(q)
  <1>1. Named(q).findings = {f \in allFindings(q) : Relevant(q.question, f)}
    BY NamedParts
  <1>2. \A f \in allFindings(q) : f.kind = "IMPACT_GAP" => f.reason \in GapReasons
    <2> SUFFICES ASSUME NEW f \in allFindings(q), f.kind = "IMPACT_GAP"
                 PROVE  f.reason \in GapReasons
      OBVIOUS
    <2>1. PICK r \in DOMAIN Outcome(q) :
              Outcome(q)[r].reason # "NONE" /\ f = GapOf(Outcome(q), r)
      BY FindingForms, FormsDiffer
    <2>2. Outcome(q)[r] = requirementOutcome(q.analysed, r)
      BY <2>1, OutcomesOfAssessment
    <2>3. f.reason = Outcome(q)[r].reason
      BY <2>1, FormsDiffer
    <2> QED
      BY <2>1, <2>2, <2>3, OutcomeForms
  <1>3. q.question \in {"RELEASE", "NEXT_ACTIONS"} => Named(q).findings = allFindings(q)
    BY <1>1 DEF Relevant
  <1>4. q.question = "CONFLICTS" => Named(q).findings = DisputeFindings(q)
    BY <1>1 DEF Relevant, DisputeFindings, Disputed
  <1>5. q.question = "IMPACT" => Named(q).findings = GapFindings(q, GapReasons)
    BY <1>1, <1>2 DEF Relevant, GapFindings
  <1>6. q.question = "MISSING_VALIDATION" =>
            Named(q).findings = SupportFindings(q, {"VALIDATION_RESULT"})
                                    \cup GapFindings(q, ValidationGaps)
    BY <1>1 DEF Relevant, SupportFindings, GapFindings
  <1>7. q.question = "POST_CORRECTION" => Named(q).findings = StaleFindings(q)
    BY <1>1 DEF Relevant, StaleFindings
  <1> QED
    BY <1>3, <1>4, <1>5, <1>6, <1>7

LEMMA AnswerIsCounted ==
    ASSUME NEW q, Assessed(q)
    PROVE  answerText(Pack(q), Statements(q)) = Counts(q)
  <1> DEFINE pack == Pack(q)
             statements == Statements(q)
             conflicts == Cardinality({s \in statements : s.category = "CONFLICT"})
             gaps      == Cardinality({s \in statements : s.category = "GAP"})
             actions   == Cardinality({s \in statements : s.category = "NEXT_ACTION"})
             stale     == IF q.changes = 0 THEN 0 ELSE 1
             open      == Cardinality(q.missing) + stale + Gaps(q, GapReasons)
  <1>1. pack.question = q.question /\ q.question \in QuestionKinds
    BY DEF Pack, Assessed, Askable
  <1>2. FindingsIn(pack) = Named(q).findings
    BY FindingsInPack
  <1>3. /\ conflicts = Cardinality({f \in Named(q).findings : f.kind \in Disputed})
        /\ gaps = Cardinality({f \in Named(q).findings : f.kind \notin Disputed})
        /\ actions = Cardinality(Named(q).findings)
    BY StatementsAreCounted
  <1>4. /\ Cardinality(OpenFindings(q)) = open
        /\ Cardinality(allFindings(q)) = Disputes(q) + Cardinality(OpenFindings(q))
    BY OpenAreCounted
  <1> HIDE DEF pack, statements, open, stale
  <1>5. CASE q.question = "RELEASE"
    <2>1. answerText(pack, statements) = <<conflicts, gaps>>
      BY <1>1, <1>5 DEF answerText
    <2>2. Counts(q) = <<Disputes(q), open>>
      BY <1>5 DEF Counts, open, stale
    <2>3. Named(q).findings = allFindings(q)
      BY <1>5, FindingsNamed
    <2>4. conflicts = Disputes(q)
      BY <1>3, <2>3, DisputesAreCounted DEF DisputeFindings
    <2>5. gaps = open
      BY <1>3, <1>4, <2>3 DEF OpenFindings
    <2> QED
      BY <2>1, <2>2, <2>4, <2>5 DEF pack, statements
  <1>6. CASE q.question = "CONFLICTS"
    <2>1. answerText(pack, statements) = <<conflicts>>
      BY <1>1, <1>6 DEF answerText
    <2>2. Counts(q) = <<Disputes(q)>>
      BY <1>6 DEF Counts
    <2>3. {f \in Named(q).findings : f.kind \in Disputed} = DisputeFindings(q)
      BY <1>6, FindingsNamed DEF DisputeFindings
    <2> QED
      BY <1>3, <2>1, <2>2, <2>3, DisputesAreCounted DEF pack, statements
  <1>7. CASE q.question = "IMPACT"
    <2> DEFINE paths == Cardinality(Of(pack, "IMPACT_PATH"))
               open_gaps == Cardinality({f \in FindingsIn(pack) : f.kind = "IMPACT_GAP"})
    <2>1. answerText(pack, statements) = <<paths, open_gaps>>
      BY <1>1, <1>7 DEF answerText
    <2>2. Counts(q) = <<Cardinality(ImpactPaths(q)), Gaps(q, GapReasons)>>
      BY <1>7 DEF Counts
    <2>3. paths = Cardinality(ImpactPaths(q))
      BY <1>7, ItemsAreCounted DEF pack
    <2>4. {f \in FindingsIn(pack) : f.kind = "IMPACT_GAP"} = GapFindings(q, GapReasons)
      BY <1>2, <1>7, FindingsNamed DEF GapFindings
    <2>5. "NONE" \notin GapReasons
      BY DEF GapReasons, ValidationGaps
    <2>6. open_gaps = Gaps(q, GapReasons)
      BY <2>4, <2>5, GapsAreCounted
    <2> QED
      BY <2>1, <2>2, <2>3, <2>6 DEF pack, statements
  <1>8. CASE q.question = "MISSING_VALIDATION"
    <2> DEFINE support == SupportFindings(q, {"VALIDATION_RESULT"})
               gap     == GapFindings(q, ValidationGaps)
               lacking == Cardinality({m \in q.missing : m.support = "VALIDATION_RESULT"})
    <2>1. answerText(pack, statements) = <<validationGapCount(pack)>>
      BY <1>1, <1>8 DEF answerText
    <2>2. Counts(q) = <<lacking + Gaps(q, ValidationGaps)>>
      BY <1>8 DEF Counts
    <2>3. FindingsIn(pack) = support \cup gap
      BY <1>2, <1>8, FindingsNamed
    <2>4. validationGapCount(pack) = Cardinality(support \cup gap)
      <3>1. \A f \in support \cup gap :
                \/ f.kind = "MISSING" /\ f.support = "VALIDATION_RESULT"
                \/ f.kind = "IMPACT_GAP" /\ f.reason \in ValidationGaps
        BY DEF SupportFindings, GapFindings
      <3> HIDE DEF support, gap
      <3>2. {f \in FindingsIn(pack) :
                \/ f.kind = "MISSING" /\ f.support = "VALIDATION_RESULT"
                \/ f.kind = "IMPACT_GAP" /\ f.reason \in ValidationGaps} = support \cup gap
        BY <2>3, <3>1
      <3> QED
        BY <3>2 DEF validationGapCount
    <2>5. IsFiniteSet(support) /\ Cardinality(support) = lacking
      <3>1. {m \in q.missing : m.support \in {"VALIDATION_RESULT"}}
                = {m \in q.missing : m.support = "VALIDATION_RESULT"}
        OBVIOUS
      <3> QED
        BY <3>1, SupportIsCounted
    <2>6. "NONE" \notin ValidationGaps
      BY DEF ValidationGaps
    <2>7. IsFiniteSet(gap) /\ Cardinality(gap) = Gaps(q, ValidationGaps)
      BY <2>6, GapsAreCounted
    <2>8. support \cap gap = {}
      BY DEF SupportFindings, GapFindings
    <2> HIDE DEF support, gap, lacking
    <2>9. Cardinality(support \cup gap) = lacking + Gaps(q, ValidationGaps)
      BY <2>5, <2>7, <2>8, DisjointSizes
    <2> QED
      BY <2>1, <2>2, <2>4, <2>9 DEF pack, statements
  <1>9. CASE q.question = "NEXT_ACTIONS"
    <2>1. answerText(pack, statements) = <<actions>>
      BY <1>1, <1>9 DEF answerText
    <2>2. Counts(q) = <<Disputes(q) + open>>
      BY <1>9 DEF Counts, open, stale
    <2>3. Named(q).findings = allFindings(q)
      BY <1>9, FindingsNamed
    <2>4. actions = Disputes(q) + open
      BY <1>3, <1>4, <2>3
    <2> QED
      BY <2>1, <2>2, <2>4 DEF pack, statements
  <1>10. CASE q.question = "POST_CORRECTION"
    <2> DEFINE corrections == Cardinality(Of(pack, "CLAIM_SUPERSESSION"))
               open_stale  == Cardinality({f \in FindingsIn(pack) : f.kind = "STALE"})
    <2>1. answerText(pack, statements) = <<corrections, open_stale>>
      BY <1>1, <1>10 DEF answerText
    <2>2. Counts(q) = <<Cardinality(q.set.links), stale>>
      BY <1>10 DEF Counts, stale
    <2>3. corrections = Cardinality(q.set.links)
      BY <1>10, ItemsAreCounted DEF pack
    <2>4. {f \in FindingsIn(pack) : f.kind = "STALE"} = StaleFindings(q)
      BY <1>2, <1>10, FindingsNamed DEF StaleFindings
    <2>5. open_stale = stale
      BY <2>4, StaleIsCounted DEF stale
    <2> QED
      BY <2>1, <2>2, <2>3, <2>5 DEF pack, statements
  <1> QED
    BY <1>1, <1>5, <1>6, <1>7, <1>8, <1>9, <1>10 DEF pack, statements, QuestionKinds

-----------------------------------------------------------------------------
(***************************************************************************)
(* CitedExplanation: what the statements say, and what they rest on.       *)
(***************************************************************************)
\* A claim that the pack takes for superseded is superseded.
LEMMA SupersededInPack ==
    ASSUME NEW q, Assessed(q), NEW c \in Named(q).claims
    PROVE  c \in supersededClaimIds(Pack(q)) <=> Superseded(q, c)
  <1>1. c \in supersededClaimIds(Pack(q)) <=> \E l \in Named(q).links : c = l.predecessor
    BY FindingsInPack
  <1>2. CASE q.question = "POST_CORRECTION"
    BY <1>1, <1>2, NamedParts DEF Superseded
  <1>3. CASE q.question # "POST_CORRECTION"
    <2>1. c \notin supersededClaimIds(Pack(q))
      BY <1>1, <1>3, NamedParts
    <2>2. c \in Concerned(q)
      BY ClaimsAreConcerned
    <2>3. ~ Superseded(q, c)
      BY <1>3, <2>2 DEF Concerned
    <2> QED
      BY <2>1, <2>3
  <1> QED
    BY <1>2, <1>3

\* What a finding says is never that a claim holds or did.
LEMMA FindingsSayOther ==
    ASSUME NEW q, Assessed(q), NEW f \in Named(q).findings
    PROVE  /\ FindingSays(f) \notin {"CURRENT", "HISTORICAL", "CORRECTION"}
           /\ f.kind \notin {"CURRENT", "HISTORICAL", "CORRECTION"}
  <1>1. f \in allFindings(q)
    BY NamedParts
  <1>2. CASE \/ \E pair \in reconcileClaimSet(q.set).conflict : f = Conflicting(pair)
             \/ \E pair \in reconcileClaimSet(q.set).ambiguous : f = Ambiguous(pair)
    BY <1>2, FormsDiffer DEF FindingSays
  <1>3. CASE \E m \in q.missing : f = Unsupported(m)
    <2>1. f.kind = "MISSING" /\ f.support \in {"EVIDENCE_SOURCE", "VALIDATION_RESULT"}
      BY <1>3, FormsDiffer DEF Assessed, Askable
    <2> QED
      BY <2>1 DEF FindingSays
  <1>4. CASE f = StaleBy(q.changes)
    BY <1>4, FormsDiffer DEF FindingSays
  <1>5. CASE \E r \in DOMAIN Outcome(q) :
                Outcome(q)[r].reason # "NONE" /\ f = GapOf(Outcome(q), r)
    <2>1. PICK r \in DOMAIN Outcome(q) :
              Outcome(q)[r].reason # "NONE" /\ f = GapOf(Outcome(q), r)
      BY <1>5
    <2>2. f.kind = "IMPACT_GAP" /\ f.reason = Outcome(q)[r].reason
      BY <2>1, FormsDiffer
    <2>3. f.reason \in GapReasons
      BY <2>1, <2>2, OutcomesOfAssessment, OutcomeForms
    <2> QED
      BY <2>2, <2>3 DEF FindingSays, GapReasons, ValidationGaps
  <1> QED
    BY <1>1, <1>2, <1>3, <1>4, <1>5, FindingForms

\* The claims that are cited beside something else.
LEMMA TwoClaimsCited ==
    ASSUME NEW q, NEW c \in Named(q).claims, NEW d \in Named(q).claims, c # d,
           NEW i, i.item # "CLAIM"
    PROVE  LET cites == {i} \cup ClaimItems(Pack(q), {c, d}) IN
           Cardinality({j \in cites : j.item = "CLAIM"}) = 2
  <1> DEFINE cited == ClaimItems(Pack(q), {c, d})
             one == ClaimItem(q, c)
             two == ClaimItem(q, d)
  <1>1. \A j : j \in cited <=> j = one \/ j = two
    BY ItemsOfKind, ItemsDiffer DEF ClaimItems
  <1>2. one.item = "CLAIM" /\ two.item = "CLAIM" /\ one # two
    BY ItemsDiffer
  <1> HIDE DEF cited, one, two
  <1>3. {j \in {i} \cup cited : j.item = "CLAIM"} = {one, two}
    BY <1>1, <1>2
  <1>4. Cardinality({one, two}) = 2
    BY <1>2, PairCardinality
  <1> QED
    BY <1>3, <1>4 DEF cited

LEMMA StatementsAreTrue ==
    ASSUME NEW q, Assessed(q), NEW s \in Statements(q)
    PROVE  /\ s.says \in {"CURRENT", "HISTORICAL"} =>
                 \A i \in s.cites : (s.says = "HISTORICAL") <=> Superseded(q, i.claim)
           /\ s.category = "CONFLICT" \/ s.says = "CORRECTION" =>
                 Cardinality({i \in s.cites : i.item = "CLAIM"}) = 2
  <1>1. CASE \E c \in Named(q).claims : s = ClaimStatement(q, c)
    <2>1. PICK c \in Named(q).claims : s = ClaimStatement(q, c)
      BY <1>1
    <2>2. /\ s.says = IF Superseded(q, c) THEN "HISTORICAL" ELSE "CURRENT"
          /\ s.cites = {ClaimItem(q, c)}
          /\ s.category = q.of[c].label
      BY <2>1, StatementParts, SupersededInPack
    <2>3. s.category # "CONFLICT"
      BY <2>2, LabelsOfClaims
    <2> QED
      BY <2>2, <2>3, ItemsDiffer
  <1>2. CASE \E l \in Named(q).links : s = LinkStatement(q, l)
    <2>1. PICK l \in Named(q).links : s = LinkStatement(q, l)
      BY <1>2
    <2>2. /\ l.predecessor \in Named(q).claims /\ l.successor \in Named(q).claims
          /\ l \in q.set.links
      BY NamedParts
    <2>3. l.predecessor # l.successor
      BY <2>2, LinksAreOfClaims
    <2>4. s.cites = {LinkItem(l)} \cup ClaimItems(Pack(q), {l.predecessor, l.successor})
      BY <2>1 DEF LinkStatement, statement
    <2>5. LinkItem(l).item # "CLAIM"
      BY ItemsDiffer
    <2> DEFINE cites == {LinkItem(l)} \cup ClaimItems(Pack(q), {l.predecessor, l.successor})
    <2>6. Cardinality({i \in cites : i.item = "CLAIM"}) = 2
      BY <2>2, <2>3, <2>5, TwoClaimsCited
    <2>7. ~ (s.says \in {"CURRENT", "HISTORICAL"})
      BY <2>1, StatementParts
    <2> QED
      BY <2>4, <2>6, <2>7
  <1>3. CASE \E f \in Named(q).findings : s = FindingStatement(q, f)
    <2>1. PICK f \in Named(q).findings : s = FindingStatement(q, f)
      BY <1>3
    <2>2. s.says \notin {"CURRENT", "HISTORICAL", "CORRECTION"}
      BY <2>1, StatementParts, FindingsSayOther
    <2>3. ASSUME s.category = "CONFLICT"
          PROVE  Cardinality({i \in s.cites : i.item = "CLAIM"}) = 2
      <3>1. f.kind \in Disputed
        BY <2>1, <2>3, StatementParts
      <3>2. f \in DisputeFindings(q)
        BY <3>1, NamedParts DEF DisputeFindings
      <3>3. PICK c, d \in DOMAIN q.set.claims : c # d /\ f.claims = {c, d}
        BY <3>2, DisputesAreOfClaims
      <3>4. c \in Named(q).claims /\ d \in Named(q).claims
        BY <3>1, <3>3, NamedParts DEF ClaimsNamed, Disputed
      <3>5. s.cites = {FindingItem(f)} \cup ClaimItems(Pack(q), {c, d})
        BY <2>1, <3>1, <3>3, StatementParts DEF FindingCites, NamedBy, Disputed
      <3>6. FindingItem(f).item # "CLAIM"
        BY ItemsDiffer
      <3> DEFINE cites == {FindingItem(f)} \cup ClaimItems(Pack(q), {c, d})
      <3>7. Cardinality({i \in cites : i.item = "CLAIM"}) = 2
        BY <3>3, <3>4, <3>6, TwoClaimsCited
      <3> QED
        BY <3>5, <3>7
    <2> QED
      BY <2>2, <2>3
  <1>4. CASE \E f \in Named(q).findings : s = ActionStatement(q, f)
    BY <1>4, StatementParts, FindingsSayOther
  <1>5. CASE \E p \in Named(q).paths : s = PathStatement(p)
    BY <1>5, StatementParts
  <1> QED
    BY <1>1, <1>2, <1>3, <1>4, <1>5, StatementForms

\* Every item but a source is cited by a statement of its own.
LEMMA ItemsAreCited ==
    ASSUME NEW q, NEW i \in Pack(q).items
    PROVE  \/ i \in {AssessmentItem} \cup UNION {s.cites : s \in Statements(q)}
           \/ \E c \in Named(q).claims : i = SourceItem(q, c)
  <1>1. CASE \E c \in Named(q).claims : i = ClaimItem(q, c)
    <2>1. PICK c \in Named(q).claims : i = ClaimItem(q, c)
      BY <1>1
    <2>2. ClaimStatement(q, c) \in Statements(q) /\ i \in ClaimStatement(q, c).cites
      BY <2>1, StatementForms, StatementParts
    <2> QED
      BY <2>2
  <1>2. CASE \E l \in Named(q).links : i = LinkItem(l)
    <2>1. PICK l \in Named(q).links : i = LinkItem(l)
      BY <1>2
    <2>2. LinkStatement(q, l) \in Statements(q) /\ i \in LinkStatement(q, l).cites
      BY <2>1, StatementForms DEF LinkStatement, statement
    <2> QED
      BY <2>2
  <1>3. CASE \E f \in Named(q).findings : i = FindingItem(f)
    <2>1. PICK f \in Named(q).findings : i = FindingItem(f)
      BY <1>3
    <2>2. FindingStatement(q, f) \in Statements(q) /\ i \in FindingStatement(q, f).cites
      BY <2>1, StatementForms, StatementParts DEF FindingCites
    <2> QED
      BY <2>2
  <1>4. CASE \E p \in Named(q).paths : i = PathItem(p)
    <2>1. PICK p \in Named(q).paths : i = PathItem(p)
      BY <1>4
    <2>2. PathStatement(p) \in Statements(q) /\ i \in PathStatement(p).cites
      BY <2>1, StatementForms DEF PathStatement, statement
    <2> QED
      BY <2>2
  <1> QED
    BY <1>1, <1>2, <1>3, <1>4, ItemForms

-----------------------------------------------------------------------------
(***************************************************************************)
(* CitedExplanation: the service.                                          *)
(***************************************************************************)
\* A pack that is compiled at all is the pack of what the question is about.
LEMMA PackCompiled ==
    ASSUME NEW q, Assessed(q)
    PROVE  LET pack == compileEvidencePack(q, exactSupersessions(q)) IN
           \/ pack = Pack(q)
           \/ /\ pack.error # "NONE"
              /\ \/ Cardinality(Items(q, Named(q))) > MaxPackItems
                 \/ \E c \in Concerned(q) : q.of[c].text # "PLAIN"
  <1> DEFINE selected == Named(q)
             claims == selected.claims
             items == Items(q, selected)
             pack == packOf(q, claims, items)
  <1>1. compileEvidencePack(q, exactSupersessions(q)) = pack
    BY SupersessionsAreExact DEF compileEvidencePack, Named
  <1>2. Pack(q) = [error |-> "NONE", question |-> q.question, items |-> items]
    BY DEF Pack
  <1>3. claims \subseteq Concerned(q)
    BY ClaimsAreConcerned
  <1> HIDE DEF claims, items
  <1>4. CASE \E c \in claims : RedactionFails(q, c)
                                   /\ \A d \in claims : TooLong(q, d) => c < d
    <2>1. pack = [error |-> "EVIDENCE_PACK_INPUT_INVALID"]
      BY <1>4 DEF packOf
    <2>2. \E c \in Concerned(q) : q.of[c].text # "PLAIN"
      BY <1>3, <1>4 DEF RedactionFails
    <2>3. pack.error # "NONE"
      BY <2>1
    <2> QED
      BY <1>1, <2>2, <2>3
  <1>5. CASE /\ ~ \E c \in claims : RedactionFails(q, c)
                                        /\ \A d \in claims : TooLong(q, d) => c < d
             /\ (\E c \in claims : TooLong(q, c)) \/ Cardinality(items) > MaxPackItems
    <2>1. pack = [error |-> "EVIDENCE_PACK_LIMIT_EXCEEDED"]
      BY <1>5 DEF packOf
    <2>2. \/ Cardinality(items) > MaxPackItems
          \/ \E c \in Concerned(q) : q.of[c].text # "PLAIN"
      BY <1>3, <1>5 DEF TooLong
    <2>3. pack.error # "NONE"
      BY <2>1
    <2> QED
      BY <1>1, <2>2, <2>3 DEF items
  <1>6. CASE /\ ~ \E c \in claims : RedactionFails(q, c)
                                        /\ \A d \in claims : TooLong(q, d) => c < d
             /\ ~ ((\E c \in claims : TooLong(q, c)) \/ Cardinality(items) > MaxPackItems)
    <2>1. pack = Pack(q)
      BY <1>2, <1>6 DEF packOf
    <2> QED
      BY <1>1, <2>1
  <1> QED
    BY <1>4, <1>5, <1>6

\* The answer to a question, if it is given.
LEMMA ExplanationOfPack ==
    ASSUME NEW q, Assessed(q)
    PROVE  buildExplanation(Pack(q)) =
               [error      |-> "NONE",
                answer     |-> answerText(Pack(q), Statements(q)),
                statements |-> Statements(q),
                citations  |-> {AssessmentItem} \cup UNION {s.cites : s \in Statements(q)}]
  BY PackResolves DEF buildExplanation, Statements

LEMMA Executed ==
    ASSUME NEW q, Assessed(q)
    PROVE  LET given == execute(q) IN
           \/ given = answered(Pack(q), buildExplanation(Pack(q)),
                               createSyntheticEdgeCaseSuggestions(Pack(q)))
           \/ /\ given.error # "NONE"
              /\ \/ Cardinality(Items(q, Named(q))) > MaxPackItems
                 \/ Cardinality(q.set.links \cup q.later) > MaxInspectedLinks
                 \/ \E c \in Concerned(q) : q.of[c].text # "PLAIN"
  <1> DEFINE pack == compileEvidencePack(q, exactSupersessions(q))
             Rendered(p) == answered(p, buildExplanation(p), createSyntheticEdgeCaseSuggestions(p))
  <1>1. q.assessed
    BY DEF Assessed
  <1>2. CASE q.set.links # {} /\ Cardinality(q.set.links \cup q.later) > MaxInspectedLinks
    <2>1. execute(q) = Refused("CITED_EXPLANATION_LIMIT_EXCEEDED")
      BY <1>1, <1>2 DEF execute
    <2> QED
      BY <1>2, <2>1 DEF Refused
  <1>3. CASE ~ (q.set.links # {} /\ Cardinality(q.set.links \cup q.later) > MaxInspectedLinks)
    <2>1. execute(q) = Rendered(pack)
      BY <1>1, <1>3 DEF execute
    <2> HIDE DEF pack
    <2>2. CASE pack = Pack(q)
      BY <2>1, <2>2
    <2>3. CASE /\ pack.error # "NONE"
               /\ \/ Cardinality(Items(q, Named(q))) > MaxPackItems
                  \/ \E c \in Concerned(q) : q.of[c].text # "PLAIN"
      <3>1. execute(q) = Refused("CITED_EXPLANATION_INTEGRITY_INVALID")
        BY <2>1, <2>3 DEF answered
      <3> QED
        BY <2>3, <3>1 DEF Refused
    <2> QED
      BY <2>2, <2>3, PackCompiled DEF pack
  <1> QED
    BY <1>2, <1>3

\* What an answer promises of the assessment.
SaysWhatIs(q, given) ==
    /\ given.explanation.answer = Counts(q)
    /\ \A s \in given.explanation.statements :
          /\ s.says \in {"CURRENT", "HISTORICAL"} =>
                \A i \in s.cites : (s.says = "HISTORICAL") <=> Superseded(q, i.claim)
          /\ s.category = "CONFLICT" \/ s.says = "CORRECTION" =>
                Cardinality({i \in s.cites : i.item = "CLAIM"}) = 2
    /\ \A i \in given.disclosed \ given.details :
          /\ i.item = "EVIDENCE_SOURCE"
          /\ \E j \in given.details : j.item = "CLAIM" /\ q.of[j.claim].source = i.source

LEMMA GivenIsTheAssessment ==
    ASSUME NEW q, Assessed(q), NEW given,
           given = answered(Pack(q), buildExplanation(Pack(q)),
                            createSyntheticEdgeCaseSuggestions(Pack(q)))
    PROVE  given.error = "NONE" /\ SaysWhatIs(q, given)
  <1> DEFINE explanation == buildExplanation(Pack(q))
             suggestions == createSyntheticEdgeCaseSuggestions(Pack(q))
             cited == {AssessmentItem} \cup UNION {s.cites : s \in Statements(q)}
  <1>1. /\ explanation.error = "NONE"
        /\ explanation.answer = Counts(q)
        /\ explanation.statements = Statements(q)
        /\ explanation.citations = cited
    BY ExplanationOfPack, AnswerIsCounted
  <1>2. Pack(q).error = "NONE"
    BY DEF Pack
  <1> HIDE DEF explanation, suggestions, cited
  <1>3. given = [error       |-> "NONE",
                 disclosed   |-> Pack(q).items,
                 explanation |-> explanation,
                 suggestions |-> suggestions,
                 details     |-> explanation.citations \cup {s.cites : s \in suggestions}]
    BY <1>1, <1>2 DEF answered, explanation, suggestions
  <1>4. ASSUME NEW i \in given.disclosed, i \notin given.details
        PROVE  /\ i.item = "EVIDENCE_SOURCE"
               /\ \E j \in given.details : j.item = "CLAIM" /\ q.of[j.claim].source = i.source
    <2>1. i \in Pack(q).items /\ i \notin cited
      BY <1>1, <1>3, <1>4
    <2>2. PICK c \in Named(q).claims : i = SourceItem(q, c)
      BY <2>1, ItemsAreCited DEF cited
    <2>3. ClaimItem(q, c) \in cited
      <3>1. ClaimItem(q, c) \in Pack(q).items
        BY ItemForms
      <3>2. \A b : ClaimItem(q, c) # SourceItem(q, b)
        BY ItemsDiffer
      <3> QED
        BY <3>1, <3>2, ItemsAreCited DEF cited
    <2>4. ClaimItem(q, c) \in given.details
      BY <1>1, <1>3, <2>3
    <2> QED
      BY <2>2, <2>4, ItemsDiffer
  <1>5. /\ given.error = "NONE"
        /\ given.explanation.answer = Counts(q)
        /\ given.explanation.statements = Statements(q)
    BY <1>1, <1>3
  <1> QED
    BY <1>4, <1>5, StatementsAreTrue DEF SaysWhatIs

\* Every question about an assessment is answered, with the exceptions that
\* QuestionsAreAnswered names, and an answer, though written from its pack alone,
\* states the counts of the assessment, says which claims still hold, cites both
\* sides of a dispute, and discloses nothing that no statement rests on: for any
\* assessment, of any size, and whatever fits in a pack.
THEOREM ExplanationsCorrect == ExplanationInit => ExplanationsAreExact
  <1> SUFFICES ASSUME ExplanationInit
               PROVE  ExplanationsAreExact
    OBVIOUS
  <1>1. Askable(asked)
    BY DEF ExplanationInit
  <1>2. CASE ~ asked.assessed
    <2>1. execute(asked) = Refused("CITED_EXPLANATION_ASSESSMENT_UNAVAILABLE")
      BY <1>2 DEF execute
    <2>2. execute(asked).error # "NONE"
      BY <2>1 DEF Refused
    <2> QED
      BY <1>2, <2>2 DEF ExplanationsAreExact, AnswersAreTheAssessment, QuestionsAreAnswered
  <1>3. CASE asked.assessed
    <2> DEFINE rendered == answered(Pack(asked), buildExplanation(Pack(asked)),
                                    createSyntheticEdgeCaseSuggestions(Pack(asked)))
    <2>1. Assessed(asked)
      BY <1>1, <1>3 DEF Assessed
    <2>2. \/ execute(asked) = rendered
          \/ /\ execute(asked).error # "NONE"
             /\ \/ Cardinality(Items(asked, Named(asked))) > MaxPackItems
                \/ Cardinality(asked.set.links \cup asked.later) > MaxInspectedLinks
                \/ \E c \in Concerned(asked) : asked.of[c].text # "PLAIN"
      BY <2>1, Executed
    <2>3. execute(asked) = rendered => execute(asked).error = "NONE"
      BY <2>1, GivenIsTheAssessment
    <2>4. QuestionsAreAnswered
      BY <2>2, <2>3 DEF QuestionsAreAnswered, Named
    <2>5. AnswersAreTheAssessment
      <3> SUFFICES ASSUME execute(asked).error = "NONE"
                   PROVE  AnswersAreTheAssessment
        BY DEF AnswersAreTheAssessment
      <3>1. execute(asked) = rendered
        BY <2>2
      <3>2. SaysWhatIs(asked, execute(asked))
        BY <2>1, <3>1, GivenIsTheAssessment
      <3> QED
        BY <3>2 DEF AnswersAreTheAssessment, SaysWhatIs
    <2> QED
      BY <2>4, <2>5 DEF ExplanationsAreExact
  <1> QED
    BY <1>2, <1>3

-----------------------------------------------------------------------------
(***************************************************************************)
(* ImpactAnalysis: the edges and the order in which they are tried.        *)
(***************************************************************************)
EdgeRank(e) == Rank(e.relationship.type)

\* The types have different ranks.
LEMMA RankOfType ==
    ASSUME NEW type \in ToSet(TraversalTypes)
    PROVE  Rank(type) \in 1 .. 4 /\ TraversalTypes[Rank(type)] = type
  <1>1. DOMAIN TraversalTypes = 1 .. 4
    BY DEF TraversalTypes
  <1>2. \E i \in DOMAIN TraversalTypes : TraversalTypes[i] = type
    BY DEF ToSet
  <1>3. /\ (CHOOSE i \in DOMAIN TraversalTypes : TraversalTypes[i] = type) \in DOMAIN TraversalTypes
        /\ TraversalTypes[CHOOSE i \in DOMAIN TraversalTypes : TraversalTypes[i] = type] = type
    BY <1>2, Zenon
  <1> QED
    BY <1>1, <1>3 DEF Rank

\* An edge is made of the relationship it carries; it does not leave a result.
LEMMA EdgeForm ==
    ASSUME NEW twin, TwinAccepted(twin), NEW e \in Edges(twin)
    PROVE  /\ e.relationship \in Traversed(twin)
           /\ e = directedEdge(e.relationship)
           /\ e.relationship.id \in Nat
           /\ e.relationship.type \in ToSet(TraversalTypes)
           /\ e.from \in ClaimNodes \cup AssetNodes
           /\ e.to \in TwinNodes
  <1>1. PICK r \in Traversed(twin) : e = directedEdge(r)
    BY DEF Edges
  <1>2. e.relationship = r
    BY <1>1 DEF directedEdge
  <1>3. r \in twin.relationships /\ r.type \in ToSet(TraversalTypes)
    BY DEF Traversed
  <1>4. r.id \in Nat
    BY <1>3 DEF TwinAccepted
  <1>5. e.from = (IF Against(r) THEN r.to ELSE r.from) /\ e.to = (IF Against(r) THEN r.from ELSE r.to)
    BY <1>1 DEF directedEdge
  <1>6. e.from \in ClaimNodes \cup AssetNodes /\ e.to \in TwinNodes
    BY <1>5, NodeTypesDisjoint DEF TwinAccepted, Against, TwinNodes
  <1> QED
    BY <1>1, <1>2, <1>3, <1>4, <1>6

LEMMA EdgesAreFinite ==
    ASSUME NEW twin, TwinAccepted(twin)
    PROVE  IsFiniteSet(Edges(twin))
  <1> DEFINE made == [r \in Traversed(twin) |-> directedEdge(r)]
  <1>1. IsFiniteSet(Traversed(twin))
    BY FS_Subset DEF TwinAccepted, Traversed
  <1>2. Edges(twin) = {made[r] : r \in Traversed(twin)}
    BY DEF Edges
  <1>3. made \in [Traversed(twin) -> {made[r] : r \in Traversed(twin)}]
    OBVIOUS
  <1> HIDE DEF made
  <1> QED
    BY <1>1, <1>2, <1>3, MadeIsFinite

\* Of two edges one is tried before the other, and the order is strict.
LEMMA TriedByRank ==
    ASSUME NEW twin, TwinAccepted(twin), NEW e \in Edges(twin), NEW f \in Edges(twin)
    PROVE  /\ EdgeRank(e) \in Nat /\ EdgeRank(f) \in Nat
           /\ e.relationship.id \in Nat /\ f.relationship.id \in Nat
           /\ TriedBefore(e, f) <=> \/ EdgeRank(e) < EdgeRank(f)
                                    \/ EdgeRank(e) = EdgeRank(f) /\ e.relationship.id < f.relationship.id
           /\ e.relationship.id = f.relationship.id => e = f
  <1>1. /\ e.relationship.type \in ToSet(TraversalTypes) /\ f.relationship.type \in ToSet(TraversalTypes)
        /\ e.relationship.id \in Nat /\ f.relationship.id \in Nat
        /\ e = directedEdge(e.relationship) /\ f = directedEdge(f.relationship)
        /\ e.relationship \in Traversed(twin) /\ f.relationship \in Traversed(twin)
    BY EdgeForm
  <1>2. /\ EdgeRank(e) \in 1 .. 4 /\ EdgeRank(f) \in 1 .. 4
        /\ EdgeRank(e) = EdgeRank(f) <=> e.relationship.type = f.relationship.type
    BY <1>1, RankOfType DEF EdgeRank
  <1>3. ASSUME e.relationship.id = f.relationship.id
        PROVE  e = f
    <2>1. e.relationship \in twin.relationships /\ f.relationship \in twin.relationships
      BY <1>1 DEF Traversed
    <2>2. e.relationship = f.relationship
      BY <1>3, <2>1 DEF TwinAccepted
    <2> QED
      BY <1>1, <2>2
  <1>4. TriedBefore(e, f) <=> \/ EdgeRank(e) < EdgeRank(f)
                              \/ EdgeRank(e) = EdgeRank(f) /\ e.relationship.id < f.relationship.id
    BY <1>2 DEF TriedBefore, EdgeRank
  <1> QED
    BY <1>1, <1>2, <1>3, <1>4

LEMMA TriedIsStrict ==
    ASSUME NEW twin, TwinAccepted(twin), NEW e \in Edges(twin), NEW f \in Edges(twin)
    PROVE  /\ ~ TriedBefore(e, e)
           /\ e # f => TriedBefore(e, f) \/ TriedBefore(f, e)
           /\ ~ (TriedBefore(e, f) /\ TriedBefore(f, e))
  BY TriedByRank

LEMMA TriedIsTransitive ==
    ASSUME NEW twin, TwinAccepted(twin), NEW e \in Edges(twin), NEW f \in Edges(twin),
           NEW g \in Edges(twin), TriedBefore(e, f), TriedBefore(f, g)
    PROVE  TriedBefore(e, g)
  <1>1. /\ EdgeRank(e) \in Nat /\ EdgeRank(f) \in Nat /\ EdgeRank(g) \in Nat
        /\ e.relationship.id \in Nat /\ f.relationship.id \in Nat /\ g.relationship.id \in Nat
    BY TriedByRank
  <1>2. /\ \/ EdgeRank(e) < EdgeRank(f)
           \/ EdgeRank(e) = EdgeRank(f) /\ e.relationship.id < f.relationship.id
        /\ \/ EdgeRank(f) < EdgeRank(g)
           \/ EdgeRank(f) = EdgeRank(g) /\ f.relationship.id < g.relationship.id
    BY TriedByRank
  <1>3. \/ EdgeRank(e) < EdgeRank(g)
        \/ EdgeRank(e) = EdgeRank(g) /\ e.relationship.id < g.relationship.id
    BY <1>1, <1>2
  <1> QED
    BY <1>3, TriedByRank

-----------------------------------------------------------------------------
\* The edges that leave a node, in the order in which they are tried.
EdgesFrom(twin, node) == {e \in Edges(twin) : e.from = node}

TriedEarlier(twin, node, e) == {f \in EdgesFrom(twin, node) : TriedBefore(f, e)}

Place(twin, node, e) == Cardinality(TriedEarlier(twin, node, e))

LEMMA EdgesFromAreFinite ==
    ASSUME NEW twin, TwinAccepted(twin), NEW node
    PROVE  /\ IsFiniteSet(EdgesFrom(twin, node))
           /\ Cardinality(EdgesFrom(twin, node)) \in Nat
           /\ EdgesFrom(twin, node) \subseteq Edges(twin)
  <1>1. EdgesFrom(twin, node) \subseteq Edges(twin)
    BY DEF EdgesFrom
  <1>2. IsFiniteSet(EdgesFrom(twin, node))
    BY <1>1, EdgesAreFinite, FS_Subset
  <1> QED
    BY <1>1, <1>2, FS_CardinalityType

LEMMA PlaceIsCounted ==
    ASSUME NEW twin, TwinAccepted(twin), NEW node, NEW e \in EdgesFrom(twin, node)
    PROVE  /\ IsFiniteSet(TriedEarlier(twin, node, e))
           /\ TriedEarlier(twin, node, e) \subseteq EdgesFrom(twin, node)
           /\ Place(twin, node, e) \in 0 .. (Cardinality(EdgesFrom(twin, node)) - 1)
  <1> DEFINE S == EdgesFrom(twin, node)
             T == TriedEarlier(twin, node, e)
  <1>1. IsFiniteSet(S) /\ Cardinality(S) \in Nat /\ S \subseteq Edges(twin) /\ e.from = node
    BY EdgesFromAreFinite DEF EdgesFrom
  <1>2. T \subseteq S /\ e \notin T
    BY <1>1, TriedIsStrict DEF TriedEarlier
  <1>3. /\ IsFiniteSet(S \ {e})
        /\ Cardinality(S \ {e}) = Cardinality(S) - 1
    BY <1>1, FS_RemoveElement
  <1>4. T \in SUBSET (S \ {e})
    BY <1>2
  <1> HIDE DEF S, T
  <1>5. IsFiniteSet(T) /\ Cardinality(T) <= Cardinality(S) - 1
    BY <1>3, <1>4, FS_Subset
  <1>6. Cardinality(T) \in Nat
    BY <1>5, FS_CardinalityType
  <1> QED
    BY <1>1, <1>2, <1>5, <1>6 DEF S, T, Place

\* The earlier of two edges has the lower place.
LEMMA PlaceFollowsOrder ==
    ASSUME NEW twin, TwinAccepted(twin), NEW node,
           NEW e \in EdgesFrom(twin, node), NEW f \in EdgesFrom(twin, node), TriedBefore(e, f)
    PROVE  Place(twin, node, e) < Place(twin, node, f)
  <1> DEFINE T == TriedEarlier(twin, node, e)
             U == TriedEarlier(twin, node, f)
  <1>1. /\ IsFiniteSet(T) /\ IsFiniteSet(U)
        /\ Cardinality(T) \in Nat /\ Cardinality(U) \in Nat
    BY PlaceIsCounted DEF Place
  <1>2. e \in Edges(twin) /\ f \in Edges(twin) /\ e.from = node /\ f.from = node
    BY DEF EdgesFrom
  <1>3. T \subseteq U
    BY <1>2, TriedIsTransitive DEF TriedEarlier, EdgesFrom
  <1>4. e \in U /\ e \notin T
    BY <1>2, TriedIsStrict DEF TriedEarlier
  <1>5. Cardinality(T) <= Cardinality(U) /\ Cardinality(T) # Cardinality(U)
    <2> HIDE DEF T, U
    <2> QED
      BY <1>1, <1>3, <1>4, FS_Subset
  <1> QED
    BY <1>1, <1>5 DEF Place

LEMMA PlaceIsOwn ==
    ASSUME NEW twin, TwinAccepted(twin), NEW node,
           NEW e \in EdgesFrom(twin, node), NEW f \in EdgesFrom(twin, node),
           Place(twin, node, e) = Place(twin, node, f)
    PROVE  e = f
  <1>1. Place(twin, node, e) \in Nat
    BY PlaceIsCounted
  <1>2. e \in Edges(twin) /\ f \in Edges(twin)
    BY DEF EdgesFrom
  <1>3. ~ TriedBefore(e, f) /\ ~ TriedBefore(f, e)
    BY <1>1, PlaceFollowsOrder
  <1> QED
    BY <1>2, <1>3, TriedIsStrict

\* Every place is taken.
LEMMA PlacesAreTaken ==
    ASSUME NEW twin, TwinAccepted(twin), NEW node,
           NEW n \in 1 .. Cardinality(EdgesFrom(twin, node))
    PROVE  \E e \in EdgesFrom(twin, node) : Place(twin, node, e) = n - 1
  <1> DEFINE S == EdgesFrom(twin, node)
             N == Cardinality(S)
             T == 0 .. (N - 1)
             placed == [e \in S |-> Place(twin, node, e)]
  <1>1. IsFiniteSet(S) /\ N \in Nat
    BY EdgesFromAreFinite
  <1>2. placed \in [S -> T]
    BY PlaceIsCounted
  <1>3. \A e, f \in S : placed[e] = placed[f] => e = f
    BY PlaceIsOwn
  <1>4. placed \in Injection(S, T)
    <2> HIDE DEF S, T, placed
    <2> QED
      BY <1>2, <1>3 DEF Injection, IsInjective
  <1>5. IsFiniteSet(T) /\ Cardinality(T) = N
    <2> HIDE DEF N
    <2> QED
      BY <1>1, FS_Interval
  <1>6. placed \in Surjection(S, T)
    <2> HIDE DEF placed, T, S
    <2> QED
      BY <1>4, <1>5, FS_Injection DEF N
  <1>7. n - 1 \in T
    BY <1>1
  <1>8. \E e \in S : placed[e] = n - 1
    <2> HIDE DEF placed, T, S
    <2> QED
      BY <1>6, <1>7 DEF Surjection
  <1> QED
    BY <1>8

\* Adjacency lists the edges from a node, each once, in the order of TriedBefore.
LEMMA AdjacencyLists ==
    ASSUME NEW twin, TwinAccepted(twin), NEW node
    PROVE  LET tried == Adjacency(twin, node) IN
           /\ tried \in Seq(EdgesFrom(twin, node))
           /\ Len(tried) = Cardinality(EdgesFrom(twin, node))
           /\ \A e \in EdgesFrom(twin, node) : \E n \in 1 .. Len(tried) : tried[n] = e
           /\ \A m, n \in 1 .. Len(tried) : m < n => TriedBefore(tried[m], tried[n])
  <1> DEFINE tried == Adjacency(twin, node)
             S == EdgesFrom(twin, node)
             N == Cardinality(S)
  <1>1. IsFiniteSet(S) /\ N \in Nat /\ S \subseteq Edges(twin)
    BY EdgesFromAreFinite
  <1>2. tried = [n \in 1 .. N |-> CHOOSE e \in S : Place(twin, node, e) = n - 1]
    BY DEF Adjacency, EdgesFrom, Place, TriedEarlier
  <1>3. ASSUME NEW n \in 1 .. N
        PROVE  tried[n] \in S /\ Place(twin, node, tried[n]) = n - 1
    <2>1. \E e \in S : Place(twin, node, e) = n - 1
      BY PlacesAreTaken
    <2>2. tried[n] = CHOOSE e \in S : Place(twin, node, e) = n - 1
      BY <1>2
    <2> HIDE DEF S, tried
    <2> QED
      BY <2>1, <2>2
  <1> HIDE DEF tried, S
  <1>4. tried \in Seq(S) /\ Len(tried) = N
    <2>1. DOMAIN tried = 1 .. N
      BY <1>2
    <2>2. tried \in [1 .. N -> S]
      BY <1>2, <1>3, <2>1
    <2> HIDE DEF N
    <2> QED
      BY <1>1, <2>2
  <1>5. ASSUME NEW e \in S
        PROVE  \E n \in 1 .. N : tried[n] = e
    <2>1. Place(twin, node, e) \in 0 .. (N - 1)
      BY PlaceIsCounted DEF S
    <2>2. Place(twin, node, e) + 1 \in 1 .. N /\ (Place(twin, node, e) + 1) - 1 = Place(twin, node, e)
      BY <1>1, <2>1
    <2>3. tried[Place(twin, node, e) + 1] = e
      BY <1>3, <2>2, PlaceIsOwn DEF S
    <2> QED
      BY <2>2, <2>3
  <1>6. ASSUME NEW m \in 1 .. N, NEW n \in 1 .. N, m < n
        PROVE  TriedBefore(tried[m], tried[n])
    <2>1. /\ tried[m] \in S /\ tried[n] \in S
          /\ Place(twin, node, tried[m]) = m - 1 /\ Place(twin, node, tried[n]) = n - 1
      BY <1>3
    <2>2. Place(twin, node, tried[m]) < Place(twin, node, tried[n])
      BY <1>1, <1>6, <2>1
    <2>3. ~ Place(twin, node, tried[n]) < Place(twin, node, tried[m]) /\ tried[m] # tried[n]
      BY <1>1, <1>6, <2>1
    <2>4. ~ TriedBefore(tried[n], tried[m])
      BY <2>1, <2>3, PlaceFollowsOrder DEF S
    <2> QED
      BY <1>1, <2>1, <2>3, <2>4, TriedIsStrict
  <1> QED
    BY <1>4, <1>5, <1>6 DEF S, tried

\* Two such sequences with the same start and steps are the same.
LEMMA SameByTurn ==
    ASSUME NEW N \in Nat, NEW f, NEW g, f[0] = g[0],
           \A n \in 1 .. N : f[n - 1] = g[n - 1] => f[n] = g[n]
    PROVE  \A n \in 0 .. N : f[n] = g[n]
  <1> DEFINE Different == {n \in 0 .. N : f[n] # g[n]}
  <1>1. ASSUME Different # {}
        PROVE  FALSE
    <2>1. Different \in SUBSET Nat
      OBVIOUS
    <2>2. PICK n \in Different : \A i \in Different : n <= i
      <3> HIDE DEF Different
      <3> QED
        BY <1>1, <2>1, LeastNatural
    <2>3. n \in 1 .. N /\ n - 1 \in 0 .. N /\ n - 1 < n
      BY <2>2
    <2>4. f[n - 1] = g[n - 1]
      BY <2>2, <2>3
    <2> QED
      BY <2>2, <2>3, <2>4
  <1> QED
    BY <1>1

-----------------------------------------------------------------------------
(***************************************************************************)
(* ImpactAnalysis: the walks.                                              *)
(***************************************************************************)
LEMMA WalksByTurn ==
    ASSUME NEW twin, NEW root
    PROVE  LET upTo == WalksUpTo(twin, root) IN
           /\ upTo[0] = {<<>>}
           /\ \A n \in 1 .. MaximumDepth :
                 upTo[n] = upTo[n - 1] \cup OneLonger(twin, root, upTo[n - 1])
           /\ \A n \in 0 .. MaximumDepth : upTo[n] \subseteq Seq(Edges(twin))
  <1> DEFINE N == MaximumDepth
             D == SUBSET Seq(Edges(twin))
             step == [n \in 1 .. N |-> [x \in D |-> x \cup OneLonger(twin, root, x)]]
             Is(f) == f = [n \in 0 .. N |->
                          IF n = 0 THEN {<<>>}
                          ELSE LET shorter == f[n - 1] IN shorter \cup OneLonger(twin, root, shorter)]
             upTo == WalksUpTo(twin, root)
  <1>1. N \in Nat
    BY TraversalAssumption
  <1>2. ASSUME NEW walks \in D
        PROVE  walks \cup OneLonger(twin, root, walks) \in D
    BY DEF OneLonger
  <1>3. step \in [1 .. N -> [D -> D]]
    BY <1>2
  <1>4. {<<>>} \in D
    OBVIOUS
  <1>5. PICK f : TurnsBy(f, D, step, {<<>>}, N)
    <2> HIDE DEF N, D, step
    <2> QED
      BY <1>1, <1>3, <1>4, IteratesByTurn
  <1>6. ASSUME NEW n \in 1 .. N
        PROVE  f[n] = f[n - 1] \cup OneLonger(twin, root, f[n - 1])
    <2>1. n - 1 \in 0 .. N
      BY <1>1
    <2>2. f[n] = step[n][f[n - 1]] /\ f[n - 1] \in D
      BY <1>5, <2>1 DEF TurnsBy
    <2> QED
      BY <2>2
  <1>7. Is(f)
    <2>1. f \in [0 .. N -> D] /\ f[0] = {<<>>}
      BY <1>5 DEF TurnsBy
    <2>2. \A n \in 0 .. N : n # 0 => n \in 1 .. N
      BY <1>1
    <2> HIDE DEF D, step, N
    <2> QED
      BY <2>1, <2>2, <1>6
  <1>8. upTo = CHOOSE g : Is(g)
    BY Zenon DEF WalksUpTo
  <1>9. Is(upTo)
    <2> HIDE DEF Is, upTo
    <2> QED
      BY <1>7, <1>8, Zenon
  <1>10. /\ upTo[0] = {<<>>}
         /\ \A n \in 1 .. N : upTo[n] = upTo[n - 1] \cup OneLonger(twin, root, upTo[n - 1])
    <2> HIDE DEF upTo, N
    <2>1. \A n \in 0 .. N :
              upTo[n] = IF n = 0 THEN {<<>>} ELSE upTo[n - 1] \cup OneLonger(twin, root, upTo[n - 1])
      BY <1>9, Zenon
    <2>2. 0 \in 0 .. N /\ \A n \in 1 .. N : n \in 0 .. N /\ n # 0
      BY <1>1
    <2> QED
      BY <2>1, <2>2
  <1>11. \A n \in 0 .. N : upTo[n] \in D
    <2>1. f[0] = upTo[0]
      BY <1>5, <1>10 DEF TurnsBy
    <2>2. \A n \in 1 .. N : f[n - 1] = upTo[n - 1] => f[n] = upTo[n]
      <3> HIDE DEF upTo, N
      <3> QED
        BY <1>6, <1>10
    <2>3. \A n \in 0 .. N : f[n] = upTo[n]
      <3> HIDE DEF upTo, N
      <3> QED
        BY <1>1, <2>1, <2>2, SameByTurn
    <2> HIDE DEF upTo, N, D
    <2> QED
      BY <1>5, <2>3 DEF TurnsBy
  <1> QED
    BY <1>10, <1>11
\* Each edge of a walk leaves the node the one before it reached.
Chained(twin, root, w) ==
    /\ w \in Seq(Edges(twin))
    /\ \A k \in 1 .. Len(w) : w[k].from = IF k = 1 THEN root ELSE w[k - 1].to

LEMMA AppendForm ==
    ASSUME NEW S, NEW w \in Seq(S), NEW e \in S
    PROVE  /\ Append(w, e) \in Seq(S)
           /\ Append(w, e) # <<>>
           /\ Len(Append(w, e)) = Len(w) + 1
           /\ Append(w, e)[Len(w) + 1] = e
           /\ \A k \in 1 .. Len(w) : Append(w, e)[k] = w[k]
  OBVIOUS

LEMMA ShortenForm ==
    ASSUME NEW S, NEW w \in Seq(S), w # <<>>
    PROVE  LET v == SubSeq(w, 1, Len(w) - 1) IN
           /\ v \in Seq(S)
           /\ Len(v) = Len(w) - 1
           /\ \A k \in 1 .. Len(v) : v[k] = w[k]
           /\ w[Len(w)] \in S
           /\ w = Append(v, w[Len(w)])
  <1> DEFINE v == SubSeq(w, 1, Len(w) - 1)
  <1>1. Len(w) \in Nat /\ Len(w) - 1 \in Nat /\ w[Len(w)] \in S
    OBVIOUS
  <1>2. /\ v \in Seq(S) /\ Len(v) = Len(w) - 1
        /\ \A k \in 1 .. Len(v) : v[k] = w[k]
    BY <1>1, SubSeqProperties
  <1>3. w = Append(v, w[Len(w)])
    <2> DEFINE u == Append(v, w[Len(w)])
    <2>1. u \in Seq(S) /\ Len(u) = Len(w)
      BY <1>1, <1>2
    <2>2. \A k \in 1 .. Len(w) : u[k] = w[k]
      BY <1>1, <1>2
    <2> HIDE DEF u
    <2>3. w = u
      BY <2>1, <2>2
    <2> QED
      BY <2>3 DEF u
  <1> QED
    BY <1>1, <1>2, <1>3

LEMMA ChainGrows ==
    ASSUME NEW twin, NEW root, NEW w, Chained(twin, root, w),
           NEW e \in Edges(twin), e.from = EndOf(w, root)
    PROVE  /\ Chained(twin, root, Append(w, e))
           /\ Len(Append(w, e)) = Len(w) + 1
           /\ EndOf(Append(w, e), root) = e.to
  <1>1. w \in Seq(Edges(twin))
    BY DEF Chained
  <1> DEFINE u == Append(w, e)
  <1>2. /\ u \in Seq(Edges(twin)) /\ u # <<>> /\ Len(u) = Len(w) + 1 /\ u[Len(w) + 1] = e
        /\ \A k \in 1 .. Len(w) : u[k] = w[k]
    BY <1>1, AppendForm
  <1> HIDE DEF u
  <1>3. Len(w) \in Nat
    BY <1>1
  <1>4. e.from = IF Len(w) + 1 = 1 THEN root ELSE w[Len(w)].to
    BY <1>1, <1>3 DEF EndOf, Last
  <1>5. ASSUME NEW k \in 1 .. Len(u)
        PROVE  u[k].from = IF k = 1 THEN root ELSE u[k - 1].to
    <2>1. CASE k = Len(w) + 1
      BY <1>2, <1>3, <1>4, <2>1
    <2>2. CASE k # Len(w) + 1
      BY <1>2, <1>3, <2>2 DEF Chained
    <2> QED
      BY <2>1, <2>2
  <1>6. EndOf(u, root) = e.to
    BY <1>2 DEF EndOf, Last
  <1> QED
    BY <1>2, <1>5, <1>6 DEF u, Chained

LEMMA ChainShrinks ==
    ASSUME NEW twin, NEW root, NEW w, Chained(twin, root, w), w # <<>>
    PROVE  LET v == SubSeq(w, 1, Len(w) - 1)
               e == w[Len(w)]
           IN  /\ Chained(twin, root, v)
               /\ Len(v) = Len(w) - 1
               /\ e \in Edges(twin) /\ e.from = EndOf(v, root)
               /\ w = Append(v, e)
               /\ EndOf(w, root) = e.to
  <1> DEFINE v == SubSeq(w, 1, Len(w) - 1)
             e == w[Len(w)]
  <1>1. w \in Seq(Edges(twin))
    BY DEF Chained
  <1>2. /\ v \in Seq(Edges(twin)) /\ Len(v) = Len(w) - 1
        /\ \A k \in 1 .. Len(v) : v[k] = w[k]
        /\ e \in Edges(twin) /\ w = Append(v, e)
    BY <1>1, ShortenForm
  <1>3. Len(w) \in Nat \ {0} /\ Len(v) \in Nat /\ (v = <<>> <=> Len(v) = 0)
    BY <1>1, <1>2
  <1> HIDE DEF v
  <1>4. Chained(twin, root, v)
    BY <1>2, <1>3 DEF Chained
  <1>5. e.from = EndOf(v, root)
    <2>1. e.from = IF Len(w) = 1 THEN root ELSE w[Len(w) - 1].to
      <3>1. Len(w) \in 1 .. Len(w)
        BY <1>3
      <3> QED
        BY <3>1 DEF Chained
    <2>2. CASE Len(w) = 1
      BY <1>2, <1>3, <2>1, <2>2 DEF EndOf
    <2>3. CASE Len(w) # 1
      <3>1. v # <<>> /\ Len(v) \in 1 .. Len(v)
        BY <1>2, <1>3, <2>3
      <3>2. v[Len(v)] = w[Len(w) - 1]
        BY <1>2, <3>1
      <3> QED
        BY <2>1, <2>3, <3>1, <3>2 DEF EndOf, Last
    <2> QED
      BY <2>2, <2>3
  <1> QED
    BY <1>2, <1>4, <1>5 DEF v, EndOf, Last

\* The walks of at most a number of edges are the chains of no more edges.
LEMMA WalksUpToAreChains ==
    ASSUME NEW twin, NEW root, NEW n \in 0 .. MaximumDepth
    PROVE  \A w : w \in WalksUpTo(twin, root)[n] <=> Chained(twin, root, w) /\ Len(w) <= n
  <1> DEFINE upTo == WalksUpTo(twin, root)
             Chains(k) == {w \in Seq(Edges(twin)) : Chained(twin, root, w) /\ Len(w) <= k}
             Astray == {k \in 0 .. MaximumDepth : upTo[k] # Chains(k)}
  <1>1. ASSUME Astray # {}
        PROVE  FALSE
    <2>1. MaximumDepth \in Nat
      BY TraversalAssumption
    <2>2. Astray \in SUBSET Nat
      OBVIOUS
    <2>3. PICK k \in Astray : \A i \in Astray : k <= i
      <3> HIDE DEF Astray
      <3> QED
        BY <1>1, <2>2, LeastNatural
    <2>4. CASE k = 0
      <3>1. upTo[0] = {<<>>}
        BY WalksByTurn
      <3>2. <<>> \in Chains(0)
        BY DEF Chained
      <3>3. \A w \in Chains(0) : w = <<>>
        OBVIOUS
      <3> QED
        BY <2>3, <2>4, <3>1, <3>2, <3>3
    <2>5. CASE k # 0
      <3>1. k \in 1 .. MaximumDepth /\ k - 1 \in 0 .. MaximumDepth /\ k - 1 < k
        BY <2>1, <2>3, <2>5
      <3>2. k - 1 \notin Astray
        BY <2>3, <3>1
      <3>3. upTo[k - 1] = Chains(k - 1)
        BY <3>1, <3>2
      <3>4. upTo[k] = upTo[k - 1] \cup OneLonger(twin, root, upTo[k - 1])
        BY <3>1, WalksByTurn
      <3> HIDE DEF upTo, Astray
      <3>5. ASSUME NEW w \in OneLonger(twin, root, Chains(k - 1))
            PROVE  w \in Chains(k)
        <4>1. PICK v \in Chains(k - 1), e \in Edges(twin) :
                  e.from = EndOf(v, root) /\ w = Append(v, e)
          BY DEF OneLonger
        <4>2. Chained(twin, root, w) /\ Len(w) = Len(v) + 1
          BY <4>1, ChainGrows
        <4>3. w \in Seq(Edges(twin)) /\ Len(v) <= k - 1 /\ Len(v) \in Nat
          BY <4>1, <4>2 DEF Chained
        <4> QED
          BY <3>1, <4>2, <4>3
      <3>6. ASSUME NEW w \in Chains(k), w \notin Chains(k - 1)
            PROVE  w \in OneLonger(twin, root, Chains(k - 1))
        <4>1. w # <<>> /\ Len(w) \in Nat /\ Len(w) <= k /\ Chained(twin, root, w)
          <5>1. w \in Seq(Edges(twin)) /\ Chained(twin, root, w) /\ Len(w) <= k
            BY <3>6
          <5>2. Len(<<>>) <= k - 1
            BY <3>1
          <5> QED
            BY <3>6, <5>1, <5>2
        <4> DEFINE v == SubSeq(w, 1, Len(w) - 1)
                   e == w[Len(w)]
        <4>2. /\ Chained(twin, root, v) /\ Len(v) = Len(w) - 1
              /\ e \in Edges(twin) /\ e.from = EndOf(v, root) /\ w = Append(v, e)
          BY <4>1, ChainShrinks
        <4> HIDE DEF v, e
        <4>3. v \in Chains(k - 1)
          <5>1. v \in Seq(Edges(twin)) /\ Len(v) <= k - 1
            BY <3>1, <4>1, <4>2 DEF Chained
          <5> QED
            BY <4>2, <5>1
        <4> HIDE DEF Chains
        <4> QED
          BY <4>2, <4>3 DEF OneLonger
      <3>7. \A w \in Chains(k - 1) : w \in Chains(k)
        BY <3>1
      <3> HIDE DEF Chains
      <3>8. upTo[k] = Chains(k)
        BY <3>3, <3>4, <3>5, <3>6, <3>7
      <3> QED
        BY <2>3, <3>8 DEF Astray
    <2> QED
      BY <2>4, <2>5
  <1>2. upTo[n] = Chains(n)
    BY <1>1
  <1> HIDE DEF upTo
  <1>3. \A w : w \in Chains(n) <=> Chained(twin, root, w) /\ Len(w) <= n
    BY DEF Chained
  <1> QED
    BY <1>2, <1>3 DEF upTo

LEMMA WalksAreChains ==
    ASSUME NEW twin, NEW root, NEW w
    PROVE  w \in Walks(twin, root) <=> Chained(twin, root, w) /\ Len(w) <= MaximumDepth
  <1>1. MaximumDepth \in 0 .. MaximumDepth
    BY TraversalAssumption
  <1> QED
    BY <1>1, WalksUpToAreChains DEF Walks
-----------------------------------------------------------------------------
(***************************************************************************)
(* ImpactAnalysis: the order of walks.                                     *)
(***************************************************************************)
\* At their i-th edges the walks part, and the first takes the one tried first.
Parts(v, w, i) ==
    /\ \A k \in 1 .. (i - 1) : v[k] = w[k]
    /\ TriedBefore(v[i], w[i])

LEMMA SamePrefix ==
    ASSUME NEW S, NEW v \in Seq(S), NEW w \in Seq(S), NEW n \in Nat, n <= Len(v), n <= Len(w)
    PROVE  SubSeq(v, 1, n) = SubSeq(w, 1, n) <=> \A k \in 1 .. n : v[k] = w[k]
  <1> DEFINE x == SubSeq(v, 1, n)
             y == SubSeq(w, 1, n)
  <1>1. \A k \in 1 .. n : v[k] \in S /\ w[k] \in S
    OBVIOUS
  <1>2. /\ x \in Seq(S) /\ Len(x) = n /\ \A k \in 1 .. n : x[k] = v[k]
        /\ y \in Seq(S) /\ Len(y) = n /\ \A k \in 1 .. n : y[k] = w[k]
    BY <1>1, SubSeqProperties
  <1> HIDE DEF x, y
  <1>3. ASSUME \A k \in 1 .. n : v[k] = w[k]
        PROVE  x = y
    BY <1>2, <1>3
  <1> QED
    BY <1>2, <1>3 DEF x, y

LEMMA PreferredParts ==
    ASSUME NEW S, NEW v \in Seq(S), NEW w \in Seq(S)
    PROVE  Preferred(v, w) <=> \/ Len(v) < Len(w)
                               \/ Len(v) = Len(w) /\ \E i \in 1 .. Len(v) : Parts(v, w, i)
  <1>1. ASSUME NEW i \in 1 .. Len(v), Len(v) = Len(w)
        PROVE  SubSeq(v, 1, i - 1) = SubSeq(w, 1, i - 1) <=> \A k \in 1 .. (i - 1) : v[k] = w[k]
    <2>1. i - 1 \in Nat /\ i - 1 <= Len(v) /\ i - 1 <= Len(w)
      BY <1>1
    <2> QED
      BY <2>1, SamePrefix
  <1>2. DOMAIN v = 1 .. Len(v)
    OBVIOUS
  <1> QED
    BY <1>1, <1>2 DEF Preferred, Parts, TriedBefore

LEMMA PreferredIsStrict ==
    ASSUME NEW twin, TwinAccepted(twin),
           NEW v \in Seq(Edges(twin)), NEW w \in Seq(Edges(twin)), Preferred(v, w)
    PROVE  ~ Preferred(w, v)
  <1>1. Len(v) \in Nat /\ Len(w) \in Nat
    OBVIOUS
  <1>2. SUFFICES ASSUME Preferred(w, v)
                 PROVE  FALSE
    OBVIOUS
  <1>3. Len(v) = Len(w)
    BY <1>1, <1>2, PreferredParts
  <1>4. PICK i \in 1 .. Len(v) : Parts(v, w, i)
    BY <1>1, <1>3, PreferredParts
  <1>5. PICK j \in 1 .. Len(v) : Parts(w, v, j)
    BY <1>1, <1>2, <1>3, PreferredParts
  <1>6. v[i] \in Edges(twin) /\ w[i] \in Edges(twin) /\ v[j] \in Edges(twin) /\ w[j] \in Edges(twin)
    BY <1>3
  <1>7. CASE i < j
    <2>1. w[i] = v[i]
      BY <1>5, <1>7 DEF Parts
    <2> QED
      BY <1>4, <1>6, <2>1, TriedIsStrict DEF Parts
  <1>8. CASE j < i
    <2>1. w[j] = v[j]
      BY <1>4, <1>8 DEF Parts
    <2> QED
      BY <1>5, <1>6, <2>1, TriedIsStrict DEF Parts
  <1>9. CASE i = j
    BY <1>4, <1>5, <1>6, <1>9, TriedIsStrict DEF Parts
  <1> QED
    BY <1>7, <1>8, <1>9

LEMMA PreferredIsTransitive ==
    ASSUME NEW twin, TwinAccepted(twin), NEW u \in Seq(Edges(twin)),
           NEW v \in Seq(Edges(twin)), NEW w \in Seq(Edges(twin)), Preferred(u, v), Preferred(v, w)
    PROVE  Preferred(u, w)
  <1>1. Len(u) \in Nat /\ Len(v) \in Nat /\ Len(w) \in Nat
    OBVIOUS
  <1>2. Len(u) <= Len(v) /\ Len(v) <= Len(w)
    BY <1>1, PreferredParts
  <1>3. CASE Len(u) < Len(v) \/ Len(v) < Len(w)
    BY <1>1, <1>2, <1>3, PreferredParts
  <1>4. CASE Len(u) = Len(v) /\ Len(v) = Len(w)
    <2>1. PICK i \in 1 .. Len(u) : Parts(u, v, i)
      BY <1>1, <1>4, PreferredParts
    <2>2. PICK j \in 1 .. Len(u) : Parts(v, w, j)
      BY <1>1, <1>4, PreferredParts
    <2>3. /\ u[i] \in Edges(twin) /\ v[i] \in Edges(twin) /\ w[i] \in Edges(twin)
          /\ u[j] \in Edges(twin) /\ v[j] \in Edges(twin) /\ w[j] \in Edges(twin)
      BY <1>4
    <2>4. CASE i < j
      <3>1. v[i] = w[i] /\ \A k \in 1 .. (i - 1) : u[k] = w[k]
        BY <2>1, <2>2, <2>4 DEF Parts
      <3>2. Parts(u, w, i)
        BY <2>1, <3>1 DEF Parts
      <3> QED
        BY <1>4, <3>2, PreferredParts
    <2>5. CASE j < i
      <3>1. u[j] = v[j] /\ \A k \in 1 .. (j - 1) : u[k] = w[k]
        BY <2>1, <2>2, <2>5 DEF Parts
      <3>2. Parts(u, w, j)
        BY <2>2, <3>1 DEF Parts
      <3> QED
        BY <1>4, <3>2, PreferredParts
    <2>6. CASE i = j
      <3>1. TriedBefore(u[i], w[i])
        BY <2>1, <2>2, <2>3, <2>6, TriedIsTransitive DEF Parts
      <3>2. Parts(u, w, i)
        BY <2>1, <2>2, <2>6, <3>1 DEF Parts
      <3> QED
        BY <1>4, <3>2, PreferredParts
    <2> QED
      BY <2>4, <2>5, <2>6
  <1> QED
    BY <1>1, <1>2, <1>3, <1>4

\* Whatever edges follow, the order of two walks stays.
LEMMA PreferredGrows ==
    ASSUME NEW S, NEW v \in Seq(S), NEW w \in Seq(S), Preferred(v, w), NEW e \in S, NEW f \in S
    PROVE  Preferred(Append(v, e), Append(w, f))
  <1> DEFINE x == Append(v, e)
             y == Append(w, f)
  <1>1. /\ x \in Seq(S) /\ Len(x) = Len(v) + 1 /\ Len(v) \in Nat
        /\ \A k \in 1 .. Len(v) : x[k] = v[k]
    BY AppendForm
  <1>2. /\ y \in Seq(S) /\ Len(y) = Len(w) + 1 /\ Len(w) \in Nat
        /\ \A k \in 1 .. Len(w) : y[k] = w[k]
    BY AppendForm
  <1> HIDE DEF x, y
  <1>3. CASE Len(v) < Len(w)
    <2>1. Preferred(x, y)
      BY <1>1, <1>2, <1>3, PreferredParts
    <2> QED
      BY <2>1 DEF x, y
  <1>4. CASE ~ Len(v) < Len(w)
    <2>1. PICK i \in 1 .. Len(v) : Len(v) = Len(w) /\ Parts(v, w, i)
      BY <1>4, PreferredParts
    <2>2. i \in 1 .. Len(x) /\ Parts(x, y, i)
      BY <1>1, <1>2, <2>1 DEF Parts
    <2>3. Preferred(x, y)
      BY <1>1, <1>2, <2>1, <2>2, PreferredParts
    <2> QED
      BY <2>3 DEF x, y
  <1> QED
    BY <1>3, <1>4

LEMMA PreferredByLast ==
    ASSUME NEW S, NEW v \in Seq(S), NEW e \in S, NEW f \in S, TriedBefore(e, f)
    PROVE  Preferred(Append(v, e), Append(v, f))
  <1> DEFINE x == Append(v, e)
             y == Append(v, f)
  <1>1. /\ x \in Seq(S) /\ Len(x) = Len(v) + 1 /\ Len(v) \in Nat /\ x[Len(v) + 1] = e
        /\ \A k \in 1 .. Len(v) : x[k] = v[k]
    BY AppendForm
  <1>2. /\ y \in Seq(S) /\ Len(y) = Len(v) + 1 /\ y[Len(v) + 1] = f
        /\ \A k \in 1 .. Len(v) : y[k] = v[k]
    BY AppendForm
  <1> HIDE DEF x, y
  <1>3. Len(v) + 1 \in 1 .. Len(x) /\ Parts(x, y, Len(v) + 1)
    BY <1>1, <1>2 DEF Parts
  <1>4. Preferred(x, y)
    BY <1>1, <1>2, <1>3, PreferredParts
  <1> QED
    BY <1>4 DEF x, y
-----------------------------------------------------------------------------
(***************************************************************************)
(* ImpactAnalysis: the queue, after each edge and after each turn.         *)
(***************************************************************************)
SearchStates(twin) == [node : TwinNodes, edges : Seq(Edges(twin))]

LEMMA DiscoverTypes ==
    ASSUME NEW twin, TwinAccepted(twin), NEW states \in Seq(SearchStates(twin)),
           NEW state \in SearchStates(twin), NEW e \in Edges(twin)
    PROVE  Discover(states, state, e) \in Seq(SearchStates(twin))
  <1>1. [node |-> e.to, edges |-> Append(state.edges, e)] \in SearchStates(twin)
    <2>1. e.to \in TwinNodes
      BY EdgeForm
    <2>2. Append(state.edges, e) \in Seq(Edges(twin))
      BY AppendForm DEF SearchStates
    <2> QED
      BY <2>1, <2>2 DEF SearchStates
  <1> HIDE DEF SearchStates
  <1> QED
    BY <1>1 DEF Discover

LEMMA DiscoveredByTurn ==
    ASSUME NEW twin, TwinAccepted(twin), NEW queue \in Seq(SearchStates(twin)),
           NEW state \in SearchStates(twin)
    PROVE  LET after == Discovered(twin, queue, state)
               tried == Adjacency(twin, state.node)
           IN  /\ after[0] = queue
               /\ \A m \in 1 .. Len(tried) : after[m] = Discover(after[m - 1], state, tried[m])
               /\ \A m \in 0 .. Len(tried) : after[m] \in Seq(SearchStates(twin))
  <1> DEFINE tried == Adjacency(twin, state.node)
             N == Len(tried)
             D == Seq(SearchStates(twin))
             step == [m \in 1 .. N |-> [x \in D |-> Discover(x, state, tried[m])]]
             Is(f) == f = [m \in 0 .. N |->
                          IF m = 0 THEN queue
                          ELSE LET before == f[m - 1] IN Discover(before, state, tried[m])]
             after == Discovered(twin, queue, state)
  <1>1. N \in Nat /\ \A m \in 1 .. N : tried[m] \in Edges(twin)
    BY AdjacencyLists, EdgesFromAreFinite
  <1>3. step \in [1 .. N -> [D -> D]]
    BY <1>1, DiscoverTypes
  <1>5. PICK f : TurnsBy(f, D, step, queue, N)
    <2> HIDE DEF N, D, step
    <2>1. queue \in D
      BY DEF D
    <2> QED
      BY <1>1, <1>3, <2>1, IteratesByTurn
  <1>6. ASSUME NEW m \in 1 .. N
        PROVE  f[m] = Discover(f[m - 1], state, tried[m])
    <2>1. m - 1 \in 0 .. N
      BY <1>1
    <2>2. f[m] = step[m][f[m - 1]] /\ f[m - 1] \in D
      BY <1>5, <2>1 DEF TurnsBy
    <2> HIDE DEF D, N, tried
    <2> QED
      BY <2>2
  <1>7. Is(f)
    <2>1. f \in [0 .. N -> D] /\ f[0] = queue
      BY <1>5 DEF TurnsBy
    <2>2. \A m \in 0 .. N : m # 0 => m \in 1 .. N
      BY <1>1
    <2> HIDE DEF D, step, N, tried
    <2> QED
      BY <2>1, <2>2, <1>6
  <1>8. after = CHOOSE g : Is(g)
    BY Zenon DEF Discovered
  <1>9. Is(after)
    <2> HIDE DEF Is, after
    <2> QED
      BY <1>7, <1>8, Zenon
  <1>10. /\ after[0] = queue
         /\ \A m \in 1 .. N : after[m] = Discover(after[m - 1], state, tried[m])
    <2> HIDE DEF after, N, tried
    <2>1. \A m \in 0 .. N :
              after[m] = IF m = 0 THEN queue ELSE Discover(after[m - 1], state, tried[m])
      BY <1>9, Zenon
    <2>2. 0 \in 0 .. N /\ \A m \in 1 .. N : m \in 0 .. N /\ m # 0
      BY <1>1
    <2> QED
      BY <2>1, <2>2
  <1>11. \A m \in 0 .. N : after[m] \in D
    <2>1. f[0] = after[0]
      BY <1>5, <1>10 DEF TurnsBy
    <2>2. \A m \in 1 .. N : f[m - 1] = after[m - 1] => f[m] = after[m]
      <3> HIDE DEF after, N, tried
      <3> QED
        BY <1>6, <1>10
    <2>3. \A m \in 0 .. N : f[m] = after[m]
      <3> HIDE DEF after, N
      <3> QED
        BY <1>1, <2>1, <2>2, SameByTurn
    <2> HIDE DEF after, N, D
    <2> QED
      BY <1>5, <2>3 DEF TurnsBy
  <1> QED
    BY <1>10, <1>11

LEMMA ExpandTypes ==
    ASSUME NEW twin, TwinAccepted(twin), NEW queue \in Seq(SearchStates(twin)),
           NEW i \in 1 .. Len(queue)
    PROVE  Expand(twin, queue, i) \in Seq(SearchStates(twin))
  <1> DEFINE tried == Adjacency(twin, queue[i].node)
  <1>1. queue[i] \in SearchStates(twin)
    OBVIOUS
  <1>2. Len(tried) \in 0 .. Len(tried)
    BY AdjacencyLists, EdgesFromAreFinite
  <1>3. Discovered(twin, queue, queue[i])[Len(tried)] \in Seq(SearchStates(twin))
    BY <1>1, <1>2, DiscoveredByTurn
  <1> QED
    BY <1>3 DEF Expand

\* The queue at the start, and after a turn.
Alone(root) == <<[node |-> root, edges |-> <<>>]>>

NextTurn(twin, queue, n) == IF n > Len(queue) THEN queue ELSE Expand(twin, queue, n)

LEMMA SearchedByTurn ==
    ASSUME NEW twin, TwinAccepted(twin), NEW root \in TwinNodes
    PROVE  LET queue == Searched(twin, root)
               N     == Cardinality(TwinNodes)
           IN  /\ queue[0] = Alone(root)
               /\ \A n \in 1 .. N : queue[n] = NextTurn(twin, queue[n - 1], n)
               /\ \A n \in 0 .. N : queue[n] \in Seq(SearchStates(twin))
  <1> DEFINE N == Cardinality(TwinNodes)
             D == Seq(SearchStates(twin))
             step == [n \in 1 .. N |-> [x \in D |-> NextTurn(twin, x, n)]]
             Is(f) == f = [n \in 0 .. N |->
                          IF n = 0 THEN <<[node |-> root, edges |-> <<>>]>>
                          ELSE LET before == f[n - 1] IN
                               IF n > Len(before) THEN before ELSE Expand(twin, before, n)]
             queue == Searched(twin, root)
  <1>1. N \in Nat
    BY NodesAreFinite, FS_CardinalityType DEF TwinNodes
  <1>2. Alone(root) \in D
    <2>1. [node |-> root, edges |-> <<>>] \in SearchStates(twin)
      BY DEF SearchStates
    <2> HIDE DEF SearchStates
    <2> QED
      BY <2>1 DEF Alone
  <1>3. step \in [1 .. N -> [D -> D]]
    <2>1. ASSUME NEW n \in 1 .. N, NEW x \in D
          PROVE  NextTurn(twin, x, n) \in D
      <3>1. CASE n > Len(x)
        BY <3>1 DEF NextTurn
      <3>2. CASE ~ n > Len(x)
        <4>1. n \in 1 .. Len(x)
          BY <1>1, <3>2
        <4> QED
          BY <3>2, <4>1, ExpandTypes DEF NextTurn
      <3> QED
        BY <3>1, <3>2
    <2> HIDE DEF D, N
    <2> QED
      BY <2>1
  <1>5. PICK f : TurnsBy(f, D, step, Alone(root), N)
    <2> HIDE DEF N, D, step
    <2> QED
      BY <1>1, <1>2, <1>3, IteratesByTurn
  <1>6. ASSUME NEW n \in 1 .. N
        PROVE  f[n] = NextTurn(twin, f[n - 1], n)
    <2>1. n - 1 \in 0 .. N
      BY <1>1
    <2>2. f[n] = step[n][f[n - 1]] /\ f[n - 1] \in D
      BY <1>5, <2>1 DEF TurnsBy
    <2> HIDE DEF D, N
    <2> QED
      BY <2>2
  <1>7. Is(f)
    <2>1. f \in [0 .. N -> D] /\ f[0] = Alone(root)
      BY <1>5 DEF TurnsBy
    <2>2. \A n \in 0 .. N : n # 0 => n \in 1 .. N
      BY <1>1
    <2> HIDE DEF D, step, N
    <2> QED
      BY <2>1, <2>2, <1>6 DEF NextTurn, Alone
  <1>8. queue = CHOOSE g : Is(g)
    BY Zenon DEF Searched
  <1>9. Is(queue)
    <2> HIDE DEF Is, queue
    <2> QED
      BY <1>7, <1>8, Zenon
  <1>10. /\ queue[0] = Alone(root)
         /\ \A n \in 1 .. N : queue[n] = NextTurn(twin, queue[n - 1], n)
    <2> HIDE DEF queue, N
    <2>1. \A n \in 0 .. N :
              queue[n] = IF n = 0 THEN <<[node |-> root, edges |-> <<>>]>>
                         ELSE IF n > Len(queue[n - 1]) THEN queue[n - 1]
                              ELSE Expand(twin, queue[n - 1], n)
      BY <1>9, Zenon
    <2>2. 0 \in 0 .. N /\ \A n \in 1 .. N : n \in 0 .. N /\ n # 0
      BY <1>1
    <2>3. queue[0] = <<[node |-> root, edges |-> <<>>]>>
      BY <2>1, <2>2, Zenon
    <2>4. \A n \in 1 .. N : queue[n] = IF n > Len(queue[n - 1]) THEN queue[n - 1]
                                       ELSE Expand(twin, queue[n - 1], n)
      BY <2>1, <2>2, Zenon
    <2> QED
      BY <2>3, <2>4, Zenon DEF NextTurn, Alone
  <1>11. \A n \in 0 .. N : queue[n] \in D
    <2>1. f[0] = queue[0]
      BY <1>5, <1>10 DEF TurnsBy
    <2>2. \A n \in 1 .. N : f[n - 1] = queue[n - 1] => f[n] = queue[n]
      <3> HIDE DEF queue, N
      <3> QED
        BY <1>6, <1>10
    <2>3. \A n \in 0 .. N : f[n] = queue[n]
      <3> HIDE DEF queue, N
      <3> QED
        BY <1>1, <2>1, <2>2, SameByTurn
    <2> HIDE DEF queue, N, D
    <2> QED
      BY <1>5, <2>3 DEF TurnsBy
  <1> QED
    BY <1>10, <1>11
-----------------------------------------------------------------------------
(***************************************************************************)
(* ImpactAnalysis: the search.  The queue is in the order of preference,   *)
(* and of an edge that was tried the queue holds the end, by a walk that   *)
(* is preferred to the one through that edge, or is it.                    *)
(***************************************************************************)
\* When state i has tried the first m of its edges, state a has tried edge e.
TriedAt(twin, q, i, m, a, e) ==
    /\ e \in EdgesFrom(twin, q[a].node)
    /\ Len(q[a].edges) < MaximumDepth
    /\ \/ a < i
       \/ a = i /\ \E k \in 1 .. m : Adjacency(twin, q[a].node)[k] = e

BeginsAtRoot(q, root) == q # <<>> /\ q[1] = [node |-> root, edges |-> <<>>]

ByWalks(twin, root, q) ==
    \A b \in 1 .. Len(q) :
        /\ Chained(twin, root, q[b].edges)
        /\ Len(q[b].edges) <= MaximumDepth
        /\ EndOf(q[b].edges, root) = q[b].node

OncePerNode(q) == \A a, b \in 1 .. Len(q) : q[a].node = q[b].node => a = b

InOrder(q) == \A a, b \in 1 .. Len(q) : a < b => Preferred(q[a].edges, q[b].edges)

\* State b reaches the end of the edge no later than state a does by it.
NoLater(q, b, a, e) ==
    /\ q[b].node = e.to
    /\ \/ q[b].edges = Append(q[a].edges, e)
       \/ Preferred(q[b].edges, Append(q[a].edges, e))

EndsHeld(twin, q, i, m) ==
    \A a \in 1 .. Len(q), e \in Edges(twin) :
        TriedAt(twin, q, i, m, a, e) => \E b \in 1 .. Len(q) : NoLater(q, b, a, e)

ByTriedEdges(twin, q, i, m) ==
    \A b \in 2 .. Len(q) : \E a \in 1 .. Len(q), e \in Edges(twin) :
        TriedAt(twin, q, i, m, a, e) /\ q[b].edges = Append(q[a].edges, e)

SearchInv(twin, root, q, i, m) ==
    /\ q \in Seq(SearchStates(twin))
    /\ BeginsAtRoot(q, root)
    /\ ByWalks(twin, root, q)
    /\ OncePerNode(q)
    /\ InOrder(q)
    /\ EndsHeld(twin, q, i, m)
    /\ ByTriedEdges(twin, q, i, m)

LEMMA StateForm ==
    ASSUME NEW twin, NEW q \in Seq(SearchStates(twin)), NEW a \in 1 .. Len(q)
    PROVE  /\ q[a] \in SearchStates(twin)
           /\ q[a].node \in TwinNodes
           /\ q[a].edges \in Seq(Edges(twin))
           /\ q[a] = [node |-> q[a].node, edges |-> q[a].edges]
  <1>1. q[a] \in SearchStates(twin)
    OBVIOUS
  <1> QED
    BY <1>1 DEF SearchStates

LEMMA SearchBegins ==
    ASSUME NEW twin, TwinAccepted(twin), NEW root \in TwinNodes
    PROVE  SearchInv(twin, root, Alone(root), 1, 0)
  <1> DEFINE q == Alone(root)
  <1>1. /\ q # <<>> /\ Len(q) = 1 /\ q[1] = [node |-> root, edges |-> <<>>]
        /\ q \in Seq(SearchStates(twin))
    BY DEF Alone, SearchStates
  <1>2. 1 .. Len(q) = {1} /\ 2 .. Len(q) = {}
    BY <1>1
  <1>3. BeginsAtRoot(q, root)
    BY <1>1 DEF BeginsAtRoot
  <1> HIDE DEF q
  <1>4. ByWalks(twin, root, q)
    <2>1. q[1].edges = <<>> /\ q[1].node = root
      BY <1>1
    <2>2. Chained(twin, root, <<>>) /\ Len(<<>>) <= MaximumDepth /\ EndOf(<<>>, root) = root
      BY TraversalAssumption DEF Chained, EndOf
    <2> QED
      BY <1>2, <2>1, <2>2 DEF ByWalks
  <1>5. OncePerNode(q) /\ InOrder(q)
    BY <1>2 DEF OncePerNode, InOrder
  <1>6. EndsHeld(twin, q, 1, 0)
    BY <1>2 DEF EndsHeld, TriedAt
  <1>7. ByTriedEdges(twin, q, 1, 0)
    BY <1>2 DEF ByTriedEdges
  <1> QED
    BY <1>1, <1>3, <1>4, <1>5, <1>6, <1>7 DEF SearchInv, q

\* Whatever is in the queue is preferred to what the next edge leads to.
LEMMA NewIsLast ==
    ASSUME NEW twin, TwinAccepted(twin), NEW root, NEW q, NEW i \in 1 .. Len(q), NEW m \in Nat,
           SearchInv(twin, root, q, i, m),
           m + 1 \in 1 .. Len(Adjacency(twin, q[i].node)),
           NEW b \in 1 .. Len(q)
    PROVE  Preferred(q[b].edges, Append(q[i].edges, Adjacency(twin, q[i].node)[m + 1]))
  <1> DEFINE tried == Adjacency(twin, q[i].node)
             e == tried[m + 1]
             E == Edges(twin)
             v == q[i].edges
  <1>1. q \in Seq(SearchStates(twin)) /\ \A a \in 1 .. Len(q) : q[a].edges \in Seq(E)
    BY StateForm DEF SearchInv
  <1>2. /\ \A k \in 1 .. Len(tried) : tried[k] \in E
        /\ \A k, l \in 1 .. Len(tried) : k < l => TriedBefore(tried[k], tried[l])
        /\ Len(tried) \in Nat
    BY AdjacencyLists, EdgesFromAreFinite
  <1>3. e \in E /\ v \in Seq(E)
    BY <1>1, <1>2
  <1>4. CASE b = 1
    <2>1. q[b].edges = <<>>
      BY <1>4 DEF SearchInv, BeginsAtRoot
    <2> DEFINE w == Append(v, e)
    <2>2. Len(w) = Len(v) + 1 /\ Len(v) \in Nat /\ w \in Seq(E)
      BY <1>3, AppendForm
    <2> HIDE DEF E, e, v, w
    <2>3. Len(<<>>) < Len(w)
      BY <2>2
    <2>4. Preferred(<<>>, w)
      BY <2>3 DEF Preferred
    <2> QED
      BY <2>1, <2>4 DEF e, v, w
  <1>5. CASE b # 1
    <2>1. b \in 2 .. Len(q)
      BY <1>1, <1>5
    <2>2. PICK a \in 1 .. Len(q), f \in E :
              TriedAt(twin, q, i, m, a, f) /\ q[b].edges = Append(q[a].edges, f)
      BY <2>1 DEF SearchInv, ByTriedEdges
    <2>3. CASE a < i
      <3>1. Preferred(q[a].edges, v)
        BY <1>1, <2>3 DEF SearchInv, InOrder
      <3> HIDE DEF e, v, E
      <3>2. Preferred(Append(q[a].edges, f), Append(v, e))
        BY <1>1, <1>3, <2>2, <3>1, PreferredGrows
      <3> QED
        BY <2>2, <3>2 DEF e, v
    <2>4. CASE ~ a < i
      <3>1. PICK k \in 1 .. m : a = i /\ tried[k] = f
        BY <2>2, <2>4 DEF TriedAt
      <3>2. k \in 1 .. Len(tried) /\ k < m + 1
        BY <1>2, <3>1
      <3>3. TriedBefore(f, e)
        BY <1>2, <3>1, <3>2
      <3> HIDE DEF e, v, E, tried
      <3>4. Preferred(Append(v, f), Append(v, e))
        BY <1>3, <2>2, <3>3, PreferredByLast
      <3> QED
        BY <2>2, <3>1, <3>4 DEF e, v, tried
    <2> QED
      BY <2>3, <2>4
  <1> QED
    BY <1>4, <1>5
\* One more edge of state i has been tried.
LEMMA OneMoreTried ==
    ASSUME NEW twin, TwinAccepted(twin), NEW q, NEW i, NEW m \in Nat,
           m + 1 \in 1 .. Len(Adjacency(twin, q[i].node)), Len(q[i].edges) < MaximumDepth,
           NEW a, NEW f
    PROVE  TriedAt(twin, q, i, m + 1, a, f)
               <=> \/ TriedAt(twin, q, i, m, a, f)
                   \/ a = i /\ f = Adjacency(twin, q[i].node)[m + 1]
  <1> DEFINE tried == Adjacency(twin, q[i].node)
  <1>1. tried[m + 1] \in EdgesFrom(twin, q[i].node)
    BY AdjacencyLists
  <1>2. \A k : k \in 1 .. (m + 1) <=> k \in 1 .. m \/ k = m + 1
    OBVIOUS
  <1> HIDE DEF tried
  <1> QED
    BY <1>1, <1>2 DEF TriedAt, tried

LEMMA AlreadyDiscovered ==
    ASSUME NEW twin, TwinAccepted(twin), NEW root, NEW q, NEW i \in 1 .. Len(q), NEW m \in Nat,
           SearchInv(twin, root, q, i, m),
           m + 1 \in 1 .. Len(Adjacency(twin, q[i].node)), Len(q[i].edges) < MaximumDepth,
           NEW c \in 1 .. Len(q), q[c].node = Adjacency(twin, q[i].node)[m + 1].to
    PROVE  SearchInv(twin, root, q, i, m + 1)
  <1> DEFINE e == Adjacency(twin, q[i].node)[m + 1]
  <1>1. NoLater(q, c, i, e)
    BY NewIsLast DEF NoLater
  <1>2. \A a, f : TriedAt(twin, q, i, m + 1, a, f) <=> TriedAt(twin, q, i, m, a, f) \/ (a = i /\ f = e)
    BY OneMoreTried
  <1> HIDE DEF e
  <1>3. EndsHeld(twin, q, i, m + 1)
    BY <1>1, <1>2 DEF SearchInv, EndsHeld
  <1>4. ByTriedEdges(twin, q, i, m + 1)
    BY <1>2 DEF SearchInv, ByTriedEdges
  <1> QED
    BY <1>3, <1>4 DEF SearchInv

LEMMA OneMorePlace ==
    ASSUME NEW n \in Nat, NEW k
    PROVE  k \in 1 .. (n + 1) <=> k \in 1 .. n \/ k = n + 1
  OBVIOUS

LEMMA NewlyDiscovered ==
    ASSUME NEW twin, TwinAccepted(twin), NEW root, NEW q, NEW i \in 1 .. Len(q), NEW m \in Nat,
           SearchInv(twin, root, q, i, m),
           m + 1 \in 1 .. Len(Adjacency(twin, q[i].node)), Len(q[i].edges) < MaximumDepth,
           \A c \in 1 .. Len(q) : q[c].node # Adjacency(twin, q[i].node)[m + 1].to,
           NEW new, new = [node  |-> Adjacency(twin, q[i].node)[m + 1].to,
                           edges |-> Append(q[i].edges, Adjacency(twin, q[i].node)[m + 1])]
    PROVE  SearchInv(twin, root, Append(q, new), i, m + 1)
  <1> DEFINE e == Adjacency(twin, q[i].node)[m + 1]
             E == Edges(twin)
             w == Append(q[i].edges, e)
             p == Append(q, new)
  <1>1. /\ q \in Seq(SearchStates(twin))
        /\ \A a \in 1 .. Len(q) : q[a].edges \in Seq(E) /\ q[a].node \in TwinNodes
    BY StateForm DEF SearchInv
  <1>2. e \in E /\ e.from = q[i].node
    <2>1. e \in EdgesFrom(twin, q[i].node)
      BY AdjacencyLists
    <2> HIDE DEF e
    <2> QED
      BY <2>1 DEF EdgesFrom
  <1>3. new \in SearchStates(twin) /\ new.node = e.to /\ new.edges = w
    <2>1. w \in Seq(E) /\ e.to \in TwinNodes
      BY <1>1, <1>2, AppendForm, EdgeForm
    <2> HIDE DEF w, e
    <2> QED
      BY <2>1 DEF SearchStates, w, e
  <1>4. /\ p \in Seq(SearchStates(twin)) /\ p # <<>> /\ Len(p) = Len(q) + 1 /\ Len(q) \in Nat
        /\ p[Len(q) + 1] = new
        /\ \A a \in 1 .. Len(q) : p[a] = q[a]
    BY <1>1, <1>3, AppendForm
  <1>5. \A b \in 1 .. Len(q) : Preferred(q[b].edges, w)
    BY NewIsLast
  <1>6. /\ Chained(twin, root, w)
        /\ Len(w) <= MaximumDepth
        /\ EndOf(w, root) = e.to
    <2>1. Chained(twin, root, q[i].edges) /\ EndOf(q[i].edges, root) = q[i].node
      BY DEF SearchInv, ByWalks
    <2>2. Chained(twin, root, w) /\ Len(w) = Len(q[i].edges) + 1 /\ EndOf(w, root) = e.to
      BY <1>2, <2>1, ChainGrows
    <2>3. Len(q[i].edges) \in Nat
      BY <1>1
    <2> HIDE DEF w, e
    <2> QED
      BY <2>2, <2>3, TraversalAssumption
  <1>7. ASSUME NEW a, NEW f
        PROVE  TriedAt(twin, q, i, m + 1, a, f) <=> TriedAt(twin, q, i, m, a, f) \/ (a = i /\ f = e)
    BY OneMoreTried
  <1>8. \A c \in 1 .. Len(q) : q[c].node # e.to
    OBVIOUS
  <1>9. new.edges = Append(q[i].edges, e)
    BY <1>3
  <1> HIDE DEF e, E, w, p
  <1>10. \A b : b \in 1 .. Len(p) <=> b \in 1 .. Len(q) \/ b = Len(q) + 1
    BY <1>4, OneMorePlace
  <1>11. BeginsAtRoot(p, root)
    <2>1. 1 \in 1 .. Len(q)
      BY <1>4
    <2> QED
      BY <1>4, <2>1 DEF SearchInv, BeginsAtRoot
  <1>12. ByWalks(twin, root, p)
    BY <1>3, <1>4, <1>6, <1>10 DEF SearchInv, ByWalks
  <1>13. OncePerNode(p)
    <2>1. OncePerNode(q)
      BY DEF SearchInv
    <2> QED
      BY <1>3, <1>4, <1>8, <1>10, <2>1 DEF OncePerNode
  <1>14. InOrder(p)
    <2>1. InOrder(q)
      BY DEF SearchInv
    <2>2. ASSUME NEW a \in 1 .. Len(p), NEW b \in 1 .. Len(p), a < b
          PROVE  Preferred(p[a].edges, p[b].edges)
      <3>1. a \in 1 .. Len(q)
        BY <1>4, <2>2
      <3>2. CASE b \in 1 .. Len(q)
        BY <1>4, <2>1, <2>2, <3>1, <3>2 DEF InOrder
      <3>3. CASE b = Len(q) + 1
        BY <1>3, <1>4, <1>5, <3>1, <3>3
      <3> QED
        BY <1>10, <3>2, <3>3
    <2> QED
      BY <2>2 DEF InOrder
  <1>15. ASSUME NEW a \in 1 .. Len(p), NEW f
         PROVE  TriedAt(twin, p, i, m + 1, a, f)
                <=> a \in 1 .. Len(q) /\ (TriedAt(twin, q, i, m, a, f) \/ (a = i /\ f = e))
    <2>1. CASE a \in 1 .. Len(q)
      <3>1. p[a] = q[a]
        BY <1>4, <2>1
      <3>2. TriedAt(twin, p, i, m + 1, a, f) <=> TriedAt(twin, q, i, m + 1, a, f)
        BY <3>1 DEF TriedAt
      <3> QED
        BY <1>7, <2>1, <3>2
    <2>2. CASE a = Len(q) + 1
      BY <1>4, <2>2 DEF TriedAt
    <2> QED
      BY <1>10, <2>1, <2>2
  <1>16. EndsHeld(twin, p, i, m + 1)
    <2>1. ASSUME NEW a \in 1 .. Len(p), NEW f \in E, TriedAt(twin, p, i, m + 1, a, f)
          PROVE  \E b \in 1 .. Len(p) : NoLater(p, b, a, f)
      <3>1. a \in 1 .. Len(q) /\ (TriedAt(twin, q, i, m, a, f) \/ (a = i /\ f = e))
        BY <1>15, <2>1
      <3>2. CASE TriedAt(twin, q, i, m, a, f)
        <4>1. PICK b \in 1 .. Len(q) : NoLater(q, b, a, f)
          BY <3>1, <3>2 DEF SearchInv, EndsHeld, E
        <4>2. b \in 1 .. Len(p) /\ p[a] = q[a] /\ p[b] = q[b]
          BY <1>4, <1>10, <3>1
        <4> QED
          BY <4>1, <4>2 DEF NoLater
      <3>3. CASE a = i /\ f = e
        <4>1. Len(q) + 1 \in 1 .. Len(p) /\ p[a] = q[a] /\ p[Len(q) + 1] = new
          BY <1>4, <1>10, <3>1
        <4> QED
          BY <1>3, <1>9, <3>3, <4>1 DEF NoLater
      <3> QED
        BY <3>1, <3>2, <3>3
    <2> QED
      BY <2>1 DEF EndsHeld, E
  <1>17. ByTriedEdges(twin, p, i, m + 1)
    <2>1. ASSUME NEW b \in 2 .. Len(p)
          PROVE  \E a \in 1 .. Len(p), f \in E :
                    TriedAt(twin, p, i, m + 1, a, f) /\ p[b].edges = Append(p[a].edges, f)
      <3>1. CASE b \in 2 .. Len(q)
        <4>1. PICK a \in 1 .. Len(q), f \in E :
                  TriedAt(twin, q, i, m, a, f) /\ q[b].edges = Append(q[a].edges, f)
          BY <3>1 DEF SearchInv, ByTriedEdges, E
        <4>2. a \in 1 .. Len(p) /\ b \in 1 .. Len(q) /\ p[a] = q[a] /\ p[b] = q[b]
          BY <1>4, <1>10, <3>1
        <4>3. TriedAt(twin, p, i, m + 1, a, f)
          BY <1>15, <4>1, <4>2
        <4> QED
          BY <4>1, <4>2, <4>3
      <3>2. CASE b = Len(q) + 1
        <4>1. i \in 1 .. Len(p) /\ p[i] = q[i] /\ p[b] = new
          BY <1>4, <1>10, <3>2
        <4>2. TriedAt(twin, p, i, m + 1, i, e)
          BY <1>15, <4>1
        <4> QED
          BY <1>2, <1>9, <4>1, <4>2
      <3> QED
        BY <1>4, <3>1, <3>2
    <2> QED
      BY <2>1 DEF ByTriedEdges, E
  <1> QED
    BY <1>4, <1>11, <1>12, <1>13, <1>14, <1>16, <1>17 DEF SearchInv, p
\* One edge tried, of state i.
LEMMA DiscoverKeeps ==
    ASSUME NEW twin, TwinAccepted(twin), NEW root, NEW q, NEW i \in 1 .. Len(q), NEW m \in Nat,
           SearchInv(twin, root, q, i, m),
           m + 1 \in 1 .. Len(Adjacency(twin, q[i].node)), Len(q[i].edges) < MaximumDepth,
           NEW p, p = Discover(q, q[i], Adjacency(twin, q[i].node)[m + 1])
    PROVE  SearchInv(twin, root, p, i, m + 1) /\ i \in 1 .. Len(p) /\ p[i] = q[i]
  <1> DEFINE e == Adjacency(twin, q[i].node)[m + 1]
             new == [node |-> e.to, edges |-> Append(q[i].edges, e)]
  <1>1. q \in Seq(SearchStates(twin)) /\ \A s : s \in ToSet(q) <=> \E c \in 1 .. Len(q) : s = q[c]
    BY DEF SearchInv, ToSet
  <1>2. CASE \E c \in 1 .. Len(q) : q[c].node = e.to
    <2>1. p = q
      BY <1>1, <1>2 DEF Discover
    <2> QED
      BY <1>2, <2>1, AlreadyDiscovered
  <1>3. CASE ~ \E c \in 1 .. Len(q) : q[c].node = e.to
    <2>1. p = Append(q, new)
      BY <1>1, <1>3 DEF Discover
    <2>2. SearchInv(twin, root, Append(q, new), i, m + 1)
      BY <1>3, NewlyDiscovered
    <2> HIDE DEF new
    <2>3. Len(p) = Len(q) + 1 /\ p[i] = q[i] /\ Len(q) \in Nat
      BY <1>1, <2>1
    <2> QED
      BY <2>1, <2>2, <2>3
  <1> QED
    BY <1>2, <1>3

LEMMA DiscoveredKeeps ==
    ASSUME NEW twin, TwinAccepted(twin), NEW root, NEW q, NEW i \in 1 .. Len(q),
           SearchInv(twin, root, q, i, 0), Len(q[i].edges) < MaximumDepth,
           NEW m \in 0 .. Len(Adjacency(twin, q[i].node))
    PROVE  LET p == Discovered(twin, q, q[i])[m] IN
           SearchInv(twin, root, p, i, m) /\ i \in 1 .. Len(p) /\ p[i] = q[i]
  <1> DEFINE after == Discovered(twin, q, q[i])
             tried == Adjacency(twin, q[i].node)
             N == Len(tried)
             Kept(k) == /\ SearchInv(twin, root, after[k], i, k)
                        /\ i \in 1 .. Len(after[k])
                        /\ after[k][i] = q[i]
             Broken == {k \in 0 .. N : ~ Kept(k)}
  <1>1. q \in Seq(SearchStates(twin)) /\ q[i] \in SearchStates(twin)
    BY StateForm DEF SearchInv
  <1>2. /\ after[0] = q
        /\ \A k \in 1 .. N : after[k] = Discover(after[k - 1], q[i], tried[k])
    BY <1>1, DiscoveredByTurn
  <1>3. N \in Nat
    BY AdjacencyLists, EdgesFromAreFinite
  <1>4. ASSUME Broken # {}
        PROVE  FALSE
    <2>1. Broken \in SUBSET Nat
      OBVIOUS
    <2>2. PICK k \in Broken : \A j \in Broken : k <= j
      <3> HIDE DEF Broken
      <3> QED
        BY <1>4, <2>1, LeastNatural
    <2>3. CASE k = 0
      <3>1. Kept(0)
        BY <1>2
      <3> QED
        BY <2>2, <2>3, <3>1
    <2>4. CASE k # 0
      <3>1. k \in 1 .. N /\ k - 1 \in 0 .. N /\ k - 1 < k /\ (k - 1) + 1 = k
        BY <1>3, <2>2, <2>4
      <3>2. k - 1 \notin Broken
        BY <2>2, <3>1
      <3>3. Kept(k - 1)
        BY <3>1, <3>2
      <3>4. after[k] = Discover(after[k - 1], q[i], tried[k])
        BY <1>2, <3>1
      <3> HIDE DEF after, Broken
      <3>5. Kept(k)
        <4> DEFINE p == after[k - 1]
        <4>1. /\ SearchInv(twin, root, p, i, k - 1) /\ i \in 1 .. Len(p) /\ p[i] = q[i]
              /\ k - 1 \in Nat
          BY <3>1, <3>3
        <4>2. /\ after[k] = Discover(p, p[i], Adjacency(twin, p[i].node)[(k - 1) + 1])
              /\ (k - 1) + 1 \in 1 .. Len(Adjacency(twin, p[i].node))
              /\ Len(p[i].edges) < MaximumDepth
          BY <3>1, <3>4, <4>1
        <4> HIDE DEF p
        <4>3. /\ SearchInv(twin, root, after[k], i, (k - 1) + 1) /\ i \in 1 .. Len(after[k])
              /\ after[k][i] = p[i]
          BY <4>1, <4>2, DiscoverKeeps
        <4> QED
          BY <3>1, <4>1, <4>3
      <3> QED
        BY <2>2, <3>5 DEF Broken
    <2> QED
      BY <2>3, <2>4
  <1> QED
    BY <1>4

\* A state that has tried all its edges, or has none to try, is behind.
LEMMA StateIsBehind ==
    ASSUME NEW twin, TwinAccepted(twin), NEW root, NEW q, NEW i \in Nat, NEW m \in Nat,
           SearchInv(twin, root, q, i, m),
           \A a \in 1 .. Len(q) : \A e : a = i /\ TriedAt(twin, q, i + 1, 0, a, e)
                                        => TriedAt(twin, q, i, m, a, e)
    PROVE  SearchInv(twin, root, q, i + 1, 0)
  <1>1. ASSUME NEW a \in 1 .. Len(q), NEW e
        PROVE  TriedAt(twin, q, i + 1, 0, a, e) <=> TriedAt(twin, q, i, m, a, e)
    <2>1. a < i + 1 <=> a < i \/ a = i
      OBVIOUS
    <2>2. a = i + 1 => a \notin 1 .. i /\ ~ a < i /\ a # i
      OBVIOUS
    <2> QED
      BY <2>1, <2>2 DEF TriedAt
  <1>2. EndsHeld(twin, q, i + 1, 0)
    BY <1>1 DEF SearchInv, EndsHeld
  <1>3. ByTriedEdges(twin, q, i + 1, 0)
    BY <1>1 DEF SearchInv, ByTriedEdges
  <1> QED
    BY <1>2, <1>3 DEF SearchInv

LEMMA TurnKeeps ==
    ASSUME NEW twin, TwinAccepted(twin), NEW root, NEW q, NEW n \in Nat \ {0},
           SearchInv(twin, root, q, n, 0)
    PROVE  SearchInv(twin, root, NextTurn(twin, q, n), n + 1, 0)
  <1>1. q \in Seq(SearchStates(twin)) /\ Len(q) \in Nat
    BY DEF SearchInv
  <1>2. CASE n > Len(q)
    <2>1. \A a \in 1 .. Len(q) : a # n
      BY <1>1, <1>2
    <2>2. SearchInv(twin, root, q, n + 1, 0)
      BY <2>1, StateIsBehind
    <2> QED
      BY <1>2, <2>2 DEF NextTurn
  <1>3. CASE n <= Len(q) /\ (Len(q[n].edges) >= MaximumDepth \/ q[n].node \in ResultNodes)
    <2>1. Len(q[n].edges) \in Nat
      BY <1>1, <1>3, StateForm
    <2>2. ASSUME NEW e, TriedAt(twin, q, n + 1, 0, n, e)
          PROVE  FALSE
      <3>1. e \in Edges(twin) /\ e.from = q[n].node /\ Len(q[n].edges) < MaximumDepth
        BY <2>2 DEF TriedAt, EdgesFrom
      <3>2. e.from \in ClaimNodes \cup AssetNodes
        BY <3>1, EdgeForm
      <3> QED
        BY <1>3, <2>1, <3>1, <3>2, TraversalAssumption, NodeTypesDisjoint
    <2>3. SearchInv(twin, root, q, n + 1, 0)
      BY <2>2, StateIsBehind
    <2>4. NextTurn(twin, q, n) = q
      BY <1>1, <1>3 DEF NextTurn, Expand
    <2> QED
      BY <2>3, <2>4
  <1>4. CASE n <= Len(q) /\ ~ (Len(q[n].edges) >= MaximumDepth \/ q[n].node \in ResultNodes)
    <2> DEFINE tried == Adjacency(twin, q[n].node)
               N == Len(tried)
               p == Discovered(twin, q, q[n])[N]
    <2>1. n \in 1 .. Len(q)
      BY <1>1, <1>4
    <2>2. Len(q[n].edges) < MaximumDepth
      BY <1>1, <1>4, <2>1, StateForm, TraversalAssumption
    <2>3. N \in Nat
      BY AdjacencyLists, EdgesFromAreFinite
    <2>4. SearchInv(twin, root, p, n, N) /\ p[n] = q[n]
      <3>1. N \in 0 .. N
        BY <2>3
      <3> QED
        BY <2>1, <2>2, <3>1, DiscoveredKeeps
    <2>5. NextTurn(twin, q, n) = p
      BY <1>1, <1>4 DEF NextTurn, Expand
    <2> HIDE DEF p
    <2>6. ASSUME NEW e, TriedAt(twin, p, n + 1, 0, n, e)
          PROVE  TriedAt(twin, p, n, N, n, e)
      <3>1. e \in EdgesFrom(twin, q[n].node) /\ Len(p[n].edges) < MaximumDepth
        BY <2>4, <2>6 DEF TriedAt
      <3>2. \E k \in 1 .. N : tried[k] = e
        BY <3>1, AdjacencyLists
      <3> QED
        BY <2>4, <3>1, <3>2 DEF TriedAt
    <2> HIDE DEF N
    <2>7. SearchInv(twin, root, p, n + 1, 0)
      BY <2>3, <2>4, <2>6, StateIsBehind
    <2> QED
      BY <2>5, <2>7
  <1> QED
    BY <1>1, <1>2, <1>3, <1>4
LEMMA NodesAreCounted == IsFiniteSet(TwinNodes) /\ Cardinality(TwinNodes) \in Nat
  BY NodesAreFinite, FS_CardinalityType DEF TwinNodes

LEMMA SearchKeeps ==
    ASSUME NEW twin, TwinAccepted(twin), NEW root \in TwinNodes,
           NEW n \in 0 .. Cardinality(TwinNodes)
    PROVE  SearchInv(twin, root, Searched(twin, root)[n], n + 1, 0)
  <1> DEFINE queue == Searched(twin, root)
             N == Cardinality(TwinNodes)
             Broken == {k \in 0 .. N : ~ SearchInv(twin, root, queue[k], k + 1, 0)}
  <1>1. N \in Nat
    BY NodesAreCounted
  <1>2. /\ queue[0] = Alone(root)
        /\ \A k \in 1 .. N : queue[k] = NextTurn(twin, queue[k - 1], k)
    BY SearchedByTurn
  <1>3. ASSUME Broken # {}
        PROVE  FALSE
    <2>1. Broken \in SUBSET Nat
      OBVIOUS
    <2>2. PICK k \in Broken : \A j \in Broken : k <= j
      <3> HIDE DEF Broken
      <3> QED
        BY <1>3, <2>1, LeastNatural
    <2>3. CASE k = 0
      <3>1. 0 + 1 = 1
        OBVIOUS
      <3> QED
        BY <1>2, <2>2, <2>3, <3>1, SearchBegins
    <2>4. CASE k # 0
      <3>1. /\ k \in 1 .. N /\ k - 1 \in 0 .. N /\ k - 1 < k /\ (k - 1) + 1 = k
            /\ k \in Nat \ {0}
        BY <1>1, <2>2, <2>4
      <3>2. k - 1 \notin Broken
        BY <2>2, <3>1
      <3>3. SearchInv(twin, root, queue[k - 1], k, 0)
        BY <3>1, <3>2
      <3>4. queue[k] = NextTurn(twin, queue[k - 1], k)
        BY <1>2, <3>1
      <3> HIDE DEF queue, Broken
      <3>5. SearchInv(twin, root, queue[k], k + 1, 0)
        BY <3>1, <3>3, <3>4, TurnKeeps
      <3> QED
        BY <2>2, <3>5 DEF Broken
    <2> QED
      BY <2>3, <2>4
  <1> QED
    BY <1>3

LEMMA QueueIsShort ==
    ASSUME NEW twin, NEW q \in Seq(SearchStates(twin)), OncePerNode(q)
    PROVE  Len(q) <= Cardinality(TwinNodes)
  <1> DEFINE nodeAt == [a \in 1 .. Len(q) |-> q[a].node]
  <1>1. nodeAt \in [1 .. Len(q) -> TwinNodes]
    BY StateForm
  <1>2. \A a, b \in 1 .. Len(q) : nodeAt[a] = nodeAt[b] => a = b
    BY DEF OncePerNode
  <1> HIDE DEF nodeAt
  <1>3. nodeAt \in Injection(1 .. Len(q), TwinNodes)
    BY <1>1, <1>2 DEF Injection, IsInjective
  <1>4. Cardinality(1 .. Len(q)) <= Cardinality(TwinNodes)
    BY <1>3, NodesAreCounted, FS_Injection
  <1>5. Len(q) \in Nat
    OBVIOUS
  <1>6. Cardinality(1 .. Len(q)) = Len(q)
    BY <1>5, FS_Interval
  <1> QED
    BY <1>4, <1>6

\* The queue when the search has ended.
LastQueue(twin, root) == Searched(twin, root)[Cardinality(TwinNodes)]

LEMMA SearchEnds ==
    ASSUME NEW twin, TwinAccepted(twin), NEW root \in TwinNodes
    PROVE  LET q == LastQueue(twin, root) IN
           /\ q \in Seq(SearchStates(twin))
           /\ BeginsAtRoot(q, root) /\ ByWalks(twin, root, q) /\ OncePerNode(q)
           /\ \A a \in 1 .. Len(q) : \A e \in EdgesFrom(twin, q[a].node) :
                 Len(q[a].edges) < MaximumDepth => \E b \in 1 .. Len(q) : NoLater(q, b, a, e)
  <1> DEFINE N == Cardinality(TwinNodes)
             q == LastQueue(twin, root)
  <1>1. N \in Nat /\ N \in 0 .. N
    BY NodesAreCounted
  <1>2. SearchInv(twin, root, q, N + 1, 0)
    BY <1>1, SearchKeeps DEF LastQueue
  <1> HIDE DEF q
  <1>3. q \in Seq(SearchStates(twin)) /\ OncePerNode(q)
    BY <1>2 DEF SearchInv
  <1>4. Len(q) <= N /\ Len(q) \in Nat
    BY <1>3, QueueIsShort
  <1>5. ASSUME NEW a \in 1 .. Len(q), NEW e \in EdgesFrom(twin, q[a].node),
               Len(q[a].edges) < MaximumDepth
        PROVE  \E b \in 1 .. Len(q) : NoLater(q, b, a, e)
    <2>1. a < N + 1
      BY <1>1, <1>4
    <2>2. TriedAt(twin, q, N + 1, 0, a, e)
      BY <1>5, <2>1 DEF TriedAt
    <2>3. e \in Edges(twin)
      BY DEF EdgesFrom
    <2> QED
      BY <1>2, <2>2, <2>3 DEF SearchInv, EndsHeld
  <1> QED
    BY <1>2, <1>3, <1>5 DEF SearchInv, q

\* State b reaches the end of a walk, by that walk or by one preferred to it.
Reaches(q, root, b, w) ==
    /\ q[b].node = EndOf(w, root)
    /\ q[b].edges = w \/ Preferred(q[b].edges, w)

LEMMA WalksAreFound ==
    ASSUME NEW twin, TwinAccepted(twin), NEW root \in TwinNodes,
           NEW w, Chained(twin, root, w), Len(w) <= MaximumDepth
    PROVE  \E b \in 1 .. Len(LastQueue(twin, root)) : Reaches(LastQueue(twin, root), root, b, w)
  <1> DEFINE q == LastQueue(twin, root)
             E == Edges(twin)
             Missed(v) == /\ Chained(twin, root, v) /\ Len(v) <= MaximumDepth
                          /\ ~ \E b \in 1 .. Len(q) : Reaches(q, root, b, v)
             Lengths == {n \in Nat : \E v \in Seq(E) : Missed(v) /\ Len(v) = n}
  <1>1. /\ q \in Seq(SearchStates(twin)) /\ q # <<>> /\ q[1] = [node |-> root, edges |-> <<>>]
        /\ \A a \in 1 .. Len(q) : \A e \in EdgesFrom(twin, q[a].node) :
              Len(q[a].edges) < MaximumDepth => \E b \in 1 .. Len(q) : NoLater(q, b, a, e)
    BY SearchEnds DEF BeginsAtRoot
  <1>2. \A a \in 1 .. Len(q) : q[a].edges \in Seq(E)
    BY <1>1, StateForm
  <1>3. ASSUME Lengths # {}
        PROVE  FALSE
    <2>1. PICK n \in Lengths : \A k \in Lengths : n <= k
      <3>1. Lengths \in SUBSET Nat
        OBVIOUS
      <3> HIDE DEF Lengths
      <3> QED
        BY <1>3, <3>1, LeastNatural
    <2>2. PICK u \in Seq(E) : Missed(u) /\ Len(u) = n
      BY <2>1
    <2>3. CASE u = <<>>
      <3>1. 1 \in 1 .. Len(q) /\ q[1].node = root /\ q[1].edges = <<>>
        BY <1>1
      <3>2. Reaches(q, root, 1, u)
        BY <2>3, <3>1 DEF Reaches, EndOf
      <3> QED
        BY <2>2, <3>1, <3>2
    <2>4. CASE u # <<>>
      <3> DEFINE v == SubSeq(u, 1, Len(u) - 1)
                 e == u[Len(u)]
      <3>1. /\ Chained(twin, root, v) /\ Len(v) = Len(u) - 1 /\ e \in E
            /\ e.from = EndOf(v, root) /\ u = Append(v, e) /\ EndOf(u, root) = e.to
        BY <2>2, <2>4, ChainShrinks
      <3> HIDE DEF v, e
      <3>2. v \in Seq(E) /\ Len(v) \in Nat /\ Len(v) < n /\ Len(v) < MaximumDepth
        <4>1. v \in Seq(E)
          BY <3>1 DEF Chained
        <4> QED
          BY <2>2, <3>1, <4>1, TraversalAssumption
      <3>3. Len(v) \notin Lengths
        BY <2>1, <3>2
      <3>4. ~ Missed(v)
        BY <3>2, <3>3
      <3>5. PICK a \in 1 .. Len(q) : Reaches(q, root, a, v)
        BY <3>1, <3>2, <3>4, TraversalAssumption
      <3> HIDE DEF q
      <3>6. e \in EdgesFrom(twin, q[a].node)
        BY <3>1, <3>5 DEF Reaches, EdgesFrom
      <3>7. Len(q[a].edges) < MaximumDepth
        <4>1. Len(q[a].edges) <= Len(v)
          <5>1. q[a].edges \in Seq(E) /\ Len(q[a].edges) \in Nat
            BY <1>2
          <5> QED
            BY <3>2, <3>5, <5>1, PreferredParts DEF Reaches
        <4>2. Len(q[a].edges) \in Nat
          BY <1>2
        <4> QED
          BY <3>2, <4>1, <4>2, TraversalAssumption
      <3>8. PICK b \in 1 .. Len(q) : NoLater(q, b, a, e)
        BY <1>1, <3>6, <3>7
      <3> DEFINE x == q[b].edges
                 y == Append(q[a].edges, e)
      <3>9. x \in Seq(E) /\ y \in Seq(E) /\ q[a].edges \in Seq(E)
        BY <1>2, <3>1, AppendForm
      <3>10. y = u \/ Preferred(y, u)
        BY <3>1, <3>2, <3>5, <3>9, PreferredGrows DEF Reaches
      <3>11. q[b].node = EndOf(u, root) /\ (x = y \/ Preferred(x, y))
        BY <3>1, <3>8 DEF NoLater
      <3> HIDE DEF x, y
      <3>12. x = u \/ Preferred(x, u)
        BY <2>2, <3>9, <3>10, <3>11, PreferredIsTransitive
      <3>13. Reaches(q, root, b, u)
        BY <3>11, <3>12 DEF Reaches, x
      <3> QED
        BY <2>2, <3>13
    <2> QED
      BY <2>3, <2>4
  <1>4. w \in Seq(E) /\ Len(w) \in Nat
    BY DEF Chained
  <1>5. ~ Missed(w)
    BY <1>3, <1>4
  <1> QED
    BY <1>5
LEMMA PathsAreWalks ==
    ASSUME NEW twin, TwinAccepted(twin), NEW root \in TwinNodes,
           NEW s \in canonicalPathsFrom(twin, root)
    PROVE  /\ s \in SearchStates(twin)
           /\ Chained(twin, root, s.edges)
           /\ Len(s.edges) <= MaximumDepth
           /\ EndOf(s.edges, root) = s.node
           /\ s.edges \in Walks(twin, root)
  <1> DEFINE q == LastQueue(twin, root)
  <1>1. q \in Seq(SearchStates(twin)) /\ ByWalks(twin, root, q)
    BY SearchEnds
  <1>2. PICK b \in 1 .. Len(q) : s = q[b]
    BY <1>1 DEF canonicalPathsFrom, LastQueue, ToSet
  <1> HIDE DEF q
  <1>3. /\ s \in SearchStates(twin) /\ Chained(twin, root, s.edges)
        /\ Len(s.edges) <= MaximumDepth /\ EndOf(s.edges, root) = s.node
    BY <1>1, <1>2, StateForm DEF ByWalks
  <1> QED
    BY <1>3, WalksAreChains

LEMMA OnePathPerNode ==
    ASSUME NEW twin, TwinAccepted(twin), NEW root \in TwinNodes,
           NEW s \in canonicalPathsFrom(twin, root), NEW t \in canonicalPathsFrom(twin, root),
           s.node = t.node
    PROVE  s = t
  <1> DEFINE q == LastQueue(twin, root)
  <1>1. q \in Seq(SearchStates(twin)) /\ OncePerNode(q)
    BY SearchEnds
  <1>2. PICK a \in 1 .. Len(q), b \in 1 .. Len(q) : s = q[a] /\ t = q[b]
    BY <1>1 DEF canonicalPathsFrom, LastQueue, ToSet
  <1> QED
    BY <1>1, <1>2 DEF OncePerNode

LEMMA PathToEveryEnd ==
    ASSUME NEW twin, TwinAccepted(twin), NEW root \in TwinNodes, NEW w \in Walks(twin, root)
    PROVE  \E s \in canonicalPathsFrom(twin, root) :
              s.node = EndOf(w, root) /\ (s.edges = w \/ Preferred(s.edges, w))
  <1> DEFINE q == LastQueue(twin, root)
  <1>1. q \in Seq(SearchStates(twin))
    BY SearchEnds
  <1>2. PICK b \in 1 .. Len(q) : Reaches(q, root, b, w)
    BY WalksAreChains, WalksAreFound
  <1>3. q[b] \in canonicalPathsFrom(twin, root)
    BY <1>1, <1>2 DEF canonicalPathsFrom, LastQueue, ToSet
  <1> QED
    BY <1>2, <1>3 DEF Reaches

PathsTo(twin, root, node) ==
    {s.edges : s \in {t \in canonicalPathsFrom(twin, root) : t.node = node}}

WaysTo(twin, root, node) == {w \in Walks(twin, root) : EndOf(w, root) = node}

PreferredToOthers(ways) == {w \in ways : \A v \in ways \ {w} : Preferred(w, v)}

LEMMA PathIsCanonical ==
    ASSUME NEW twin, TwinAccepted(twin), NEW root \in TwinNodes, NEW node
    PROVE  PathsTo(twin, root, node) = PreferredToOthers(WaysTo(twin, root, node))
  <1> DEFINE found == {t \in canonicalPathsFrom(twin, root) : t.node = node}
             ways == WaysTo(twin, root, node)
             E == Edges(twin)
  <1>1. \A w \in ways : w \in Seq(E)
    BY WalksAreChains DEF Chained, WaysTo
  <1>2. \A s \in found : s.edges \in ways
    BY PathsAreWalks DEF WaysTo
  <1>3. \A w \in ways : \E s \in found : s.edges = w \/ Preferred(s.edges, w)
    BY PathToEveryEnd DEF WaysTo
  <1>4. \A s, t \in found : s = t
    BY OnePathPerNode
  <1> HIDE DEF found, ways, E
  <1>5. ASSUME NEW s \in found, NEW v \in ways \ {s.edges}
        PROVE  Preferred(s.edges, v)
    BY <1>3, <1>4
  <1>6. ASSUME NEW w \in ways, \A v \in ways \ {w} : Preferred(w, v)
        PROVE  \E s \in found : s.edges = w
    <2>1. PICK s \in found : s.edges = w \/ Preferred(s.edges, w)
      BY <1>3
    <2>2. s.edges \in ways
      BY <1>2
    <2>3. ASSUME s.edges # w
          PROVE  FALSE
      <3>1. Preferred(w, s.edges) /\ Preferred(s.edges, w)
        BY <1>6, <2>1, <2>2, <2>3
      <3>2. w \in Seq(E) /\ s.edges \in Seq(E)
        BY <1>1, <2>2
      <3> QED
        BY <3>1, <3>2, PreferredIsStrict DEF E
    <2> QED
      BY <2>3
  <1>7. {s.edges : s \in found} = {w \in ways : \A v \in ways \ {w} : Preferred(w, v)}
    BY <1>2, <1>5, <1>6
  <1> QED
    BY <1>7 DEF found, ways, PathsTo, PreferredToOthers

\* The search from a root: what it finds and by which path.
LEMMA CanonicalPaths ==
    ASSUME Presented(input)
    PROVE  PathsAreCanonical
  <1>1. ASSUME NEW r \in input.requirements, DeclarationsAccepted(input), NEW node \in TwinNodes
        PROVE  PathsTo(input.twin, r.root, node)
                   = PreferredToOthers(WaysTo(input.twin, r.root, node))
    <2>1. TwinAccepted(input.twin) /\ r.root \in TwinNodes
      BY <1>1 DEF Presented, DeclarationsAccepted, TwinNodes
    <2> QED
      BY <2>1, PathIsCanonical
  <1> QED
    BY <1>1 DEF PathsAreCanonical, PathsTo, WaysTo, PreferredToOthers

-----------------------------------------------------------------------------
(***************************************************************************)
(* ImpactAnalysis: the paths of a requirement.                             *)
(***************************************************************************)
Analysable(in) == Presented(in) /\ DeclarationsAccepted(in)

LEMMA RootsAreNodes ==
    ASSUME NEW in, Analysable(in), NEW r \in in.requirements
    PROVE  /\ TwinAccepted(in.twin)
           /\ r.root \in ClaimNodes \cup AssetNodes
           /\ r.root \in TwinNodes
           /\ r.root \notin in.twin.advisory.nodes
           /\ r.kind \in {"IMPLEMENTATION", "VALIDATION"}
           /\ r.id \in Seq(Nat)
  BY DEF Analysable, Presented, DeclarationsAccepted, TwinNodes

\* What leads to a result is a validation of an asset, that no model suggested.
LEMMA EdgeToResult ==
    ASSUME NEW twin, TwinAccepted(twin), NEW e \in Edges(twin), e.to \in ResultNodes
    PROVE  /\ e.from \in AssetNodes
           /\ e = directedEdge(e.relationship)
           /\ e.relationship \in twin.relationships
           /\ e.relationship.type = "VALIDATED_BY"
           /\ e.relationship.from = e.from /\ e.relationship.to = e.to
           /\ e.relationship.id \notin twin.advisory.relationships
  <1> DEFINE s == e.relationship
  <1>1. s \in Traversed(twin) /\ e = directedEdge(s)
    BY EdgeForm
  <1>2. s \in twin.relationships /\ s.id \notin twin.advisory.relationships
    BY <1>1 DEF Traversed
  <1>3. e.from = (IF Against(s) THEN s.to ELSE s.from) /\ e.to = (IF Against(s) THEN s.from ELSE s.to)
    BY <1>1 DEF directedEdge
  <1>4. s.type = "VALIDATED_BY" /\ s.from \in AssetNodes
    BY <1>1, <1>3, NodeTypesDisjoint DEF TwinAccepted, Against
  <1>5. ~ Against(s)
    BY <1>4 DEF Against
  <1> QED
    BY <1>1, <1>2, <1>3, <1>4, <1>5

\* No node on a walk from such a root is one that a model suggested.
LEMMA EndIsDeclared ==
    ASSUME NEW twin, TwinAccepted(twin), NEW root, root \notin twin.advisory.nodes,
           NEW w, Chained(twin, root, w)
    PROVE  EndOf(w, root) \notin twin.advisory.nodes
  <1>1. CASE w = <<>>
    BY <1>1 DEF EndOf
  <1>2. CASE w # <<>>
    <2>1. w[Len(w)] \in Edges(twin) /\ EndOf(w, root) = w[Len(w)].to
      BY <1>2, ChainShrinks
    <2>2. PICK s \in Traversed(twin) : w[Len(w)] = directedEdge(s)
      BY <2>1 DEF Edges
    <2>3. w[Len(w)].to \in {s.from, s.to}
      BY <2>2 DEF directedEdge
    <2> QED
      BY <2>1, <2>2, <2>3 DEF Traversed
  <1> QED
    BY <1>1, <1>2

LEMMA ValidationEdgeForm ==
    ASSUME NEW twin, TwinAccepted(twin), NEW state, state.node \notin twin.advisory.nodes,
           NEW v \in ResultNodes, NEW e \in ValidationEdges(twin, state, v)
    PROVE  /\ e \in Edges(twin)
           /\ e.from = state.node /\ e.to = v
           /\ e.relationship.id \in Nat
           /\ ~ Len(state.edges) >= MaximumDepth
  <1>1. /\ ~ Len(state.edges) >= MaximumDepth
        /\ e \in ValidationEdges_AnyDepth(twin, state, v)
    BY DEF ValidationEdges
  <1>2. PICK s \in twin.relationships :
            /\ s.type = "VALIDATED_BY" /\ s.from = state.node /\ s.to = v
            /\ s.id \notin twin.advisory.relationships
            /\ e = directedEdge(s)
    BY <1>1 DEF ValidationEdges_AnyDepth
  <1>3. "VALIDATED_BY" \in ToSet(TraversalTypes)
    BY DEF ToSet, TraversalTypes
  <1>4. v \notin twin.advisory.nodes
    BY DEF TwinAccepted
  <1>5. s \in Traversed(twin)
    BY <1>2, <1>3, <1>4 DEF Traversed
  <1>6. e \in Edges(twin)
    BY <1>2, <1>5 DEF Edges
  <1>7. e.from = state.node /\ e.to = v
    BY <1>2 DEF directedEdge, Against
  <1> QED
    BY <1>1, <1>6, <1>7, EdgeForm

\* The first of the edges from a state to a result.
FirstEdge(twin, state, v) ==
    CHOOSE e \in ValidationEdges(twin, state, v) :
        \A f \in ValidationEdges(twin, state, v) : e.relationship.id <= f.relationship.id

LEMMA FirstEdgeForm ==
    ASSUME NEW twin, TwinAccepted(twin), NEW state, state.node \notin twin.advisory.nodes,
           NEW v \in ResultNodes, ValidationEdges(twin, state, v) # {}
    PROVE  FirstEdge(twin, state, v) \in ValidationEdges(twin, state, v)
  <1> DEFINE V == ValidationEdges(twin, state, v)
             Ids == {n \in Nat : \E e \in V : e.relationship.id = n}
  <1>1. \A e \in V : e.relationship.id \in Nat
    BY ValidationEdgeForm
  <1>2. Ids # {} /\ Ids \in SUBSET Nat
    BY <1>1
  <1>3. PICK n \in Ids : \A k \in Ids : n <= k
    <2> HIDE DEF Ids
    <2> QED
      BY <1>2, LeastNatural
  <1>4. PICK e \in V : e.relationship.id = n
    BY <1>3
  <1>5. \A f \in V : e.relationship.id <= f.relationship.id
    BY <1>1, <1>3, <1>4
  <1> HIDE DEF V
  <1>6. (CHOOSE x \in V : \A f \in V : x.relationship.id <= f.relationship.id) \in V
    BY <1>4, <1>5
  <1> QED
    BY <1>6 DEF FirstEdge, V

\* A requirement, with the canonical path to its asset.
Reached(in, r, state) ==
    /\ Analysable(in)
    /\ r \in in.requirements
    /\ state \in canonicalPathsFrom(in.twin, r.root)
    /\ state.node = r.asset

LEMMA ReachedForm ==
    ASSUME NEW in, NEW r, NEW state, Reached(in, r, state)
    PROVE  /\ TwinAccepted(in.twin)
           /\ state.edges \in Seq(Edges(in.twin))
           /\ Chained(in.twin, r.root, state.edges)
           /\ state.edges \in Walks(in.twin, r.root)
           /\ Len(state.edges) <= MaximumDepth
           /\ Len(state.edges) \in Nat
           /\ EndOf(state.edges, r.root) = r.asset
           /\ state.node \notin in.twin.advisory.nodes
  <1>1. /\ Analysable(in) /\ r \in in.requirements
        /\ state \in canonicalPathsFrom(in.twin, r.root) /\ state.node = r.asset
    BY DEF Reached
  <1>2. TwinAccepted(in.twin) /\ r.root \in TwinNodes /\ r.root \notin in.twin.advisory.nodes
    BY <1>1, RootsAreNodes
  <1>3. /\ Chained(in.twin, r.root, state.edges) /\ Len(state.edges) <= MaximumDepth
        /\ EndOf(state.edges, r.root) = state.node /\ state.edges \in Walks(in.twin, r.root)
    BY <1>1, <1>2, PathsAreWalks
  <1>4. state.edges \in Seq(Edges(in.twin)) /\ Len(state.edges) \in Nat
    BY <1>3 DEF Chained
  <1>5. state.node \notin in.twin.advisory.nodes
    BY <1>2, <1>3, EndIsDeclared
  <1> QED
    BY <1>1, <1>2, <1>3, <1>4, <1>5

\* A linked path: on from the asset by the first edge to a result of the key.
LinkedPath(in, r, state, v) ==
    pathFromState(r, Append(state.edges, FirstEdge(in.twin, state, v)), v)

Linked(in, r, state) ==
    {v \in ResultNodes : KeyOf[v] = r.key /\ ValidationEdges(in.twin, state, v) # {}}

LEMMA PathsAreLinked ==
    ASSUME NEW in, NEW r, NEW state, NEW p \in ValidationPaths(in.twin, r, state)
    PROVE  \E v \in Linked(in, r, state) : p = LinkedPath(in, r, state, v)
  BY DEF ValidationPaths, LinkedPath, Linked, FirstEdge

LEMMA LinkedArePaths ==
    ASSUME NEW in, NEW r, NEW state, NEW v \in Linked(in, r, state)
    PROVE  LinkedPath(in, r, state, v) \in ValidationPaths(in.twin, r, state)
  BY DEF ValidationPaths, LinkedPath, Linked, FirstEdge

LEMMA LinkedWalk ==
    ASSUME NEW in, NEW r, NEW state, Reached(in, r, state), NEW v \in Linked(in, r, state)
    PROVE  LET w == Append(state.edges, FirstEdge(in.twin, state, v)) IN
           /\ w \in Walks(in.twin, r.root)
           /\ Chained(in.twin, r.root, w)
           /\ Len(w) <= MaximumDepth
           /\ EndOf(w, r.root) = v
           /\ w # <<>>
           /\ Last(w).from = r.asset
  <1> DEFINE e == FirstEdge(in.twin, state, v)
             w == Append(state.edges, e)
             twin == in.twin
  <1>1. v \in ResultNodes /\ ValidationEdges(in.twin, state, v) # {}
    BY DEF Linked
  <1>2. /\ TwinAccepted(twin) /\ state.edges \in Seq(Edges(twin))
        /\ Chained(twin, r.root, state.edges) /\ Len(state.edges) \in Nat
        /\ EndOf(state.edges, r.root) = r.asset /\ state.node \notin twin.advisory.nodes
    BY ReachedForm
  <1>3. e \in ValidationEdges(twin, state, v)
    BY <1>1, <1>2, FirstEdgeForm
  <1> HIDE DEF e
  <1>4. /\ e \in Edges(twin) /\ e.from = state.node /\ e.to = v
        /\ ~ Len(state.edges) >= MaximumDepth
    BY <1>1, <1>2, <1>3, ValidationEdgeForm
  <1>5. state.node = r.asset
    BY DEF Reached
  <1>6. Chained(twin, r.root, w) /\ Len(w) = Len(state.edges) + 1 /\ EndOf(w, r.root) = e.to
    BY <1>2, <1>4, <1>5, ChainGrows
  <1>7. Len(w) <= MaximumDepth
    BY <1>2, <1>4, <1>6, TraversalAssumption
  <1>8. w # <<>> /\ w[Len(state.edges) + 1] = e
    BY <1>2, <1>4, AppendForm
  <1>9. Last(w).from = r.asset
    BY <1>4, <1>5, <1>6, <1>8 DEF Last
  <1> HIDE DEF w
  <1>10. w \in Walks(twin, r.root)
    BY <1>6, <1>7, WalksAreChains
  <1> QED
    BY <1>4, <1>6, <1>7, <1>8, <1>9, <1>10 DEF w, e
\* A path that follows a walk to its end is intact.
LEMMA WalkIsIntact ==
    ASSUME NEW twin, NEW r, NEW w, Chained(twin, r.root, w), Len(w) <= MaximumDepth, NEW terminal,
           EndOf(w, r.root) = IF terminal = NoResult THEN r.asset ELSE terminal
    PROVE  PathIntact(pathFromState(r, w, terminal))
  <1> DEFINE path == pathFromState(r, w, terminal)
             node == [i \in 0 .. Len(w) |-> IF i = 0 THEN r.root ELSE w[i].to]
  <1>1. path.steps = w /\ path.root = r.root /\ path.asset = r.asset /\ path.key.terminal = terminal
    BY DEF pathFromState
  <1>2. w \in Seq(Edges(twin)) /\ Len(w) \in Nat /\ DOMAIN w = 1 .. Len(w)
    BY DEF Chained
  <1>3. ASSUME NEW i \in DOMAIN w
        PROVE  w[i].from = node[i - 1]
    <2>1. i \in 1 .. Len(w) /\ i - 1 \in 0 .. Len(w)
      BY <1>2
    <2>2. w[i].from = IF i = 1 THEN r.root ELSE w[i - 1].to
      BY <2>1 DEF Chained
    <2>3. i - 1 = 0 <=> i = 1
      BY <2>1
    <2> QED
      BY <2>1, <2>2, <2>3
  <1>4. node[Len(w)] = EndOf(w, r.root)
    <2>1. Len(w) \in 0 .. Len(w) /\ (w = <<>> <=> Len(w) = 0)
      BY <1>2
    <2> QED
      BY <2>1 DEF EndOf, Last
  <1> HIDE DEF path
  <1>5. PathIntact(path)
    BY <1>1, <1>3, <1>4 DEF PathIntact
  <1> QED
    BY <1>5 DEF path

LEMMA ReachedIsIntact ==
    ASSUME NEW in, NEW r, NEW state, Reached(in, r, state)
    PROVE  PathIntact(pathFromState(r, state.edges, NoResult))
  BY ReachedForm, WalkIsIntact

LEMMA LinkedIsIntact ==
    ASSUME NEW in, NEW r, NEW state, Reached(in, r, state), NEW v \in Linked(in, r, state)
    PROVE  PathIntact(LinkedPath(in, r, state, v))
  <1> DEFINE w == Append(state.edges, FirstEdge(in.twin, state, v))
  <1>1. v # NoResult
    BY NoResultIsNone DEF Linked
  <1>2. Chained(in.twin, r.root, w) /\ Len(w) <= MaximumDepth /\ EndOf(w, r.root) = v
    BY LinkedWalk
  <1> HIDE DEF w
  <1>3. PathIntact(pathFromState(r, w, v))
    BY <1>1, <1>2, WalkIsIntact
  <1> QED
    BY <1>3 DEF LinkedPath, w

\* The kinds of outcome of a requirement.
NotReached(in, r) ==
    \A s \in canonicalPathsFrom(in.twin, r.root) : s.node # r.asset

Implementation(r, state) == pathFromState(r, state.edges, NoResult)

Untrusted(in, r, state) ==
    /\ ~ Trusted(in, Implementation(r, state))
    /\ requirementOutcome(in, r) =
          Found({Implementation(r, state)}, "IMPLEMENTATION_SUPPORT_UNAVAILABLE")

Implemented(in, r, state) ==
    /\ Trusted(in, Implementation(r, state))
    /\ r.kind = "IMPLEMENTATION"
    /\ requirementOutcome(in, r) = Found({Implementation(r, state)}, "NONE")

ForValidation(in, r, state) ==
    /\ in.inferred
    /\ r.kind = "VALIDATION"
    /\ requirementOutcome(in, r) = validationOutcome(in.twin, r, state)

LEMMA OutcomeKinds ==
    ASSUME NEW in, Analysable(in), NEW r \in in.requirements
    PROVE  \/ /\ r.asset \notin AssetNodes
              /\ requirementOutcome(in, r) = Found({}, "CRITICAL_IMPLEMENTATION_ASSET_ABSENT")
           \/ /\ NotReached(in, r)
              /\ requirementOutcome(in, r) = Found({}, "CRITICAL_IMPLEMENTATION_PATH_ABSENT")
           \/ \E state :
                /\ Reached(in, r, state)
                /\ r.asset \in AssetNodes
                /\ Untrusted(in, r, state) \/ Implemented(in, r, state) \/ ForValidation(in, r, state)
  <1> DEFINE states == {s \in canonicalPathsFrom(in.twin, r.root) : s.node = r.asset}
             state == CHOOSE s \in states : TRUE
             implementation == Implementation(r, state)
  <1>1. requirementOutcome(in, r) =
            IF r.asset \notin AssetNodes
            THEN Found({}, "CRITICAL_IMPLEMENTATION_ASSET_ABSENT")
            ELSE IF states = {}
            THEN Found({}, "CRITICAL_IMPLEMENTATION_PATH_ABSENT")
            ELSE IF ~ in.inferred \/ pathUsesUnavailableSupport(in.twin, implementation)
            THEN Found({implementation}, "IMPLEMENTATION_SUPPORT_UNAVAILABLE")
            ELSE IF r.kind = "IMPLEMENTATION"
            THEN Found({implementation}, "NONE")
            ELSE validationOutcome(in.twin, r, state)
    BY DEF requirementOutcome, Implementation
  <1>2. CASE r.asset \notin AssetNodes
    BY <1>1, <1>2
  <1>3. CASE r.asset \in AssetNodes /\ states = {}
    <2>1. NotReached(in, r)
      BY <1>3 DEF NotReached
    <2> QED
      BY <1>1, <1>3, <2>1
  <1>4. CASE r.asset \in AssetNodes /\ states # {}
    <2>1. state \in states
      BY <1>4
    <2>2. Reached(in, r, state)
      BY <2>1 DEF Reached
    <2>3. r.kind \in {"IMPLEMENTATION", "VALIDATION"}
      BY RootsAreNodes
    <2> HIDE DEF states, state, implementation
    <2>4. Trusted(in, implementation)
              <=> in.inferred /\ ~ pathUsesUnavailableSupport(in.twin, implementation)
      BY DEF Trusted
    <2>5. CASE ~ Trusted(in, implementation)
      <3>1. requirementOutcome(in, r) =
                Found({implementation}, "IMPLEMENTATION_SUPPORT_UNAVAILABLE")
        BY <1>1, <1>4, <2>4, <2>5
      <3> QED
        BY <1>4, <2>2, <2>5, <3>1 DEF implementation, Untrusted
    <2>6. CASE Trusted(in, implementation) /\ r.kind = "IMPLEMENTATION"
      <3>1. requirementOutcome(in, r) = Found({implementation}, "NONE")
        BY <1>1, <1>4, <2>4, <2>6
      <3> QED
        BY <1>4, <2>2, <2>6, <3>1 DEF implementation, Implemented
    <2>7. CASE Trusted(in, implementation) /\ r.kind # "IMPLEMENTATION"
      <3>1. requirementOutcome(in, r) = validationOutcome(in.twin, r, state) /\ in.inferred
        BY <1>1, <1>4, <2>4, <2>7
      <3> QED
        BY <1>4, <2>2, <2>3, <2>7, <3>1 DEF ForValidation
    <2> QED
      BY <2>5, <2>6, <2>7
  <1> QED
    BY <1>2, <1>3, <1>4

LEMMA ValidationKinds ==
    ASSUME NEW twin, NEW r, NEW state, NEW linked, linked = ValidationPaths(twin, r, state),
           NEW found, found = validationOutcome(twin, r, state)
    PROVE  \/ /\ \A v \in ResultNodes : KeyOf[v] # r.key
              /\ found = Found({Implementation(r, state)}, "REQUIRED_VALIDATION_RESULT_ABSENT")
           \/ /\ linked = {}
              /\ found = Found({Implementation(r, state)}, "REQUIRED_VALIDATION_PATH_ABSENT")
           \/ /\ \A p \in linked : pathUsesUnavailableSupport(twin, p)
              /\ found = Found(linked, "IMPLEMENTATION_SUPPORT_UNAVAILABLE")
           \/ /\ \E p \in linked : ~ pathUsesUnavailableSupport(twin, p)
              /\ found = Found(linked, "NONE")
  BY DEF validationOutcome, Implementation

\* Every path of an outcome is intact and bears the id of its requirement.
LEMMA PathsAreIntact ==
    ASSUME NEW in, Analysable(in), NEW r \in in.requirements,
           NEW p \in requirementOutcome(in, r).paths
    PROVE  PathIntact(p) /\ p.key.requirement = r.id
  <1>1. \A paths, reason : Found(paths, reason).paths = paths
    BY DEF Found
  <1>2. \A w, t : pathFromState(r, w, t).key.requirement = r.id
    BY DEF pathFromState
  <1>3. PICK state : /\ Reached(in, r, state)
                     /\ \/ Untrusted(in, r, state)
                        \/ Implemented(in, r, state)
                        \/ ForValidation(in, r, state)
    <2>1. requirementOutcome(in, r).paths # {}
      OBVIOUS
    <2> QED
      BY <1>1, <2>1, OutcomeKinds
  <1>4. p = Implementation(r, state) \/ p \in ValidationPaths(in.twin, r, state)
    <2>1. CASE Untrusted(in, r, state) \/ Implemented(in, r, state)
      BY <1>1, <2>1 DEF Untrusted, Implemented
    <2>2. CASE ForValidation(in, r, state)
      <3>1. p \in validationOutcome(in.twin, r, state).paths
        BY <2>2 DEF ForValidation
      <3>2. \/ validationOutcome(in.twin, r, state).paths = {Implementation(r, state)}
            \/ validationOutcome(in.twin, r, state).paths = ValidationPaths(in.twin, r, state)
        BY DEF Found, validationOutcome, Implementation
      <3> QED
        BY <3>1, <3>2
    <2> QED
      BY <1>3, <2>1, <2>2
  <1>5. CASE p = Implementation(r, state)
    BY <1>2, <1>3, <1>5, ReachedIsIntact DEF Implementation
  <1>6. CASE p \in ValidationPaths(in.twin, r, state)
    <2>1. PICK v \in Linked(in, r, state) : p = LinkedPath(in, r, state, v)
      BY <1>6, PathsAreLinked
    <2> QED
      BY <1>2, <1>3, <2>1, LinkedIsIntact DEF LinkedPath
  <1> QED
    BY <1>4, <1>5, <1>6
-----------------------------------------------------------------------------
(***************************************************************************)
(* ImpactAnalysis: the analysis does not fail on its own invariant.        *)
(***************************************************************************)
\* What follows an id changes nothing of an order that the ids decide.
LEMMA EntryFollowsId ==
    ASSUME NEW i \in Seq(Nat), NEW j \in Seq(Nat), ~ Nested(i, j), Precedes(i, j)
    PROVE  Precedes(OrderEntry(i), OrderEntry(j))
  <1> DEFINE x == OrderEntry(i)
             y == OrderEntry(j)
  <1>1. PICK k \in DOMAIN i \cap DOMAIN j :
            i[k] < j[k] /\ SubSeq(i, 1, k - 1) = SubSeq(j, 1, k - 1)
    BY DEF Precedes, Nested
  <1>2. /\ k \in 1 .. Len(i) /\ k \in 1 .. Len(j)
        /\ k - 1 \in Nat /\ k - 1 <= Len(i) /\ k - 1 <= Len(j)
    BY <1>1
  <1>3. \A l \in 1 .. (k - 1) : i[l] = j[l]
    BY <1>1, <1>2, SamePrefix
  <1>4. /\ x \in Seq(Nat) /\ Len(x) = Len(i) + 2 /\ \A l \in 1 .. Len(i) : x[l] = i[l]
        /\ y \in Seq(Nat) /\ Len(y) = Len(j) + 2 /\ \A l \in 1 .. Len(j) : y[l] = j[l]
    BY DEF OrderEntry, Colon, Digest
  <1> HIDE DEF x, y
  <1>5. k - 1 <= Len(x) /\ k - 1 <= Len(y) /\ k \in DOMAIN x \cap DOMAIN y
    BY <1>2, <1>4
  <1>6. ASSUME NEW l \in 1 .. (k - 1)
        PROVE  x[l] = y[l]
    <2>1. l \in 1 .. Len(i) /\ l \in 1 .. Len(j)
      BY <1>2
    <2> QED
      BY <1>3, <1>4, <2>1
  <1>7. SubSeq(x, 1, k - 1) = SubSeq(y, 1, k - 1)
    <2> DEFINE n == k - 1
    <2>1. /\ n \in Nat /\ n <= Len(x) /\ n <= Len(y)
          /\ \A l \in 1 .. n : x[l] = y[l]
      BY <1>2, <1>5, <1>6
    <2> HIDE DEF n
    <2>2. SubSeq(x, 1, n) = SubSeq(y, 1, n)
      BY <1>4, <2>1, SamePrefix
    <2> QED
      BY <2>2 DEF n
  <1>8. x[k] < y[k]
    BY <1>1, <1>2, <1>4
  <1>9. Precedes(x, y)
    BY <1>5, <1>7, <1>8 DEF Precedes
  <1> QED
    BY <1>9 DEF x, y

\* Ids of declarations, none of which begins with another.
Unnested(in) == \A r, s \in in.requirements : ~ Nested(r.id, s.id)

LEMMA IdsInOrder ==
    ASSUME NEW in, Analysable(in), Unnested(in),
           NEW ids, \A id \in ids : \E r \in in.requirements : id = r.id
    PROVE  EntriesInOrder(ids)
  <1>1. ASSUME NEW i \in ids, NEW j \in ids, Precedes(i, j)
        PROVE  Precedes(OrderEntry(i), OrderEntry(j))
    <2>1. PICK r \in in.requirements : i = r.id
      OBVIOUS
    <2>2. PICK s \in in.requirements : j = s.id
      OBVIOUS
    <2>3. i \in Seq(Nat) /\ j \in Seq(Nat)
      BY <2>1, <2>2, RootsAreNodes
    <2>4. ~ Nested(i, j)
      BY <2>1, <2>2 DEF Unnested
    <2> QED
      BY <1>1, <2>3, <2>4, EntryFollowsId
  <1> QED
    BY <1>1 DEF EntriesInOrder

Outcomes(in) == [r \in in.requirements |-> requirementOutcome(in, r)]

LEMMA AnalysisIsIntact ==
    ASSUME NEW in, Analysable(in), Unnested(in)
    PROVE  analyzeChangeImpact(in) = [error |-> "NONE", outcome |-> Outcomes(in)]
  <1> DEFINE outcomes == Outcomes(in)
             paths == UNION {outcomes[r].paths : r \in in.requirements}
  <1>1. ASSUME NEW p \in paths
        PROVE  PathIntact(p) /\ \E r \in in.requirements : p.key.requirement = r.id
    <2>1. PICK r \in in.requirements : p \in requirementOutcome(in, r).paths
      BY DEF Outcomes
    <2> QED
      BY <2>1, PathsAreIntact
  <1> HIDE DEF outcomes
  <1>2. EntriesInOrder({p.key.requirement : p \in paths})
    <2>1. \A id \in {p.key.requirement : p \in paths} : \E r \in in.requirements : id = r.id
      BY <1>1
    <2> HIDE DEF paths
    <2> QED
      BY <2>1, IdsInOrder
  <1>3. EntriesInOrder({r.id : r \in {s \in in.requirements : outcomes[s].reason # "NONE"}})
    <2> DEFINE ids == {r.id : r \in {s \in in.requirements : outcomes[s].reason # "NONE"}}
    <2>1. \A id \in ids : \E r \in in.requirements : id = r.id
      OBVIOUS
    <2> HIDE DEF ids
    <2>2. EntriesInOrder(ids)
      BY <2>1, IdsInOrder
    <2> QED
      BY <2>2 DEF ids
  <1>4. resultIntact(in, outcomes)
    BY <1>1, <1>2, <1>3 DEF resultIntact
  <1>5. analyzeChangeImpact(in) =
            IF resultIntact(in, outcomes) THEN [error |-> "NONE", outcome |-> outcomes]
            ELSE [error |-> "IMPACT_INTEGRITY_INVALID"]
    BY DEF analyzeChangeImpact, Outcomes, outcomes
  <1> QED
    BY <1>4, <1>5 DEF outcomes
-----------------------------------------------------------------------------
(***************************************************************************)
(* ImpactAnalysis: the gaps.                                               *)
(***************************************************************************)
\* What answers a requirement for validation: a walk to its asset that can grow,
\* and an edge from there to a result of the key.
LEMMA WayToResult ==
    ASSUME NEW in, Analysable(in), NEW r \in in.requirements, r.kind = "VALIDATION",
           NEW w \in Ways(in, r)
    PROVE  LET v   == SubSeq(w, 1, Len(w) - 1)
               e   == w[Len(w)]
           IN  /\ v \in Walks(in.twin, r.root)
               /\ Len(v) \in Nat /\ Len(v) < MaximumDepth
               /\ EndOf(v, r.root) = r.asset
               /\ e \in Edges(in.twin) /\ e.from = r.asset
               /\ e.to \in ResultNodes /\ KeyOf[e.to] = r.key
               /\ r.asset \in AssetNodes
  <1> DEFINE v == SubSeq(w, 1, Len(w) - 1)
             e == w[Len(w)]
             end == EndOf(w, r.root)
  <1>1. TwinAccepted(in.twin) /\ r.root \in ClaimNodes \cup AssetNodes
    BY RootsAreNodes
  <1>2. /\ w \in Walks(in.twin, r.root) /\ end \in ResultNodes /\ KeyOf[end] = r.key
        /\ Last(w).from = r.asset
    BY DEF Ways
  <1>3. Chained(in.twin, r.root, w) /\ Len(w) <= MaximumDepth
    BY <1>2, WalksAreChains
  <1>4. w # <<>>
    BY <1>1, <1>2, NodeTypesDisjoint DEF EndOf
  <1>5. /\ Chained(in.twin, r.root, v) /\ Len(v) = Len(w) - 1
        /\ e \in Edges(in.twin) /\ e.from = EndOf(v, r.root) /\ end = e.to
    BY <1>3, <1>4, ChainShrinks
  <1>6. e.from = r.asset
    BY <1>2 DEF Last
  <1>7. e.from \in AssetNodes
    BY <1>1, <1>2, <1>5, EdgeToResult
  <1> HIDE DEF v, e, end
  <1>8. Len(v) \in Nat /\ Len(v) < MaximumDepth
    <2>1. v \in Seq(Edges(in.twin)) /\ w \in Seq(Edges(in.twin))
      BY <1>3, <1>5 DEF Chained
    <2> QED
      BY <1>3, <1>5, <2>1, TraversalAssumption
  <1>9. v \in Walks(in.twin, r.root)
    BY <1>5, <1>8, WalksAreChains, TraversalAssumption
  <1> QED
    BY <1>2, <1>5, <1>6, <1>7, <1>8, <1>9 DEF v, e

LEMMA NoWayToAbsent ==
    ASSUME NEW in, Analysable(in), NEW r \in in.requirements,
           r.asset \notin AssetNodes \/ NotReached(in, r)
    PROVE  Ways(in, r) = {}
  <1>1. TwinAccepted(in.twin) /\ r.root \in TwinNodes /\ r.kind \in {"IMPLEMENTATION", "VALIDATION"}
    BY RootsAreNodes
  <1>2. ASSUME NEW v \in Walks(in.twin, r.root), EndOf(v, r.root) = r.asset, r.asset \in AssetNodes
        PROVE  FALSE
    <2>1. PICK s \in canonicalPathsFrom(in.twin, r.root) : s.node = EndOf(v, r.root)
      BY <1>1, PathToEveryEnd
    <2> QED
      BY <1>2, <2>1 DEF NotReached
  <1>3. ASSUME NEW w \in Ways(in, r)
        PROVE  FALSE
    <2>1. CASE r.kind = "IMPLEMENTATION"
      BY <1>2, <2>1 DEF Ways
    <2>2. CASE r.kind = "VALIDATION"
      <3> DEFINE v == SubSeq(w, 1, Len(w) - 1)
      <3>1. v \in Walks(in.twin, r.root) /\ EndOf(v, r.root) = r.asset /\ r.asset \in AssetNodes
        BY <2>2, WayToResult
      <3> HIDE DEF v
      <3> QED
        BY <1>2, <3>1
    <2> QED
      BY <1>1, <2>1, <2>2
  <1> QED
    BY <1>3

\* The canonical path can grow when any walk to the asset can: then a validation
\* that a walk takes is found.
LEMMA WayIsLinked ==
    ASSUME NEW in, NEW r, NEW state, Reached(in, r, state), r.kind = "VALIDATION",
           NEW w \in Ways(in, r)
    PROVE  \E v \in Linked(in, r, state) : KeyOf[v] = r.key
  <1> DEFINE v == SubSeq(w, 1, Len(w) - 1)
             e == w[Len(w)]
             twin == in.twin
             s == e.relationship
  <1>1. /\ Analysable(in) /\ r \in in.requirements
        /\ state \in canonicalPathsFrom(twin, r.root) /\ state.node = r.asset
    BY DEF Reached
  <1>2. TwinAccepted(twin) /\ r.root \in TwinNodes
    BY <1>1, RootsAreNodes
  <1>3. /\ v \in Walks(twin, r.root) /\ Len(v) \in Nat /\ Len(v) < MaximumDepth
        /\ EndOf(v, r.root) = r.asset
        /\ e \in Edges(twin) /\ e.from = r.asset
        /\ e.to \in ResultNodes /\ KeyOf[e.to] = r.key
    BY <1>1, WayToResult
  <1>4. /\ e = directedEdge(s) /\ s \in twin.relationships /\ s.type = "VALIDATED_BY"
        /\ s.from = e.from /\ s.to = e.to /\ s.id \notin twin.advisory.relationships
    BY <1>2, <1>3, EdgeToResult
  <1> HIDE DEF v, e
  <1>5. ~ Len(state.edges) >= MaximumDepth
    <2>1. PICK t \in canonicalPathsFrom(twin, r.root) :
              t.node = EndOf(v, r.root) /\ (t.edges = v \/ Preferred(t.edges, v))
      BY <1>2, <1>3, PathToEveryEnd
    <2>2. t = state
      BY <1>1, <1>2, <1>3, <2>1, OnePathPerNode
    <2>3. state.edges \in Seq(Edges(twin)) /\ v \in Seq(Edges(twin)) /\ Len(state.edges) \in Nat
      BY <1>3, ReachedForm, WalksAreChains DEF Chained
    <2>4. Len(state.edges) <= Len(v)
      BY <1>3, <2>1, <2>2, <2>3, PreferredParts
    <2> QED
      BY <1>3, <2>3, <2>4, TraversalAssumption
  <1>6. e \in ValidationEdges_AnyDepth(twin, state, e.to)
    BY <1>1, <1>3, <1>4 DEF ValidationEdges_AnyDepth
  <1>7. ValidationEdges(twin, state, e.to) # {}
    BY <1>5, <1>6 DEF ValidationEdges
  <1> QED
    BY <1>3, <1>7 DEF Linked

\* What GapsAreExact says of one requirement.
GapIsExact(in, r, found) ==
    /\ found.reason = "NONE" <=>
          \E p \in found.paths : p.steps \in Ways(in, r) /\ Trusted(in, p)
    /\ found.reason \notin {"NONE", "IMPLEMENTATION_SUPPORT_UNAVAILABLE"}
          => Ways(in, r) = {}

LEMMA ImplementationIsWay ==
    ASSUME NEW in, NEW r, NEW state, Reached(in, r, state), r.asset \in AssetNodes
    PROVE  Implementation(r, state).steps \in Ways(in, r) <=> r.kind = "IMPLEMENTATION"
  <1>1. Implementation(r, state).steps = state.edges
    BY DEF Implementation, pathFromState
  <1>2. state.edges \in Walks(in.twin, r.root) /\ EndOf(state.edges, r.root) = r.asset
    BY ReachedForm
  <1> QED
    BY <1>1, <1>2, NodeTypesDisjoint DEF Ways

LEMMA LinkedIsWay ==
    ASSUME NEW in, NEW r, NEW state, Reached(in, r, state), r.kind = "VALIDATION",
           NEW p \in ValidationPaths(in.twin, r, state)
    PROVE  p.steps \in Ways(in, r)
  <1>1. PICK v \in Linked(in, r, state) : p = LinkedPath(in, r, state, v)
    BY PathsAreLinked
  <1> DEFINE w == Append(state.edges, FirstEdge(in.twin, state, v))
  <1>2. /\ w \in Walks(in.twin, r.root) /\ EndOf(w, r.root) = v /\ Last(w).from = r.asset
    BY LinkedWalk
  <1>3. p.steps = w
    BY <1>1 DEF LinkedPath, pathFromState
  <1>4. v \in ResultNodes /\ KeyOf[v] = r.key
    BY DEF Linked
  <1> HIDE DEF w
  <1> QED
    BY <1>2, <1>3, <1>4 DEF Ways

LEMMA ValidationGap ==
    ASSUME NEW in, NEW r, NEW state, Reached(in, r, state), r.asset \in AssetNodes,
           r.kind = "VALIDATION", in.inferred
    PROVE  GapIsExact(in, r, validationOutcome(in.twin, r, state))
  <1> DEFINE twin == in.twin
             linked == ValidationPaths(twin, r, state)
             found == validationOutcome(twin, r, state)
             implementation == Implementation(r, state)
  <1>1. /\ \A paths, reason : Found(paths, reason).paths = paths
        /\ \A paths, reason : Found(paths, reason).reason = reason
    BY DEF Found
  <1>2. implementation.steps \notin Ways(in, r)
    BY ImplementationIsWay
  <1>3. \A p \in linked : p.steps \in Ways(in, r)
    BY LinkedIsWay
  <1>4. \A p : Trusted(in, p) <=> ~ pathUsesUnavailableSupport(twin, p)
    BY DEF Trusted
  <1>5. ASSUME linked = {} \/ \A v \in ResultNodes : KeyOf[v] # r.key
        PROVE  Ways(in, r) = {}
    <2>1. SUFFICES ASSUME NEW w \in Ways(in, r)
                   PROVE  FALSE
      OBVIOUS
    <2>2. PICK v \in Linked(in, r, state) : KeyOf[v] = r.key
      BY WayIsLinked
    <2>3. LinkedPath(in, r, state, v) \in linked
      BY LinkedArePaths
    <2> QED
      BY <1>5, <2>2, <2>3 DEF Linked
  <1>6. \/ /\ \A v \in ResultNodes : KeyOf[v] # r.key
           /\ found = Found({implementation}, "REQUIRED_VALIDATION_RESULT_ABSENT")
        \/ linked = {} /\ found = Found({implementation}, "REQUIRED_VALIDATION_PATH_ABSENT")
        \/ /\ \A p \in linked : pathUsesUnavailableSupport(twin, p)
           /\ found = Found(linked, "IMPLEMENTATION_SUPPORT_UNAVAILABLE")
        \/ /\ \E p \in linked : ~ pathUsesUnavailableSupport(twin, p)
           /\ found = Found(linked, "NONE")
    BY ValidationKinds
  <1> HIDE DEF linked, found, implementation
  <1>7. CASE /\ Ways(in, r) = {}
             /\ found.reason \in {"REQUIRED_VALIDATION_RESULT_ABSENT", "REQUIRED_VALIDATION_PATH_ABSENT"}
    BY <1>7 DEF GapIsExact, found
  <1>8. CASE /\ \A p \in linked : pathUsesUnavailableSupport(twin, p)
             /\ found = Found(linked, "IMPLEMENTATION_SUPPORT_UNAVAILABLE")
    <2>1. found.paths = linked /\ found.reason = "IMPLEMENTATION_SUPPORT_UNAVAILABLE"
      BY <1>1, <1>8
    <2> QED
      BY <1>4, <1>8, <2>1 DEF GapIsExact, found
  <1>9. CASE /\ \E p \in linked : ~ pathUsesUnavailableSupport(twin, p)
             /\ found = Found(linked, "NONE")
    <2>1. found.paths = linked /\ found.reason = "NONE"
      BY <1>1, <1>9
    <2> QED
      BY <1>3, <1>4, <1>9, <2>1 DEF GapIsExact, found
  <1> QED
    BY <1>1, <1>5, <1>6, <1>7, <1>8, <1>9

LEMMA RequirementGap ==
    ASSUME NEW in, Analysable(in), NEW r \in in.requirements
    PROVE  GapIsExact(in, r, requirementOutcome(in, r))
  <1> DEFINE found == requirementOutcome(in, r)
  <1>1. /\ \A paths, reason : Found(paths, reason).paths = paths
        /\ \A paths, reason : Found(paths, reason).reason = reason
    BY DEF Found
  <1>2. CASE /\ r.asset \notin AssetNodes
             /\ found = Found({}, "CRITICAL_IMPLEMENTATION_ASSET_ABSENT")
    <2>1. Ways(in, r) = {} /\ found.reason = "CRITICAL_IMPLEMENTATION_ASSET_ABSENT"
      BY <1>1, <1>2, NoWayToAbsent
    <2> QED
      BY <2>1 DEF GapIsExact
  <1>3. CASE /\ NotReached(in, r)
             /\ found = Found({}, "CRITICAL_IMPLEMENTATION_PATH_ABSENT")
    <2>1. Ways(in, r) = {} /\ found.reason = "CRITICAL_IMPLEMENTATION_PATH_ABSENT"
      BY <1>1, <1>3, NoWayToAbsent
    <2> QED
      BY <2>1 DEF GapIsExact
  <1>4. ASSUME NEW state, Reached(in, r, state), r.asset \in AssetNodes, Untrusted(in, r, state)
        PROVE  GapIsExact(in, r, found)
    <2>1. /\ found.paths = {Implementation(r, state)}
          /\ found.reason = "IMPLEMENTATION_SUPPORT_UNAVAILABLE"
      BY <1>1, <1>4 DEF Untrusted
    <2> HIDE DEF found
    <2> QED
      BY <1>4, <2>1 DEF GapIsExact, Untrusted
  <1>5. ASSUME NEW state, Reached(in, r, state), r.asset \in AssetNodes, Implemented(in, r, state)
        PROVE  GapIsExact(in, r, found)
    <2>1. found.paths = {Implementation(r, state)} /\ found.reason = "NONE"
      BY <1>1, <1>5 DEF Implemented
    <2>2. Implementation(r, state).steps \in Ways(in, r)
      BY <1>5, ImplementationIsWay DEF Implemented
    <2> HIDE DEF found
    <2> QED
      BY <1>5, <2>1, <2>2 DEF GapIsExact, Implemented
  <1>6. ASSUME NEW state, Reached(in, r, state), r.asset \in AssetNodes, ForValidation(in, r, state)
        PROVE  GapIsExact(in, r, found)
    BY <1>6, ValidationGap DEF ForValidation
  <1> QED
    BY <1>2, <1>3, <1>4, <1>5, <1>6, OutcomeKinds

\* The gaps that are read off the paths.
LEMMA ExactGaps ==
    ASSUME Presented(input)
    PROVE  GapsAreExact
  <1>1. SUFFICES ASSUME DeclarationsAccepted(input), Unnested(input)
                 PROVE  LET analysis == analyzeChangeImpact(input) IN
                        /\ analysis.error = "NONE"
                        /\ \A r \in input.requirements : GapIsExact(input, r, analysis.outcome[r])
    BY DEF GapsAreExact, GapIsExact, Unnested
  <1>2. Analysable(input)
    BY <1>1 DEF Analysable
  <1>3. analyzeChangeImpact(input) = [error |-> "NONE", outcome |-> Outcomes(input)]
    BY <1>1, <1>2, AnalysisIsIntact
  <1>4. ASSUME NEW r \in input.requirements
        PROVE  GapIsExact(input, r, Outcomes(input)[r])
    BY <1>2, RequirementGap DEF Outcomes
  <1> QED
    BY <1>3, <1>4

\* For any Twin, requirements and depth, an analysis finds a node exactly when
\* some walk does, keeps its one canonical shortest path, does not fail on its own
\* invariant unless ids nest, and leaves exactly the gaps there are
\* (analyzeChangeImpact in packages/domain/src/impact-analysis.ts).
THEOREM AnalysisCorrect == ImpactInit => AnalysisIsExact
  <1>1. ImpactInit => Presented(input)
    BY DEF ImpactInit
  <1> QED
    BY <1>1, CanonicalPaths, ExactGaps DEF AnalysisIsExact
=============================================================================
