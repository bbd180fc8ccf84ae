----------------------------- MODULE ClientProofs -----------------------------
(***************************************************************************)
(* Proofs about the Porkbun client.  One inductive invariant carries all   *)
(* of them: the type invariant, the link between what the server did with  *)
(* a call's key and what the client may conclude from its answer, the      *)
(* bound of every running claim by the slot, and the bound of the server's *)
(* wish by the wait of the call.                                           *)
(***************************************************************************)
EXTENDS PorkbunClient, TLAPS

\* A write has happened exactly when its key is used up, and only then does an
\* answer say so; a call returns once.
KeyInv ==
    \A c \in Calls :
        /\ applied[c] = 1 <=> srv[c] = "done"
        /\ answer[c] = "ok" => srv[c] = "done"
        /\ pc[c] # "done" => result[c] = "none"

\* No claim is younger than the slot, so a free slot means no fresh claim.
SlotInv == SlotsApart /\ \A c \in Calls : claimed[c] <= slot

\* A call waits at least as long as the server wants it to.
HoldInv ==
    \A c \in Calls :
        /\ pc[c] = "backoff" => hold[c] <= timer[c]
        /\ pc[c] \notin {"backoff", "done"} => hold[c] = 0

ClientInv == TypeOK /\ KeyInv /\ SlotInv /\ HoldInv

\* A backoff is a number of ticks, whatever the attempt (computeBackoff).
LEMMA BackoffIsNat ==
    ASSUME NEW n, NEW d \in Backoffs(n)
    PROVE  d \in Nat
BY DEF Backoffs

\* A retried call waits before its next attempt, as long as the server wants.
Pause(c, wait) ==
    /\ pc' = [pc EXCEPT ![c] = "backoff"]
    /\ attempt' = [attempt EXCEPT ![c] = @ + 1]
    /\ attempt[c] + 1 \in 0 .. MaxRetries
    /\ \E w \in Nat : wait <= w /\ timer' = [timer EXCEPT ![c] = w]
    /\ result' = result

\* What a retryable error leads to: the end, or a wait that honours the
\* server (retryDelay).
LEMMA RetryOutcome ==
    ASSUME TypeOK, NEW c \in Calls, NEW wait \in Nat, Retry(c, wait)
    PROVE  Finish(c, "error") \/ Pause(c, wait)
<1>1. CASE attempt[c] = MaxRetries /\ Finish(c, "error")
  BY <1>1
<1>2. ASSUME attempt[c] < MaxRetries, NEW d \in Backoffs(attempt[c] + 1),
             \/ d < wait /\ wait > MaxServerDelay /\ Finish(c, "error")
             \/ /\ d < wait => wait <= MaxServerDelay
                /\ attempt' = [attempt EXCEPT ![c] = @ + 1]
                /\ timer' = [timer EXCEPT ![c] = IF d < wait THEN wait ELSE d]
                /\ pc' = [pc EXCEPT ![c] = "backoff"]
                /\ UNCHANGED result
      PROVE  Finish(c, "error") \/ Pause(c, wait)
  <2>1. d \in Nat
    BY <1>2, BackoffIsNat
  <2>2. attempt[c] \in 0 .. MaxRetries /\ MaxRetries \in Nat
    BY ClientAssumption DEF TypeOK
  <2>3. attempt[c] + 1 \in 0 .. MaxRetries
    BY <1>2, <2>2
  <2>4. (IF d < wait THEN wait ELSE d) \in Nat /\ wait <= (IF d < wait THEN wait ELSE d)
    BY <2>1
  <2> QED
    BY <1>2, <2>3, <2>4 DEF Pause
<1> QED
  BY <1>1, <1>2 DEF Retry

\* The initial states have the invariant.
LEMMA InitClient == Init => ClientInv
BY ClientAssumption DEF Init, ClientInv, TypeOK, KeyInv, SlotInv, SlotsApart, HoldInv

\* A request that is answered, lost or never sent: its call ends or waits.
LEMMA OutcomeKeeps ==
    ASSUME ClientInv, NEW c \in Calls, NEW wait \in Nat, NEW r \in {"ok", "error"},
           pc[c] # "done",
           Finish(c, r) \/ Pause(c, wait),
           UNCHANGED <<ctx, slot, srv, applied, claimed>>,
           orphan' \in [Calls -> BOOLEAN],
           after' \in [Calls -> RetryAfters],
           answer' = [answer EXCEPT ![c] = "none"],
           \/ hold' = hold /\ (pc[c] \in {"send", "sent"})
           \/ hold' = [hold EXCEPT ![c] = wait]
    PROVE  ClientInv'
<1> USE DEF ClientInv
<1>1. TypeOK'
  BY DEF TypeOK, Finish, Pause
<1>2. KeyInv'
  BY DEF TypeOK, KeyInv, Finish, Pause
<1>3. SlotInv'
  BY DEF SlotInv, SlotsApart
<1>4. HoldInv'
  BY DEF TypeOK, HoldInv, Finish, Pause
<1> QED
  BY <1>1, <1>2, <1>3, <1>4

\* The steps of a call (do, waitRate, waitContext, doOnce).
LEMMA DoKeeps ==
    ASSUME ClientInv, NEW c \in Calls, Do(c)
    PROVE  ClientInv'
<1> USE DEF ClientInv, server
<1>1. CASE Start(c)
  <2>1. TypeOK' /\ KeyInv' /\ HoldInv'
    BY <1>1 DEF Start, Finish, TypeOK, KeyInv, HoldInv
  <2>2. SlotInv'
    BY <1>1 DEF Start, SlotInv, SlotsApart
  <2> QED
    BY <2>1, <2>2
<1>2. CASE WaitRate(c)
  <2>1. TypeOK' /\ KeyInv' /\ HoldInv'
    BY <1>2, ClientAssumption DEF WaitRate, Finish, TypeOK, KeyInv, HoldInv
  <2>2. ASSUME slot = 0, slot' = MinGap, claimed' = [claimed EXCEPT ![c] = MinGap]
        PROVE  SlotInv'
    <3>1. \A d \in Calls : claimed[d] = 0
      BY <2>2 DEF TypeOK, SlotInv
    <3> QED
      BY <2>2, <3>1, ClientAssumption DEF TypeOK, SlotInv, SlotsApart
  <2>3. ASSUME UNCHANGED <<slot, claimed>>
        PROVE  SlotInv'
    BY <2>3 DEF SlotInv, SlotsApart
  <2>4. SlotInv'
    BY <1>2, <2>2, <2>3 DEF WaitRate
  <2> QED
    BY <2>1, <2>4
<1>3. CASE Wake(c)
  <2>1. TypeOK' /\ KeyInv' /\ HoldInv'
    BY <1>3 DEF Wake, Finish, TypeOK, KeyInv, HoldInv
  <2>2. SlotInv'
    BY <1>3 DEF Wake, SlotInv, SlotsApart
  <2> QED
    BY <2>1, <2>2
<1>4. CASE Send(c)
  <2>1. CASE ctx[c] = "live"
    <3>1. TypeOK' /\ KeyInv' /\ HoldInv'
      BY <1>4, <2>1, ClientAssumption DEF Send, TypeOK, KeyInv, HoldInv
    <3>2. SlotInv'
      BY <1>4 DEF Send, SlotInv, SlotsApart
    <3> QED
      BY <3>1, <3>2
  <2>2. CASE ctx[c] # "live"
    <3>1. Finish(c, "error") \/ Pause(c, 0)
      BY <1>4, <2>2, RetryOutcome DEF Send
    <3>2. after' \in [Calls -> RetryAfters] /\ orphan' \in [Calls -> BOOLEAN]
      BY <1>4, ClientAssumption DEF Send, TypeOK
    <3> QED
      BY <1>4, <3>1, <3>2, OutcomeKeeps DEF Send
  <2> QED
    BY <2>1, <2>2
<1>5. CASE Receive(c)
  <2>1. CASE answer[c] = "ok" /\ Finish(c, "ok")
    BY <1>5, <2>1, ClientAssumption, OutcomeKeeps DEF Receive, TypeOK
  <2>2. CASE answer[c] = "refused" /\ Finish(c, "error")
    BY <1>5, <2>2, ClientAssumption, OutcomeKeeps DEF Receive, TypeOK
  <2>3. CASE answer[c] = "busy" /\ Retry(c, after[c])
    <3>1. after[c] \in Nat
      BY ClientAssumption DEF TypeOK
    <3>2. Finish(c, "error") \/ Pause(c, after[c])
      BY <2>3, <3>1, RetryOutcome
    <3> QED
      BY <1>5, <3>1, <3>2, OutcomeKeeps DEF Receive, TypeOK
  <2> QED
    BY <1>5, <2>1, <2>2, <2>3 DEF Receive
<1>6. CASE Lose(c)
  <2>1. Finish(c, "error") \/ Pause(c, 0)
    BY <1>6, RetryOutcome DEF Lose
  <2>2. orphan' \in [Calls -> BOOLEAN] /\ after' \in [Calls -> RetryAfters]
    BY <1>6 DEF Lose, TypeOK
  <2> QED
    BY <1>6, <2>1, <2>2, OutcomeKeeps DEF Lose
<1> QED
  BY <1>1, <1>2, <1>3, <1>4, <1>5, <1>6 DEF Do

\* The end of a context, the steps of the server and the clock.
LEMMA WorldKeeps ==
    ASSUME ClientInv, NEW c \in Calls, Cancel(c) \/ Server(c)
    PROVE  ClientInv'
<1> USE DEF ClientInv, client, server, Waiting
<1>1. CASE Cancel(c)
  BY <1>1 DEF Cancel, TypeOK, KeyInv, SlotInv, SlotsApart, HoldInv
<1>2. CASE ServerBegin(c)
  <2>1. TypeOK' /\ KeyInv'
    BY <1>2 DEF ServerBegin, TypeOK, KeyInv
  <2>2. SlotInv' /\ HoldInv'
    BY <1>2 DEF ServerBegin, SlotInv, SlotsApart, HoldInv
  <2> QED
    BY <2>1, <2>2
<1>3. CASE ServerApply(c)
  <2>1. applied[c] = 0
    BY <1>3 DEF ServerApply, TypeOK, KeyInv
  <2>2. TypeOK' /\ KeyInv'
    BY <1>3, <2>1 DEF ServerApply, TypeOK, KeyInv
  <2>3. SlotInv' /\ HoldInv'
    BY <1>3 DEF ServerApply, SlotInv, SlotsApart, HoldInv
  <2> QED
    BY <2>2, <2>3
<1>4. CASE ServerRefuse(c)
  <2>1. TypeOK' /\ KeyInv'
    BY <1>4 DEF ServerRefuse, TypeOK, KeyInv
  <2>2. SlotInv' /\ HoldInv'
    BY <1>4 DEF ServerRefuse, SlotInv, SlotsApart, HoldInv
  <2> QED
    BY <2>1, <2>2
<1>5. CASE ServerAgain(c)
  BY <1>5 DEF ServerAgain, TypeOK, KeyInv, SlotInv, SlotsApart, HoldInv
<1> QED
  BY <1>1, <1>2, <1>3, <1>4, <1>5 DEF Server

\* Time passes for the slot, for the claims, for the waits and for the server
\* alike.
LEMMA TickKeeps ==
    ASSUME ClientInv, Tick
    PROVE  ClientInv'
<1> USE DEF ClientInv
<1>1. \A n \in Nat : Elapse(n) \in Nat /\ (n = 0 => Elapse(n) = 0)
  BY DEF Elapse
<1>2. \A m, n \in Nat : m <= n => Elapse(m) <= Elapse(n)
  BY DEF Elapse
<1>3. TypeOK'
  BY <1>1 DEF Tick, TypeOK
<1>4. KeyInv'
  BY DEF Tick, KeyInv
<1>5. SlotInv'
  BY <1>1, <1>2 DEF Tick, TypeOK, SlotInv, SlotsApart
<1>6. HoldInv'
  BY <1>1, <1>2 DEF Tick, TypeOK, HoldInv
<1> QED
  BY <1>3, <1>4, <1>5, <1>6

\* Every step keeps the invariant.
LEMMA ClientInductive == ClientInv /\ [Next]_vars => ClientInv'
<1> SUFFICES ASSUME ClientInv, [Next]_vars
             PROVE  ClientInv'
  OBVIOUS
<1>1. CASE Next
  BY <1>1, TickKeeps, DoKeeps, WorldKeeps DEF Next
<1>2. CASE UNCHANGED vars
  BY <1>2 DEF vars, ClientInv, TypeOK, KeyInv, SlotInv, SlotsApart, HoldInv
<1> QED
  BY <1>1, <1>2

\* The invariant holds of every behaviour, whatever the bounds.
LEMMA ClientSafe == Spec => []ClientInv
BY InitClient, ClientInductive, PTL DEF Spec

\* Type correctness of concurrent calls (the state of every do).
THEOREM Typed == Spec => []TypeOK
BY ClientSafe, PTL DEF ClientInv

\* However many calls wait for a slot, two claims are never closer than
\* minGap (waitRate).
THEOREM SlotsKept == Spec => []SlotsApart
BY ClientSafe, PTL DEF ClientInv, SlotInv

\* No attempt starts before the server wants to see the call again
\* (retryDelay and waitContext).
THEOREM NotEarly == Spec => RetryNotEarly
<1>1. ClientInv => [\A c \in Calls : pc[c] = "send" /\ pc'[c] = "sent" => hold[c] = 0]_vars
  BY DEF ClientInv, HoldInv
<1> QED
  BY <1>1, ClientSafe, PTL DEF RetryNotEarly

(***************************************************************************)
(* The contract of a call                                                  *)
(***************************************************************************)
\* The end of a call is a step of the contract, its success after the write.
LEMMA FinishReturns ==
    ASSUME ClientInv, NEW c \in Calls, NEW r \in {"ok", "error"}, Finish(c, r),
           pc[c] # "done", r = "ok" => applied[c] = 1, UNCHANGED applied
    PROVE  Contract!Return(c, r)
BY DEF ClientInv, TypeOK, KeyInv, Finish, Contract!Return

\* Every step of the client, of the server and of the clock is a step of the
\* contract or leaves it alone.
LEMMA StepMeetsContract ==
    ClientInv /\ [Next]_vars => [Contract!Next]_<<applied, result>>
<1> SUFFICES ASSUME ClientInv, [Next]_vars
             PROVE  Contract!Next \/ UNCHANGED <<applied, result>>
  OBVIOUS
<1> USE DEF client, server
<1>1. CASE Tick \/ UNCHANGED vars
  BY <1>1 DEF Tick, vars
<1>2. ASSUME NEW c \in Calls, Cancel(c) \/ Server(c)
      PROVE  Contract!Next \/ UNCHANGED <<applied, result>>
  <2>1. CASE Cancel(c) \/ ServerBegin(c) \/ ServerRefuse(c) \/ ServerAgain(c)
    BY <2>1 DEF Cancel, ServerBegin, ServerRefuse, ServerAgain
  <2>2. CASE ServerApply(c)
    <3>1. applied[c] = 0
      BY <2>2 DEF ServerApply, ClientInv, TypeOK, KeyInv
    <3>2. Contract!Apply(c)
      BY <2>2, <3>1 DEF ServerApply, Contract!Apply
    <3> QED
      BY <3>2 DEF Contract!Next
  <2> QED
    BY <1>2, <2>1, <2>2 DEF Server
<1>3. ASSUME NEW c \in Calls, Do(c)
      PROVE  Contract!Next \/ UNCHANGED <<applied, result>>
  <2>1. UNCHANGED applied /\ pc[c] # "done"
    BY <1>3 DEF Do, Start, WaitRate, Wake, Send, Receive, Lose
  <2>2. \/ UNCHANGED result
        \/ Finish(c, "error")
        \/ Finish(c, "ok") /\ answer[c] = "ok"
    <3>1. CASE Start(c) \/ WaitRate(c) \/ Wake(c)
      BY <3>1 DEF Start, WaitRate, Wake
    <3>2. CASE Send(c)
      BY <3>2, RetryOutcome DEF Send, Pause, ClientInv
    <3>3. CASE Receive(c)
      <4>1. after[c] \in Nat
        BY ClientAssumption DEF ClientInv, TypeOK
      <4> QED
        BY <3>3, <4>1, RetryOutcome DEF Receive, Pause, ClientInv
    <3>4. CASE Lose(c)
      BY <3>4, RetryOutcome DEF Lose, Pause, ClientInv
    <3> QED
      BY <1>3, <3>1, <3>2, <3>3, <3>4 DEF Do
  <2>3. answer[c] = "ok" => applied[c] = 1
    BY DEF ClientInv, KeyInv
  <2> QED
    BY <2>1, <2>2, <2>3, FinishReturns DEF Contract!Next, Contract!Results
<1> QED
  BY <1>1, <1>2, <1>3 DEF Next

\* One write at most, and success only after it, however often the request is
\* repeated, lost or answered late: one idempotency key for all attempts (do).
THEOREM CallMeetsContract == Spec => ContractSpec
<1>1. Init => Contract!Init
  BY DEF Init, Contract!Init
<1> QED
  BY <1>1, ClientSafe, StepMeetsContract, PTL DEF Spec, ContractSpec, Contract!Spec
===============================================================================
