---------------------------- MODULE PorkbunClient ----------------------------
(***************************************************************************)
(* Calls of one Porkbun client (porkbun/client.go) that run at the same    *)
(* time: each is one "do" with its retries, its backoff and its share of   *)
(* the request rate, under a context that may die at any point.  Porkbun   *)
(* executes a write behind an idempotency key; its answers are late, lost, *)
(* truncated or refusals.                                                  *)
(*                                                                         *)
(* Time is a clock tick of one second.  Instants are kept as what is left  *)
(* until them: slot until the next request may start, timer[c] until the   *)
(* wait of a call is over, hold[c] until the server wants to see the call  *)
(* again.                                                                  *)
(***************************************************************************)
EXTENDS Naturals

CONSTANTS
    Calls,           \* the calls made, once each
    MaxRetries,      \* maxRetries
    MinGap,          \* minGap, in ticks
    MaxBackoff,      \* maxBackoff, in ticks
    MaxServerDelay,  \* maxServerRetryDelay, in ticks
    RetryAfters      \* the delays a server may ask for, none (0) included

ASSUME ClientAssumption ==
    /\ {MaxRetries, MinGap, MaxBackoff, MaxServerDelay} \subseteq Nat
    /\ 0 \in RetryAfters /\ RetryAfters \subseteq Nat

VARIABLES
    pc, ctx,         \* where a call is, and its context
    attempt,         \* the loop counter of do
    timer,           \* waitContext
    slot,            \* minGap less the time since lastCall
    result,          \* what do returned
    answer, after,   \* the server's answer to the request under way, and its Retry-After
    srv,             \* what the server knows of the call's idempotency key
    orphan,          \* a request nobody waits for is still on its way
    applied,         \* how often the write has happened
    hold, claimed    \* ticks until the server wants the call back; since the slot was claimed

client == <<pc, attempt, timer, result>>
server == <<srv, applied>>
vars   == <<pc, ctx, attempt, timer, slot, result, answer, after, srv, orphan, applied, hold, claimed>>

Dead(c) == ctx[c] # "live"

Smaller(m, n) == IF m <= n THEN m ELSE n

\* computeBackoff: 2^attempt seconds up to maxBackoff, with a quarter of
\* jitter either way.
Backoffs(n) ==
    LET base == Smaller(2 ^ n, MaxBackoff)
    IN  {d \in 0 .. (2 * base) : 3 * base <= 4 * d /\ 4 * d < 5 * base}

Init ==
    /\ pc = [c \in Calls |-> "idle"]
    /\ ctx = [c \in Calls |-> "live"]
    /\ attempt = [c \in Calls |-> 0]
    /\ timer = [c \in Calls |-> 0]
    /\ slot = 0
    /\ result = [c \in Calls |-> "none"]
    /\ answer = [c \in Calls |-> "none"]
    /\ after = [c \in Calls |-> 0]
    /\ srv = [c \in Calls |-> "new"]
    /\ orphan = [c \in Calls |-> FALSE]
    /\ applied = [c \in Calls |-> 0]
    /\ hold = [c \in Calls |-> 0]
    /\ claimed = [c \in Calls |-> 0]

Finish(c, r) ==
    /\ pc' = [pc EXCEPT ![c] = "done"]
    /\ result' = [result EXCEPT ![c] = r]
    /\ UNCHANGED <<attempt, timer>>

\* do, up to its loop: the key is drawn once for all attempts.
Start(c) ==
    /\ pc[c] = "idle"
    /\ \/ /\ Dead(c)
          /\ Finish(c, "error")
       \/ /\ ~Dead(c)
          /\ pc' = [pc EXCEPT ![c] = "rate"]
          /\ UNCHANGED <<attempt, timer, result>>
    /\ UNCHANGED <<ctx, slot, answer, after, server, orphan, hold, claimed>>

\* waitRate under rateMu: claim the slot, or sleep as long as it takes.
WaitRate(c) ==
    /\ pc[c] = "rate"
    /\ UNCHANGED <<ctx, answer, after, server, orphan, hold>>
    /\ \/ /\ Dead(c)
          /\ Finish(c, "error")
          /\ UNCHANGED <<slot, claimed>>
       \/ /\ ~Dead(c) /\ slot = 0
          /\ slot' = MinGap
          /\ claimed' = [claimed EXCEPT ![c] = MinGap]
          /\ pc' = [pc EXCEPT ![c] = "send"]
          /\ UNCHANGED <<attempt, timer, result>>
       \/ /\ ~Dead(c) /\ slot > 0
          /\ timer' = [timer EXCEPT ![c] = slot]
          /\ pc' = [pc EXCEPT ![c] = "rateWait"]
          /\ UNCHANGED <<attempt, slot, result, claimed>>

\* Mutants of Wake: the sleeper takes the slot it waited for without another
\* look; it sleeps on when its context dies.
WakeClaims(c) ==
    /\ pc[c] \in {"rateWait", "backoff"} /\ timer[c] = 0
    /\ slot' = MinGap
    /\ claimed' = [claimed EXCEPT ![c] = MinGap]
    /\ pc' = [pc EXCEPT ![c] = "send"]
    /\ UNCHANGED <<ctx, attempt, timer, result, answer, after, server, orphan, hold>>

WakeDeaf(c) ==
    /\ pc[c] \in {"rateWait", "backoff"} /\ timer[c] = 0
    /\ pc' = [pc EXCEPT ![c] = "rate"]
    /\ UNCHANGED <<ctx, attempt, timer, slot, result, answer, after, server, orphan, hold, claimed>>

\* waitContext returns; after the rate wait the slot is looked at again.
Wake(c) ==
    /\ pc[c] \in {"rateWait", "backoff"}
    /\ \/ /\ Dead(c)
          /\ Finish(c, "error")
       \/ /\ ~Dead(c) /\ timer[c] = 0
          /\ pc' = [pc EXCEPT ![c] = "rate"]
          /\ UNCHANGED <<attempt, timer, result>>
    /\ UNCHANGED <<ctx, slot, answer, after, server, orphan, hold, claimed>>

\* Mutants of Retry: what the server asks for is not looked at; the attempts
\* are not counted, or one too many is made.
RetryEager(c, wait) ==
    \/ /\ attempt[c] = MaxRetries
       /\ Finish(c, "error")
    \/ /\ attempt[c] < MaxRetries
       /\ attempt' = [attempt EXCEPT ![c] = @ + 1]
       /\ \E d \in Backoffs(attempt[c] + 1) : timer' = [timer EXCEPT ![c] = d]
       /\ pc' = [pc EXCEPT ![c] = "backoff"]
       /\ UNCHANGED result

RetryUncounted(c, wait) ==
    /\ \E d \in Backoffs(1) : timer' = [timer EXCEPT ![c] = d]
    /\ pc' = [pc EXCEPT ![c] = "backoff"]
    /\ UNCHANGED <<attempt, result>>

RetryOneMore(c, wait) ==
    \/ /\ attempt[c] > MaxRetries
       /\ Finish(c, "error")
    \/ /\ attempt[c] <= MaxRetries
       /\ attempt' = [attempt EXCEPT ![c] = @ + 1]
       /\ \E d \in Backoffs(attempt[c] + 1) : timer' = [timer EXCEPT ![c] = IF d < wait THEN wait ELSE d]
       /\ pc' = [pc EXCEPT ![c] = "backoff"]
       /\ UNCHANGED result

\* A retryable error: retryDelay and the wait before the next attempt, or the
\* end when the attempts are used up or the server asks for too long a pause.
Retry(c, wait) ==
    \/ /\ attempt[c] = MaxRetries
       /\ Finish(c, "error")
    \/ /\ attempt[c] < MaxRetries
       /\ \E d \in Backoffs(attempt[c] + 1) :
             \/ /\ d < wait /\ wait > MaxServerDelay
                /\ Finish(c, "error")
             \/ /\ d < wait => wait <= MaxServerDelay
                /\ attempt' = [attempt EXCEPT ![c] = @ + 1]
                /\ timer' = [timer EXCEPT ![c] = IF d < wait THEN wait ELSE d]
                /\ pc' = [pc EXCEPT ![c] = "backoff"]
                /\ UNCHANGED result

\* Mutant of Send: every attempt has a key of its own.
SendNewKey(c) ==
    /\ pc[c] = "send" /\ ~Dead(c)
    /\ pc' = [pc EXCEPT ![c] = "sent"]
    /\ answer' = [answer EXCEPT ![c] = "none"]
    /\ after' = [after EXCEPT ![c] = 0]
    /\ srv' = [srv EXCEPT ![c] = "new"]
    /\ UNCHANGED <<ctx, attempt, timer, slot, result, orphan, applied, hold, claimed>>

\* doOnce, up to the request: under a dead context none is sent.  A deadline
\* passes for a network timeout, so it takes the way of a retryable error.
Send(c) ==
    /\ pc[c] = "send"
    /\ \/ /\ ctx[c] = "cancelled"
          /\ Finish(c, "error")
       \/ /\ ctx[c] = "expired"
          /\ Retry(c, 0)
       \/ /\ ctx[c] = "live"
          /\ pc' = [pc EXCEPT ![c] = "sent"]
          /\ UNCHANGED <<attempt, timer, result>>
    /\ answer' = [answer EXCEPT ![c] = "none"]
    /\ after' = [after EXCEPT ![c] = 0]
    /\ UNCHANGED <<ctx, slot, server, orphan, hold, claimed>>

\* An answer arrives in full.
Receive(c) ==
    /\ pc[c] = "sent"
    /\ UNCHANGED <<ctx, slot, after, server, orphan, claimed>>
    /\ answer' = [answer EXCEPT ![c] = "none"]
    /\ hold' = [hold EXCEPT ![c] = after[c]]
    /\ \/ /\ answer[c] = "ok"
          /\ Finish(c, "ok")
       \/ /\ answer[c] = "refused"
          /\ Finish(c, "error")
       \/ /\ answer[c] = "busy"
          /\ Retry(c, after[c])

\* The connection breaks, the HTTP client's own timeout strikes, the answer
\* is cut short, or the context dies; the request may still be on its way.
Lose(c) ==
    /\ pc[c] = "sent"
    /\ orphan' = [orphan EXCEPT ![c] = @ \/ answer[c] = "none"]
    /\ answer' = [answer EXCEPT ![c] = "none"]
    /\ IF ctx[c] = "cancelled" THEN Finish(c, "error") ELSE Retry(c, 0)
    /\ UNCHANGED <<ctx, slot, after, server, hold, claimed>>

\* The caller's context is cancelled, or its deadline passes.
Cancel(c) ==
    /\ pc[c] # "done" /\ ~Dead(c)
    /\ \E why \in {"cancelled", "expired"} : ctx' = [ctx EXCEPT ![c] = why]
    /\ UNCHANGED <<client, slot, answer, after, server, orphan, hold, claimed>>

(***************************************************************************)
(* Porkbun, as the client's handling of its answers expects it             *)
(***************************************************************************)
Waiting(c) == pc[c] = "sent" /\ answer[c] = "none"

\* The first request with a key starts the write.
ServerBegin(c) ==
    /\ srv[c] = "new"
    /\ \/ /\ Waiting(c)
          /\ answer' = [answer EXCEPT ![c] = "begun"]
          /\ UNCHANGED orphan
       \/ /\ orphan[c]
          /\ orphan' = [orphan EXCEPT ![c] = FALSE]
          /\ UNCHANGED answer
    /\ srv' = [srv EXCEPT ![c] = "running"]
    /\ UNCHANGED <<client, ctx, slot, after, applied, hold, claimed>>

\* The write happens; the answer to the request that started it is a success,
\* or an error all the same.
ServerApply(c) ==
    /\ srv[c] = "running"
    /\ srv' = [srv EXCEPT ![c] = "done"]
    /\ applied' = [applied EXCEPT ![c] = @ + 1]
    /\ \E say \in {"ok", "busy"} :
          answer' = IF answer[c] = "begun" THEN [answer EXCEPT ![c] = say] ELSE answer
    /\ UNCHANGED <<client, ctx, slot, after, orphan, hold, claimed>>

\* A request is turned down without effect (rate limits, 5xx, bad input):
\* before the server looks at its key, or when the write it began fails.
ServerRefuse(c) ==
    /\ \/ Waiting(c) /\ srv' = srv
       \/ answer[c] = "begun" /\ srv[c] = "running" /\ srv' = [srv EXCEPT ![c] = "new"]
    /\ \/ /\ answer' = [answer EXCEPT ![c] = "refused"]
          /\ UNCHANGED after
       \/ /\ answer' = [answer EXCEPT ![c] = "busy"]
          /\ \E r \in RetryAfters : after' = [after EXCEPT ![c] = r]
    /\ UNCHANGED <<client, ctx, slot, orphan, applied, hold, claimed>>

\* A request with a known key: the answer of the first one is replayed, or
\* IDEMPOTENCY_KEY_IN_USE while the first one is in progress.
ServerAgain(c) ==
    /\ Waiting(c) /\ srv[c] # "new"
    /\ answer' = [answer EXCEPT ![c] = IF srv[c] = "done" THEN "ok" ELSE "busy"]
    /\ UNCHANGED <<client, ctx, slot, after, server, orphan, hold, claimed>>

Elapse(n) == IF n = 0 THEN 0 ELSE n - 1

Tick ==
    /\ slot' = Elapse(slot)
    /\ timer' = [c \in Calls |-> Elapse(timer[c])]
    /\ hold' = [c \in Calls |-> Elapse(hold[c])]
    /\ claimed' = [c \in Calls |-> Elapse(claimed[c])]
    /\ UNCHANGED <<pc, ctx, attempt, result, answer, after, srv, orphan, applied>>

Do(c) == Start(c) \/ WaitRate(c) \/ Wake(c) \/ Send(c) \/ Receive(c) \/ Lose(c)

Server(c) == ServerBegin(c) \/ ServerApply(c) \/ ServerRefuse(c) \/ ServerAgain(c)

Next == Tick \/ \E c \in Calls : Do(c) \/ Cancel(c) \/ Server(c)

Spec == Init /\ [][Next]_vars

(***************************************************************************)
(* Fairness.  A call that has begun goes on: its waits select on the       *)
(* context, its request ends with the HTTP client's timeout at the latest. *)
(* Porkbun need not answer, and nobody has to make or to cancel a call.    *)
(* Time need not pass either: the property that needs it says so.          *)
(***************************************************************************)
Advance(c) == WaitRate(c) \/ Wake(c) \/ Send(c) \/ Receive(c) \/ Lose(c)

FairSpec == Spec /\ \A c \in Calls : WF_vars(Advance(c))

(***************************************************************************)
(* Properties                                                              *)
(***************************************************************************)
\* Every variable stays in its type.
TypeOK ==
    /\ pc \in [Calls -> {"idle", "rate", "rateWait", "send", "sent", "backoff", "done"}]
    /\ ctx \in [Calls -> {"live", "cancelled", "expired"}]
    /\ attempt \in [Calls -> 0 .. MaxRetries]
    /\ timer \in [Calls -> Nat]
    /\ slot \in Nat
    /\ result \in [Calls -> {"none", "ok", "error"}]
    /\ answer \in [Calls -> {"none", "begun", "ok", "refused", "busy"}]
    /\ after \in [Calls -> RetryAfters]
    /\ srv \in [Calls -> {"new", "running", "done"}]
    /\ orphan \in [Calls -> BOOLEAN]
    /\ applied \in [Calls -> 0 .. 1]
    /\ hold \in [Calls -> Nat]
    /\ claimed \in [Calls -> Nat]

\* A write happens at most once however often it is sent, and success is only
\* reported of a write that happened: one idempotency key for all attempts.
Contract == INSTANCE CallContract
ContractSpec == Contract!Spec

\* Requests claim their slots at least minGap apart, whoever of several waiters
\* wakes first (waitRate claims under rateMu and looks again after waking).
SlotsApart == \A c, d \in Calls : c # d => claimed[c] = 0 \/ claimed[d] = 0

\* A request is never repeated before the server wants to see it again: its
\* Retry-After is waited for, or the call fails (retryDelay).
RetryNotEarly == [][\A c \in Calls : pc[c] = "send" /\ pc'[c] = "sent" => hold[c] = 0]_vars

\* As time passes every call ends, whatever Porkbun answers and however many
\* calls compete for the slots.
CallEnds == WF_vars(Tick) => \A c \in Calls : pc[c] = "rate" ~> pc[c] = "done"

\* A call whose context has died returns without waiting for the clock, for
\* Porkbun or for another caller (rateMu is not held during the waits).
CancelPrompt == \A c \in Calls : Dead(c) /\ pc[c] # "idle" ~> pc[c] = "done"
==============================================================================
