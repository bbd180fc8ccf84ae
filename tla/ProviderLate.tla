----------------------------- MODULE ProviderLate -----------------------------
(***************************************************************************)
(* Provider with a Porkbun that may still commit a create after the client *)
(* has given it up.  porkbun/client.go expects as much: a retried write    *)
(* meets IDEMPOTENCY_KEY_IN_USE while the first attempt is in progress,    *)
(* and the last attempt of a call has a deadline like every other.         *)
(***************************************************************************)
EXTENDS Provider

VARIABLE late       \* the creates given up that may yet be committed

lateVars == <<vars, late>>

LateInit == Init /\ late = {}

\* A create ends in an error before it has any effect, but not for good.
GiveUpCreate(t) ==
    /\ pc[t] = "work" /\ ctx[t]
    /\ \E s \in cur[t] : \E call \in NextCalls(t, s) :
          /\ call.cut = {}
          /\ Abandon(t, s, call)
          /\ late' = late \cup call.put
    /\ zone' = zone

\* Porkbun commits it under an id of its own.
CommitLate ==
    /\ \E r \in late : \E i \in NextId(zone) :
          /\ zone' = zone \cup {[r EXCEPT !.id = i]}
          /\ late' = late \ {r}
    /\ UNCHANGED <<memory, operationMu, pc, op, ctx, locals, controller, bounds>>

LateNext ==
    \/ Next /\ UNCHANGED late
    \/ \E t \in Threads : GiveUpCreate(t)
    \/ CommitLate

LateSpec == LateInit /\ [][LateNext]_lateVars

\* "Reverse that dependency before writing so an ambiguous main create can
\* never leave an unowned record" (provider/provider.go, the creates of
\* ApplyChanges): in a zone that began empty every record has a marker.
CreatesOwned == \A p \in Owned : Live(zone, p) => Marked(zone, p)
===============================================================================
