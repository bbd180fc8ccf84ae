----------------------------- MODULE ServerProofs -----------------------------
(***************************************************************************)
(* Proofs about the process around the provider, for any number of         *)
(* requests and any deadlines. One inductive invariant carries them: the   *)
(* order in which shutdown closes the two servers, the errors in errCh as  *)
(* a count of the listeners that ended, and what the rest of shutdown      *)
(* owes to the way the API server was left.                                *)
(***************************************************************************)
EXTENDS WebhookServer, TLAPS

\* Shutdown closes the servers one after the other, and none before it begins.
ShutInv ==
    /\ run = "select" => ~shut["api"] /\ ~shut["ops"]
    /\ run # "select" => shut["api"]
    /\ run \in {"ops", "wait", "returned"} => shut["ops"]

\* Each listener that has ended has sent one error at most.
One(l) == IF srv[l] = "ended" THEN 1 ELSE 0

ErrsInv == errs <= One("api") + One("ops")

\* The API server is left with nothing in use, or when its time is up and
\* with an error for the end of the process.
LeftInv ==
    run \in {"ops", "wait", "returned"} /\ ~Quiet => since >= Grace /\ exit = "error"

ServerInv == TypeOK /\ ShutInv /\ ErrsInv /\ LeftInv /\ NeverHalfServing /\ StopsInTime

\* What a step leaves of the invariant's parts when it moves only requests,
\* the readiness check or the backend.
LEMMA Elsewhere ==
    ASSUME ServerInv, TypeOK', UNCHANGED <<listeners, running>>,
           \A r \in Requests : req'[r] # "none" => req[r] # "none" \/ ~shut["api"]
    PROVE  ServerInv'
<1>1. ShutInv' /\ ErrsInv' /\ NeverHalfServing' /\ StopsInTime'
  BY DEF ServerInv, ShutInv, ErrsInv, One, NeverHalfServing, StopsInTime, listeners, running
<1>2. LeftInv'
  BY DEF ServerInv, ShutInv, LeftInv, Quiet, TypeOK, listeners, running
<1> QED
  BY <1>1, <1>2 DEF ServerInv

\* Waiting for requests, the mutex or the clock never puts shutdown off: when
\* its time is up, something is due.
LEMMA TimeUp ==
    ASSUME ServerInv, Alive, Ending, ~Due
    PROVE  since < Grace
<1>1. run = "api"
  <2>1. run \in {"select", "api", "ops", "wait"}
    BY DEF ServerInv, TypeOK, Alive
  <2>2. run # "select" /\ run # "ops"
    BY DEF Due, Ending
  <2>3. run # "wait"
    <3> SUFFICES ASSUME run = "wait" PROVE FALSE
      OBVIOUS
    <3>1. shut["api"] /\ shut["ops"]
      BY DEF ServerInv, ShutInv
    <3>2. PICK l \in Listeners : srv[l] # "ended"
      BY DEF Due, Joined
    <3>3. shut[l]
      BY <3>1 DEF Listeners
    <3>4. srv[l] = "failing"
      BY <3>2, <3>3 DEF Due, ServerInv, TypeOK
    <3>5. errs < ErrCap
      <4>1. errs \in 0..2 /\ errs <= One("api") + One("ops")
        BY DEF ServerInv, TypeOK, ErrsInv
      <4>2. One("api") \in {0, 1} /\ One("ops") \in {0, 1}
        BY DEF One
      <4>3. One(l) = 0 /\ l \in {"api", "ops"}
        BY <3>2 DEF One, Listeners
      <4> QED
        BY <4>1, <4>2, <4>3 DEF ErrCap
    <3> QED
      BY <3>4, <3>5 DEF Due
  <2> QED
    BY <2>1, <2>2, <2>3
<1>2. ~GraceOver
  BY <1>1 DEF Due
<1> QED
  BY <1>2, TimesAssumption DEF GraceOver, ServerInv, TypeOK

LEMMA InitServer == Init => ServerInv
<1> SUFFICES ASSUME Init PROVE ServerInv
  OBVIOUS
<1> USE DEF Init
<1>1. TypeOK
  <2>1. tickerLeft \in 1..Period /\ ctxLeft \in 0..ProbeTimeout /\ cacheLeft \in 0..CacheTTL
    BY TimesAssumption
  <2>2. since \in 0..(Grace + 1) /\ dark \in 0..(Patience + 1) /\ errs \in 0..2
    BY TimesAssumption DEF Patience
  <2> QED
    BY <2>1, <2>2, Zenon DEF TypeOK
<1>2. ShutInv /\ ErrsInv
  BY DEF ShutInv, ErrsInv, One, Listeners
<1>3. LeftInv /\ NeverHalfServing /\ StopsInTime
  BY TimesAssumption DEF LeftInv, NeverHalfServing, StopsInTime, Listeners
<1> QED
  BY <1>1, <1>2, <1>3 DEF ServerInv

\* A read, however it ends, leaves a cache that lives at most its TTL.
LEMMA CacheKept ==
    ASSUME TypeOK, ReadOk \/ ReadError
    PROVE  cacheLeft' \in 0..CacheTTL /\ pending' \in BOOLEAN
<1>1. cacheLeft' \in 0..CacheTTL
  <2>1. cacheLeft' = cacheLeft \/ cacheLeft' = CacheTTL \/ cacheLeft' = 0
    BY Zenon DEF ReadOk, ReadError
  <2>2. cacheLeft \in 0..CacheTTL /\ CacheTTL \in Nat
    BY TimesAssumption DEF TypeOK
  <2> QED
    BY <2>1, <2>2
<1>2. pending' \in BOOLEAN
  BY DEF ReadOk, ReadError, TypeOK
<1> QED
  BY <1>1, <1>2

LEMMA TypeStep == TypeOK /\ [Next]_vars => TypeOK'
<1> SUFFICES ASSUME TypeOK, [Next]_vars PROVE TypeOK'
  OBVIOUS
<1> USE DEF TypeOK, listeners, running, checking, backend
<1>1. ASSUME NEW l \in Listeners, ListenOk(l) \/ ListenFail(l) \/ ReportError(l) \/ ListenEnd(l)
      PROVE  TypeOK'
  <2>1. CASE ListenOk(l)
    BY <2>1 DEF ListenOk
  <2>2. CASE ListenFail(l)
    BY <2>2 DEF ListenFail
  <2>3. CASE ReportError(l)
    BY <2>3 DEF ReportError, ErrCap
  <2>4. CASE ListenEnd(l)
    BY <2>4 DEF ListenEnd
  <2> QED
    BY <1>1, <2>1, <2>2, <2>3, <2>4
<1>2. CASE SelectSignal
  BY <1>2 DEF SelectSignal, BeginShutdown
<1>3. CASE SelectError
  <2>1. errs' \in 0..2
    BY <1>3 DEF SelectError
  <2>2. shut' \in [Listeners -> BOOLEAN] /\ run' = "api" /\ exit' = "error"
    BY <1>3 DEF SelectError, BeginShutdown
  <2> QED
    BY <1>3, <2>1, <2>2, Zenon DEF SelectError, BeginShutdown
<1>4. CASE ApiShutdown
  BY <1>4 DEF ApiShutdown, ApiError
<1>5. CASE OpsShutdown
  BY <1>5 DEF OpsShutdown
<1>6. CASE RunReturn
  BY <1>6 DEF RunReturn
<1>7. CASE Signal
  BY <1>7 DEF Signal
<1>8. ASSUME NEW r \in Requests, RequestStart(r) \/ RequestLock(r) \/ RequestRead(r) \/ RequestApply(r)
      PROVE  TypeOK'
  <2>1. CASE RequestStart(r)
    BY <2>1 DEF RequestStart, Become
  <2>2. CASE RequestLock(r)
    BY <2>2 DEF RequestLock, Become
  <2>3. CASE RequestRead(r)
    <3>1. cacheLeft' \in 0..CacheTTL /\ pending' \in BOOLEAN
      BY <2>3, CacheKept DEF RequestRead
    <3>2. req' \in [Requests -> {"none", "waiting", "holding"}]
      BY <2>3 DEF RequestRead, Become
    <3> QED
      BY <2>3, <3>1, <3>2 DEF RequestRead
  <2>4. CASE RequestApply(r)
    <3>1. cacheLeft' \in 0..CacheTTL
      <4>1. cacheLeft' = cacheLeft \/ cacheLeft' = 0
        BY <2>4, Zenon DEF RequestApply
      <4> QED
        BY <4>1, TimesAssumption
    <3>2. pending' \in BOOLEAN
      BY <2>4 DEF RequestApply
    <3>3. req' \in [Requests -> {"none", "waiting", "holding"}]
      BY <2>4 DEF RequestApply, Become
    <3> QED
      BY <2>4, <3>1, <3>2, <3>3 DEF RequestApply
  <2> QED
    BY <1>8, <2>1, <2>2, <2>3, <2>4
<1>9. CASE ProbeBegin
  <2>1. ctxLeft' \in 0..ProbeTimeout
    BY <1>9, TimesAssumption DEF ProbeBegin
  <2>2. tickDue' \in BOOLEAN
    BY <1>9 DEF ProbeBegin
  <2> QED
    BY <1>9, <2>1, <2>2 DEF ProbeBegin
<1>10. CASE ProbeLock
  BY <1>10 DEF ProbeLock
<1>11. CASE ProbeCached
  BY <1>11 DEF ProbeCached, Find
<1>12. CASE ProbeAnswer
  <2>1. cacheLeft' \in 0..CacheTTL /\ pending' \in BOOLEAN
    BY <1>12, CacheKept DEF ProbeAnswer
  <2> QED
    BY <1>12, <2>1 DEF ProbeAnswer, Find
<1>13. CASE ProbeError
  <2>1. cacheLeft' \in 0..CacheTTL /\ pending' \in BOOLEAN
    BY <1>13, CacheKept DEF ProbeError
  <2> QED
    BY <1>13, <2>1 DEF ProbeError, Find
<1>14. CASE ProbeSwap
  BY <1>14 DEF ProbeSwap
<1>15. CASE ProbeEnd
  BY <1>15 DEF ProbeEnd
<1>16. CASE PorkbunChanges
  BY <1>16, TimesAssumption DEF PorkbunChanges, Patience
<1>17. CASE Tick
  <2>1. Patience \in Nat
    BY TimesAssumption DEF Patience
  <2>2. ctxLeft' \in 0..ProbeTimeout /\ cacheLeft' \in 0..CacheTTL
    BY <1>17, TimesAssumption DEF Tick, Down
  <2>3. tickerLeft' \in 1..Period /\ tickDue' \in BOOLEAN
    BY <1>17, TimesAssumption DEF Tick
  <2>4. since' \in 0..(Grace + 1)
    BY <1>17, TimesAssumption DEF Tick, Up
  <2>5. dark' \in 0..(Patience + 1)
    BY <1>17, <2>1 DEF Tick, Up
  <2> QED
    BY <1>17, <2>2, <2>3, <2>4, <2>5 DEF Tick
<1>18. CASE UNCHANGED vars
  BY <1>18 DEF vars
<1> QED
  BY <1>1, <1>2, <1>3, <1>4, <1>5, <1>6, <1>7, <1>8, <1>9, <1>10, <1>11, <1>12, <1>13,
     <1>14, <1>15, <1>16, <1>17, <1>18 DEF Next

\* The steps of the listeners.
LEMMA ListenerStep ==
    ASSUME ServerInv, TypeOK', NEW l \in Listeners,
           ListenOk(l) \/ ListenFail(l) \/ ReportError(l) \/ ListenEnd(l)
    PROVE  ServerInv'
<1> USE DEF ServerInv, TypeOK
<1>1. ShutInv' /\ LeftInv' /\ StopsInTime'
  BY DEF ListenOk, ListenFail, ReportError, ListenEnd, ShutInv, LeftInv, Quiet, StopsInTime, running
<1>2. ErrsInv' /\ NeverHalfServing'
  <2>1. CASE ListenOk(l) \/ ListenFail(l)
    BY <2>1 DEF ListenOk, ListenFail, ErrsInv, One, NeverHalfServing, Listeners, running
  <2>2. CASE ReportError(l)
    BY <2>2 DEF ReportError, ErrsInv, One, NeverHalfServing, Listeners, running
  <2>3. CASE ListenEnd(l)
    BY <2>3 DEF ListenEnd, ErrsInv, One, NeverHalfServing, ShutInv, Listeners, running
  <2> QED
    BY <2>1, <2>2, <2>3
<1> QED
  BY <1>1, <1>2

\* The steps of Run and shutdown, and the signal.
LEMMA RunStep ==
    ASSUME ServerInv, TypeOK',
           SelectSignal \/ SelectError \/ ApiShutdown \/ OpsShutdown \/ RunReturn \/ Signal
    PROVE  ServerInv'
<1> USE DEF ServerInv, TypeOK
<1>1. StopsInTime'
  BY DEF StopsInTime, SelectSignal, SelectError, BeginShutdown, ApiShutdown, OpsShutdown, RunReturn, Signal
<1>2. ShutInv'
  BY DEF ShutInv, SelectSignal, SelectError, BeginShutdown, ApiShutdown, OpsShutdown, RunReturn, Signal,
         Listeners, listeners
<1>3. ErrsInv'
  BY DEF ErrsInv, One, SelectSignal, SelectError, BeginShutdown, ApiShutdown, OpsShutdown, RunReturn,
         Signal, listeners
<1>4. NeverHalfServing'
  BY DEF NeverHalfServing, SelectSignal, SelectError, BeginShutdown, ApiShutdown, OpsShutdown, RunReturn,
         Signal, listeners
<1>5. LeftInv'
  <2>1. CASE ApiShutdown
    BY <2>1 DEF ApiShutdown, ApiError, GraceOver, LeftInv, Quiet
  <2>2. CASE SelectSignal \/ SelectError \/ OpsShutdown \/ RunReturn \/ Signal
    BY <2>2 DEF SelectSignal, SelectError, BeginShutdown, OpsShutdown, RunReturn, Signal, LeftInv, Quiet
  <2> QED
    BY <2>1, <2>2
<1> QED
  BY <1>1, <1>2, <1>3, <1>4, <1>5

LEMMA TickStep ==
    ASSUME ServerInv, TypeOK', Tick
    PROVE  ServerInv'
<1> USE DEF ServerInv
<1>1. since' = since \/ (since' = since + 1 /\ since < Grace)
  <2>1. CASE Ending
    BY <2>1, TimeUp, TimesAssumption DEF Tick, Up, TypeOK
  <2>2. CASE ~Ending
    BY <2>2 DEF Tick
  <2> QED
    BY <2>1, <2>2
<1>2. since \in Nat /\ Grace \in Nat
  BY TimesAssumption DEF TypeOK
<1>3. StopsInTime' /\ LeftInv'
  BY <1>1, <1>2 DEF Tick, StopsInTime, LeftInv, Quiet
<1>4. ShutInv' /\ ErrsInv' /\ NeverHalfServing'
  BY DEF Tick, ShutInv, ErrsInv, One, NeverHalfServing, listeners
<1> QED
  BY <1>3, <1>4

\* No step starts a request after Shutdown of the API server has begun.
LEMMA RequestStep ==
    ASSUME ServerInv, TypeOK', NEW r \in Requests,
           RequestStart(r) \/ RequestLock(r) \/ RequestRead(r) \/ RequestApply(r)
    PROVE  ServerInv'
<1>1. \A q \in Requests : req'[q] # "none" => req[q] # "none" \/ ~shut["api"]
  BY DEF RequestStart, RequestLock, RequestRead, RequestApply, Become, ServerInv, TypeOK
<1>2. UNCHANGED <<listeners, running>>
  BY DEF RequestStart, RequestLock, RequestRead, RequestApply
<1> QED
  BY <1>1, <1>2, Elsewhere

LEMMA ProbeStep ==
    ASSUME ServerInv, TypeOK',
           \/ ProbeBegin \/ ProbeLock \/ ProbeCached \/ ProbeAnswer \/ ProbeError \/ ProbeSwap \/ ProbeEnd
           \/ PorkbunChanges
    PROVE  ServerInv'
<1>1. UNCHANGED <<listeners, running, req>>
  BY DEF ProbeBegin, ProbeLock, ProbeCached, ProbeAnswer, ProbeError, ProbeSwap, ProbeEnd, PorkbunChanges, Find
<1> QED
  BY <1>1, Elsewhere

LEMMA StepServer == ServerInv /\ [Next]_vars => ServerInv'
<1> SUFFICES ASSUME ServerInv, [Next]_vars PROVE ServerInv'
  OBVIOUS
<1>1. TypeOK'
  BY TypeStep DEF ServerInv
<1>2. CASE UNCHANGED vars
  BY <1>1, <1>2, Elsewhere DEF vars
<1>3. CASE Next
  BY <1>1, <1>3, ListenerStep, RunStep, TickStep, RequestStep, ProbeStep DEF Next
<1> QED
  BY <1>2, <1>3

LEMMA ServerInvariant == Spec => []ServerInv
<1>1. ServerInv /\ [Next]_vars => ServerInv'
  BY StepServer
<1> QED
  BY InitServer, <1>1, PTL DEF Spec

\* The state is well typed.
THEOREM Typed == Spec => []TypeOK
<1>1. ServerInv => TypeOK
  BY DEF ServerInv
<1> QED
  BY ServerInvariant, <1>1, PTL

\* However many requests never end and whatever fails, Run returns within the
\* time of shutdown (wg.Wait and errCh never block it: webhook.go:149, 213).
THEOREM StopsWithinGrace == Spec => []StopsInTime
<1>1. ServerInv => StopsInTime
  BY DEF ServerInv
<1> QED
  BY ServerInvariant, <1>1, PTL

\* A request is cut off only when all the time of shutdown is used up.
THEOREM EndsGracefully == Spec => []GracefulEnd
<1>1. ServerInv => GracefulEnd
  BY DEF ServerInv, LeftInv, GracefulEnd, Alive
<1> QED
  BY ServerInvariant, <1>1, PTL

\* A process that cut a request off never ends with status 0.
THEOREM ExitsTruthfully == Spec => []CleanExit
<1>1. ServerInv => CleanExit
  BY DEF ServerInv, LeftInv, CleanExit, Alive
<1> QED
  BY ServerInvariant, <1>1, PTL

\* Run never goes on serving with one of its servers gone.
THEOREM ServesWhole == Spec => []NeverHalfServing
<1>1. ServerInv => NeverHalfServing
  BY DEF ServerInv
<1> QED
  BY ServerInvariant, <1>1, PTL

\* While the process stops, no time passes with the mutex in the hands of the
\* readiness check (webhook.go:173).
THEOREM CheckGivesWay == Spec => ProbeGivesWay
<1>1. TypeOK /\ [Next]_vars => [probe = "records" /\ run # "select" => since' = since]_vars
  <2> SUFFICES ASSUME TypeOK, Next, probe = "records", run # "select" PROVE since' = since
    OBVIOUS
  <2>1. Due
    BY DEF Due, CtxDead, RunDone
  <2>2. ~Tick
    BY <2>1 DEF Tick
  <2> QED
    BY <2>2 DEF Next, running, listeners, backend, checking, ListenOk, ListenFail, ReportError, ListenEnd,
       SelectSignal, SelectError, BeginShutdown, ApiShutdown, OpsShutdown, RunReturn, Signal,
       RequestStart, RequestLock, RequestRead, RequestApply, ProbeBegin, ProbeLock, ProbeCached,
       ProbeAnswer, ProbeError, ProbeSwap, ProbeEnd, Find, PorkbunChanges
<1> QED
  BY Typed, <1>1, PTL DEF Spec, ProbeGivesWay
--------------------------------------------------------------------------------
(* How long readiness outlives Porkbun. The darkness is bounded by what is used *)
(* up of the cache's life, then of the ticker's interval, then of the check's   *)
(* context: each is full when the one before it runs out.                       *)

\* A cache that can answer was filled before Porkbun went.
CacheInv ==
    /\ reachable => dark = 0
    /\ Fresh => cacheLeft + dark <= CacheTTL

\* Ready, and the last check is still good for it.
ReadyInv ==
    ~Ending =>
        /\ probe # "ended"
        /\ probe = "check" => ~ready
        /\ probe = "swap" /\ found => dark <= CacheTTL
        /\ ready /\ probe = "idle" /\ tickDue => dark <= CacheTTL + Period
        /\ ready /\ probe = "idle" /\ ~tickDue => dark + tickerLeft <= CacheTTL + Period
        /\ ready /\ probe \in {"lock", "records"} => dark + ctxLeft <= CacheTTL + Period + ProbeTimeout
        /\ ready /\ probe = "swap" => dark <= CacheTTL + Period + ProbeTimeout

RedInv == TypeOK /\ CacheInv /\ ReadyInv

LEMMA InitRed == Init => RedInv
<1> SUFFICES ASSUME Init PROVE RedInv
  OBVIOUS
<1>1. TypeOK
  BY InitServer DEF ServerInv
<1>2. CacheInv /\ ReadyInv
  BY TimesAssumption DEF Init, CacheInv, ReadyInv, Fresh
<1> QED
  BY <1>1, <1>2 DEF RedInv

\* Only a read while Porkbun is reachable makes the cache younger.
LEMMA ReadsAge ==
    ASSUME RedInv, ReadOk \/ ReadError, UNCHANGED <<reachable, dark>>
    PROVE  CacheInv'
<1>1. CASE UNCHANGED <<cacheLeft, pending>>
  BY <1>1 DEF CacheInv, Fresh, RedInv
<1>2. CASE ReadError
  BY <1>2 DEF ReadError, CacheInv, Fresh, RedInv
<1>3. CASE reachable /\ cacheLeft' = CacheTTL
  BY <1>3, TimesAssumption DEF CacheInv, Fresh, RedInv
<1> QED
  BY <1>1, <1>2, <1>3, Zenon DEF ReadOk

\* Steps that leave the loop, the clock and Porkbun alone.
LEMMA LoopRests ==
    ASSUME RedInv, UNCHANGED <<checking, dark>>, Ending => Ending'
    PROVE  ReadyInv'
BY DEF RedInv, ReadyInv, checking

LEMMA EndingLasts == TypeOK /\ [Next]_vars => (Ending => Ending')
<1> SUFFICES ASSUME TypeOK, [Next]_vars, Ending PROVE Ending'
  OBVIOUS
<1>1. CASE UNCHANGED <<run, stop>>
  BY <1>1 DEF Ending
<1>2. CASE SelectSignal \/ SelectError \/ ApiShutdown \/ OpsShutdown \/ RunReturn \/ Signal
  BY <1>2 DEF Ending, SelectSignal, SelectError, BeginShutdown, ApiShutdown, OpsShutdown, RunReturn, Signal
<1>3. CASE ~(SelectSignal \/ SelectError \/ ApiShutdown \/ OpsShutdown \/ RunReturn \/ Signal)
  <2>1. UNCHANGED <<run, stop>>
    BY <1>3 DEF Next, vars, running, ListenOk, ListenFail, ReportError, ListenEnd, RequestStart, RequestLock,
       RequestRead, RequestApply, ProbeBegin, ProbeLock, ProbeCached, ProbeAnswer, ProbeError, ProbeSwap,
       ProbeEnd, Find, PorkbunChanges, Tick
  <2> QED
    BY <2>1, <1>1
<1> QED
  BY <1>2, <1>3

LEMMA RedOutside ==
    ASSUME RedInv, TypeOK', Ending => Ending',
           \/ \E l \in Listeners : ListenOk(l) \/ ListenFail(l) \/ ReportError(l) \/ ListenEnd(l)
           \/ SelectSignal \/ SelectError \/ ApiShutdown \/ OpsShutdown \/ RunReturn \/ Signal
           \/ \E r \in Requests : RequestStart(r) \/ RequestLock(r)
    PROVE  RedInv'
<1>1. UNCHANGED <<checking, backend>>
  BY DEF ListenOk, ListenFail, ReportError, ListenEnd, SelectSignal, SelectError, BeginShutdown, ApiShutdown,
     OpsShutdown, RunReturn, Signal, RequestStart, RequestLock
<1>2. CacheInv'
  BY <1>1 DEF RedInv, CacheInv, Fresh, backend
<1>3. ReadyInv'
  BY <1>1, LoopRests DEF backend
<1> QED
  BY <1>2, <1>3 DEF RedInv

LEMMA RedRequest ==
    ASSUME RedInv, TypeOK', Ending => Ending', NEW r \in Requests, RequestRead(r) \/ RequestApply(r)
    PROVE  RedInv'
<1>1. UNCHANGED <<checking, reachable, dark>>
  BY DEF RequestRead, RequestApply
<1>2. CacheInv'
  <2>1. CASE RequestRead(r)
    BY <1>1, <2>1, ReadsAge DEF RequestRead
  <2>2. CASE RequestApply(r) /\ cacheLeft' = 0
    BY <1>1, <2>2 DEF CacheInv, Fresh, RedInv
  <2>3. CASE RequestApply(r) /\ UNCHANGED <<cacheLeft, pending>>
    BY <1>1, <2>3 DEF CacheInv, Fresh, RedInv
  <2> QED
    BY <2>1, <2>2, <2>3, Zenon DEF RequestApply
<1>3. ReadyInv'
  BY <1>1, LoopRests
<1> QED
  BY <1>2, <1>3 DEF RedInv

LEMMA RedProbe ==
    ASSUME RedInv, TypeOK', Ending => Ending',
           ProbeBegin \/ ProbeLock \/ ProbeCached \/ ProbeAnswer \/ ProbeError \/ ProbeSwap \/ ProbeEnd
    PROVE  RedInv'
<1> USE TimesAssumption DEF RedInv, TypeOK
<1>0. UNCHANGED <<running, reachable, dark>>
  BY DEF ProbeBegin, ProbeLock, ProbeCached, ProbeAnswer, ProbeError, ProbeSwap, ProbeEnd, Find, backend
<1>1. CacheInv'
  <2>1. CASE UNCHANGED backend
    BY <2>1 DEF CacheInv, Fresh, backend
  <2>2. CASE ProbeCached \/ ProbeAnswer \/ ProbeError
    <3>1. ReadOk \/ ReadError
      BY <2>2 DEF ProbeCached, ProbeAnswer, ProbeError, ReadOk
    <3> QED
      BY <3>1, <1>0, ReadsAge
  <2> QED
    BY <2>1, <2>2 DEF ProbeBegin, ProbeLock, ProbeSwap, ProbeEnd
<1>2. ReadyInv'
  <2> SUFFICES ASSUME ~Ending' PROVE ReadyInv'
    BY DEF ReadyInv
  <2>1. ~Ending /\ ~RunDone
    BY DEF Ending, RunDone
  <2>2. CASE ProbeBegin
    BY <2>1, <2>2, <1>0 DEF ProbeBegin, ReadyInv
  <2>3. CASE ProbeLock
    BY <2>1, <2>3, <1>0 DEF ProbeLock, ReadyInv
  <2>4. CASE ProbeCached
    BY <2>1, <2>4, <1>0 DEF ProbeCached, Find, ReadyInv, CacheInv, Fresh
  <2>5. CASE ProbeAnswer
    <3>1. dark = 0
      BY <2>5 DEF ProbeAnswer, ReadOk, CacheInv
    <3> QED
      BY <2>1, <2>5, <3>1, <1>0 DEF ProbeAnswer, Find, ReadyInv
  <2>6. CASE ProbeError
    BY <2>1, <2>6, <1>0 DEF ProbeError, Find, ReadyInv
  <2>7. CASE ProbeSwap
    BY <2>1, <2>7, <1>0 DEF ProbeSwap, ReadyInv
  <2>8. CASE ProbeEnd
    BY <2>1, <2>8 DEF ProbeEnd
  <2> QED
    BY <2>2, <2>3, <2>4, <2>5, <2>6, <2>7, <2>8
<1> QED
  BY <1>1, <1>2

LEMMA RedChange ==
    ASSUME RedInv, TypeOK', PorkbunChanges
    PROVE  RedInv'
<1> USE TimesAssumption DEF RedInv, TypeOK
<1>1. dark' = 0 /\ UNCHANGED <<cacheLeft, pending, running, checking>>
  BY DEF PorkbunChanges
<1>2. CacheInv'
  BY <1>1 DEF CacheInv, Fresh
<1>3. ReadyInv'
  BY <1>1 DEF ReadyInv, Ending, running, checking
<1> QED
  BY <1>2, <1>3

LEMMA RedTick ==
    ASSUME RedInv, TypeOK', Tick
    PROVE  RedInv'
<1> USE TimesAssumption DEF RedInv, TypeOK
<1>1. dark' = 0 \/ (~reachable /\ Quiet /\ dark' <= dark + 1)
  BY DEF Tick, Up
<1>2. CacheInv'
  <2>1. reachable' => dark' = 0
    BY DEF Tick
  <2>2. cacheLeft' = 0 \/ cacheLeft' = cacheLeft - 1
    BY DEF Tick, Down
  <2>3. Fresh' => Fresh
    BY <2>2 DEF Tick, Fresh
  <2> QED
    BY <1>1, <2>1, <2>2, <2>3 DEF CacheInv, Fresh
<1>3. ReadyInv'
  <2> SUFFICES ASSUME ~Ending' PROVE ReadyInv'
    BY DEF ReadyInv
  <2>1. ~Ending /\ UNCHANGED <<probe, found, ready>>
    BY DEF Tick, Ending
  <2>2. probe \notin {"check", "swap"} /\ (probe = "idle" => ~tickDue)
    BY DEF Tick, Due
  <2>3. CASE probe = "idle"
    <3>1. tickDue' <=> tickerLeft = 1
      BY <2>2, <2>3, Zenon DEF Tick
    <3>2. ready => dark' <= CacheTTL + Period /\ (tickerLeft # 1 => dark' + tickerLeft' <= CacheTTL + Period)
      BY <1>1, <2>1, <2>2, <2>3 DEF Tick, ReadyInv
    <3> QED
      BY <2>1, <2>3, <3>1, <3>2 DEF ReadyInv
  <2>4. CASE probe = "lock"
    <3>1. \E r \in Requests : req[r] = "holding"
      BY <2>4 DEF Tick, Due, Held
    <3>2. dark' = 0
      BY <3>1 DEF Tick, Quiet
    <3> QED
      BY <2>1, <2>4, <3>2 DEF ReadyInv
  <2>5. CASE probe = "records"
    <3>1. ctxLeft # 0
      BY <2>5 DEF Tick, Due, CtxDead
    <3>2. ctxLeft' = ctxLeft - 1
      BY <3>1 DEF Tick, Down
    <3> QED
      BY <1>1, <2>1, <2>5, <3>1, <3>2 DEF ReadyInv
  <2>6. CASE probe = "ended"
    BY <2>1, <2>6 DEF ReadyInv
  <2> QED
    BY <2>2, <2>3, <2>4, <2>5, <2>6
<1> QED
  BY <1>2, <1>3

LEMMA RedStep == RedInv /\ [Next]_vars => RedInv'
<1> SUFFICES ASSUME RedInv, [Next]_vars PROVE RedInv'
  OBVIOUS
<1>1. TypeOK'
  BY TypeStep DEF RedInv
<1>2. Ending => Ending'
  BY EndingLasts DEF RedInv
<1>3. CASE UNCHANGED vars
  BY <1>1, <1>2, <1>3, LoopRests DEF RedInv, CacheInv, Fresh, vars, backend
<1>4. CASE Next
  BY <1>1, <1>2, <1>4, RedOutside, RedRequest, RedProbe, RedChange, RedTick DEF Next
<1> QED
  BY <1>3, <1>4

\* /readyz does not outlive Porkbun by more than the cache's life, one interval
\* of the ticker and one deadline of a check, whatever these are.
THEOREM RedWithinPatience == Spec => []RedInTime
<1>1. RedInv => RedInTime
  BY TimesAssumption DEF RedInv, ReadyInv, RedInTime, TypeOK, Patience
<1>2. RedInv /\ [Next]_vars => RedInv'
  BY RedStep
<1> QED
  BY InitRed, <1>1, <1>2, PTL DEF Spec
================================================================================
