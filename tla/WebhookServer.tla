----------------------------- MODULE WebhookServer -----------------------------
(* The process around the provider: Run with its two listeners, the readiness  *)
(* loop, requests that share the provider's mutex with it, and shutdown.       *)
(* Time is in ticks of five seconds; what the code does without waiting takes  *)
(* no time.                                                                    *)
EXTENDS Integers

CONSTANTS
    Requests,       \* requests that can be in progress together
    ProbeTimeout,   \* deadline of one readiness check
    Period,         \* interval of the readiness ticker
    Grace,          \* deadline of shutdown
    CacheTTL        \* CACHE_TTL

ASSUME TimesAssumption == {ProbeTimeout, Period, Grace, CacheTTL} \subseteq Nat \ {0}

VARIABLES
    srv,         \* the two goroutines around ListenAndServe
    shut,        \* Shutdown was called on that server
    errs,        \* errors waiting in errCh
    run,         \* where Run is
    exit,        \* what main reports
    stop,        \* the signal context is done
    since,       \* ticks since the end of the process was asked for
    req,         \* requests: none, waiting for operationMu, holding it
    probe,       \* where the readiness loop is
    found,       \* what the current check found
    ctxLeft,     \* time left of the check's context
    tickerLeft,  \* time to the next tick of the ticker
    tickDue,     \* the ticker's channel holds a tick
    ready,       \* Server.ready
    cacheLeft,   \* life left of the record cache
    pending,     \* ownership work is queued: Records does not use the cache
    reachable,   \* Porkbun answers, and accepts the credentials
    dark         \* ticks since Porkbun was reachable or a request had the mutex

listeners == <<srv, shut, errs>>
running   == <<run, exit, stop, since>>
checking  == <<probe, found, ctxLeft, tickerLeft, tickDue, ready>>
backend   == <<cacheLeft, pending, reachable, dark>>
vars      == <<listeners, running, req, checking, backend>>

Listeners == {"api", "ops"}

\* errCh has a place for each listener.
ScantErrCap == 1
ErrCap      == 2

\* ready may be true this long after Porkbun is gone.
Patience == CacheTTL + Period + ProbeTimeout

TypeOK ==
    /\ srv \in [Listeners -> {"starting", "serving", "failing", "ended"}]
    /\ shut \in [Listeners -> BOOLEAN]
    /\ errs \in 0..2
    /\ run \in {"select", "api", "ops", "wait", "returned"}
    /\ exit \in {"clean", "error"}
    /\ stop \in BOOLEAN
    /\ since \in 0..(Grace + 1)
    /\ req \in [Requests -> {"none", "waiting", "holding"}]
    /\ probe \in {"check", "lock", "records", "swap", "idle", "ended"}
    /\ found \in BOOLEAN /\ tickDue \in BOOLEAN /\ ready \in BOOLEAN
    /\ pending \in BOOLEAN /\ reachable \in BOOLEAN
    /\ ctxLeft \in 0..ProbeTimeout
    /\ tickerLeft \in 1..Period
    /\ cacheLeft \in 0..CacheTTL
    /\ dark \in 0..(Patience + 1)

Init ==
    /\ srv = [l \in Listeners |-> "starting"]
    /\ shut = [l \in Listeners |-> FALSE]
    /\ errs = 0
    /\ run = "select" /\ exit = "clean" /\ stop = FALSE /\ since = 0
    /\ req = [r \in Requests |-> "none"]
    /\ probe = "check" /\ found = FALSE /\ ctxLeft = 0
    /\ tickerLeft = Period /\ tickDue = FALSE /\ ready = FALSE
    /\ cacheLeft = 0 /\ pending = FALSE /\ reachable \in BOOLEAN /\ dark = 0

\* Nothing of the process is left once Run has returned.
Alive == run # "returned"

\* The end of the process has been asked for.
Ending == stop \/ run # "select"

\* The context Run gives the readiness loop is done.
LateRunDone == stop
RunDone     == stop \/ run # "select"

\* The context of shutdown is done.
RunCtxGraceOver == RunDone
GraceOver       == since >= Grace

\* Someone is inside Records or ApplyChanges.
Held  == probe = "records" \/ \E r \in Requests : req[r] = "holding"
Quiet == \A r \in Requests : req[r] = "none"

\* Records can answer without Porkbun.
Fresh   == cacheLeft > 0 /\ ~pending
CtxDead == ctxLeft = 0 \/ RunDone
--------------------------------------------------------------------------------
(* The listeners. *)

ListenOk(l) ==
    /\ Alive
    /\ srv[l] = "starting" /\ ~shut[l]
    /\ srv' = [srv EXCEPT ![l] = "serving"]
    /\ UNCHANGED <<shut, errs, running, req, checking, backend>>

\* The address is taken, or Accept fails for good.
ListenFail(l) ==
    /\ Alive
    /\ srv[l] \in {"starting", "serving"} /\ ~shut[l]
    /\ srv' = [srv EXCEPT ![l] = "failing"]
    /\ UNCHANGED <<shut, errs, running, req, checking, backend>>

\* A failure that is logged and not sent.
SilentReportError(l) ==
    /\ Alive
    /\ srv[l] = "failing"
    /\ srv' = [srv EXCEPT ![l] = "ended"]
    /\ UNCHANGED <<shut, errs, running, req, checking, backend>>

ReportError(l) ==
    /\ Alive
    /\ srv[l] = "failing" /\ errs < ErrCap
    /\ srv' = [srv EXCEPT ![l] = "ended"]
    /\ errs' = errs + 1
    /\ UNCHANGED <<shut, running, req, checking, backend>>

\* ErrServerClosed.
ListenEnd(l) ==
    /\ Alive
    /\ srv[l] \in {"starting", "serving"} /\ shut[l]
    /\ srv' = [srv EXCEPT ![l] = "ended"]
    /\ UNCHANGED <<shut, errs, running, req, checking, backend>>
--------------------------------------------------------------------------------
(* Run and shutdown. *)

\* Both cases of the select cancel the readiness loop and begin shutdown.
BeginShutdown ==
    /\ run' = "api"
    /\ shut' = [shut EXCEPT !["api"] = TRUE]
    /\ UNCHANGED <<srv, stop, since, req, checking, backend>>

SelectSignal ==
    /\ run = "select" /\ stop
    /\ BeginShutdown
    /\ UNCHANGED <<errs, exit>>

SelectError ==
    /\ run = "select" /\ errs > 0
    /\ errs' = errs - 1
    /\ exit' = "error"
    /\ BeginShutdown

\* The error of an incomplete shutdown is left out of the result.
LosesApiError == exit
ApiError      == IF Quiet THEN exit ELSE "error"

\* The API server has no connection in use, or the wait for it is over.
ApiShutdown ==
    /\ run = "api" /\ (Quiet \/ GraceOver)
    /\ exit' = ApiError
    /\ run' = "ops"
    /\ shut' = [shut EXCEPT !["ops"] = TRUE]
    /\ UNCHANGED <<srv, errs, stop, since, req, checking, backend>>

OpsShutdown ==
    /\ run = "ops"
    /\ run' = "wait"
    /\ UNCHANGED <<listeners, exit, stop, since, req, checking, backend>>

\* The WaitGroup counts the listeners and not the readiness loop.
Joined == \A l \in Listeners : srv[l] = "ended"

RunReturn ==
    /\ run = "wait" /\ Joined
    /\ run' = "returned"
    /\ UNCHANGED <<listeners, exit, stop, since, req, checking, backend>>

Signal ==
    /\ Alive /\ ~stop
    /\ stop' = TRUE
    /\ UNCHANGED <<listeners, run, exit, since, req, checking, backend>>
--------------------------------------------------------------------------------
(* Requests. They have no deadline of their own. *)

Become(r, s) == req' = [req EXCEPT ![r] = s]

RequestStart(r) ==
    /\ Alive
    /\ req[r] = "none" /\ srv["api"] = "serving" /\ ~shut["api"]
    /\ Become(r, "waiting")
    /\ UNCHANGED <<listeners, running, checking, backend>>

RequestLock(r) ==
    /\ Alive
    /\ req[r] = "waiting" /\ ~Held
    /\ Become(r, "holding")
    /\ UNCHANGED <<listeners, running, checking, backend>>

\* Records: from the cache; afresh, with queued work done first; or not at all.
ReadOk ==
    \/ Fresh /\ UNCHANGED <<cacheLeft, pending>>
    \/ ~Fresh /\ reachable /\ cacheLeft' = CacheTTL /\ pending' = FALSE

ReadError ==
    /\ ~Fresh
    /\ cacheLeft' = 0
    /\ UNCHANGED pending

RequestRead(r) ==
    /\ Alive
    /\ req[r] = "holding"
    /\ ReadOk \/ ReadError
    /\ Become(r, "none")
    /\ UNCHANGED <<listeners, running, checking, reachable, dark>>

\* ApplyChanges: rejected or without a read of the zone; done, or failed with
\* or without work left.
RequestApply(r) ==
    /\ Alive
    /\ req[r] = "holding"
    /\ \/ UNCHANGED <<cacheLeft, pending>>
       \/ cacheLeft' = 0 /\ pending' \in (IF reachable THEN BOOLEAN ELSE {pending, TRUE})
    /\ Become(r, "none")
    /\ UNCHANGED <<listeners, running, checking, reachable, dark>>
--------------------------------------------------------------------------------
(* The readiness loop. *)

\* The check's context begins before the wait for operationMu.
StaleProbeBegin ==
    /\ Alive
    /\ \/ probe = "check" /\ ctxLeft' = ProbeTimeout /\ UNCHANGED tickDue
       \/ probe = "idle" /\ tickDue /\ tickDue' = FALSE /\ UNCHANGED ctxLeft
    /\ probe' = "lock"
    /\ UNCHANGED <<listeners, running, req, found, tickerLeft, ready, backend>>

ProbeBegin ==
    /\ Alive
    /\ \/ probe = "check" /\ UNCHANGED tickDue
       \/ probe = "idle" /\ tickDue /\ tickDue' = FALSE
    /\ ctxLeft' = ProbeTimeout
    /\ probe' = "lock"
    /\ UNCHANGED <<listeners, running, req, found, tickerLeft, ready, backend>>

ProbeLock ==
    /\ Alive
    /\ probe = "lock" /\ ~Held
    /\ probe' = "records"
    /\ UNCHANGED <<listeners, running, req, found, ctxLeft, tickerLeft, tickDue, ready, backend>>

Find(ok) ==
    /\ found' = ok
    /\ probe' = "swap"
    /\ UNCHANGED <<listeners, running, req, ctxLeft, tickerLeft, tickDue, ready, reachable, dark>>

\* The cache answers whatever has become of the context.
ExtendingProbeCached ==
    /\ Alive
    /\ probe = "records" /\ Fresh
    /\ Find(TRUE)
    /\ cacheLeft' = CacheTTL
    /\ UNCHANGED pending

ProbeCached ==
    /\ Alive
    /\ probe = "records" /\ Fresh
    /\ Find(TRUE)
    /\ UNCHANGED <<cacheLeft, pending>>

ProbeAnswer ==
    /\ Alive
    /\ probe = "records" /\ ~Fresh /\ ~CtxDead
    /\ ReadOk
    /\ Find(TRUE)

ProbeError ==
    /\ Alive
    /\ probe = "records" /\ (CtxDead \/ ~reachable)
    /\ ReadError
    /\ Find(FALSE)

ProbeSwap ==
    /\ Alive
    /\ probe = "swap"
    /\ ready' = found
    /\ probe' = "idle"
    /\ UNCHANGED <<listeners, running, req, found, ctxLeft, tickerLeft, tickDue, backend>>

ProbeEnd ==
    /\ Alive
    /\ probe = "idle" /\ RunDone
    /\ probe' = "ended"
    /\ UNCHANGED <<listeners, running, req, found, ctxLeft, tickerLeft, tickDue, ready, backend>>
--------------------------------------------------------------------------------
(* Porkbun and the clock. *)

PorkbunChanges ==
    /\ Alive
    /\ reachable' = ~reachable
    /\ dark' = 0
    /\ UNCHANGED <<listeners, running, req, checking, cacheLeft, pending>>

\* Some step of the process is due now.
Due ==
    \/ run = "select" /\ stop
    \/ run = "select" /\ errs > 0
    \/ run = "api" /\ (Quiet \/ GraceOver)
    \/ run = "ops"
    \/ run = "wait" /\ Joined
    \/ \E l \in Listeners : \/ srv[l] = "starting"
                            \/ srv[l] = "serving" /\ shut[l]
                            \/ srv[l] = "failing" /\ errs < ErrCap
    \/ ~Held /\ (probe = "lock" \/ \E r \in Requests : req[r] = "waiting")
    \/ probe \in {"check", "swap"}
    \/ probe = "idle" /\ (tickDue \/ RunDone)
    \/ probe = "records" /\ (Fresh \/ CtxDead)

Down(n)      == IF n = 0 THEN 0 ELSE n - 1
Up(n, bound) == IF n > bound THEN n ELSE n + 1

Tick ==
    /\ Alive /\ ~Due
    /\ ctxLeft' = Down(ctxLeft)
    /\ cacheLeft' = Down(cacheLeft)
    /\ tickerLeft' = IF tickerLeft = 1 THEN Period ELSE tickerLeft - 1
    /\ tickDue' = (tickDue \/ tickerLeft = 1)
    /\ since' = IF Ending THEN Up(since, Grace) ELSE since
    /\ dark' = IF reachable \/ ~Quiet THEN 0 ELSE Up(dark, Patience)
    /\ UNCHANGED <<listeners, run, exit, stop, req, probe, found, ready, pending, reachable>>

Next ==
    \/ \E l \in Listeners : ListenOk(l) \/ ListenFail(l) \/ ReportError(l) \/ ListenEnd(l)
    \/ SelectSignal \/ SelectError \/ ApiShutdown \/ OpsShutdown \/ RunReturn \/ Signal
    \/ \E r \in Requests : RequestStart(r) \/ RequestLock(r) \/ RequestRead(r) \/ RequestApply(r)
    \/ ProbeBegin \/ ProbeLock \/ ProbeCached \/ ProbeAnswer \/ ProbeError \/ ProbeSwap \/ ProbeEnd
    \/ PorkbunChanges \/ Tick

Spec == Init /\ [][Next]_vars

\* The scheduler runs what is due and hands the mutex on (sync.Mutex does not
\* starve a waiter); Porkbun, while it is reachable, answers some of the checks
\* in time. Nothing makes requests end, listeners fail or a signal come.
Fairness ==
    /\ WF_vars(Tick) /\ WF_vars(ProbeBegin) /\ WF_vars(ProbeCached)
    /\ WF_vars(ProbeError) /\ WF_vars(ProbeSwap)
    /\ \A l \in Listeners : WF_vars(ListenOk(l)) /\ WF_vars(ReportError(l))
    /\ SF_vars(ProbeLock) /\ SF_vars(ProbeAnswer)

FairSpec == Spec /\ Fairness
--------------------------------------------------------------------------------
(* Properties. *)

\* A request that is being served is cut off by the end of the process only
\* when the whole time of shutdown is used up: the context of shutdown is not
\* the one that has just been cancelled (webhook.go:174, 208).
GracefulEnd == ~Alive /\ ~Quiet => since >= Grace

\* From the signal or the failure of a listener to the end of Run never passes
\* more than the time of shutdown, whatever requests, the readiness check or a
\* second failing listener do: wg.Wait and the sends to errCh cannot block
\* (webhook.go:149, 213).
StopsInTime == since <= Grace

\* The process does not live on with one of its two servers gone: an ended
\* listener means that Run is shutting down or has the error to read.
NeverHalfServing ==
    run = "select" /\ (\E l \in Listeners : srv[l] = "ended") => errs > 0

\* "shutdown complete" with status 0 is never said over a request that was cut
\* off (webhook.go:214, main.go:80).
CleanExit == ~Alive /\ exit = "clean" => Quiet

\* Once the process is stopping, no time passes while the readiness check has
\* the mutex: the requests shutdown waits for never wait for Porkbun to answer
\* the check (webhook.go:173).
ProbeGivesWay == [][probe = "records" /\ run # "select" => since' = since]_vars

\* /readyz does not stay green long after Porkbun or the credentials are gone:
\* at most the life of the cache, one interval and one deadline, counted while
\* no request has the provider (ARCHITECTURE.md:92).
RedInTime == ~Ending /\ ready => dark <= Patience

\* And it becomes green again: a check that failed, because Porkbun was away or
\* because a batch kept the mutex longer than the check's deadline, is
\* repeated with a new deadline.
ReadyRecovers ==
    <>[](~Ending /\ reachable /\ Quiet /\ \A l \in Listeners : srv[l] = "serving") => []<>ready

\* "Readiness probes credentials and connectivity every 15s"
\* (ARCHITECTURE.md:68): a check that finds the zone has been answered.
CheckReachesPorkbun == [][probe = "records" /\ probe' = "swap" /\ found' => reachable]_vars
================================================================================
