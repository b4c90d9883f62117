------------------------------- MODULE ApiGate ------------------------------
(***************************************************************************)
(* The HTTP surface of the daemon (husker-api): the route table, the layers *)
(* a request passes before a handler runs (rate limit, bearer token, factory *)
(* gate, extractors, VM cap), what a handler answers, and the shutdown that *)
(* drains the open requests.  Time is counted in ticks; a path is the tuple *)
(* of its segments.                                                         *)
(***************************************************************************)
EXTENDS Integers, Sequences, SequencesExt, FiniteSets

CONSTANTS
  ApClients,      \* client addresses, one request each at a time
  ApNames,        \* what a client puts for a {name}
  ApLimit,        \* sensitive_rate_limit_per_minute; 0 is unlimited
  ApWindow,       \* RATE_LIMIT_WINDOW
  ApGrace,        \* GRACEFUL_SHUTDOWN_GRACE
  ApMaxVms,       \* max_vms
  ApMaxTime,      \* bound on the clock
  ApMaxRequests   \* bound on requests

ASSUME ApAssumption == ApLimit \in Nat /\ ApWindow \in Nat

VARIABLES
  apToken,     \* whether an api_token is configured
  apNow,       \* the clock
  apEvents,    \* the limiter's queue of every key
  apPast,      \* every moment a key's request passed the limiter
  apRetry,     \* the moment the last 429 of a key promised, 0 for none
  apCall,      \* the request of each client
  apVms,       \* VM rows
  apFactory,   \* factory admission open
  apServer,    \* "serving", "draining" or "stopped"
  apDeadline,  \* end of the grace period
  apCount      \* requests so far

apVars == <<apToken, apNow, apEvents, apPast, apRetry, apCall, apVms, apFactory,
            apServer, apDeadline, apCount>>

(***************************************************************************)
(* The routes.  does: what the handler asks of the core.                    *)
(***************************************************************************)

ApRoute(method, path, does) == [method |-> method, path |-> path, does |-> does]
ApGet(path) == ApRoute("GET", path, "read")
ApPost(path, does) == ApRoute("POST", path, does)
ApDelete(path) == ApRoute("DELETE", path, "change")

\* A named resource: list, create, get and delete.
ApNamed(plural) ==
  {ApGet(<<plural>>), ApPost(<<plural>>, "change")}
  \cup {ApGet(<<plural, n>>) : n \in ApNames} \cup {ApDelete(<<plural, n>>) : n \in ApNames}

ApActs(plural, verb, does) == {ApPost(<<plural, n, verb>>, does) : n \in ApNames}
ApViews(plural, verb) == {ApGet(<<plural, n, verb>>) : n \in ApNames}

ApHealthRoutes == {ApGet(<<p>>) : p \in {"health", "docs", "api-docs"}}
ApDaemonRoutes == {ApGet(<<p>>) : p \in {"profiles", "diagnostics"}}
ApMetricsRoutes == {ApGet(<<"metrics">>)}
ApGroupRoutes == ApNamed("host-groups")
ApServiceRoutes == ApNamed("services") \cup ApActs("services", "scale", "change")
ApImageRoutes == ApNamed("images") \cup {ApPost(<<"images", "import-oci">>, "change")}
ApImageCopies == ApActs("images", "export", "change") \cup ApActs("vms", "commit-image", "change")
ApVolumeRoutes == ApNamed("volumes")
ApSecretRoutes == UNION {ApNamed("secrets"), ApViews("secrets", "reveal"),
                         ApActs("secrets", "rotate", "change")}
ApSnapshotRoutes == ApNamed("snapshots") \cup ApActs("snapshots", "restore", "change")
ApPoolRoutes == ApNamed("pools") \cup ApActs("pools", "checkout", "change")
ApVmRoutes == {IF r.method = "POST" THEN [r EXCEPT !.does = "create vm"] ELSE r :
                 r \in ApNamed("vms")}
ApVmActs ==
  {ApRoute("PUT", <<"vms", n, "balloon">>, "change") : n \in ApNames}
  \cup UNION {ApActs("vms", v, "change") : v \in {"stop", "pause", "resume", "suspend", "fork"}}
ApPortRoutes == UNION {ApViews("vms", "ports"), ApActs("vms", "ports", "change"),
                       {ApDelete(<<"vms", n, "ports", "8080">>) : n \in ApNames}}
ApExecRoutes == ApActs("vms", "exec", "guest")
                \cup {ApRoute("GET", <<"vms", n, "exec", "stream">>, "guest") : n \in ApNames}
ApFileRoutes == UNION {{ApPost(<<"vms", n, "files", "read">>, "read"),
                        ApPost(<<"vms", n, "files", "write">>, "guest")} : n \in ApNames}
ApShellRoutes == {ApRoute("GET", <<"vms", n, "shell">>, "guest") : n \in ApNames}
ApProbeRoutes == ApViews("vms", "ready") \cup ApViews("vms", "guest-info")
ApLogRoutes == ApViews("vms", "logs")
ApSessionRoutes ==
  UNION {ApViews("vms", "sessions"), ApActs("vms", "sessions", "guest"),
         ApActs("vms", "session-submissions", "guest"),
         {ApGet(<<"vms", n, "sessions", "id">>) : n \in ApNames},
         {ApGet(<<"vms", n, "sessions", "id", "events">>) : n \in ApNames},
         {ApPost(<<"vms", n, "sessions", "id", "cancel">>, "guest") : n \in ApNames},
         {ApRoute("DELETE", <<"vms", n, "sessions", "id">>, "guest") : n \in ApNames}}
ApTunnelRoutes == {ApRoute("GET", <<"vms", n, "tunnel", "80">>, "guest") : n \in ApNames}
ApFactoryRoutes ==
  UNION {{ApGet(<<"job-submissions">>), ApPost(<<"jobs">>, "submit job")},
         ApViews("jobs", "events"), ApViews("jobs", "artifacts"), ApActs("jobs", "cancel", "change"),
         {ApGet(<<"jobs", n>>) : n \in ApNames}, {ApDelete(<<"jobs", n>>) : n \in ApNames},
         {ApGet(<<"jobs", n, "artifacts", "0">>) : n \in ApNames}}

ApRoutes == UNION {ApHealthRoutes, ApDaemonRoutes, ApMetricsRoutes, ApGroupRoutes,
                   ApServiceRoutes, ApImageRoutes, ApImageCopies, ApVolumeRoutes, ApSecretRoutes,
                   ApSnapshotRoutes, ApPoolRoutes, ApVmRoutes, ApVmActs, ApPortRoutes,
                   ApExecRoutes, ApFileRoutes, ApShellRoutes, ApProbeRoutes, ApLogRoutes,
                   ApSessionRoutes, ApTunnelRoutes, ApFactoryRoutes}

\* factory_auth_required is a layer of these routes only.
ApIsFactory(r) == r \in ApFactoryRoutes

\* is_unauthenticated_route
ApPublic(r) == Head(r.path) \in {"health", "docs", "api-docs"}

\* is_rate_limited_route: by method and by the end of the path.
ApKind(r) ==
  LET last == Last(r.path)
      post == r.method = "POST"
      get == r.method = "GET"
  IN CASE post /\ last \in {"sessions", "session-submissions", "exec"} -> "exec"
       [] post /\ (r.path = <<"jobs">> \/ (Head(r.path) = "jobs" /\ last = "cancel")) -> "exec"
       [] get /\ \E i \in 2..(Len(r.path) - 1) : r.path[i] = "tunnel" -> "tunnel"
       [] get /\ last = "stream" /\ r.path[Len(r.path) - 1] = "exec" -> "exec"
       [] post /\ last = "read" -> "file_read"
       [] post /\ last = "write" -> "file_write"
       [] get /\ last = "shell" -> "shell"
       [] OTHER -> "none"

ApKinds == {"exec", "tunnel", "file_read", "file_write", "shell"}

(***************************************************************************)
(* The limiter, one queue per kind and client.                              *)
(***************************************************************************)

\* How many events a check pops from the front: until one is in the window,
\* where an event exactly one window old still is.
ApPopped(queue, now) ==
  CHOOSE n \in 0..Len(queue) :
    /\ \A i \in 1..n : queue[i] < now - ApWindow
    /\ n < Len(queue) => queue[n + 1] >= now - ApWindow

\* What a check still counts.
ApPruned(queue, now) == SubSeq(queue, ApPopped(queue, now) + 1, Len(queue))

ApLimited(queue, now) == ApLimit # 0 /\ Len(ApPruned(queue, now)) >= ApLimit

\* Retry-After: one window after the oldest event, at least one tick away.
ApRetryAt(queue, now) ==
  LET at == Head(ApPruned(queue, now)) + ApWindow IN IF at > now THEN at ELSE now + 1

\* Mutant: a refused request is recorded as well.
ApChargedAlways(queue, now) == Append(ApPruned(queue, now), now)

\* The queue after a check: only an admitted request is recorded.
ApCharged(queue, now) ==
  IF ApLimit = 0 THEN queue
  ELSE IF ApLimited(queue, now) THEN ApPruned(queue, now)
  ELSE Append(ApPruned(queue, now), now)

(***************************************************************************)
(* A request.                                                               *)
(***************************************************************************)

ApNoCall == [does |-> "none", stage |-> "idle", factory |-> FALSE, good |-> FALSE,
             did |-> FALSE, gone |-> FALSE]
ApOpened(r, good) == [ApNoCall EXCEPT !.does = r.does, !.stage = "open",
                                      !.factory = ApIsFactory(r), !.good = good]
ApFree(c) == apCall[c].stage # "open"

ApInit ==
  /\ apToken \in BOOLEAN /\ apNow = ApWindow
  /\ apEvents = [k \in ApKinds \X ApClients |-> <<>>]
  /\ apPast = [k \in ApKinds \X ApClients |-> <<>>]
  /\ apRetry = [k \in ApKinds \X ApClients |-> 0]
  /\ apCall = [c \in ApClients |-> ApNoCall]
  /\ apVms = 0 /\ apFactory = TRUE
  /\ apServer = "serving" /\ apDeadline = 0 /\ apCount = 0

\* The handler's own check before it calls the core: the VM cap.
ApOverCap(r) == r.does = "create vm" /\ apVms >= ApMaxVms

\* Whether an extractor can refuse the request: it has a body, a path
\* parameter, a query or an upgrade.
ApHasInput(r) ==
  r.method # "GET" \/ Len(r.path) > 1 \/ Head(r.path) \in {"vms", "job-submissions"}

\* auth_middleware, then factory_auth_required.
ApAuthorized(r, good) ==
  /\ apToken => (ApPublic(r) \/ good)
  /\ ApIsFactory(r) => apToken

\* The layers in their order: rate limit, token, factory gate, extractors
\* (of a `sound` request), handler.
ApRequest(c, r, good, sound) ==
  LET k == <<ApKind(r), c>>
      limited == ApKind(r) # "none" /\ ApLimited(apEvents[k], apNow)
      passes == ~limited /\ ApAuthorized(r, good) /\ (sound \/ ~ApHasInput(r))
                /\ ~ApOverCap(r)
  IN /\ apServer = "serving" /\ ApFree(c)
     /\ apCount < ApMaxRequests /\ apCount' = apCount + 1
     /\ apCall' = [apCall EXCEPT ![c] = IF passes THEN ApOpened(r, good) ELSE ApNoCall]
     /\ IF ApKind(r) = "none" THEN UNCHANGED <<apEvents, apPast, apRetry>>
        ELSE /\ apEvents' = [apEvents EXCEPT ![k] = ApCharged(@, apNow)]
             /\ apPast' = IF limited THEN apPast ELSE [apPast EXCEPT ![k] = Append(@, apNow)]
             /\ apRetry' = [apRetry EXCEPT ![k] = IF limited THEN ApRetryAt(apEvents[k], apNow)
                                                  ELSE 0]
     /\ UNCHANGED <<apToken, apNow, apVms, apFactory, apServer, apDeadline>>

\* The core call ends, with its effect or with a failure map_error names.
ApHandled(c, ok) ==
  LET call == apCall[c]
      done == ok /\ (call.does = "submit job" => apFactory)
  IN /\ call.stage = "open"
     /\ apCall' = [apCall EXCEPT ![c] =
          IF done /\ call.does # "read" THEN [@ EXCEPT !.stage = "done", !.did = TRUE]
          ELSE ApNoCall]
     /\ apVms' = IF done /\ call.does = "create vm" THEN apVms + 1 ELSE apVms
     /\ UNCHANGED <<apToken, apNow, apEvents, apPast, apRetry, apFactory, apServer, apDeadline,
                    apCount>>

\* The client leaves.  A creation and a session start belong to the daemon
\* by then; any other future is dropped where it waits.
ApLeaves(c) ==
  /\ apCall[c].stage = "open" /\ ~apCall[c].gone
  /\ apCall' = [apCall EXCEPT ![c] = IF @.does \in {"create vm", "guest"}
                                     THEN [@ EXCEPT !.gone = TRUE] ELSE ApNoCall]
  /\ UNCHANGED <<apToken, apNow, apEvents, apPast, apRetry, apVms, apFactory, apServer,
                 apDeadline, apCount>>

ApTick ==
  /\ apNow < ApMaxTime /\ apNow' = apNow + 1
  /\ UNCHANGED <<apToken, apEvents, apPast, apRetry, apCall, apVms, apFactory, apServer,
                 apDeadline, apCount>>

(***************************************************************************)
(* Shutdown.                                                                *)
(***************************************************************************)

ApSignal ==
  /\ apServer = "serving"
  /\ apServer' = "draining" /\ apFactory' = FALSE /\ apDeadline' = apNow + ApGrace
  /\ UNCHANGED <<apToken, apNow, apEvents, apPast, apRetry, apCall, apVms, apCount>>

\* serve returns: every connection closed, or the grace is over.
ApServed ==
  /\ apServer = "draining"
  /\ \/ \A c \in ApClients : apCall[c].stage # "open" \/ apCall[c].gone
     \/ apNow >= apDeadline
  /\ apServer' = "stopped"
  /\ UNCHANGED <<apToken, apNow, apEvents, apPast, apRetry, apCall, apVms, apFactory, apDeadline,
                 apCount>>

ApNext ==
  \/ \E c \in ApClients, r \in ApRoutes, good, sound \in BOOLEAN : ApRequest(c, r, good, sound)
  \/ \E c \in ApClients, ok \in BOOLEAN : ApHandled(c, ok)
  \/ \E c \in ApClients : ApLeaves(c)
  \/ ApTick \/ ApSignal \/ ApServed

(***************************************************************************)
(* Properties.                                                              *)
(***************************************************************************)

\* The limiter keeps its word both ways (SlidingWindowRateLimiter::check): no
\* stretch of one window admits more than the limit, and once the moment a 429
\* named is past, that key has room.
ApWindowHolds ==
  \A k \in ApKinds \X ApClients :
    /\ ApLimit # 0 => \A i \in 1..(Len(apPast[k]) - ApLimit) :
         apPast[k][i + ApLimit] - apPast[k][i] > ApWindow
    /\ apRetry[k] # 0 /\ apNow > apRetry[k] => ~ApLimited(apEvents[k], apNow)

\* Nothing happens for a caller the layers refuse (router_with_auth): with a
\* token configured every effect is of a request that carried it, the factory
\* surface does nothing without one.
ApOnlyAuthorized ==
  \A c \in ApClients :
    apCall[c].did /\ (apToken \/ apCall[c].factory) => apToken /\ apCall[c].good

ApSound == ApWindowHolds /\ ApOnlyAuthorized
=============================================================================
