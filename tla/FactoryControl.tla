--------------------------- MODULE FactoryControl ---------------------------
(***************************************************************************)
(* The control of a factory by the backend: the routes of server.py, the   *)
(* proxy object they work on (DockerProxy.py, StaticFactoryProxy.py), and  *)
(* the containers behind it.  All routes run on one event loop; an action  *)
(* goes from one await to the next.  The routes share global variables,    *)
(* take no lock, and may overlap at every await.                           *)
(*                                                                         *)
(* The containers are one compose project, whatever proxy starts it; the   *)
(* engine is the simulation server, seen from outside.  Configuration and  *)
(* algorithm are set; the history of legacy factories is left out, and so  *)
(* is what the static factory does when played: nothing.                   *)
(***************************************************************************)
EXTENDS Naturals, FiniteSets

CONSTANTS
  Calls,               \* requests under way at a time
  MaxProxies           \* bound on the proxies in use at a time

ASSUME ControlConstants == MaxProxies \in Nat

ProxyIds == 1..MaxProxies
NoProxy == 0
NoCall == [op |-> "none", at |-> "none", me |-> NoProxy, to |-> "none",
           sure |-> TRUE]

VARIABLES
  proxy,               \* current_factory_proxy
  factory_type,        \* current_factory_type
  kind,                \* kind[p]: docker or static
  initialized, has_url,\* fields of p; has_url: _engine_url is not None
  proxy_status,        \* status
  streaming,           \* _streaming
  engine, algorithms,  \* the containers that are up
  simulation,          \* in the engine: none, ready, running, paused, over
  call,                \* call[h]: the route, where it is, the proxy it works on,
                       \* where it goes; sure: it has met no other call, and is no
                       \* switch that has begun with containers left from before
  stream,              \* the /stream/state of a client: NoProxy while it polls, or
                       \* the proxy whose state_stream it passes on
  stopped_sent,        \* the engine has sent it the end of a run, not yet read
  doubtful,            \* what no call can have repaired yet: overlap, failure
  strayed              \* a switch has failed or gone to a factory to come

proxyVars  == <<kind, initialized, has_url, proxy_status, streaming>>
globalVars == <<proxy, factory_type>>
dockerVars == <<engine, algorithms, simulation>>
clientVars == <<stream, stopped_sent>>
controlVars == <<globalVars, proxyVars, dockerVars, clientVars, call, doubtful,
                 strayed>>

ControlInit ==
  /\ proxy = NoProxy /\ factory_type = "base"
  /\ kind = [p \in ProxyIds |-> "docker"]
  /\ initialized = [p \in ProxyIds |-> FALSE]
  /\ has_url = [p \in ProxyIds |-> TRUE]
  /\ proxy_status = [p \in ProxyIds |-> "IDLE"]
  /\ streaming = [p \in ProxyIds |-> FALSE]
  /\ engine = FALSE /\ algorithms = FALSE /\ simulation = "none"
  /\ call = [h \in Calls |-> NoCall]
  /\ stream = NoProxy /\ stopped_sent = FALSE
  /\ doubtful = FALSE /\ strayed = FALSE

\* A client's stream that has come back to the head of its loop is passed on to
\* state_stream as long as the proxy is RUNNING; a state_stream without
\* _streaming returns without an await, and the event loop does nothing else.
Spinning == /\ proxy # NoProxy /\ stream # proxy
            /\ kind[proxy] = "docker" /\ proxy_status[proxy] = "RUNNING"
            /\ ~(streaming[proxy] /\ has_url[proxy])

Alone(h) == \A g \in Calls \ {h} : call[g] = NoCall

Begins(h, op, at, me, to) ==
  /\ ~Spinning /\ call[h] = NoCall
  /\ call' = [g \in Calls |->
               IF g = h THEN [op |-> op, at |-> at, me |-> me, to |-> to,
                              sure |-> Alone(h)]
               ELSE IF call[g] = NoCall THEN NoCall
               ELSE [call[g] EXCEPT !.sure = FALSE]]
  /\ doubtful' = (doubtful \/ ~Alone(h))

At(h, at) == ~Spinning /\ call[h].at = at
Goes(h, at) == call' = [call EXCEPT ![h].at = at]
Returns(h) == call' = [call EXCEPT ![h] = NoCall]

\* The call ends with an error, with its work half done.
Fails(h) == Returns(h) /\ doubtful' = TRUE

\* h has put everything in place, and nothing is in doubt if it is sure of that.
Cleared(h) == doubtful' = (doubtful /\ ~call[h].sure)

-----------------------------------------------------------------------------
(* DockerProxy.initialize: three awaits.                                   *)

ComposeDown == engine' = FALSE /\ algorithms' = FALSE /\ simulation' = "none"

\* What it has taken down before it fails is down.
ComposeDownFails ==
  /\ engine' \in {engine, FALSE} /\ algorithms' \in {algorithms, FALSE}
  /\ simulation' = IF engine' THEN simulation ELSE "none"

\* A failure is passed over.  (/sim/create makes a play good again; a switch leaves
\* what is still up as it finds it.)
InitDown(h) ==
  /\ At(h, "init_down")
  /\ \/ ComposeDown /\ Goes(h, "init_up") /\ UNCHANGED doubtful
     \/ /\ ComposeDownFails /\ doubtful' = TRUE
        /\ call' = [call EXCEPT ![h].at = "init_up",
                                ![h].sure = @ /\ call[h].op # "switch"]
  /\ UNCHANGED <<globalVars, proxyVars, clientVars, strayed>>

\* docker compose up leaves an engine that is up as it is.
InitUp(h) ==
  /\ At(h, "init_up") /\ Goes(h, "init_wait")
  /\ engine' = TRUE
  /\ UNCHANGED <<globalVars, proxyVars, algorithms, simulation, clientVars, doubtful,
                 strayed>>

\* docker compose up, or the wait for /health.
InitFails(h) ==
  /\ \/ At(h, "init_up")
     \/ At(h, "init_wait")
  /\ Fails(h)
  /\ strayed' = (strayed \/ call[h].op = "switch")
  /\ UNCHANGED <<globalVars, proxyVars, dockerVars, clientVars>>

\* The engine is ready, and the route goes on: with the start or the reset of the
\* proxy that is the current one by now, or with the type of the factory.
Initialized(h) ==
  /\ At(h, "init_wait") /\ engine /\ has_url[call[h].me]
  /\ initialized' = [initialized EXCEPT ![call[h].me] = TRUE]
  /\ proxy_status' = [proxy_status EXCEPT ![call[h].me] = "IDLE"]
  /\ CASE call[h].op = "switch" ->
            /\ factory_type' = call[h].to
            /\ strayed' = FALSE
            /\ Returns(h) /\ Cleared(h)
       [] call[h].op # "switch" /\ proxy # NoProxy /\ initialized'[proxy] ->
            /\ call' = [call EXCEPT ![h].me = proxy,
                                    ![h].at = IF call[h].op = "play" THEN "recreate"
                                              ELSE "post_reset"]
            /\ UNCHANGED <<factory_type, doubtful, strayed>>
       [] OTHER -> Fails(h) /\ UNCHANGED <<factory_type, strayed>>
  /\ UNCHANGED <<proxy, kind, has_url, streaming, dockerVars, clientVars>>

-----------------------------------------------------------------------------
(* play: DockerProxy.start.                                                *)

PlayRoute(h) ==
  /\ proxy # NoProxy /\ kind[proxy] = "docker"
  /\ Begins(h, "play", IF initialized[proxy] THEN "recreate" ELSE "init_down",
            proxy, "none")
  /\ UNCHANGED <<globalVars, proxyVars, dockerVars, clientVars, strayed>>

Recreate(h) ==
  /\ At(h, "recreate") /\ Goes(h, "post_create")
  /\ algorithms' = TRUE
  /\ UNCHANGED <<globalVars, proxyVars, engine, simulation, clientVars, doubtful,
                 strayed>>

\* The services do not come up, or the engine cannot be reached.
ServicesFail(h) ==
  /\ \/ At(h, "recreate") \/ At(h, "post_create")
     \/ At(h, "post_play")
  /\ Fails(h)
  /\ UNCHANGED <<globalVars, proxyVars, dockerVars, clientVars, strayed>>

\* /sim/create, once the services are up, stops what is running.
PostCreate(h) ==
  /\ At(h, "post_create") /\ engine /\ has_url[call[h].me] /\ algorithms
  /\ simulation' = "ready"
  /\ Goes(h, "post_play")
  /\ UNCHANGED <<globalVars, proxyVars, engine, algorithms, clientVars, doubtful, strayed>>

\* It also stops it when the configuration is refused.
CreateRefused(h) ==
  /\ At(h, "post_create") /\ engine /\ has_url[call[h].me] /\ algorithms
  /\ simulation' = IF simulation = "none" THEN "none" ELSE "ready"
  /\ Fails(h)
  /\ UNCHANGED <<globalVars, proxyVars, engine, algorithms, clientVars, strayed>>

\* /sim/play; without a simulation its thread fails at once.
PostPlay(h) ==
  /\ At(h, "post_play") /\ engine
  /\ simulation' = IF simulation = "none" THEN "none" ELSE "running"
  /\ Goes(h, "played")
  /\ UNCHANGED <<globalVars, proxyVars, engine, algorithms, clientVars, doubtful, strayed>>

Started(h) ==
  /\ At(h, "played") /\ Returns(h) /\ Cleared(h)
  /\ streaming' = [streaming EXCEPT ![call[h].me] = TRUE]
  /\ proxy_status' = [proxy_status EXCEPT ![call[h].me] = "RUNNING"]
  /\ UNCHANGED <<globalVars, kind, initialized, has_url, dockerVars, clientVars, strayed>>

-----------------------------------------------------------------------------
(* pause and reset.                                                        *)

\* Without an engine the status changes at once; nothing else happens.
PauseRoute(h) ==
  /\ proxy # NoProxy /\ kind[proxy] = "docker"
  /\ Begins(h, "pause", "post_pause", proxy, "none")
  /\ UNCHANGED <<globalVars, proxyVars, dockerVars, clientVars, strayed>>

ResetRoute(h) ==
  /\ proxy # NoProxy /\ kind[proxy] = "docker"
  /\ Begins(h, "reset", IF initialized[proxy] THEN "post_reset" ELSE "init_down",
            proxy, "none")
  /\ UNCHANGED <<globalVars, proxyVars, dockerVars, clientVars, strayed>>

\* /sim/pause or /sim/reset.
PostControl(h) ==
  /\ engine /\ call[h] # NoCall /\ has_url[call[h].me]
  /\ \/ /\ At(h, "post_pause") /\ Goes(h, "paused")
        /\ simulation' = IF simulation = "running" THEN "paused" ELSE simulation
     \/ /\ At(h, "post_reset") /\ Goes(h, "was_reset")
        /\ simulation' = IF simulation = "none" THEN "none" ELSE "ready"
  /\ UNCHANGED <<globalVars, proxyVars, engine, algorithms, clientVars, doubtful, strayed>>

\* A proxy that has been cleaned up posts nothing.
SkipPost(h) ==
  /\ call[h] # NoCall /\ ~has_url[call[h].me]
  /\ \/ At(h, "post_pause") /\ Goes(h, "paused")
     \/ At(h, "post_reset") /\ Goes(h, "was_reset")
  /\ UNCHANGED <<globalVars, proxyVars, dockerVars, clientVars, doubtful, strayed>>

PostFails(h) ==
  /\ call[h] # NoCall /\ has_url[call[h].me]
  /\ \/ At(h, "post_pause")
     \/ At(h, "post_reset")
  /\ Fails(h)
  /\ UNCHANGED <<globalVars, proxyVars, dockerVars, clientVars, strayed>>

Controlled(h) ==
  /\ \/ /\ At(h, "paused")
        /\ proxy_status' = [proxy_status EXCEPT ![call[h].me] = "PAUSED"]
     \/ /\ At(h, "was_reset")
        /\ proxy_status' = [proxy_status EXCEPT ![call[h].me] = "IDLE"]
  /\ Returns(h)
  /\ UNCHANGED <<globalVars, kind, initialized, has_url, streaming, dockerVars,
                 clientVars, doubtful, strayed>>

-----------------------------------------------------------------------------
(* switch and disconnect.                                                  *)

\* No other call and no stream has hold of p; the current proxy is being replaced.
Free(h, p) == p # stream /\ \A g \in Calls \ {h} : call[g].me # p

\* A new proxy of type "to".  One to come is not made, and leaves the type as it is.
NewProxy(h, to, ready, url) ==
  IF to = "southwest"
  THEN /\ proxy' = NoProxy
       /\ strayed' = TRUE
       /\ Returns(h)
       /\ initialized' = ready /\ has_url' = url
       /\ UNCHANGED <<factory_type, kind, proxy_status, streaming>>
  ELSE \E p \in ProxyIds :
       /\ Free(h, p) /\ \A q \in 1..p - 1 : ~Free(h, q)
       /\ proxy' = p
       /\ kind' = [kind EXCEPT ![p] = to]
       /\ initialized' = [ready EXCEPT ![p] = to = "static"]
       /\ has_url' = [url EXCEPT ![p] = TRUE]
       /\ proxy_status' = [proxy_status EXCEPT ![p] = "IDLE"]
       /\ streaming' = [streaming EXCEPT ![p] = FALSE]
       /\ IF to = "static"
          THEN factory_type' = to /\ strayed' = FALSE /\ Returns(h)
          ELSE /\ call' = [call EXCEPT ![h] = [op |-> "switch", at |-> "init_down",
                                               me |-> p, to |-> to,
                                               sure |-> @.sure]]
               /\ UNCHANGED <<factory_type, strayed>>

Targets == {"docker", "static", "southwest"}

\* DockerProxy.cleanup awaits docker compose down.
Switch(h, to) ==
  /\ factory_type # to /\ proxy # NoProxy /\ kind[proxy] = "docker"
  /\ Begins(h, "switch", "clean", proxy, to)
  /\ UNCHANGED <<globalVars, proxyVars, dockerVars, clientVars, strayed>>

\* There is nothing to clean up.
SwitchAtOnce(h, to) ==
  /\ ~Spinning /\ call[h] = NoCall /\ Alone(h)
  /\ factory_type # to /\ (proxy # NoProxy => kind[proxy] = "static")
  /\ NewProxy(h, to, initialized, has_url)
  /\ UNCHANGED <<dockerVars, clientVars, doubtful>>

Disconnect(h) ==
  /\ proxy # NoProxy /\ kind[proxy] = "docker"
  /\ Begins(h, "disconnect", "clean", proxy, "none")
  /\ UNCHANGED <<globalVars, proxyVars, dockerVars, clientVars, strayed>>

Forget == proxy' = NoProxy /\ factory_type' = "base" /\ strayed' = FALSE

DisconnectAtOnce(h) ==
  /\ ~Spinning /\ call[h] = NoCall /\ Alone(h)
  /\ factory_type # "base" /\ (proxy # NoProxy => kind[proxy] = "static")
  /\ Forget
  /\ UNCHANGED <<proxyVars, dockerVars, call, clientVars, doubtful>>

\* docker compose down in cleanup; it may fail, which is logged.  (The mutant
\* leaves it to the next initialize.)
CleanLater(h) ==
  /\ At(h, "clean") /\ Goes(h, "cleaned")
  /\ UNCHANGED <<globalVars, proxyVars, dockerVars, clientVars, doubtful, strayed>>

CleanDown(h) ==
  /\ At(h, "clean") /\ Goes(h, "cleaned")
  /\ \/ ComposeDown /\ UNCHANGED doubtful
     \/ ComposeDownFails /\ doubtful' = TRUE
  /\ UNCHANGED <<globalVars, proxyVars, clientVars, strayed>>

\* The end of cleanup, and what the route does next without an await.
Cleaned(h) ==
  /\ At(h, "cleaned")
  /\ LET ready == [initialized EXCEPT ![call[h].me] = FALSE]
         url   == [has_url EXCEPT ![call[h].me] = FALSE] IN
     IF call[h].op = "disconnect"
     THEN /\ Forget /\ Returns(h)
          /\ initialized' = ready /\ has_url' = url
          /\ UNCHANGED <<kind, proxy_status, streaming>>
     ELSE NewProxy(h, call[h].to, ready, url)
  /\ UNCHANGED <<dockerVars, clientVars, doubtful>>

-----------------------------------------------------------------------------
(* An exception injected into an engine without a route for it (404): the  *)
(* engine is made anew.                                                    *)

Inject(h) ==
  /\ proxy # NoProxy /\ kind[proxy] = "docker" /\ has_url[proxy] /\ engine
  /\ Begins(h, "inject", "post_inject", proxy, "none")
  /\ UNCHANGED <<globalVars, proxyVars, dockerVars, clientVars, strayed>>

\* The answer is 404.
RefreshEngine(h) ==
  /\ At(h, "post_inject") /\ Goes(h, "refresh")
  /\ streaming' = [streaming EXCEPT ![call[h].me] = FALSE]
  /\ UNCHANGED <<globalVars, kind, initialized, has_url, proxy_status, dockerVars,
                 clientVars, doubtful, strayed>>

\* It is something else.
InjectAnswered(h) ==
  /\ At(h, "post_inject") /\ Returns(h)
  /\ UNCHANGED <<globalVars, proxyVars, dockerVars, clientVars, doubtful, strayed>>

RecreateEngine(h) ==
  /\ At(h, "refresh") /\ Goes(h, "refresh_wait")
  /\ engine' = TRUE /\ simulation' = "none"
  /\ UNCHANGED <<globalVars, proxyVars, algorithms, clientVars, doubtful, strayed>>

RefreshFails(h) ==
  /\ \/ At(h, "refresh")
     \/ At(h, "refresh_wait")
  /\ Fails(h)
  /\ UNCHANGED <<globalVars, proxyVars, dockerVars, clientVars, strayed>>

Refreshed(h) ==
  /\ At(h, "refresh_wait") /\ engine /\ has_url[call[h].me] /\ Returns(h)
  /\ initialized' = [initialized EXCEPT ![call[h].me] = TRUE]
  /\ proxy_status' = [proxy_status EXCEPT ![call[h].me] = "IDLE"]
  /\ UNCHANGED <<globalVars, kind, has_url, streaming, dockerVars, clientVars,
                 doubtful, strayed>>

-----------------------------------------------------------------------------
(* A client's stream, and the engine behind it.                            *)

\* The run ends by itself; those who are subscribed are told, once.
SimulationEnds ==
  /\ simulation = "running" /\ simulation' = "over"
  /\ stopped_sent' = (stopped_sent \/ stream # NoProxy)
  /\ UNCHANGED <<globalVars, proxyVars, engine, algorithms, stream, call, doubtful,
                 strayed>>

\* Polling finds the proxy RUNNING, and state_stream connects.
Attach ==
  /\ ~Spinning /\ stream = NoProxy /\ proxy # NoProxy
  /\ proxy_status[proxy] = "RUNNING" /\ streaming[proxy] /\ has_url[proxy]
  /\ engine
  /\ stream' = proxy /\ stopped_sent' = FALSE
  /\ UNCHANGED <<globalVars, proxyVars, dockerVars, call, doubtful, strayed>>

\* It reads "stopped", which may be that of an earlier run by now.
TakeStopped ==
  /\ ~Spinning /\ stream # NoProxy /\ streaming[stream] /\ stopped_sent
  /\ streaming' = [streaming EXCEPT ![stream] = FALSE]
  /\ proxy_status' = [proxy_status EXCEPT ![stream] = "STOPPED"]
  /\ doubtful' = (doubtful \/ simulation # "over")
  /\ stream' = NoProxy /\ stopped_sent' = FALSE
  /\ UNCHANGED <<globalVars, kind, initialized, has_url, dockerVars, call, strayed>>

\* Any line read, or the loss of the connection, ends a stream that is off.
Detach ==
  /\ ~Spinning /\ stream # NoProxy /\ ~streaming[stream]
  /\ stream' = NoProxy /\ stopped_sent' = FALSE
  /\ UNCHANGED <<globalVars, proxyVars, dockerVars, call, doubtful, strayed>>

\* The engine is gone, or the connection is.
LoseStream ==
  /\ ~Spinning /\ stream # NoProxy /\ streaming[stream]
  /\ proxy_status' = [proxy_status EXCEPT ![stream] = "ERROR"]
  /\ stream' = NoProxy /\ stopped_sent' = FALSE
  /\ UNCHANGED <<globalVars, kind, initialized, has_url, streaming, dockerVars, call,
                 doubtful, strayed>>

-----------------------------------------------------------------------------
ControlNext ==
  \/ \E h \in Calls :
       \/ InitDown(h) \/ InitUp(h) \/ InitFails(h) \/ Initialized(h)
       \/ PlayRoute(h) \/ Recreate(h) \/ ServicesFail(h) \/ PostCreate(h)
       \/ CreateRefused(h) \/ PostPlay(h) \/ Started(h)
       \/ PauseRoute(h) \/ ResetRoute(h) \/ PostControl(h) \/ SkipPost(h) \/ PostFails(h)
       \/ Controlled(h)
       \/ \E to \in Targets : Switch(h, to) \/ SwitchAtOnce(h, to)
       \/ Disconnect(h) \/ DisconnectAtOnce(h) \/ CleanDown(h) \/ Cleaned(h)
       \/ Inject(h) \/ RefreshEngine(h) \/ InjectAnswered(h) \/ RecreateEngine(h)
       \/ RefreshFails(h) \/ Refreshed(h)
  \/ SimulationEnds \/ Attach \/ TakeStopped \/ Detach \/ LoseStream

ControlSpec == ControlInit /\ [][ControlNext]_controlVars

-----------------------------------------------------------------------------
\* Types; no simulation without an engine; a proxy that has given up the address
\* of its engine is never initialized again; a call under way has a proxy.
ControlTypeOK ==
  /\ proxy \in 0..MaxProxies
  /\ factory_type \in {"base", "docker", "static"}
  /\ kind \in [ProxyIds -> {"docker", "static"}]
  /\ initialized \in [ProxyIds -> BOOLEAN] /\ has_url \in [ProxyIds -> BOOLEAN]
  /\ \A p \in ProxyIds : initialized[p] => has_url[p]
  /\ proxy_status \in [ProxyIds -> {"IDLE", "RUNNING", "PAUSED", "STOPPED", "ERROR"}]
  /\ streaming \in [ProxyIds -> BOOLEAN]
  /\ {engine, algorithms, strayed, doubtful, stopped_sent} \subseteq BOOLEAN
  /\ simulation \in {"none", "ready", "running", "paused", "over"}
  /\ ~engine => simulation = "none"
  /\ \A h \in Calls : /\ call[h].me \in 0..MaxProxies
                      /\ (call[h] = NoCall) <=> (call[h].me = NoProxy)
  /\ stream \in 0..MaxProxies

\* No call is under way, and nothing has gone wrong since one that was sure of it has
\* put everything in place.
InOrder == ~doubtful /\ \A h \in Calls : call[h] = NoCall

\* The status a client sees agrees with the engine: RUNNING, and the simulation
\* runs, or has ended unnoticed; otherwise it does not run (or the stream broke).
\* Routes that overlap or fail, containers that do not go down, and the end of a run
\* that is read in the next one, can each break this until the next undisturbed play,
\* or switch to docker that has taken down what was up before.
StatusMatchesEngine ==
  InOrder /\ proxy # NoProxy /\ kind[proxy] = "docker" =>
    /\ proxy_status[proxy] = "RUNNING" => simulation \in {"running", "over"}
    /\ simulation = "running" => proxy_status[proxy] \in {"RUNNING", "ERROR"}

\* The type that decides whether a switch has anything to do is that of the proxy,
\* unless the last switch failed or went to a factory to come: then a switch back
\* to that type is answered "already switched".
TypeIsOwn ==
  InOrder /\ ~strayed =>
    factory_type = IF proxy = NoProxy THEN "base" ELSE kind[proxy]

\* Containers are up only for a docker proxy that is the current one.
NoOrphans ==
  InOrder /\ (engine \/ algorithms) => proxy # NoProxy /\ kind[proxy] = "docker"

\* The streams do not bring the event loop to a stand, but for the time in which
\* an engine is made anew (of a proxy that is still called RUNNING).
StreamsDoNotSpin ==
  Spinning => \/ doubtful
              \/ \E h \in Calls : call[h].at \in {"refresh", "refresh_wait"}

\* What the backend believes of its proxy and containers is the case, and it goes on.
ControlAgrees == StatusMatchesEngine /\ TypeIsOwn /\ NoOrphans /\ StreamsDoNotSpin
=============================================================================
