-------------------------------- MODULE Mcp --------------------------------
(***************************************************************************)
(* The MCP control plane: the file of configured servers, the catalog that *)
(* is rebuilt after every change, and the connections that the discovery   *)
(* route and the tool executor open.                                       *)
(*                                                                         *)
(* The routes that change the configuration are synchronous functions, so  *)
(* FastAPI runs each on a thread of its pool (Threads): they interleave at *)
(* every read and write of shared state.  Discovery and tool calls are     *)
(* tasks of the event loop (Tasks): only one of them runs at a time        *)
(* between two awaits.  No lock guards the file or the catalog.            *)
(***************************************************************************)
EXTENDS Naturals, FiniteSets

CONSTANTS
    Servers,      \* server ids
    Tools,        \* names of native tools of the servers
    Threads,      \* pool threads that serve upsert, patch and delete
    Tasks,        \* event-loop tasks that serve discover and tool calls
    Requests,     \* for each server, configurations an administrator may send
    MaxOps        \* bound: operations started

Workers == Threads \cup Tasks

(* A configuration: McpServerConfig without the fields no step looks at.   *)
McpServerConfig == [transport : {"stdio", "streamable_http"},
                    enabled : BOOLEAN,
                    allow : SUBSET Tools,
                    deny : SUBSET Tools,
                    declared : SUBSET Tools]

ASSUME RequestsAreConfigs == Requests \in [Servers -> SUBSET McpServerConfig]
ASSUME WorkersAreDistinct == Threads \cap Tasks = {}
ASSUME OpsAreBounded == MaxOps \in Nat

VARIABLES
    file,       \* mcp-servers.json: configured servers and their configuration
    ready,      \* McpClientManager._ready: servers whose last connection worked
    cache,      \* McpClientManager._cache: servers with a cached discovery
    available,  \* ToolControlContext.available_servers
    catalog,    \* MCP descriptors of ToolCatalog._tools
    snap,       \* MCP tools in the snapshot that new runs were bound to last
    place,      \* where each worker stands
    op,         \* its operation: kind, server, configuration
    seen,       \* the servers it loaded, as it will save or publish them
    outcome,    \* how the connection of a task ended
    proc,       \* the child process of a task's client
    dir,        \* whether its temporary directory exists
    cancelled,  \* whether the gateway has cancelled the task
    cut,        \* whether that happened while it waited for its child to stop
    lone,       \* history: no other change overlapped this worker's change
    repaired,   \* history: the last change to finish had no overlap
    ops         \* operations started

fileVars == <<file, ready, cache, available, catalog>>
connVars == <<outcome, proc, dir, cancelled, cut>>
history  == <<lone, repaired>>
mcpVars == <<fileVars, connVars, history, snap, place, op, seen, ops>>

NoOp == [kind |-> "none"]
NoServers == [s \in {} |-> NoOp]

----------------------------------------------------------------------------
(* What a set of configurations means for the catalog.                     *)

Enabled(servers) == {s \in DOMAIN servers : servers[s].enabled}

exposed(config, tool) == tool \notin config.deny /\ tool \in config.allow

(* Names that two enabled servers declare get a prefix.                    *)
Conflicts(servers) ==
    {tool \in Tools :
        Cardinality({s \in Enabled(servers) : tool \in servers[s].declared}) > 1}

tools_for(servers, s) ==
    {[id |-> IF tool \in Conflicts(servers) THEN <<s, tool>> ELSE <<tool>>,
      server |-> s,
      exposed |-> exposed(servers[s], tool)] : tool \in servers[s].declared}

Descriptors(servers) ==
    UNION {tools_for(servers, s) : s \in Enabled(servers)}

(* ToolCatalog._tools is a dictionary: a later descriptor replaces the one *)
(* that has its id.                                                        *)
register_many(tools, new) ==
    {d \in tools : \A n \in new : n.id # d.id} \cup new

(* What ToolCatalog.build_snapshot offers of the MCP tools.                *)
build_snapshot == {d \in catalog : d.exposed /\ d.server \in available}

McpInit ==
    /\ file = NoServers
    /\ ready = {} /\ cache = {} /\ available = {} /\ catalog = {} /\ snap = {}
    /\ place = [w \in Workers |-> "idle"]
    /\ op = [w \in Workers |-> NoOp]
    /\ seen = [w \in Workers |-> NoServers]
    /\ outcome = [k \in Tasks |-> "none"]
    /\ proc = [k \in Tasks |-> "none"]
    /\ dir = [k \in Tasks |-> FALSE]
    /\ cancelled = [k \in Tasks |-> FALSE]
    /\ cut = [k \in Tasks |-> FALSE]
    /\ lone = [w \in Workers |-> FALSE]
    /\ repaired = FALSE
    /\ ops = 0

----------------------------------------------------------------------------
(* Workers.  A task keeps the event loop from one await to the next: while *)
(* one is between them (OnLoop) no other task moves.                       *)

OnLoop == {"load1", "load2", "save", "refresh", "clear", "register", "stopped"}

MayRun(w) == w \in Tasks => \A k \in Tasks \ {w} : place[k] \notin OnLoop

goto(w, label) == place' = [place EXCEPT ![w] = label]

(* The worker's request ends and its local variables with it.              *)
finish(w) ==
    /\ goto(w, "idle")
    /\ op' = [op EXCEPT ![w] = NoOp]
    /\ seen' = [seen EXCEPT ![w] = NoServers]

(* It goes on at another label.                                            *)
continue(w, label) == goto(w, label) /\ UNCHANGED <<op, seen>>

Changes(w) == op[w].kind \in {"upsert", "delete", "discover"}

Begin(w, kind, s, config, label) ==
    /\ place[w] = "idle" /\ ops < MaxOps /\ MayRun(w)
    /\ ops' = ops + 1
    /\ op' = [op EXCEPT ![w] = [kind |-> kind, server |-> s, config |-> config]]
    /\ goto(w, label)
    /\ IF kind = "call"
       THEN UNCHANGED history
       ELSE /\ lone' = [x \in Workers |->
                  x = w /\ \A y \in Workers \ {w} : ~Changes(y)]
            /\ repaired' = FALSE

----------------------------------------------------------------------------
(* The configuration routes.                                               *)

(* POST and PATCH: both upsert the validated payload.                      *)
upsert_mcp_server(t, s, config) ==
    /\ Begin(t, "upsert", s, config, "load1")
    /\ UNCHANGED <<fileVars, connVars, snap, seen>>

(* McpConfigStore.upsert reads the file twice: the values come from the    *)
(* first reading, the servers that survive from the second.                *)
upsert_read(w) ==
    /\ place[w] = "load1" /\ MayRun(w)
    /\ seen' = [seen EXCEPT ![w] =
          [s \in DOMAIN file \cup {op[w].server} |->
              IF s = op[w].server THEN op[w].config ELSE file[s]]]
    /\ goto(w, "load2")
    /\ UNCHANGED <<fileVars, connVars, history, snap, op, ops>>

upsert_order(w) ==
    /\ place[w] = "load2" /\ MayRun(w)
    /\ seen' = [seen EXCEPT ![w] =
          [s \in (DOMAIN file \cap DOMAIN @) \cup {op[w].server} |-> @[s]]]
    /\ goto(w, "save")
    /\ UNCHANGED <<fileVars, connVars, history, snap, op, ops>>

(* McpConfigStore.save replaces the file whole.                            *)
save(w) ==
    /\ place[w] = "save" /\ MayRun(w)
    /\ file' = seen[w]
    /\ goto(w, IF op[w].kind = "upsert" THEN "invalidate" ELSE "refresh")
    /\ UNCHANGED <<ready, cache, available, catalog, connVars, history,
                   snap, op, seen, ops>>

(* McpClientManager.invalidate.                                            *)
invalidate(w) ==
    /\ place[w] = "invalidate"
    /\ ready' = ready \ {op[w].server}
    /\ cache' = cache \ {op[w].server}
    /\ goto(w, IF op[w].kind = "upsert" THEN "refresh" ELSE "remove")
    /\ UNCHANGED <<file, available, catalog, connVars, history, snap, op, seen, ops>>

delete_mcp_server(t, s) ==
    /\ Begin(t, "delete", s, NoOp, "invalidate")
    /\ UNCHANGED <<fileVars, connVars, snap, seen>>

(* McpConfigStore.remove up to its save.                                   *)
remove(w) ==
    /\ place[w] = "remove"
    /\ seen' = [seen EXCEPT ![w] = [s \in DOMAIN file \ {op[w].server} |-> file[s]]]
    /\ goto(w, "save")
    /\ UNCHANGED <<fileVars, connVars, history, snap, op, ops>>

----------------------------------------------------------------------------
(* _refresh_mcp_tools: publish the servers a worker holds.                 *)

refresh_servers(w) ==
    /\ place[w] = "refresh" /\ MayRun(w)
    /\ available' = Enabled(seen[w]) \cap ready
    /\ goto(w, "clear")
    /\ UNCHANGED <<file, ready, cache, catalog, connVars, history, snap, op, seen, ops>>

(* A rebuild that only adds: the tools of servers that are gone stay.      *)
RemoveNothing(w) ==
    /\ place[w] = "clear" /\ MayRun(w)
    /\ goto(w, "register")
    /\ UNCHANGED <<fileVars, connVars, history, snap, op, seen, ops>>

remove_by_source(w) ==
    /\ place[w] = "clear" /\ MayRun(w)
    /\ catalog' = {}
    /\ goto(w, "register")
    /\ UNCHANGED <<file, ready, cache, available, connVars, history, snap,
                   op, seen, ops>>

(* register_all and mark_catalog_refreshed; the worker's request ends.     *)
register_all(w) ==
    /\ place[w] = "register" /\ MayRun(w)
    /\ catalog' = register_many(catalog, Descriptors(seen[w]))
    /\ repaired' = lone[w]
    /\ finish(w)
    /\ UNCHANGED <<file, ready, cache, available, connVars, lone, snap, ops>>

(* ToolControlContext.start_run binds a new run to the tools of this       *)
(* moment; the snapshot never changes afterwards.                          *)
start_run ==
    /\ snap # build_snapshot
    /\ snap' = build_snapshot
    /\ UNCHANGED <<fileVars, connVars, history, place, op, seen, ops>>

----------------------------------------------------------------------------
(* Connections.                                                            *)

(* GET discover: any configured server, enabled or not.                    *)
discover_mcp_server(k, s) ==
    /\ ~cut[k]
    /\ s \in DOMAIN file
    /\ seen' = [seen EXCEPT ![k] = file]
    /\ Begin(k, "discover", s, file[s], "build")
    /\ UNCHANGED <<fileVars, connVars, snap>>

(* McpToolExecutor: the tool comes from the run's snapshot, the server     *)
(* from the file as it is now.                                             *)
McpToolExecutor(k, d) ==
    /\ ~cut[k]
    /\ d.server \in Enabled(file)
    /\ Begin(k, "call", d.server, file[d.server], "build")
    /\ UNCHANGED <<fileVars, connVars, snap, seen>>

Stdio(k) == op[k].config.transport = "stdio"

(* _build_client: a missing secret or an executable that is not allowed    *)
(* any more raises before the try that maintains the ready set.            *)
build_client(k) ==
    /\ place[k] = "build" /\ MayRun(k)
    /\ \/ continue(k, "start")
       \/ op[k].kind = "call" /\ finish(k)
       \/ op[k].kind = "discover" /\ continue(k, "refresh")
    /\ UNCHANGED <<fileVars, connVars, history, snap, ops>>

(* A client that failed while it started stops itself before its manager   *)
(* hears of it; one that failed in use is first marked not ready.          *)
fail_start(k, why) ==
    /\ outcome' = [outcome EXCEPT ![k] = why]
    /\ goto(k, "stopping")
    /\ UNCHANGED <<ready, cache>>

discard_ready(k) ==
    /\ ready' = ready \ {op[k].server}
    /\ cache' = IF op[k].kind = "discover" THEN cache \ {op[k].server} ELSE cache

fail_use(k) ==
    /\ discard_ready(k)
    /\ outcome' = [outcome EXCEPT ![k] = "use_failed"]
    /\ goto(k, "stopping")
    /\ UNCHANGED <<file, available, catalog, proc, dir, cancelled, cut, history,
                   snap, op, seen, ops>>

(* start of McpStdioClient up to the initialize request, which is small    *)
(* enough never to wait for the server to read it.                         *)
start(k) ==
    /\ place[k] = "start" /\ MayRun(k) /\ Stdio(k)
    /\ \/ /\ proc' = [proc EXCEPT ![k] = "running"]
          /\ dir' = [dir EXCEPT ![k] = TRUE]
          /\ goto(k, "initialize")
          /\ UNCHANGED <<ready, cache, outcome>>
       \/ /\ fail_start(k, "start_failed")    \* OSError: the directory goes at once
          /\ UNCHANGED <<proc, dir>>
    /\ UNCHANGED <<file, available, catalog, cancelled, cut, history, snap,
                   op, seen, ops>>

(* McpHttpClient has no process and no directory: start posts initialize.  *)
http_start(k) ==
    /\ place[k] = "start" /\ MayRun(k) /\ ~Stdio(k)
    /\ goto(k, "initialize")
    /\ UNCHANGED <<fileVars, connVars, history, snap, op, seen, ops>>

(* The child process may end at any time.                                  *)
ServerExits(k) ==
    /\ proc[k] = "running"
    /\ proc' = [proc EXCEPT ![k] = "gone"]
    /\ UNCHANGED <<fileVars, outcome, dir, cancelled, cut, history, snap,
                   place, op, seen, ops>>

Answers(k) == Stdio(k) => proc[k] = "running"

(* initialize is answered and notifications/initialized sent.  A tool call *)
(* may carry arguments that fill the pipe: drain then waits for the server *)
(* to read them, without a timeout of its own.                             *)
initialized(k) ==
    /\ place[k] = "initialize" /\ MayRun(k) /\ Answers(k)
    /\ \/ goto(k, "use")
       \/ op[k].kind = "call" /\ Stdio(k) /\ goto(k, "draining")
    /\ UNCHANGED <<fileVars, connVars, history, snap, op, seen, ops>>

drained(k) ==
    /\ place[k] = "draining" /\ MayRun(k) /\ Answers(k)
    /\ goto(k, "use")
    /\ UNCHANGED <<fileVars, connVars, history, snap, op, seen, ops>>

(* A request without a timeout: only the end of the server fails it.       *)
StartWaits(k) ==
    /\ place[k] = "initialize" /\ MayRun(k) /\ Stdio(k) /\ ~Answers(k)
    /\ fail_start(k, "start_failed")
    /\ UNCHANGED <<file, available, catalog, proc, dir, cancelled, cut, history,
                   snap, op, seen, ops>>

(* initialize ends badly: an error, an invalid answer, or the timeout.     *)
start_fails(k) ==
    /\ place[k] = "initialize" /\ MayRun(k) /\ Stdio(k)
    /\ fail_start(k, "start_failed")
    /\ UNCHANGED <<file, available, catalog, proc, dir, cancelled, cut, history,
                   snap, op, seen, ops>>

(* Writing to a child that has ended raises an OSError from drain, which   *)
(* is not an McpConnectionError: nobody marks the server not ready.        *)
pipe_breaks(k) ==
    /\ place[k] \in {"initialize", "draining", "use"} /\ MayRun(k)
    /\ proc[k] = "gone"
    /\ fail_start(k, "other_error")
    /\ UNCHANGED <<file, available, catalog, proc, dir, cancelled, cut, history,
                   snap, op, seen, ops>>

(* A discovery will save what the server declared, in the configuration    *)
(* that it loaded when it began.                                           *)
succeed(k) ==
    /\ ready' = ready \cup {op[k].server}
    /\ outcome' = [outcome EXCEPT ![k] = "ok"]
    /\ goto(k, "stopping")
    /\ IF op[k].kind = "discover"
       THEN \E tools \in SUBSET Tools :
               op' = [op EXCEPT ![k].config.declared = tools]
       ELSE op' = op
    /\ UNCHANGED <<file, cache, available, catalog, proc, dir, cancelled, cut,
                   history, snap, seen, ops>>

(* The answer to tools/list or tools/call: _read_loop finds the pending    *)
(* request of its id.                                                      *)
answered(k) ==
    /\ place[k] = "use" /\ MayRun(k) /\ Stdio(k) /\ Answers(k)
    /\ succeed(k)

(* The same over HTTP.                                                     *)
http_answered(k) ==
    /\ place[k] = "use" /\ MayRun(k) /\ ~Stdio(k)
    /\ succeed(k)

(* _request: the server closed the pipe, answered with an error or did not *)
(* answer within request_timeout.                                          *)
request_fails(k) ==
    /\ place[k] = "use" /\ MayRun(k) /\ Stdio(k)
    /\ fail_use(k)

(* A POST that fails: no answer within the socket's timeout, a status of   *)
(* 400 or more, an address that is not public, a body that is no message.  *)
(* An HTTP client that cannot start has nothing to stop before its manager *)
(* hears of it.                                                            *)
http_request_fails(k) ==
    /\ place[k] \in {"initialize", "use"} /\ MayRun(k) /\ ~Stdio(k)
    /\ fail_use(k)

(* A line of data that is not JSON is a JSONDecodeError, which is not an   *)
(* McpConnectionError either.                                              *)
parse_http_message_fails(k) ==
    /\ place[k] \in {"initialize", "use"} /\ MayRun(k) /\ ~Stdio(k)
    /\ fail_start(k, "other_error")
    /\ UNCHANGED <<file, available, catalog, proc, dir, cancelled, cut, history,
                   snap, op, seen, ops>>

----------------------------------------------------------------------------
(* Stopping a client.                                                      *)

(* _stop_on_current_loop: the reader ends and the client forgets its       *)
(* process, then SIGTERM goes to the process group.                        *)
stop(k) ==
    /\ place[k] = "stopping" /\ MayRun(k) /\ Stdio(k)
    /\ goto(k, IF proc[k] = "running" THEN "terminating" ELSE "cleanup")
    /\ UNCHANGED <<fileVars, connVars, history, snap, op, seen, ops>>

(* McpHttpClient.stop forgets the session.                                 *)
http_stop(k) ==
    /\ place[k] = "stopping" /\ MayRun(k) /\ ~Stdio(k)
    /\ goto(k, "stopped")
    /\ UNCHANGED <<fileVars, connVars, history, snap, op, seen, ops>>

(* _terminate_process_tree: the wait for the child is over ...             *)
terminated(k) ==
    /\ place[k] = "terminating" /\ MayRun(k) /\ proc[k] = "gone"
    /\ goto(k, "cleanup")
    /\ UNCHANGED <<fileVars, connVars, history, snap, op, seen, ops>>

(* A SIGTERM that is trusted: no SIGKILL follows it.                       *)
KillNobody(k) ==
    /\ place[k] = "terminating" /\ MayRun(k) /\ proc[k] = "running"
    /\ goto(k, "cleanup")
    /\ UNCHANGED <<fileVars, connVars, history, snap, op, seen, ops>>

(* ... or after two seconds it gets SIGKILL, and is waited for again.      *)
kill(k) ==
    /\ place[k] = "terminating" /\ MayRun(k) /\ proc[k] = "running"
    /\ proc' = [proc EXCEPT ![k] = "gone"]
    /\ UNCHANGED <<fileVars, outcome, dir, cancelled, cut, history, snap,
                   place, op, seen, ops>>

(* The end of _stop_on_current_loop: stderr is awaited for a second at     *)
(* most, whatever interrupts that, and the directory is removed.           *)
cleanup_working_directory(k) ==
    /\ place[k] = "cleanup" /\ MayRun(k)
    /\ dir' = [dir EXCEPT ![k] = FALSE]
    /\ proc' = [proc EXCEPT ![k] = IF @ = "gone" THEN "none" ELSE @]
    /\ goto(k, "stopped")
    /\ UNCHANGED <<fileVars, outcome, cancelled, cut, history, snap, op, seen, ops>>

(* What the manager and its caller do once the client has stopped.  The    *)
(* discovery route upserts what it found, or republishes what it loaded;   *)
(* an exception that is not an McpConnectionError skips both.              *)
stopped(k) ==
    /\ place[k] = "stopped" /\ MayRun(k)
    /\ IF outcome[k] = "start_failed"
       THEN discard_ready(k)
       ELSE /\ ready' = ready
            /\ cache' = IF outcome[k] = "ok" /\ op[k].kind = "discover"
                        THEN cache \cup {op[k].server} ELSE cache
    /\ \/ /\ op[k].kind = "call" \/ outcome[k] = "other_error"
          /\ finish(k)
       \/ /\ op[k].kind = "discover" /\ outcome[k] = "ok"
          /\ continue(k, "load1")
       \/ /\ op[k].kind = "discover" /\ outcome[k] \in {"start_failed", "use_failed"}
          /\ continue(k, "refresh")
    /\ outcome' = [outcome EXCEPT ![k] = "none"]
    /\ cancelled' = [cancelled EXCEPT ![k] = FALSE]
    /\ UNCHANGED <<file, available, catalog, proc, dir, cut, history, snap, ops>>

(* The gateway cancels a call when the run is cancelled or its own timeout *)
(* has passed.  Nearly everywhere the client is stopped all the same; the  *)
(* exception is the wait for a child that has had its SIGTERM or SIGKILL:  *)
(* the client has already forgotten the process, so neither a SIGKILL nor, *)
(* after a successful start, the removal of the directory follows.         *)
cancel(k) ==
    /\ op[k].kind = "call" /\ ~cancelled[k] /\ MayRun(k)
    /\ place[k] \in {"start", "initialize", "draining", "use", "terminating"}
    /\ cancelled' = [cancelled EXCEPT ![k] = TRUE]
    /\ outcome' = [outcome EXCEPT ![k] = "cancelled"]
    /\ IF place[k] = "terminating"
       THEN /\ cut' = [cut EXCEPT ![k] = TRUE]
            /\ goto(k, IF outcome[k] = "start_failed" THEN "cleanup" ELSE "stopped")
       ELSE goto(k, "stopping") /\ cut' = cut
    /\ UNCHANGED <<fileVars, proc, dir, history, snap, op, seen, ops>>

----------------------------------------------------------------------------
ThreadStep(w) ==
    \/ upsert_read(w) \/ upsert_order(w) \/ save(w) \/ invalidate(w) \/ remove(w)
    \/ refresh_servers(w) \/ remove_by_source(w) \/ register_all(w)

ConnectionStep(k) ==
    \/ build_client(k) \/ start(k) \/ http_start(k) \/ start_fails(k)
    \/ pipe_breaks(k) \/ request_fails(k) \/ http_request_fails(k)
    \/ parse_http_message_fails(k)
    \/ stop(k) \/ http_stop(k) \/ terminated(k) \/ kill(k)
    \/ cleanup_working_directory(k) \/ stopped(k)

Administer(t) ==
    \E s \in Servers :
        \/ \E config \in Requests[s] : upsert_mcp_server(t, s, config)
        \/ delete_mcp_server(t, s)

McpNext ==
    \/ \E t \in Threads : Administer(t)
    \/ \E w \in Workers : ThreadStep(w)
    \/ start_run
    \/ \E k \in Tasks :
          \/ \E s \in Servers : discover_mcp_server(k, s)
          \/ \E d \in snap : McpToolExecutor(k, d)
          \/ ConnectionStep(k)
          \/ initialized(k) \/ drained(k) \/ answered(k) \/ http_answered(k)
          \/ ServerExits(k)
          \/ cancel(k)

(* Threads and tasks that can move do, which covers every timeout: one of  *)
(* the steps of ConnectionStep is what follows it.  Nothing is assumed of  *)
(* a server: it may never answer, never read and never end.  The gateway's *)
(* timeout comes.                                                          *)
Fairness ==
    /\ \A w \in Workers : WF_mcpVars(ThreadStep(w))
    /\ \A k \in Tasks : WF_mcpVars(ConnectionStep(k)) /\ WF_mcpVars(cancel(k))

McpSpec == McpInit /\ [][McpNext]_mcpVars /\ Fairness

----------------------------------------------------------------------------
(* Properties.                                                             *)

Configured(f) ==
    DOMAIN f \subseteq Servers /\ \A s \in DOMAIN f : f[s] \in McpServerConfig

McpTypeOK ==
    /\ Configured(file)
    /\ ready \in SUBSET Servers /\ cache \in SUBSET Servers
    /\ available \in SUBSET Servers
    /\ \A w \in Workers : Configured(seen[w])
    /\ \A k \in Tasks : proc[k] \in {"none", "running", "gone"}
    /\ ops \in 0 .. MaxOps

(* However a connection ends (an error, a timeout, a child that dies or    *)
(* ignores SIGTERM, a cancellation on the way), when its task is over the  *)
(* child process and the temporary directory are gone.  The one exception  *)
(* the code has is the cancellation that arrives while stop waits for a    *)
(* child after SIGTERM or SIGKILL.                                         *)
NothingLeftBehind ==
    \A k \in Tasks : place[k] = "idle" /\ ~cut[k] => proc[k] = "none" /\ ~dir[k]

(* Changes that overlap may publish a catalog that mixes them, since the   *)
(* file is read, saved and published without a lock.  The next change that *)
(* runs alone repairs all of it: what is offered comes from enabled        *)
(* servers of the file, and the catalog holds exactly their tools, with a  *)
(* prefix exactly where names collide.                                     *)
LoneChangeRepairs ==
    repaired =>
        /\ available \subseteq Enabled(file)
        /\ catalog = Descriptors(file)

(* Whatever a server does, every request and every call comes to an end.   *)
CallsEnd == \A w \in Workers : place[w] # "idle" ~> place[w] = "idle"

(* "Only servers that are enabled and really connected enter a new         *)
(* snapshot" (the docstring of refresh_servers).                           *)
OnlyConnectedServersOffered ==
    [][\A d \in snap' : snap' # snap => d.server \in Enabled(file) \cap ready]_mcpVars
=============================================================================
