------------------------------- MODULE MCMcp -------------------------------
(* Requests for model checking: a server with a child process that can be  *)
(* disabled, and an HTTP server whose tool has the same name.              *)
EXTENDS Mcp

CONSTANTS a, b

Config(transport, enabled) ==
    [transport |-> transport, enabled |-> enabled,
     allow |-> Tools, deny |-> {}, declared |-> Tools]

MCRequests ==
    [s \in Servers |-> IF s = a
                       THEN {Config("stdio", TRUE), Config("stdio", FALSE)}
                       ELSE {Config("streamable_http", TRUE)}]
=============================================================================
