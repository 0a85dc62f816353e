------------------------------ MODULE Settings ------------------------------
(***************************************************************************)
(* Where a command finds the bus: the variables of the shell, the .env     *)
(* file, the flags, and the transport built from them.  An endpoint of TCP *)
(* is the record of its host and port.                                     *)
(***************************************************************************)
EXTENDS Naturals

CONSTANTS
    DefaultDevice,    \* DEFAULT_SERIAL_DEVICE
    DefaultHost,      \* DEFAULT_EW11_HOST
    DefaultPort,      \* DEFAULT_EW11_PORT
    Blank,            \* "", or only spaces
    NotANumber,       \* a text int() refuses
    None, Failed

Keys == {"transport", "device", "host", "port"}

LoadEnvOverrides(shell, dotenv) ==       \* mutant: override=True
    [k \in Keys |-> IF dotenv[k] # None THEN dotenv[k] ELSE shell[k]]

(* load_env_file(): a variable of the shell, even an empty one, hides the  *)
(* line of the file.                                                       *)
LoadEnvFile(shell, dotenv) ==
    [k \in Keys |-> IF shell[k] # None THEN shell[k] ELSE dotenv[k]]

Env(environ, key, default) ==
    IF environ[key] \in {None, Blank} THEN default ELSE environ[key]

LoadTransportSettings(environ) ==
    LET transport == Env(environ, "transport", "serial")
        port      == Env(environ, "port", DefaultPort)
    IN  [transport |-> IF transport \in {"serial", "tcp"} THEN transport ELSE "serial",
         device    |-> Env(environ, "device", DefaultDevice),
         endpoint  |-> [host |-> Env(environ, "host", DefaultHost),
                        port |-> IF port = NotANumber THEN DefaultPort ELSE port]]

Resolved(tcp, serial, file) == [tcp |-> tcp, serial |-> serial, file |-> file]

(* At most one of the flags is given; --tcp and --serial may be empty.     *)
ResolveCliTransport(flags, cfg) ==
    IF flags.file # None THEN Resolved(None, None, flags.file)
    ELSE IF flags.tcp # None
         THEN Resolved(IF flags.tcp = Blank THEN cfg.endpoint ELSE flags.tcp, None, None)
    ELSE IF flags.serial # None
         THEN Resolved(None, IF flags.serial = Blank THEN cfg.device ELSE flags.serial, None)
    ELSE IF cfg.transport = "tcp" THEN Resolved(cfg.endpoint, None, None)
    ELSE Resolved(None, cfg.device, None)

(* _parse_tcp_endpoint: the port may be left out, the host may not.        *)
ParseTcpEndpoint(endpoint) ==
    IF endpoint.port = None THEN [endpoint EXCEPT !.port = DefaultPort]
    ELSE IF endpoint.host = Blank \/ endpoint.port = NotANumber THEN Failed
    ELSE endpoint

(* The transport a command opens: what kind, and what it is connected to.  *)
BuildWatchTransport(resolved) ==
    IF resolved.file # None THEN <<"file", resolved.file>>
    ELSE IF resolved.tcp # None
         THEN IF ParseTcpEndpoint(resolved.tcp) = Failed THEN Failed
              ELSE <<"tcp", ParseTcpEndpoint(resolved.tcp)>>
    ELSE <<"serial", resolved.serial>>

(* "source" in meta.json: the endpoint as it was written.                  *)
DescribeSource(resolved) ==
    IF resolved.file # None THEN <<"file", resolved.file>>
    ELSE IF resolved.tcp # None THEN <<"tcp", resolved.tcp>>
    ELSE <<"serial", resolved.serial>>

=============================================================================
