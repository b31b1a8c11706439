----------------------------- MODULE Negotiation -----------------------------
(***************************************************************************)
(* The handshake of a host and a plugin: what Client.Start asks for in the *)
(* environment, what the plugin's Serve makes of it and announces on its   *)
(* stdout, and what Start adopts or refuses.  ClientLifecycle models the   *)
(* processes and goroutines around it.                                     *)
(*                                                                         *)
(* A scenario is a configuration of the host and one of the plugin.  A     *)
(* plugin set is named by how it was registered: <<"v", n>> is             *)
(* VersionedPlugins[n], <<"plugins", 0>> is Plugins, <<>> is nil.  Of the  *)
(* plugin's sets the transport matters: that of their plugins, "empty" or  *)
(* "none".                                                                 *)
(*                                                                         *)
(* host:   versioned, plugins, version (HandshakeConfig.ProtocolVersion),  *)
(*         allowed, cookie (it is the plugin's), secure (the checksum is   *)
(*         "off", right or wrong), runnerFunc, mtls, tls (a TLSConfig), mux *)
(*         (GRPCBrokerMultiplex), inherit (variables that the host's own   *)
(*         environment passes on), group, net, min and max (MinPort and    *)
(*         MaxPort, 0 if not set).                                         *)
(* plugin: versioned, plugins, version, grpcServer, provider (TLSProvider), *)
(*         old (built before multiplexing).                                *)
(***************************************************************************)
EXTENDS Integers, Sequences, FiniteSets, FiniteSetsExt

CONSTANTS Versions, Scenarios, MaxStarts,
          Ports,                  \* what the system may choose from for port 0
          DefaultMin, DefaultMax, \* NewClient's range, 10000 and 25000
          IntMax                  \* the largest number that parses, 2^31 - 1

ASSUME VersionsAssumption == Versions \subseteq Nat /\ IsFiniteSet(Versions)
ASSUME PortsAssumption == Ports \subseteq Nat \ {0} /\ IsFiniteSet(Ports)
ASSUME DefaultsAssumption ==
  /\ DefaultMin \in Nat \ {0} /\ DefaultMax \in Nat /\ IntMax \in Nat
  /\ DefaultMin <= DefaultMax /\ DefaultMax <= IntMax
ASSUME StartsAssumption == MaxStarts \in Nat

\* The configurations there are.
Hosts ==
  [versioned : SUBSET Versions, plugins : BOOLEAN, version : Versions,
   allowed : SUBSET {"netrpc", "grpc"}, cookie : BOOLEAN,
   secure : {"off", "right", "wrong"}, runnerFunc : BOOLEAN, mtls : BOOLEAN,
   tls : BOOLEAN, mux : BOOLEAN, inherit : SUBSET {"cert", "mux"},
   group : BOOLEAN, net : {"unix", "tcp"}, min : Nat, max : Nat]
Plugins ==
  [versioned : [Versions -> {"none", "empty", "netrpc", "grpc"}],
   plugins : {"none", "empty", "netrpc", "grpc"}, version : Versions,
   grpcServer : BOOLEAN, provider : BOOLEAN, old : BOOLEAN]
ASSUME ScenariosAssumption == Scenarios \subseteq Hosts \X Plugins

VARIABLES
  host, plugin,
  starts,             \* Starts so far, bounded by MaxStarts
  versioned, plugins, \* ClientConfig.VersionedPlugins and Plugins
  hash,               \* files written to SecureConfig.Hash
  start,              \* Start: "idle", "wait", "failed", "mismatch", "panic", "ok"
  tls, root,          \* the client's TLS: "none", "own", "auto"; its RootCAs set
  version, protocol,  \* Client.negotiatedVersion and Client.protocol
  env,                \* the plugin's environment
  srv,                \* Serve: where it is, or how it ended
  chosen, untried,    \* protocolVersion: its result, and the versions left
  srvTLS,             \* tlsConfig: "none", "provider", "auto"
  socket, port,       \* the socket file exists; the port listened on
  trying, refused,    \* the port to be tried next; history: those that failed
  line,               \* what the plugin has announced, or <<>>
  conn,               \* the first connection: "none", "ok", "failed", "refused"
  again               \* what a client that reattached was told, and its plugin set

cliVars == <<starts, versioned, plugins, hash, start, tls, root, version,
             protocol, again>>
verVars == <<chosen, untried>>
tcpVars == <<port, trying, refused>>
srvVars == <<env, srv, verVars, srvTLS, socket, tcpVars, line>>
vars == <<host, plugin, cliVars, srvVars, conn>>

\* NewClient's view of the configuration.
Registered(h) == [v \in Versions |-> IF v \in h.versioned THEN <<"v", v>> ELSE <<>>]
Unversioned(h) == IF h.plugins THEN <<"plugins", 0>> ELSE <<>>
MinPort == IF host.min = 0 /\ host.max = 0 THEN DefaultMin ELSE host.min
MaxPort == IF host.min = 0 /\ host.max = 0 THEN DefaultMax ELSE host.max

\* VersionedPlugins with Plugins added under the version v, if that is free.
Merge(vp, ps, v) == IF vp[v] = <<>> THEN [vp EXCEPT ![v] = ps] ELSE vp

Init ==
  /\ \E s \in Scenarios : host = s[1] /\ plugin = s[2]
  /\ starts = 0
  /\ versioned = Registered(host) /\ plugins = Unversioned(host)
  /\ hash = 0 /\ start = "idle"
  /\ tls = (IF host.tls THEN "own" ELSE "none") /\ root = FALSE
  /\ version = 0 /\ protocol = "none" /\ again = <<>>
  /\ env = <<>> /\ srv = "off" /\ chosen = <<>> /\ untried = {}
  /\ srvTLS = "none" /\ socket = FALSE /\ port = 0 /\ line = <<>>
  /\ trying = 0 /\ refused = {} /\ conn = "none"

-----------------------------------------------------------------------------
(* Client.Start, up to the launch.                                         *)

\* Start may be called, and called again after a failure if the runner is the
\* caller's own (an exec.Cmd cannot be started twice).
MayStart == /\ starts < MaxStarts
            /\ \/ start \in {"idle", "mismatch"}
               \/ start = "failed" /\ host.runnerFunc

\* SecureConfig.Check: the sum is that of all the files written to the hash.
Check == host.secure # "off" => host.secure = "right" /\ hash = 0

StartChecksum ==
  /\ MayStart /\ ~Check
  /\ starts' = starts + 1 /\ hash' = hash + 1
  /\ versioned' = Merge(versioned, plugins, host.version)
  /\ start' = "mismatch"
  /\ UNCHANGED <<host, plugin, plugins, tls, root, version, protocol, again,
                 srvVars, conn>>

\* The plugin's environment: inherited variables stay unless they are set.
StartLaunch ==
  /\ MayStart /\ Check
  /\ starts' = starts + 1
  /\ hash' = IF host.secure = "off" THEN hash ELSE hash + 1
  /\ versioned' = Merge(versioned, plugins, host.version)
  /\ tls' = IF host.mtls THEN "auto" ELSE tls
  /\ env' = [versions |-> {v \in Versions : versioned'[v] # <<>>},
             cert |-> IF host.mtls THEN "client"
                      ELSE IF "cert" \in host.inherit THEN "outer" ELSE "none",
             mux |-> host.mux \/ "mux" \in host.inherit,
             min |-> MinPort, max |-> MaxPort]
  /\ root' = (root /\ ~host.mtls)
  /\ start' = "wait" /\ srv' = "cookie" /\ chosen' = <<>> /\ untried' = {}
  /\ srvTLS' = "none" /\ socket' = FALSE /\ port' = 0 /\ line' = <<>>
  /\ trying' = 0 /\ refused' = {}
  /\ UNCHANGED <<host, plugin, plugins, version, protocol, again, conn>>

-----------------------------------------------------------------------------
(* The plugin: Serve, up to the announcement.                              *)

\* VersionedPlugins, with Plugins put in under the ProtocolVersion.
Offered == IF plugin.plugins = "none" THEN plugin.versioned
           ELSE [plugin.versioned EXCEPT ![plugin.version] = plugin.plugins]

\* The cookie, then protocolVersion with its first values.
ServeCookie ==
  /\ srv = "cookie"
  /\ \/ /\ host.cookie /\ srv' = "version"
        /\ chosen' = [version |-> plugin.version, set |-> plugin.plugins,
                      proto |-> "netrpc"]
        /\ untried' = {v \in Versions : Offered[v] # "none"}
     \/ ~host.cookie /\ srv' = "exited" /\ UNCHANGED verVars
  /\ UNCHANGED <<host, plugin, cliVars, env, srvTLS, socket, tcpVars, line, conn>>

\* What the loop records of a version, a match or not.
Record(v) == [version |-> v, set |-> Offered[v],
              proto |-> IF plugin.grpcServer /\ Offered[v] # "empty"
                        THEN Offered[v] ELSE chosen.proto]

\* Mutant of protocolVersion: the loop goes on after a match.
protocolVersionLast ==
  /\ srv = "version"
  /\ \/ untried = {} /\ srv' = "listen" /\ UNCHANGED verVars
     \/ \E v \in untried :
          /\ \A u \in untried : u <= v
          /\ chosen' = Record(v)
          /\ untried' = untried \ {v} /\ srv' = "version"
  /\ UNCHANGED <<host, plugin, cliVars, env, srvTLS, socket, tcpVars, line, conn>>

\* The versions are tried from the highest, until the host has one; the last one
\* tried is the result.
protocolVersion ==
  /\ srv = "version"
  /\ \/ untried = {} /\ srv' = "listen" /\ UNCHANGED verVars
     \/ \E v \in untried :
          /\ \A u \in untried : u <= v
          /\ chosen' = Record(v)
          /\ \/ v \in env.versions /\ srv' = "listen" /\ untried' = {}
             \/ /\ v \notin env.versions
                /\ srv' = "version" /\ untried' = untried \ {v}
  /\ UNCHANGED <<host, plugin, cliVars, env, srvTLS, socket, tcpVars, line, conn>>

\* serverListenerUnix
ServeListenUnix ==
  /\ srv = "listen" /\ host.net = "unix"
  /\ \/ srv' = "tls" /\ socket' = TRUE
     \/ srv' = "exited" /\ socket' \in {FALSE, host.group}
  /\ UNCHANGED <<host, plugin, cliVars, env, verVars, srvTLS, tcpVars, line,
                 conn>>

\* serverListenerTCP: the range has to parse, and to be one ...
ServeListenTCP ==
  /\ srv = "listen" /\ host.net = "tcp"
  /\ \/ /\ env.min > IntMax \/ env.max > IntMax \/ env.min > env.max
        /\ srv' = "exited" /\ UNCHANGED trying
     \/ /\ env.min <= IntMax /\ env.max <= IntMax /\ env.min <= env.max
        /\ srv' = "bind" /\ trying' = env.min
  /\ UNCHANGED <<host, plugin, cliVars, env, verVars, srvTLS, socket, port,
                 refused, line, conn>>

\* net.Listen on the port to be tried; for port 0 the system chooses one.
ListenTCP ==
  \/ /\ srv' = "tls" /\ UNCHANGED <<trying, refused>>
     /\ port' \in IF trying = 0 THEN Ports ELSE {trying}
  \/ /\ srv' = "bind" /\ UNCHANGED port
     /\ refused' = refused \cup {trying} /\ trying' = trying + 1

\* Mutant of ServeBindTCP: the loop ends before the last port.
ServeBindTCPShort ==
  /\ srv = "bind"
  /\ \/ trying < env.max /\ ListenTCP
     \/ trying >= env.max /\ srv' = "exited" /\ UNCHANGED tcpVars
  /\ UNCHANGED <<host, plugin, cliVars, env, verVars, srvTLS, socket, line,
                 conn>>

\* ... and its ports are tried in turn, until one can be listened on.
ServeBindTCP ==
  /\ srv = "bind"
  /\ \/ trying <= env.max /\ ListenTCP
     \/ trying > env.max /\ srv' = "exited" /\ UNCHANGED tcpVars
  /\ UNCHANGED <<host, plugin, cliVars, env, verVars, srvTLS, socket, line,
                 conn>>

\* TLSProvider's configuration, or a certificate in answer to the host's; both
\* are refused, as is a TLSProvider that fails.  The deferred Close removes the
\* socket.
ServeTLS ==
  /\ srv = "tls"
  /\ \/ /\ plugin.provider
        /\ srv' = "exited" /\ socket' = FALSE
        /\ UNCHANGED srvTLS
     \/ /\ ~(plugin.provider /\ env.cert # "none")
        /\ srv' = "build"
        /\ srvTLS' = IF plugin.provider THEN "provider"
                     ELSE IF env.cert # "none" THEN "auto" ELSE "none"
        /\ UNCHANGED socket
  /\ UNCHANGED <<host, plugin, cliVars, env, verVars, tcpVars, line, conn>>

\* The pipes cannot be made: os.Exit, which runs no deferred function.
ServePipeFails ==
  /\ srv = "build"
  /\ srv' = "aborted"
  /\ UNCHANGED <<host, plugin, cliVars, env, verVars, srvTLS, socket, tcpVars,
                 line, conn>>

\* The plugin's end of multiplexing.
srvMux == chosen.proto = "grpc" /\ env.mux /\ ~plugin.old

\* GRPCServer.Init fails if the registration of a plugin does; RPCServer.Init
\* never does.
InitMayFail == chosen.proto = "grpc"

\* Mutant of ServeInit: a server that fails to register leaves its listener.
ServeInitKeep ==
  /\ srv = "build"
  /\ \/ srv' = "announce" /\ UNCHANGED socket
     \/ InitMayFail /\ srv' = "exited" /\ UNCHANGED socket
  /\ UNCHANGED <<host, plugin, cliVars, env, verVars, srvTLS, tcpVars, line,
                 conn>>

\* The server is built and initialised.  By then the muxer, if there is one, has
\* taken the listener's place, and Serve's deferred Close is the muxer's, which
\* closes the session only.
ServeInit ==
  /\ srv = "build"
  /\ \/ srv' = "announce" /\ UNCHANGED socket
     \/ InitMayFail /\ srv' = "exited" /\ socket' = (socket /\ srvMux)
  /\ UNCHANGED <<host, plugin, cliVars, env, verVars, srvTLS, tcpVars, line,
                 conn>>

\* The seventh field is there if the host has asked for multiplexing at all.
ServeAnnounce ==
  /\ srv = "announce"
  /\ srv' = "serving"
  /\ line' = [version |-> chosen.version, proto |-> chosen.proto,
              cert |-> srvTLS = "auto", mux |-> env.mux /\ ~plugin.old]
  /\ UNCHANGED <<host, plugin, cliVars, env, verVars, srvTLS, socket, tcpVars,
                 conn>>

\* The host has asked the plugin to end, and Serve returns.
ServeReturns ==
  /\ srv = "serving" /\ start = "ok"
  /\ srv' = "exited" /\ socket' = (socket /\ srvMux)
  /\ UNCHANGED <<host, plugin, cliVars, env, verVars, srvTLS, tcpVars, line,
                 conn>>

-----------------------------------------------------------------------------
(* Client.Start, from the announcement.                                    *)

\* A Start that fails kills the plugin.
StartFails ==
  /\ start' = "failed"
  /\ srv' = IF srv = "serving" THEN "killed" ELSE srv

StartNoLine ==
  /\ start = "wait" /\ srv \in {"exited", "aborted"}
  /\ StartFails
  /\ UNCHANGED <<host, plugin, starts, versioned, plugins, hash, tls, root,
                 version, protocol, again, env, verVars, srvTLS, socket, tcpVars,
                 line, conn>>

\* checkProtoVersion: no such version.
StartVersionRefused ==
  /\ start = "wait" /\ srv = "serving" /\ versioned[line.version] = <<>>
  /\ StartFails
  /\ UNCHANGED <<host, plugin, starts, versioned, plugins, hash, tls, root,
                 version, protocol, again, env, verVars, srvTLS, socket, tcpVars,
                 line, conn>>

\* Mutant of Adopt: the version is not looked for.
AdoptAny ==
  /\ start = "wait" /\ srv = "serving"
  /\ version' = line.version /\ plugins' = versioned[line.version]

\* The version and its plugin set are adopted before anything else is looked at.
Adopt ==
  /\ start = "wait" /\ srv = "serving" /\ versioned[line.version] # <<>>
  /\ version' = line.version /\ plugins' = versioned[line.version]

\* A caller's runner cannot translate the address (PluginToHost).
StartTranslateFails ==
  /\ Adopt /\ host.runnerFunc /\ StartFails
  /\ UNCHANGED <<host, plugin, starts, versioned, hash, tls, root, protocol,
                 again, env, verVars, srvTLS, socket, tcpVars, line, conn>>

\* The protocol is not among AllowedProtocols.
StartProtocolRefused ==
  /\ Adopt /\ line.proto \notin host.allowed /\ StartFails
  /\ protocol' = line.proto
  /\ UNCHANGED <<host, plugin, starts, versioned, hash, tls, root, again, env,
                 verVars, srvTLS, socket, tcpVars, line, conn>>

\* loadServerCert stores into a TLSConfig that is nil.
StartCertPanics ==
  /\ Adopt /\ line.proto \in host.allowed /\ line.cert /\ tls = "none"
  /\ protocol' = line.proto
  /\ start' = "panic" /\ srv' = "killed"
  /\ UNCHANGED <<host, plugin, starts, versioned, hash, tls, root, again, env,
                 verVars, srvTLS, socket, tcpVars, line, conn>>

\* The plugin does not say that it multiplexes.
StartMuxRefused ==
  /\ Adopt /\ line.proto \in host.allowed /\ ~(line.cert /\ tls = "none")
  /\ host.mux /\ line.proto = "grpc" /\ ~line.mux
  /\ StartFails
  /\ protocol' = line.proto /\ root' = (root \/ line.cert)
  /\ UNCHANGED <<host, plugin, starts, versioned, hash, tls, again, env,
                 verVars, srvTLS, socket, tcpVars, line, conn>>

\* Mutant of StartOK: multiplexing is taken for granted.
StartOKAnyMux ==
  /\ Adopt /\ line.proto \in host.allowed /\ ~(line.cert /\ tls = "none")
  /\ start' = "ok"
  /\ protocol' = line.proto /\ root' = (root \/ line.cert)
  /\ UNCHANGED <<host, plugin, starts, versioned, hash, tls, again, srvVars,
                 conn>>

StartOK ==
  /\ Adopt /\ line.proto \in host.allowed /\ ~(line.cert /\ tls = "none")
  /\ host.mux /\ line.proto = "grpc" => line.mux
  /\ start' = "ok"
  /\ protocol' = line.proto /\ root' = (root \/ line.cert)
  /\ UNCHANGED <<host, plugin, starts, versioned, hash, tls, again, srvVars,
                 conn>>

-----------------------------------------------------------------------------
(* Afterwards.                                                             *)

\* What the two ends make of one connection, whether they agree.
TLSAgrees == \/ tls = "none" /\ srvTLS = "none"
             \/ tls = "own" /\ srvTLS = "provider"
             \/ tls = "auto" /\ srvTLS = "auto" /\ root /\ env.cert = "client"

\* getGRPCMuxer: the host's end of multiplexing.
hostMux == host.mux /\ protocol = "grpc"

\* The plugin's acceptSession expects a yamux session on its first connection
\* exactly if the host opens one.
MuxAgrees == srvMux <=> hostMux

\* What comes of the first connection, if the plugin is still there.
Connected == conn' = IF srv # "serving" THEN "refused"
                     ELSE IF TLSAgrees /\ MuxAgrees THEN "ok" ELSE "failed"

\* newGRPCClient or newRPCClient, through dialer ...
Connect ==
  /\ start = "ok" /\ srv # "killed" /\ conn = "none" /\ ~hostMux
  /\ Connected
  /\ UNCHANGED <<host, plugin, cliVars, srvVars>>

\* ... or with the connection NewGRPCClientMuxer has made for all.
NewGRPCClientMuxer ==
  /\ start = "ok" /\ srv # "killed" /\ conn = "none" /\ hostMux
  /\ Connected
  /\ UNCHANGED <<host, plugin, cliVars, srvVars>>

\* GRPCServerMuxer.session gives up on a host that does not connect in time:
\* the server's Accept fails, and Serve returns.  (The line has been read.)
SessionTimeout ==
  /\ srv = "serving" /\ start = "ok" /\ srvMux /\ conn = "none"
  /\ srv' = "exited"
  /\ UNCHANGED <<host, plugin, cliVars, env, verVars, srvTLS, socket, tcpVars,
                 line, conn>>

\* What a client tells another that will reattach.
ReattachConfig == [version |-> version, protocol |-> protocol]

\* Mutant of Reattach: the plugin set is not looked up.
ReattachNoSet ==
  /\ start = "ok" /\ srv = "serving" /\ ~host.mux /\ host.secure = "off"
  /\ again = <<>>
  /\ again' = <<ReattachConfig, Unversioned(host)>>
  /\ UNCHANGED <<host, plugin, starts, versioned, plugins, hash, start, tls,
                 root, version, protocol, srvVars, conn>>

\* Another client of the same configuration, given this one's ReattachConfig.
Reattach ==
  /\ start = "ok" /\ srv = "serving" /\ ~host.mux /\ host.secure = "off"
  /\ again = <<>>
  /\ LET v == ReattachConfig.version IN
       again' = <<ReattachConfig, Merge(Registered(host), Unversioned(host), v)[v]>>
  /\ UNCHANGED <<host, plugin, starts, versioned, plugins, hash, start, tls,
                 root, version, protocol, srvVars, conn>>

\* The client is given up (Kill), and a new one is made for the same plugin,
\* with the SecureConfig of the first (nothing else is carried over).
NewClient ==
  /\ start \in {"failed", "mismatch", "ok"} /\ starts < MaxStarts /\ hash > 0
  /\ versioned' = Registered(host) /\ plugins' = Unversioned(host)
  /\ start' = "idle" /\ tls' = (IF host.tls THEN "own" ELSE "none")
  /\ root' = FALSE /\ version' = 0 /\ protocol' = "none" /\ again' = <<>>
  /\ srv' = "off" /\ chosen' = <<>> /\ untried' = {} /\ srvTLS' = "none"
  /\ env' = <<>>
  /\ line' = <<>> /\ conn' = "none" /\ socket' = FALSE /\ port' = 0
  /\ trying' = 0 /\ refused' = {}
  /\ UNCHANGED <<host, plugin, starts, hash>>

Next ==
  \/ StartChecksum \/ StartLaunch
  \/ ServeCookie \/ protocolVersion \/ ServeListenUnix \/ ServeListenTCP
  \/ ServeBindTCP \/ ServeTLS
  \/ ServePipeFails \/ ServeInit \/ ServeAnnounce \/ ServeReturns
  \/ StartNoLine \/ StartVersionRefused \/ StartTranslateFails
  \/ StartProtocolRefused \/ StartCertPanics \/ StartMuxRefused \/ StartOK
  \/ Connect \/ NewGRPCClientMuxer \/ SessionTimeout \/ Reattach \/ NewClient

Spec == Init /\ [][Next]_vars

-----------------------------------------------------------------------------
(* Properties.                                                             *)

Sets == ({"v"} \X Versions) \cup {<<"plugins", 0>>}

Envs == [versions : SUBSET Versions, cert : {"none", "outer", "client"},
         mux : BOOLEAN, min : Nat, max : Nat]
Results == [version : Versions, set : {"none", "empty", "netrpc", "grpc"},
            proto : {"netrpc", "grpc"}]
Lines == [version : Versions, proto : {"netrpc", "grpc"}, cert : BOOLEAN,
          mux : BOOLEAN]

\* The type of the state; a client that has started has a plugin set.
TypeOK ==
  /\ host \in Hosts /\ plugin \in Plugins
  /\ starts \in 0..MaxStarts
  /\ versioned \in [Versions -> Sets \cup {<<>>}] /\ plugins \in Sets \cup {<<>>}
  /\ start \in {"idle", "wait", "failed", "mismatch", "panic", "ok"}
  /\ start = "ok" => plugins \in Sets
  /\ hash \in 0..MaxStarts /\ tls \in {"none", "own", "auto"}
  /\ root \in BOOLEAN /\ socket \in BOOLEAN
  /\ version \in Versions \cup {0} /\ protocol \in {"none", "grpc", "netrpc"}
  /\ env \in Envs \cup {<<>>} /\ chosen \in Results \cup {<<>>}
  /\ untried \subseteq Versions /\ line \in Lines \cup {<<>>}
  /\ srv \in {"off", "cookie", "version", "listen", "bind", "tls", "build",
              "announce", "serving", "exited", "aborted", "killed"}
  /\ srvTLS \in {"none", "provider", "auto"} /\ port \in Nat
  /\ trying \in Nat /\ refused \subseteq Nat
  /\ conn \in {"none", "ok", "failed", "refused"}

\* The versions the host's and the plugin's authors have registered, and the
\* host's plugin set for one of them.
HostVersions == host.versioned \cup (IF host.plugins THEN {host.version} ELSE {})
PluginVersions == {v \in Versions : plugin.versioned[v] # "none"}
                  \cup (IF plugin.plugins # "none" THEN {plugin.version} ELSE {})
Common == HostVersions \cap PluginVersions
SetOf(v) == IF v \in host.versioned THEN <<"v", v>> ELSE <<"plugins", 0>>
Negotiated ==
  (line # <<>> /\ PluginVersions # {}) =>
    /\ Common # {} => line.version = Max(Common)
    /\ Common = {} => line.version \notin HostVersions
    /\ start = "ok" => version \in Common /\ plugins = SetOf(version)

\* A host and a plugin settle on the highest version both have, with the plugin
\* set that the host registered for it, and Start fails if there is none: for a
\* client's first Start and a plugin that serves anything, whatever mixture of
\* VersionedPlugins, Plugins and ProtocolVersion each of them uses.
NegotiatesHighest == starts = 1 => Negotiated

\* After a Start that succeeds the first connection does not fail for want of
\* agreement: both ends agree on TLS and multiplexing, or Start has refused.  (The
\* TLS that the host and the plugin bring themselves has to match, and the host's
\* environment must not hold variables of a host of its own.  A connection that
\* comes too late, when the plugin has given up on its session, is "refused", and
\* that may happen whatever was agreed.)
TransportAgrees ==
  (host.inherit = {} /\ (host.mtls \/ host.tls = plugin.provider)) =>
    conn # "failed" /\ start # "panic"

\* A client that reattaches with the ReattachConfig of another has its version
\* and its plugin set, whatever mixture of fields registered it.
ReattachSame ==
  (again # <<>> /\ starts = 1) => again[1].version = version /\ again[2] = plugins

\* Serve leaves no socket file when it returns, at whatever step, unless it
\* multiplexes.  Nothing is said of os.Exit, nor of a host with a socket group:
\* for those a chown or chmod that fails leaves the file.
SocketRemoved ==
  (srv = "exited" /\ ~host.group /\ socket) => chosen # <<>> /\ srvMux

\* The ports a host lets its plugins have: its own range, or the default.
Allowed == IF host.min = 0 /\ host.max = 0 THEN DefaultMin .. DefaultMax
           ELSE host.min .. host.max

\* A plugin that listens on TCP has the first port of the range of its host, the
\* default one if the host sets none, on which net.Listen succeeds, and it gives
\* up only after net.Listen has failed for every port of the range, the last one
\* included.  (If the host sets the maximum only, port 0 is tried first, for which
\* the system chooses; a maximum that does not parse as an int32 is refused.)
PortInRange ==
  (/\ host.net = "tcp" /\ chosen # <<>>
   /\ (host.min > 0 \/ host.max = 0) /\ host.max <= IntMax) =>
    /\ port # 0 => /\ port \in Allowed \ refused
                   /\ \A p \in Allowed : p < port => p \in refused
    /\ (port = 0 /\ srv = "exited") => Allowed \subseteq refused

\* A checksum that is right is found right ("returns true if the checksum of the
\* file matches the checksum provided in the SecureConfig").
RightIsFoundRight == start = "mismatch" => host.secure = "wrong"
=============================================================================
