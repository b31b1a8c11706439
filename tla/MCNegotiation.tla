---------------------------- MODULE MCNegotiation ----------------------------
(* Negotiation for TLC: scenarios that vary the registered versions, the   *)
(* transport, the ports, one at a time.                                    *)
EXTENDS Negotiation

CONSTANT Kinds   \* subset of {"versions", "retry", "nested", "ports", "secure"}

Host == [versioned |-> {1}, plugins |-> FALSE, version |-> 0,
         allowed |-> {"netrpc", "grpc"}, cookie |-> TRUE, secure |-> "off",
         runnerFunc |-> FALSE, mtls |-> FALSE, tls |-> FALSE, mux |-> FALSE,
         inherit |-> {}, group |-> FALSE, net |-> "unix", min |-> 0, max |-> 0]
Plugin == [versioned |-> [v \in Versions |-> IF v = 1 THEN "grpc" ELSE "none"],
           plugins |-> "none", version |-> 0, grpcServer |-> TRUE,
           provider |-> FALSE, old |-> FALSE]

\* Every registration of the host with every registration of the plugin.
VersionHosts ==
  {[Host EXCEPT !.versioned = vs, !.plugins = p, !.version = v, !.allowed = a] :
     vs \in SUBSET Versions, p \in BOOLEAN, v \in Versions,
     a \in {{"netrpc"}, {"netrpc", "grpc"}}}
VersionPlugins ==
  {[Plugin EXCEPT !.versioned = vs, !.plugins = p, !.version = v, !.grpcServer = g] :
     vs \in [Versions -> {"none", "grpc", "netrpc"}], p \in {"none", "empty", "grpc"},
     v \in Versions, g \in BOOLEAN}

\* Transport options of both ends, the host being a plugin itself or not.
TransportHosts ==
  {[Host EXCEPT !.mtls = m, !.tls = t, !.mux = x, !.cookie = c, !.group = g,
                !.inherit = i] :
     m \in BOOLEAN, t \in BOOLEAN, x \in BOOLEAN, c \in BOOLEAN, g \in BOOLEAN,
     i \in SUBSET {"cert", "mux"}}
TransportPlugins ==
  {[Plugin EXCEPT !.provider = p, !.old = o, !.grpcServer = g] :
     p \in BOOLEAN, o \in BOOLEAN, g \in BOOLEAN}

PortHosts ==
  {[Host EXCEPT !.net = "tcp", !.min = a, !.max = b] :
     a \in 0..IntMax + 1, b \in 0..IntMax + 1}

RetryHosts == {[h EXCEPT !.runnerFunc = TRUE] : h \in VersionHosts}
SecureHosts == {[Host EXCEPT !.secure = s] : s \in {"right", "wrong"}}

MCScenarios ==
  UNION {IF "versions" \in Kinds THEN VersionHosts \X VersionPlugins ELSE {},
         IF "nested" \in Kinds THEN TransportHosts \X TransportPlugins ELSE {},
         IF "ports" \in Kinds THEN PortHosts \X {Plugin} ELSE {},
         IF "retry" \in Kinds THEN RetryHosts \X VersionPlugins ELSE {},
         IF "secure" \in Kinds THEN SecureHosts \X {Plugin} ELSE {}}
=============================================================================
