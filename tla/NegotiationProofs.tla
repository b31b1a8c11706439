------------------------- MODULE NegotiationProofs -------------------------
(***************************************************************************)
(* Negotiation, for any versions, ports and configurations of the host and *)
(* the plugin: types; the highest common version is chosen, with its set;  *)
(* what Start accepts both ends can talk over; a client that reattaches    *)
(* has the same set; sockets are removed; ports are in range.              *)
(***************************************************************************)
EXTENDS Negotiation, TLAPS

(* The steps by what they leave alone.                                     *)

ServeStep ==
  \/ ServeCookie \/ protocolVersion \/ ServeListenUnix \/ ServeListenTCP
  \/ ServeBindTCP \/ ServeTLS \/ ServePipeFails \/ ServeInit \/ ServeAnnounce
  \/ ServeReturns \/ SessionTimeout

AnswerStep ==
  \/ StartNoLine \/ StartVersionRefused \/ StartTranslateFails
  \/ StartProtocolRefused \/ StartCertPanics \/ StartMuxRefused \/ StartOK

ConnectStep == Connect \/ NewGRPCClientMuxer

\* Every step is one of these.
LEMMA StepCases ==
  ASSUME [Next]_vars
  PROVE  \/ ServeStep \/ AnswerStep \/ ConnectStep \/ StartChecksum
         \/ StartLaunch \/ Reattach \/ NewClient \/ UNCHANGED vars
BY Zenon DEF Next, ServeStep, AnswerStep, ConnectStep

\* What Serve leaves alone.
LEMMA ServeFrame ==
  ASSUME ServeStep
  PROVE  UNCHANGED <<host, plugin, cliVars, env, conn>>
BY Zenon DEF ServeStep, ServeCookie, protocolVersion, ServeListenUnix,
     ServeListenTCP, ServeBindTCP, ListenTCP,
     ServeTLS, ServePipeFails, ServeInit, ServeAnnounce,
     ServeReturns, SessionTimeout

\* What Start leaves alone once the plugin runs.
LEMMA AnswerFrame ==
  ASSUME AnswerStep
  PROVE  /\ UNCHANGED <<host, plugin, starts, versioned, hash, tls, again, env,
                        verVars, srvTLS, socket, tcpVars, line, conn>>
         /\ start = "wait" /\ start' \in {"failed", "panic", "ok"}
         /\ srv \in {"serving", "exited", "aborted"}
         /\ srv' = srv \/ (srv = "serving" /\ srv' = "killed")
BY Zenon DEF AnswerStep, StartNoLine, StartVersionRefused, StartTranslateFails,
     StartProtocolRefused, StartCertPanics, StartMuxRefused, StartOK, Adopt,
     StartFails, srvVars

\* What the first connection leaves alone.
LEMMA ConnectFrame ==
  ASSUME ConnectStep
  PROVE  UNCHANGED <<host, plugin, cliVars, srvVars>>
BY Zenon DEF ConnectStep, Connect, NewGRPCClientMuxer

\* The configurations stay.
LEMMA ConfigStays == ASSUME [Next]_vars PROVE UNCHANGED <<host, plugin>>
<1>1. ServeStep \/ AnswerStep \/ ConnectStep => UNCHANGED <<host, plugin>>
  BY ServeFrame, AnswerFrame, ConnectFrame, Zenon
<1>2. StartChecksum \/ StartLaunch \/ Reattach \/ NewClient \/ UNCHANGED vars
      => UNCHANGED <<host, plugin>>
  BY Zenon DEF StartChecksum, StartLaunch, Reattach, NewClient, vars
<1> QED
  BY <1>1, <1>2, StepCases, Zenon

-----------------------------------------------------------------------------
(* Types, with what is known at each stage of Serve.                       *)

ConfigOK == host \in Hosts /\ plugin \in Plugins

ClientOK ==
  /\ starts \in 0..MaxStarts /\ hash \in 0..MaxStarts /\ hash <= starts
  /\ versioned \in [Versions -> Sets \cup {<<>>}]
  /\ plugins \in Sets \cup {<<>>}
  /\ start \in {"idle", "wait", "failed", "mismatch", "panic", "ok"}
  /\ start = "ok" => plugins # <<>>
  /\ tls \in {"none", "own", "auto"} /\ root \in BOOLEAN
  /\ version \in Versions \cup {0} /\ protocol \in {"none", "grpc", "netrpc"}

PluginOK ==
  /\ env \in Envs \cup {<<>>} /\ chosen \in Results \cup {<<>>}
  /\ untried \subseteq Versions /\ line \in Lines \cup {<<>>}
  /\ srv \in {"off", "cookie", "version", "listen", "bind", "tls", "build",
              "announce", "serving", "exited", "aborted", "killed"}
  /\ srvTLS \in {"none", "provider", "auto"} /\ port \in Nat
  /\ trying \in Nat /\ refused \subseteq Nat
  /\ socket \in BOOLEAN

StagesOK ==
  /\ srv # "off" => env # <<>>
  /\ srv \in {"off", "cookie"} => chosen = <<>>
  /\ srv \in {"version", "listen", "bind", "tls", "build", "announce",
              "serving"} => chosen # <<>>
  /\ srv = "serving" => line # <<>>
  /\ line # <<>> => srv \in {"serving", "exited", "killed"} /\ chosen # <<>>
  /\ start = "ok" => srv \in {"serving", "exited"} /\ line # <<>>
  /\ start = "wait" => srv # "off"

StateOK == /\ ConfigOK /\ ClientOK /\ PluginOK /\ StagesOK
           /\ conn \in {"none", "ok", "failed", "refused"}

\* A result, a line and an environment are not nothing.
LEMMA NotNothing == <<>> \notin Results /\ <<>> \notin Lines /\ <<>> \notin Envs
<1>1. <<>> \notin Results
  BY SMT, Z3, SMTT(20) DEF Results
<1>2. <<>> \notin Lines
  BY SMT, Z3, SMTT(20) DEF Lines
<1>3. <<>> \notin Envs
  BY SMT, Z3, SMTT(20) DEF Envs
<1> QED
  BY <1>1, <1>2, <1>3, Zenon

\* The fields of a host's configuration.
LEMMA HostFields ==
  ASSUME ConfigOK
  PROVE  /\ host.versioned \subseteq Versions /\ host.version \in Versions
         /\ host.net \in {"unix", "tcp"} /\ host.min \in Nat /\ host.max \in Nat
         /\ host.group \in BOOLEAN
BY Zenon DEF ConfigOK, Hosts

\* The fields of a plugin's configuration.
LEMMA PluginFields ==
  ASSUME ConfigOK
  PROVE  /\ plugin.versioned \in
              [Versions -> {"none", "empty", "netrpc", "grpc"}]
         /\ plugin.plugins \in {"none", "empty", "netrpc", "grpc"}
         /\ plugin.version \in Versions
         /\ Offered \in [Versions -> {"none", "empty", "netrpc", "grpc"}]
BY Zenon DEF ConfigOK, Plugins, Offered

\* The plugin sets of a host.
LEMMA SetsOK ==
  ASSUME ConfigOK
  PROVE  /\ <<>> \notin Sets
         /\ Registered(host) \in [Versions -> Sets \cup {<<>>}]
         /\ Unversioned(host) \in Sets \cup {<<>>}
BY SMT, Z3, SMTT(20) DEF Sets, Registered, Unversioned

\* Adding Plugins to VersionedPlugins.
LEMMA MergeType ==
  ASSUME NEW vp \in [Versions -> Sets \cup {<<>>}], NEW ps \in Sets \cup {<<>>},
         NEW v \in Versions
  PROVE  Merge(vp, ps, v) \in [Versions -> Sets \cup {<<>>}]
BY Zenon DEF Merge

\* What the loop of protocolVersion records.
LEMMA RecordType ==
  ASSUME ConfigOK, chosen \in Results, NEW v \in Versions, Offered[v] # "none"
  PROVE  /\ Record(v) \in Results /\ Record(v) # <<>>
         /\ Record(v).version = v
<1>1. /\ Offered[v] \in {"empty", "netrpc", "grpc"}
      /\ chosen.proto \in {"netrpc", "grpc"}
  BY PluginFields, Zenon DEF Results
<1>2. Record(v) \in Results
  BY <1>1, Zenon DEF Results, Record
<1>3. Record(v).version = v
  BY Zenon DEF Record
<1> QED
  BY <1>2, <1>3, NotNothing, Zenon

\* The versions left to try are ones the plugin offers.
UntriedOK == \A v \in untried : v \in Versions /\ Offered[v] # "none"

\* Offered is a matter of the configuration.
LEMMA OfferedStays == ASSUME [Next]_vars PROVE Offered' = Offered
BY ConfigStays, Zenon DEF Offered

\* The versions left are removed one by one.
LEMMA UntriedStep == ASSUME UntriedOK, [Next]_vars PROVE UntriedOK'
<1>1. \/ untried' \subseteq untried
      \/ \A v \in untried' : v \in Versions /\ Offered[v] # "none"
  <2>1. CASE ServeStep
    BY <2>1, Zenon DEF ServeStep, ServeCookie, protocolVersion,
         ServeListenUnix, ServeListenTCP, ServeBindTCP, ListenTCP,
         ServeTLS, ServePipeFails, ServeInit,
         ServeAnnounce, ServeReturns, SessionTimeout, verVars
  <2>2. CASE AnswerStep \/ ConnectStep
    BY <2>2, AnswerFrame, ConnectFrame, Zenon DEF verVars, srvVars
  <2>3. CASE StartChecksum \/ Reattach \/ UNCHANGED vars
    BY <2>3, Zenon DEF StartChecksum, Reattach, vars, srvVars, verVars
  <2>4. CASE StartLaunch \/ NewClient
    BY <2>4, Zenon DEF StartLaunch, NewClient
  <2> QED
    BY <2>1, <2>2, <2>3, <2>4, StepCases, Zenon
<1> QED
  BY <1>1, OfferedStays, Zenon DEF UntriedOK

\* Start's first half keeps the client's part.
LEMMA ClientStep == ASSUME StateOK, [Next]_vars PROVE ClientOK'
<1>0. ConfigOK /\ ClientOK
  BY Zenon DEF StateOK
<1>1. CASE ServeStep
  BY <1>0, <1>1, ServeFrame, Zenon DEF ClientOK, cliVars
<1>2. CASE ConnectStep
  BY <1>0, <1>2, ConnectFrame, Zenon DEF ClientOK, cliVars
<1>3. CASE UNCHANGED vars \/ Reattach
  BY <1>0, <1>3, SMT, Z3, SMTT(20) DEF ClientOK, cliVars, vars, Reattach
<1>4. CASE StartChecksum
  <2>1. versioned' \in [Versions -> Sets \cup {<<>>}]
    BY <1>0, <1>4, HostFields, MergeType, Zenon DEF StartChecksum, ClientOK
  <2>2. starts' \in 0..MaxStarts /\ hash' \in 0..MaxStarts /\ hash' <= starts'
    BY <1>0, <1>4, StartsAssumption, SMT, Z3, SMTT(20)
    DEF StartChecksum, ClientOK, MayStart
  <2> QED
    BY <1>0, <1>4, <2>1, <2>2, Zenon DEF StartChecksum, ClientOK
<1>5. CASE StartLaunch
  <2>1. versioned' \in [Versions -> Sets \cup {<<>>}]
    BY <1>0, <1>5, HostFields, MergeType, Zenon DEF StartLaunch, ClientOK
  <2>2. starts' \in 0..MaxStarts /\ hash' \in 0..MaxStarts /\ hash' <= starts'
    BY <1>0, <1>5, StartsAssumption, SMT, Z3, SMTT(20)
    DEF StartLaunch, ClientOK, MayStart
  <2>3. root' \in BOOLEAN
    BY <1>5, Zenon DEF StartLaunch
  <2>4. tls' \in {"none", "own", "auto"}
    BY <1>0, <1>5, Zenon DEF StartLaunch, ClientOK
  <2> QED
    BY <1>0, <1>5, <2>1, <2>2, <2>3, <2>4, Zenon DEF StartLaunch, ClientOK
<1>6. CASE NewClient
  <2>1. /\ versioned' \in [Versions -> Sets \cup {<<>>}]
        /\ plugins' \in Sets \cup {<<>>}
    BY <1>0, <1>6, SetsOK, Zenon DEF NewClient
  <2> QED
    BY <1>0, <1>6, <2>1, Zenon DEF NewClient, ClientOK
<1>7. CASE AnswerStep
  <2>1. UNCHANGED <<starts, versioned, hash, tls>>
        /\ start' \in {"failed", "panic", "ok"} /\ start = "wait"
    BY <1>7, AnswerFrame, Zenon
  <2>2. line # <<>> => line \in Lines
    BY Zenon DEF StateOK, PluginOK
  <2>3. srv = "serving" => line \in Lines
    BY <2>2, Zenon DEF StateOK, StagesOK
  <2>4. Adopt => /\ version' \in Versions /\ plugins' \in Sets
                 /\ line.proto \in {"grpc", "netrpc"}
    BY <1>0, <2>3, Zenon DEF Adopt, ClientOK, Lines
  <2>5. root' \in BOOLEAN
    BY <1>0, <1>7, Zenon DEF AnswerStep, StartNoLine, StartVersionRefused,
      StartTranslateFails, StartProtocolRefused, StartCertPanics,
      StartMuxRefused, StartOK, ClientOK
  <2>6. \/ UNCHANGED <<plugins, version, protocol>> /\ start' = "failed"
        \/ Adopt /\ (protocol' = protocol \/ protocol' = line.proto)
    BY <1>7, Zenon DEF AnswerStep, StartNoLine, StartVersionRefused,
      StartTranslateFails, StartProtocolRefused, StartCertPanics,
      StartMuxRefused, StartOK, StartFails
  <2>7. plugins' \in Sets \cup {<<>>} /\ version' \in Versions \cup {0}
        /\ protocol' \in {"none", "grpc", "netrpc"}
    BY <1>0, <2>4, <2>6, Zenon DEF ClientOK
  <2>8. start' = "ok" => plugins' # <<>>
    BY <1>0, <2>4, <2>6, SetsOK, Zenon
  <2> QED
    BY <1>0, <2>1, <2>5, <2>7, <2>8, Zenon DEF ClientOK
<1> QED
  BY <1>1, <1>2, <1>3, <1>4, <1>5, <1>6, <1>7, StepCases, Zenon

\* What Start asks for in the environment.
LEMMA LaunchType ==
  ASSUME ConfigOK, StartLaunch
  PROVE  env' \in Envs
<1>1. (host.mux \/ "mux" \in host.inherit) \in BOOLEAN
  BY Zenon
<1>2. (IF host.mtls THEN "client" ELSE IF "cert" \in host.inherit THEN "outer"
       ELSE "none") \in {"none", "outer", "client"}
  BY Zenon
<1>3. MinPort \in Nat /\ MaxPort \in Nat
  BY HostFields, DefaultsAssumption, Zenon DEF MinPort, MaxPort
<1> QED
  BY <1>1, <1>2, <1>3, Zenon DEF StartLaunch, Envs

\* Serve keeps the plugin's part.
LEMMA ServeType ==
  ASSUME StateOK, UntriedOK, ServeStep
  PROVE  PluginOK' /\ StagesOK'
<1>0. ConfigOK /\ PluginOK /\ StagesOK /\ env' = env /\ start' = start
  BY ServeFrame, Zenon DEF StateOK, cliVars
<1>1. CASE ServeCookie
  <2>1. chosen' = chosen \/ chosen' \in Results
    BY <1>0, <1>1, PluginFields, SMT, Z3, SMTT(20)
    DEF ServeCookie, Results, verVars
  <2>2. untried' \subseteq Versions
    BY <1>0, <1>1, Zenon DEF ServeCookie, PluginOK, verVars
  <2>3. srv' = "version" => chosen' # <<>>
    BY <1>1, SMT, Z3, SMTT(20) DEF ServeCookie
  <2>4. /\ UNCHANGED <<srvTLS, socket, tcpVars, line>> /\ srv = "cookie"
        /\ srv' = "version" \/ (srv' = "exited" /\ chosen' = chosen)
    BY <1>1, Zenon DEF ServeCookie, verVars
  <2>5. PluginOK'
    BY <1>0, <2>1, <2>2, <2>4, Zenon DEF PluginOK, tcpVars
  <2> QED
    BY <1>0, <2>3, <2>4, <2>5, Zenon DEF StagesOK
<1>2. CASE protocolVersion
  <2>1. /\ UNCHANGED <<srvTLS, socket, tcpVars, line>> /\ srv = "version"
        /\ srv' \in {"version", "listen"}
    BY <1>2, Zenon DEF protocolVersion
  <2>2. chosen \in Results
    BY <1>0, <2>1, Zenon DEF PluginOK, StagesOK
  <2>3. /\ chosen' \in Results /\ untried' \subseteq Versions
    <3>1. CASE UNCHANGED verVars
      BY <1>0, <2>2, <3>1, Zenon DEF verVars, tcpVars, PluginOK
    <3>2. CASE \E v \in untried :
                 chosen' = Record(v) /\ untried' \subseteq untried
      BY <1>0, <2>2, <3>2, RecordType, Zenon DEF UntriedOK, PluginOK
    <3> QED
      BY <1>2, <3>1, <3>2, Zenon DEF protocolVersion
  <2> QED
    BY <1>0, <2>1, <2>3, NotNothing, Zenon DEF PluginOK, StagesOK, tcpVars
<1>3. CASE ServeListenUnix
  <2>1. socket' \in BOOLEAN
    BY <1>0, <1>3, HostFields, Zenon DEF ServeListenUnix
  <2> QED
    BY <1>0, <1>3, <2>1, Zenon DEF ServeListenUnix, PluginOK, StagesOK,
         verVars, tcpVars
<1>4. CASE ServeListenTCP
  <2>1. srv = "listen" /\ env \in Envs
    BY <1>0, <1>4, Zenon DEF ServeListenTCP, PluginOK, StagesOK
  <2>2. trying' \in Nat
    BY <1>0, <1>4, <2>1, Zenon DEF ServeListenTCP, PluginOK, Envs
  <2> QED
    BY <1>0, <1>4, <2>1, <2>2, Zenon DEF ServeListenTCP, PluginOK, StagesOK,
         verVars
<1>11. CASE ServeBindTCP
  <2>0. trying \in Nat /\ port \in Nat /\ refused \subseteq Nat
    BY <1>0, Zenon DEF PluginOK
  <2>1. CASE UNCHANGED tcpVars
    BY <1>0, <1>11, <2>1, Zenon DEF ServeBindTCP, ListenTCP, PluginOK, StagesOK,
         verVars, tcpVars
  <2>2. CASE ListenTCP
    <3>1. port' \in Nat /\ refused' \subseteq Nat
      BY <2>0, <2>2, PortsAssumption, Zenon DEF ListenTCP
    <3>2. trying' \in Nat
      <4>1. trying + 1 \in Nat
        BY <2>0, SMT, Z3, SMTT(20)
      <4> QED
        BY <2>0, <2>2, <4>1, Zenon DEF ListenTCP
    <3>3. srv = "bind" /\ srv' \in {"tls", "bind"}
          /\ UNCHANGED <<verVars, line, srvTLS, socket>>
      BY <1>11, <2>2, Zenon DEF ServeBindTCP, ListenTCP
    <3> QED
      BY <1>0, <3>1, <3>2, <3>3, Zenon DEF PluginOK, StagesOK, verVars, tcpVars
  <2> QED
    BY <1>11, <2>1, <2>2, Zenon DEF ServeBindTCP
<1>5. CASE ServeTLS
  <2>1. srvTLS' \in {"none", "provider", "auto"}
    BY <1>0, <1>5, Zenon DEF ServeTLS, PluginOK
  <2>2. socket' \in BOOLEAN
    BY <1>0, <1>5, Zenon DEF ServeTLS, PluginOK
  <2>3. /\ UNCHANGED <<verVars, tcpVars, line>>
        /\ srv = "tls" /\ srv' \in {"exited", "build"}
    BY <1>5, Zenon DEF ServeTLS
  <2> QED
    BY <1>0, <2>1, <2>2, <2>3, Zenon DEF PluginOK, StagesOK, verVars, tcpVars
<1>6. CASE ServePipeFails
  BY <1>0, <1>6, Zenon DEF ServePipeFails, PluginOK, StagesOK, verVars, tcpVars
<1>7. CASE ServeInit
  <2>1. socket' \in BOOLEAN
    BY <1>0, <1>7, Zenon DEF ServeInit, PluginOK
  <2>2. /\ UNCHANGED <<verVars, tcpVars, line, srvTLS>>
        /\ srv = "build" /\ srv' \in {"exited", "announce"}
    BY <1>7, Zenon DEF ServeInit
  <2> QED
    BY <1>0, <2>1, <2>2, Zenon DEF PluginOK, StagesOK, verVars, tcpVars
<1>8. CASE ServeAnnounce
  <2>1. /\ UNCHANGED <<verVars, tcpVars, socket, srvTLS>> /\ srv = "announce"
        /\ srv' = "serving"
    BY <1>8, Zenon DEF ServeAnnounce
  <2>2. chosen.version \in Versions /\ chosen.proto \in {"netrpc", "grpc"}
    BY <1>0, <2>1, Zenon DEF PluginOK, StagesOK, Results
  <2>3. (srvTLS = "auto") \in BOOLEAN /\ (env.mux /\ ~plugin.old) \in BOOLEAN
    BY Zenon
  <2>4. line' \in Lines
    BY <1>8, <2>2, <2>3, Zenon DEF ServeAnnounce, Lines
  <2> QED
    BY <1>0, <2>1, <2>4, NotNothing, Zenon DEF PluginOK, StagesOK,
         verVars, tcpVars
<1>9. CASE ServeReturns
  <2>1. socket' \in BOOLEAN
    BY <1>0, <1>9, Zenon DEF ServeReturns, PluginOK
  <2>2. /\ UNCHANGED <<verVars, tcpVars, line, srvTLS>>
        /\ srv = "serving" /\ srv' = "exited"
    BY <1>9, Zenon DEF ServeReturns
  <2> QED
    BY <1>0, <2>1, <2>2, Zenon DEF PluginOK, StagesOK, verVars, tcpVars
<1>10. CASE SessionTimeout
  BY <1>0, <1>10, Zenon DEF SessionTimeout, PluginOK, StagesOK, verVars, tcpVars
<1> QED
  BY <1>1, <1>2, <1>3, <1>4, <1>5, <1>6, <1>7, <1>8, <1>9, <1>10,
     <1>11, Zenon DEF ServeStep

\* The plugin's part is kept by every step.
LEMMA PluginStep ==
  ASSUME StateOK, UntriedOK, [Next]_vars
  PROVE  PluginOK' /\ StagesOK'
<1>0. ConfigOK /\ ClientOK /\ PluginOK /\ StagesOK
  BY Zenon DEF StateOK
<1>1. CASE ConnectStep
  BY <1>0, <1>1, ConnectFrame, Zenon DEF cliVars, srvVars, verVars, tcpVars, PluginOK,
       StagesOK
<1>2. CASE UNCHANGED vars \/ Reattach
  BY <1>0, <1>2, Zenon DEF vars, Reattach, cliVars, srvVars, verVars, tcpVars, PluginOK,
       StagesOK
<1>3. CASE StartChecksum
  BY <1>0, <1>3, Zenon DEF StartChecksum, srvVars, verVars, tcpVars, PluginOK, StagesOK
<1>4. CASE StartLaunch
  <2>1. env' \in Envs /\ env' # <<>>
    BY <1>0, <1>4, LaunchType, NotNothing, Zenon
  <2> QED
    BY <1>4, <2>1, Zenon DEF StartLaunch, PluginOK, StagesOK
<1>5. CASE NewClient
  BY <1>5, Zenon DEF NewClient, PluginOK, StagesOK
<1>6. CASE AnswerStep
  <2>1. start' = "ok" => srv = "serving" /\ srv' = srv
    BY <1>6, Zenon DEF AnswerStep, StartNoLine, StartVersionRefused,
      StartTranslateFails, StartProtocolRefused, StartCertPanics,
      StartMuxRefused, StartOK, StartFails, Adopt, srvVars
  <2> QED
    BY <1>0, <1>6, <2>1, AnswerFrame, Zenon DEF verVars, tcpVars, PluginOK, StagesOK
<1> QED
  BY <1>1, <1>2, <1>3, <1>4, <1>5, <1>6, ServeType, StepCases, Zenon

TypeInv == StateOK /\ UntriedOK

\* The first state.
LEMMA InitTypeInv == ASSUME Init PROVE TypeInv
<1>1. ConfigOK
  BY ScenariosAssumption, Zenon DEF Init, ConfigOK
<1>2. /\ versioned \in [Versions -> Sets \cup {<<>>}]
      /\ plugins \in Sets \cup {<<>>}
  BY <1>1, SetsOK, Zenon DEF Init
<1>3. ClientOK
  <2>1. root \in BOOLEAN
    BY Zenon DEF Init
  <2>2. tls \in {"none", "own", "auto"}
    BY Zenon DEF Init
  <2>3. starts \in 0..MaxStarts /\ hash \in 0..MaxStarts /\ hash <= starts
    BY StartsAssumption, SMT, Z3, SMTT(20) DEF Init
  <2> QED
    BY <1>2, <2>1, <2>2, <2>3, Zenon DEF Init, ClientOK
<1> QED
  BY <1>1, <1>3, Zenon DEF Init, TypeInv, StateOK, PluginOK, StagesOK,
       UntriedOK

\* Every step.
LEMMA NextTypeInv == ASSUME TypeInv, [Next]_vars PROVE TypeInv'
<1>1. ConfigOK'
  BY ConfigStays, Zenon DEF TypeInv, StateOK, ConfigOK
<1>2. conn' \in {"none", "ok", "failed", "refused"}
  <2>0. conn \in {"none", "ok", "failed", "refused"}
    BY Zenon DEF TypeInv, StateOK
  <2>1. CASE ServeStep \/ AnswerStep
    BY <2>0, <2>1, ServeFrame, AnswerFrame, Zenon
  <2>2. CASE ConnectStep
    BY <2>2, Zenon DEF ConnectStep, Connect, NewGRPCClientMuxer, Connected
  <2>3. CASE \/ StartChecksum \/ StartLaunch \/ Reattach \/ NewClient
             \/ UNCHANGED vars
    BY <2>0, <2>3, Zenon DEF StartChecksum, StartLaunch, Reattach, NewClient,
         vars
  <2> QED
    BY <2>1, <2>2, <2>3, StepCases, Zenon
<1> QED
  BY <1>1, <1>2, ClientStep, PluginStep, UntriedStep, Zenon
     DEF TypeInv, StateOK

\* The types hold throughout (TypeOK): in particular a client whose Start has
\* succeeded has a plugin set, which Dispense looks its plugins up in.
THEOREM TypeCorrect == Spec => []TypeOK
<1>1. TypeInv => TypeOK
  BY Zenon DEF TypeInv, StateOK, ConfigOK, ClientOK, PluginOK, TypeOK
<1> QED
  BY <1>1, InitTypeInv, NextTypeInv, PTL DEF Spec

\* TypeInv holds throughout.
LEMMA TypeInvHolds == Spec => []TypeInv
BY InitTypeInv, NextTypeInv, PTL DEF Spec

-----------------------------------------------------------------------------
(* The listener: the socket file and the port.                             *)

\* The steps that leave the listener alone, and Serve where it was or killed.
ListenerKept ==
  /\ UNCHANGED <<host, plugin, env, verVars, srvTLS, socket, tcpVars, line>>
  /\ srv' = srv \/ (srv = "serving" /\ srv' = "killed")

\* All but Serve's own steps do, or begin anew.
LEMMA ListenerCases ==
  ASSUME [Next]_vars
  PROVE  \/ ServeStep
         \/ ListenerKept
         \/ /\ UNCHANGED <<host, plugin>>
            /\ srv' \in {"off", "cookie"} /\ chosen' = <<>> /\ socket' = FALSE
            /\ port' = 0 /\ refused' = {} /\ line' = <<>> /\ untried' = {}
<1>1. CASE AnswerStep
  BY <1>1, AnswerFrame, Zenon DEF ListenerKept
<1>2. CASE ConnectStep
  BY <1>2, ConnectFrame, Zenon DEF ListenerKept, srvVars
<1>3. CASE StartChecksum \/ Reattach \/ UNCHANGED vars
  BY <1>3, Zenon DEF StartChecksum, Reattach, vars, ListenerKept, srvVars
<1>4. CASE StartLaunch \/ NewClient
  BY <1>4, Zenon DEF StartLaunch, NewClient
<1> QED
  BY <1>1, <1>2, <1>3, <1>4, StepCases, Zenon

\* The environment is Start's to make.
LEMMA EnvCases == ASSUME [Next]_vars PROVE env' = env \/ StartLaunch \/ NewClient
<1>1. ServeStep \/ AnswerStep \/ ConnectStep => env' = env
  BY ServeFrame, AnswerFrame, ConnectFrame, Zenon DEF srvVars
<1>2. StartChecksum \/ Reattach \/ UNCHANGED vars => env' = env
  BY Zenon DEF StartChecksum, Reattach, vars, srvVars
<1> QED
  BY <1>1, <1>2, StepCases, Zenon

SocketInv ==
  /\ srv \in {"off", "cookie", "version", "listen", "bind"} => socket = FALSE
  /\ SocketRemoved

\* Every step.
LEMMA SocketStep == ASSUME TypeInv, SocketInv, [Next]_vars PROVE SocketInv'
<1>0. /\ StagesOK /\ socket \in BOOLEAN /\ host.group \in BOOLEAN
      /\ host' = host /\ plugin' = plugin
  BY HostFields, ConfigStays, Zenon DEF TypeInv, StateOK, PluginOK
<1>1. CASE ServeStep
  <2>0. env' = env
    BY <1>1, ServeFrame, Zenon
  <2>1. CASE ServeCookie \/ protocolVersion \/ ServeListenTCP \/ ServeBindTCP
    <3>1. /\ socket' = socket /\ srv \in {"cookie", "version", "listen", "bind"}
      BY <2>1, Zenon DEF ServeCookie, protocolVersion, ServeListenTCP, ServeBindTCP
    <3> QED
      BY <3>1, Zenon DEF SocketInv, SocketRemoved
  <2>2. CASE ServeListenUnix
    <3>1. srv' = "tls" \/ (srv' = "exited" /\ socket' \in {FALSE, host.group})
      BY <2>2, Zenon DEF ServeListenUnix
    <3> QED
      BY <1>0, <3>1, Zenon DEF SocketInv, SocketRemoved
  <2>3. CASE ServeTLS
    <3>1. srv' = "build" \/ (srv' = "exited" /\ socket' = FALSE)
      BY <2>3, Zenon DEF ServeTLS
    <3> QED
      BY <3>1, Zenon DEF SocketInv, SocketRemoved
  <2>4. CASE ServePipeFails \/ ServeAnnounce
    BY <2>4, Zenon DEF ServePipeFails, ServeAnnounce, SocketInv, SocketRemoved
  <2>5. CASE ServeInit \/ ServeReturns \/ SessionTimeout
    <3>1. /\ srv' = "announce" \/ (srv' = "exited" /\ (socket' => srvMux))
          /\ chosen' = chosen /\ srv \in {"build", "serving"}
      BY <2>5, Zenon DEF ServeInit, ServeReturns, SessionTimeout, verVars
    <3>2. chosen' # <<>>
      BY <1>0, <3>1, Zenon DEF StagesOK
    <3>3. srvMux' <=> srvMux
      BY <1>0, <2>0, <3>1, Zenon DEF srvMux
    <3> QED
      BY <3>1, <3>2, <3>3, Zenon DEF SocketInv, SocketRemoved
  <2> QED
    BY <1>1, <2>1, <2>2, <2>3, <2>4, <2>5, Zenon DEF ServeStep
<1>2. CASE ListenerKept
  <2>1. srvMux' <=> srvMux
    BY <1>2, Zenon DEF ListenerKept, srvMux, verVars
  <2> QED
    BY <1>2, <2>1, Zenon DEF ListenerKept, SocketInv, SocketRemoved, verVars
<1>3. CASE srv' \in {"off", "cookie"} /\ socket' = FALSE
  BY <1>3, Zenon DEF SocketInv, SocketRemoved
<1> QED
  BY <1>1, <1>2, <1>3, ListenerCases, Zenon

\* Whatever path Serve returns by (the cookie, a listener, TLS or a server that
\* fails, the end of Serve), its socket file is gone, unless it multiplexes
\* (SocketRemoved).
THEOREM SocketGone == Spec => []SocketRemoved
<1>1. Init => SocketInv
  BY Zenon DEF Init, SocketInv, SocketRemoved
<1>2. SocketInv => SocketRemoved
  BY Zenon DEF SocketInv
<1> QED
  BY <1>1, <1>2, SocketStep, TypeInvHolds, PTL DEF Spec

\* The hosts PortInRange is about.
FromRange == (host.min > 0 \/ host.max = 0) /\ host.max <= IntMax

\* How far the loop has come, and what it has come to: the ports below the one to
\* be tried, or listened on, have been refused, and no others.
PortInv ==
  /\ env # <<>> => env.min = MinPort /\ env.max = MaxPort
  /\ srv \in {"off", "cookie", "version", "listen"} => port = 0 /\ refused = {}
  /\ srv = "bind" =>
       /\ port = 0 /\ MinPort <= trying
       /\ \A p \in MinPort .. MaxPort : p < trying => p \in refused
       /\ \A p \in refused : p < trying
  /\ (host.net = "tcp" /\ FromRange) =>
       /\ srv \in {"tls", "build", "announce", "serving"} => port # 0
       /\ port # 0 =>
            /\ port \in (MinPort .. MaxPort) \ refused
            /\ \A p \in MinPort .. MaxPort : p < port => p \in refused
       /\ (srv = "exited" /\ chosen # <<>> /\ port = 0) =>
            MinPort .. MaxPort \subseteq refused

\* The first port to be tried, and the ways of giving up before one is.
LEMMA PortBegin ==
  ASSUME TypeInv, PortInv, ServeListenTCP
  PROVE  PortInv'
<1>0. /\ host.min \in Nat /\ host.max \in Nat /\ UNCHANGED <<host, env>>
      /\ port = 0 /\ refused = {} /\ UNCHANGED <<port, refused>>
      /\ env.min = MinPort /\ env.max = MaxPort /\ srv = "listen"
  BY HostFields, Zenon DEF TypeInv, StateOK, StagesOK, ServeListenTCP, PortInv
<1>1. MinPort \in Nat /\ MaxPort \in Nat /\ (FromRange => MaxPort <= IntMax)
  BY <1>0, DefaultsAssumption, SMT, Z3, SMTT(20) DEF MinPort, MaxPort, FromRange
<1>2. MinPort' = MinPort /\ MaxPort' = MaxPort /\ FromRange' = FromRange
  BY <1>0, Zenon DEF MinPort, MaxPort, FromRange
<1>3. CASE srv' = "exited"
  <2>1. env.min > IntMax \/ env.max > IntMax \/ env.min > env.max
    BY <1>3, Zenon DEF ServeListenTCP
  <2>2. FromRange => MinPort .. MaxPort \subseteq refused
    BY <1>0, <1>1, <2>1, DefaultsAssumption, SMT, Z3, SMTT(20)
  <2> QED
    BY <1>0, <1>2, <1>3, <2>2, Zenon DEF PortInv
<1>4. CASE srv' = "bind" /\ trying' = env.min
  <2>1. /\ MinPort <= MinPort
        /\ \A p \in MinPort .. MaxPort : ~ (p < MinPort)
    BY <1>1, SMT, Z3, SMTT(20)
  <2> QED
    BY <1>0, <1>2, <1>4, <2>1, Zenon DEF PortInv
<1> QED
  BY <1>3, <1>4, Zenon DEF ServeListenTCP

\* A turn of the loop, and its end.
LEMMA PortLoop ==
  ASSUME TypeInv, PortInv, ServeBindTCP
  PROVE  PortInv'
<1>0. /\ host.min \in Nat /\ host.max \in Nat /\ UNCHANGED <<host, env>>
      /\ port = 0 /\ MinPort <= trying /\ trying \in Nat /\ refused \subseteq Nat
      /\ env.min = MinPort /\ env.max = MaxPort /\ srv = "bind"
      /\ env # <<>>
  BY HostFields, Zenon DEF TypeInv, StateOK, StagesOK, PluginOK, ServeBindTCP,
       PortInv
<1>a. /\ \A p \in MinPort .. MaxPort : p < trying => p \in refused
      /\ \A p \in refused : p < trying
  BY <1>0, Zenon DEF PortInv
<1>1. MinPort \in Nat /\ MaxPort \in Nat /\ (FromRange => MinPort > 0)
  BY <1>0, DefaultsAssumption, SMT, Z3, SMTT(20) DEF MinPort, MaxPort, FromRange
<1>2. MinPort' = MinPort /\ MaxPort' = MaxPort /\ FromRange' = FromRange
  BY <1>0, Zenon DEF MinPort, MaxPort, FromRange
<1>3. CASE trying > env.max /\ srv' = "exited" /\ UNCHANGED tcpVars
  <2>1. MinPort .. MaxPort \subseteq refused
    BY <1>0, <1>a, <1>1, <1>3, SMT, Z3, SMTT(20)
  <2> QED
    BY <1>0, <1>2, <1>3, <2>1, Zenon DEF PortInv, tcpVars
<1>4. CASE trying <= env.max /\ srv' = "tls" /\ refused' = refused
           /\ port' \in IF trying = 0 THEN Ports ELSE {trying}
  <2>1. FromRange => trying > 0 /\ trying \in (MinPort .. MaxPort) \ refused
    BY <1>0, <1>a, <1>1, <1>4, SMT, Z3, SMTT(20)
  <2>2. trying > 0 => trying # 0
    BY <1>0, SMT, Z3, SMTT(20)
  <2>3. FromRange => port' = trying /\ port' # 0
    BY <1>4, <2>1, <2>2, Zenon
  <2> QED
    BY <1>0, <1>a, <1>2, <1>4, <2>1, <2>3, Zenon DEF PortInv
<1>5. CASE /\ trying <= env.max /\ srv' = "bind" /\ port' = port
           /\ refused' = refused \cup {trying} /\ trying' = trying + 1
  <2>1. /\ MinPort <= trying'
        /\ \A p \in MinPort .. MaxPort : p < trying' => p \in refused'
        /\ \A p \in refused' : p < trying'
    BY <1>0, <1>a, <1>1, <1>5, SMT, Z3, SMTT(20)
  <2> QED
    BY <1>0, <1>2, <1>5, <2>1, Zenon DEF PortInv
<1> QED
  BY <1>3, <1>4, <1>5, Zenon DEF ServeBindTCP, ListenTCP

\* Every step.
LEMMA PortStep == ASSUME TypeInv, PortInv, [Next]_vars PROVE PortInv'
<1>0. /\ StagesOK /\ host' = host /\ host.net \in {"unix", "tcp"}
  BY HostFields, ConfigStays DEF TypeInv, StateOK
<1>b. MinPort' = MinPort /\ MaxPort' = MaxPort /\ FromRange' = FromRange
  BY <1>0, Zenon DEF MinPort, MaxPort, FromRange
<1>1. CASE ServeStep
  <2>0. env' = env
    BY <1>1, ServeFrame, Zenon
  <2>1. CASE ServeCookie \/ protocolVersion
    <3>1. /\ UNCHANGED tcpVars /\ srv \in {"cookie", "version"}
          /\ \/ srv' \in {"version", "listen"}
             \/ srv' = "exited" /\ chosen' = chosen
          /\ srv' = "exited" => srv = "cookie"
      BY <2>1, Zenon DEF ServeCookie, protocolVersion, verVars
    <3> QED
      BY <1>0, <1>b, <2>0, <3>1, Zenon DEF PortInv, StagesOK, tcpVars
  <2>2. CASE ServeListenUnix
    BY <1>0, <1>b, <2>0, <2>2, Zenon DEF ServeListenUnix, PortInv, tcpVars
  <2>3. CASE \/ ServeTLS \/ ServePipeFails \/ ServeInit \/ ServeAnnounce
             \/ ServeReturns \/ SessionTimeout
    <3>1. /\ UNCHANGED tcpVars
          /\ srv \in {"tls", "build", "announce", "serving"}
          /\ srv' \in {"build", "announce", "serving", "exited", "aborted"}
      BY <2>3, Zenon DEF ServeTLS, ServePipeFails, ServeInit, ServeAnnounce,
        ServeReturns, SessionTimeout
    <3> QED
      BY <1>0, <1>b, <2>0, <3>1, Zenon DEF PortInv, tcpVars
  <2> QED
    BY <1>1, <2>1, <2>2, <2>3, PortBegin, PortLoop, Zenon DEF ServeStep
<1>2. CASE ListenerKept
  BY <1>0, <1>b, <1>2, Zenon DEF ListenerKept, PortInv, verVars, tcpVars
<1>3. CASE srv' \in {"off", "cookie"} /\ port' = 0 /\ refused' = {}
  <2>1. env' # <<>> => env'.min = MinPort /\ env'.max = MaxPort
    <3>1. CASE env' = env
      BY <3>1, Zenon DEF PortInv
    <3>2. CASE StartLaunch
      BY <3>2, Zenon DEF StartLaunch
    <3>3. CASE NewClient
      BY <3>3, Zenon DEF NewClient
    <3> QED
      BY <3>1, <3>2, <3>3, EnvCases, Zenon
  <2> QED
    BY <1>0, <1>b, <1>3, <2>1, Zenon DEF PortInv
<1> QED
  BY <1>1, <1>2, <1>3, ListenerCases, Zenon

\* A plugin told a range of ports, the host's own or the default of NewClient,
\* listens on the first of them that net.Listen takes, and gives up only once
\* net.Listen has refused each of them (PortInRange): for any range, an empty one
\* included, any default, and whatever net.Listen answers.
THEOREM PortFits == Spec => []PortInRange
<1>1. Init => PortInv
  BY Zenon DEF Init, PortInv
<1>2. TypeInv /\ PortInv => PortInRange
  <2>1. Allowed = MinPort .. MaxPort
    BY Zenon DEF Allowed, MinPort, MaxPort
  <2> QED
    BY <2>1, Zenon DEF PortInv, PortInRange, FromRange
<1> QED
  BY <1>1, <1>2, PortStep, TypeInvHolds, PTL DEF Spec

-----------------------------------------------------------------------------
(* The version: what the loop of protocolVersion comes to.                 *)

Served == {v \in Versions : Offered[v] # "none"}

\* The versions tried so far are above the others and not the host's; the last
\* of them is the result.
TriedInv ==
  srv = "version" =>
    /\ untried \subseteq Served
    /\ \A u \in Served \ untried : u \notin env.versions
    /\ untried # Served => chosen.version \in Served \ untried

\* The result: the highest that the host has, if it has any.
ChosenInv ==
  (srv \notin {"off", "cookie", "version"} /\ chosen # <<>> /\ Served # {}) =>
    /\ chosen.version \in Served
    /\ \A u \in Served \cap env.versions : u <= chosen.version
    /\ Served \cap env.versions # {} => chosen.version \in env.versions

AnnouncedInv ==
  line # <<>> => line.version = chosen.version /\ line.proto = chosen.proto

VersionInv == TriedInv /\ ChosenInv /\ AnnouncedInv

\* Served is what the plugin's author has registered.
LEMMA ServedVersions == ASSUME ConfigOK PROVE PluginVersions = Served
BY PluginFields, Zenon DEF PluginVersions, Served, Offered

\* One pass of the loop, or its end.
LEMMA LoopStep ==
  ASSUME TypeInv, VersionInv, protocolVersion
  PROVE  TriedInv' /\ ChosenInv'
<1>0. /\ ConfigOK /\ chosen \in Results /\ srv = "version"
      /\ Served \subseteq Nat /\ Served \subseteq Versions
  BY VersionsAssumption, Zenon DEF protocolVersion, TypeInv, StateOK, PluginOK,
       StagesOK, Served
<1>1. /\ untried \subseteq Served
      /\ \A u \in Served \ untried : u \notin env.versions
      /\ untried # Served => chosen.version \in Served \ untried
  BY <1>0, Zenon DEF VersionInv, TriedInv
<1>2. env' = env /\ Served' = Served
  BY Zenon DEF protocolVersion, Served, Offered
<1>3. CASE untried = {} /\ srv' = "listen" /\ UNCHANGED verVars
  BY <1>1, <1>2, <1>3, Zenon DEF TriedInv, ChosenInv, verVars
<1>4. ASSUME NEW v \in untried, \A u \in untried : u <= v, chosen' = Record(v),
             \/ v \in env.versions /\ srv' = "listen" /\ untried' = {}
             \/ /\ v \notin env.versions
                /\ srv' = "version" /\ untried' = untried \ {v}
      PROVE  TriedInv' /\ ChosenInv'
  <2>1. chosen'.version = v /\ v \in Served
    BY <1>0, <1>1, <1>4, RecordType, Zenon DEF Served
  <2>2. CASE v \in env.versions /\ srv' = "listen" /\ untried' = {}
    <3>1. \A u \in Served \cap env.versions : u <= v
      BY <1>1, <1>4, Zenon
    <3> QED
      BY <1>2, <2>1, <2>2, <3>1, Zenon DEF TriedInv, ChosenInv
  <2>3. CASE /\ v \notin env.versions
             /\ srv' = "version" /\ untried' = untried \ {v}
    BY <1>1, <1>2, <2>1, <2>3, Zenon DEF TriedInv, ChosenInv
  <2> QED
    BY <1>4, <2>2, <2>3, Zenon
<1> QED
  BY <1>3, <1>4, Zenon DEF protocolVersion

\* Every step.
LEMMA VersionStep == ASSUME TypeInv, VersionInv, [Next]_vars PROVE VersionInv'
<1>0. StagesOK /\ Served' = Served
  BY OfferedStays, Zenon DEF TypeInv, StateOK, Served
<1>1. CASE ServeStep
  <2>0. env' = env
    BY <1>1, ServeFrame, Zenon
  <2>1. CASE ServeCookie
    <3>1. \/ srv' = "version" /\ untried' = Served
          \/ srv' = "exited" /\ chosen' = chosen
      BY <2>1, Zenon DEF ServeCookie, Served, verVars
    <3>2. chosen = <<>> /\ line = <<>> /\ line' = line
      BY <1>0, <2>1, Zenon DEF ServeCookie, StagesOK
    <3> QED
      BY <1>0, <3>1, <3>2, Zenon DEF VersionInv, TriedInv, ChosenInv,
           AnnouncedInv
  <2>2. CASE protocolVersion
    <3>1. line = <<>> /\ line' = line
      BY <1>0, <2>2, Zenon DEF protocolVersion, StagesOK
    <3> QED
      BY <2>2, <3>1, LoopStep, Zenon DEF VersionInv, AnnouncedInv
  <2>3. CASE \/ ServeListenUnix \/ ServeListenTCP \/ ServeBindTCP \/ ServeTLS
             \/ ServePipeFails \/ ServeInit \/ ServeAnnounce \/ ServeReturns \/ SessionTimeout
    <3>1. /\ chosen' = chosen
          /\ srv \notin {"off", "cookie", "version"} /\ srv' # "version"
      BY <2>3, Zenon DEF ServeListenUnix, ServeListenTCP, ServeBindTCP, ListenTCP,
        ServeTLS,
           ServePipeFails, ServeInit, ServeAnnounce, ServeReturns,
           SessionTimeout, verVars
    <3>2. \/ line' = line
          \/ line'.version = chosen.version /\ line'.proto = chosen.proto
      <4>1. line' = line \/ ServeAnnounce
        BY <2>3, Zenon DEF ServeListenUnix, ServeListenTCP, ServeBindTCP, ListenTCP,
          ServeTLS,
          ServePipeFails, ServeInit, ServeReturns, SessionTimeout
      <4>2. ServeAnnounce =>
              line'.version = chosen.version /\ line'.proto = chosen.proto
        BY SMT, Z3, SMTT(20) DEF ServeAnnounce
      <4> QED
        BY <4>1, <4>2, Zenon
    <3> QED
      BY <1>0, <2>0, <3>1, <3>2, Zenon DEF VersionInv, TriedInv, ChosenInv,
           AnnouncedInv
  <2> QED
    BY <1>1, <2>1, <2>2, <2>3, Zenon DEF ServeStep
<1>2. CASE ListenerKept
  BY <1>0, <1>2, Zenon DEF ListenerKept, verVars, VersionInv, TriedInv,
       ChosenInv, AnnouncedInv
<1>3. CASE srv' \in {"off", "cookie"} /\ chosen' = <<>> /\ line' = <<>>
  BY <1>3, Zenon DEF VersionInv, TriedInv, ChosenInv, AnnouncedInv
<1> QED
  BY <1>1, <1>2, <1>3, ListenerCases, Zenon

\* VersionInv holds throughout.
LEMMA VersionInvHolds == Spec => []VersionInv
<1>1. Init => VersionInv
  BY Zenon DEF Init, VersionInv, TriedInv, ChosenInv, AnnouncedInv
<1> QED
  BY <1>1, VersionStep, TypeInvHolds, PTL DEF Spec

-----------------------------------------------------------------------------
(* The client: its plugin sets, and what it adopts.                        *)

\* VersionedPlugins once Start has added Plugins to it.
Merged == Merge(Registered(host), Unversioned(host), host.version)

\* Before the first Start.
IdleInv ==
  /\ starts = 0 => start = "idle"
  /\ start = "idle" =>
       /\ versioned = Registered(host) /\ plugins = Unversioned(host)
       /\ env = <<>> /\ again = <<>>

\* After it.
FirstInv ==
  /\ (starts = 1 /\ start # "idle") => versioned = Merged
  /\ (starts = 1 /\ env # <<>>) => env.versions = HostVersions

AdoptedInv ==
  /\ start = "ok" => version = line.version /\ plugins = versioned[version]
  /\ again # <<>> =>
       /\ start = "ok"
       /\ again = <<ReattachConfig,
                    Merge(Registered(host), Unversioned(host), version)[version]>>

StartInv == IdleInv /\ FirstInv /\ AdoptedInv

\* The versions Start tells the plugin are those the host's author registered.
LEMMA MergedVersions ==
  ASSUME ConfigOK
  PROVE  /\ {v \in Versions : Merged[v] # <<>>} = HostVersions
         /\ \A v \in HostVersions : Merged[v] = SetOf(v)
<1>1. host.versioned \subseteq Versions /\ host.version \in Versions
  BY HostFields, Zenon
<1>2. \A v \in Versions :
        Registered(host)[v] = IF v \in host.versioned THEN <<"v", v>> ELSE <<>>
  BY Zenon DEF Registered
<1>3. \A v \in Versions : <<"v", v>> # <<>> /\ <<"plugins", 0>> # <<>>
  BY Zenon
<1>4. \A v \in Versions :
        Merged[v] = IF v \in host.versioned THEN <<"v", v>>
                    ELSE IF v = host.version /\ host.plugins
                         THEN <<"plugins", 0>> ELSE <<>>
  BY <1>1, <1>2, <1>3, Zenon DEF Merged, Merge, Registered, Unversioned
<1>5. HostVersions \subseteq Versions
  BY <1>1, Zenon DEF HostVersions
<1>6. {v \in Versions : Merged[v] # <<>>} = HostVersions
  BY <1>1, <1>3, <1>4, Zenon DEF HostVersions
<1>7. \A v \in HostVersions : Merged[v] = SetOf(v)
  BY <1>1, <1>4, <1>5, Zenon DEF HostVersions, SetOf
<1> QED
  BY <1>6, <1>7, Zenon

\* No plugin runs for a client that has not started.
LEMMA ServeNotIdle ==
  ASSUME TypeInv, StartInv, ServeStep
  PROVE  start # "idle" /\ (start = "ok" => line' = line)
<1>1. srv # "off"
  BY Zenon DEF ServeStep, ServeCookie, protocolVersion, ServeListenUnix,
     ServeListenTCP, ServeBindTCP, ListenTCP,
     ServeTLS, ServePipeFails, ServeInit, ServeAnnounce,
     ServeReturns, SessionTimeout
<1>2. start # "idle"
  BY <1>1, Zenon DEF TypeInv, StateOK, StagesOK, StartInv, IdleInv
<1>3. line' = line \/ srv = "announce"
  BY Zenon DEF ServeStep, ServeCookie, protocolVersion, ServeListenUnix,
     ServeListenTCP, ServeBindTCP, ListenTCP,
     ServeTLS, ServePipeFails, ServeInit, ServeAnnounce,
     ServeReturns, SessionTimeout
<1>4. start = "ok" => srv # "announce"
  BY Zenon DEF TypeInv, StateOK, StagesOK
<1> QED
  BY <1>2, <1>3, <1>4, Zenon

\* What Start has before it waits for the plugin.
LEMMA FirstStart ==
  ASSUME TypeInv, StartInv, StartChecksum \/ StartLaunch
  PROVE  /\ starts \in Nat /\ starts' = starts + 1 /\ start' # "idle"
         /\ start' # "ok" /\ again = <<>> /\ again' = <<>>
         /\ starts' = 1 => versioned' = Merged /\ env = <<>>
<1>1. starts \in Nat /\ starts' = starts + 1 /\ start' \in {"mismatch", "wait"}
      /\ again' = again /\ start \in {"idle", "mismatch", "failed"}
  BY StartsAssumption, SMT, Z3, SMTT(20)
     DEF TypeInv, StateOK, ClientOK, StartChecksum, StartLaunch,
     MayStart
<1>2. again = <<>>
  BY <1>1, Zenon DEF StartInv, AdoptedInv
<1>3. starts' = 1 => start = "idle"
  BY <1>1, SMT, Z3, SMTT(20) DEF StartInv, IdleInv
<1>4. starts' = 1 => versioned' = Merged /\ env = <<>>
  BY <1>3, Zenon DEF StartChecksum, StartLaunch, StartInv, IdleInv, Merged
<1> QED
  BY <1>1, <1>2, <1>4, Zenon

\* Every step.
LEMMA StartStep == ASSUME TypeInv, StartInv, [Next]_vars PROVE StartInv'
<1>0. ConfigOK /\ host' = host
  BY ConfigStays DEF TypeInv, StateOK
<1>c. Merged' = Merged /\ HostVersions' = HostVersions
  BY <1>0, Zenon DEF Merged, HostVersions
<1>1. CASE ServeStep
  <2>1. UNCHANGED <<starts, versioned, plugins, start, version, protocol, again,
                    env>>
    BY <1>1, ServeFrame, Zenon DEF cliVars
  <2>2. ReattachConfig' = ReattachConfig
    BY <2>1, Zenon DEF ReattachConfig
  <2>3. start # "idle" /\ (start = "ok" => line' = line)
    BY <1>1, ServeNotIdle, Zenon
  <2> QED
    BY <1>0, <1>c, <2>1, <2>2, <2>3, Zenon
       DEF StartInv, IdleInv, FirstInv, AdoptedInv
<1>2. CASE ConnectStep \/ UNCHANGED vars
  <2>1. UNCHANGED <<starts, versioned, plugins, start, version, protocol, again,
                    env, line>>
    BY <1>2, ConnectFrame, Zenon DEF cliVars, srvVars, vars
  <2>2. ReattachConfig' = ReattachConfig
    BY <2>1, Zenon DEF ReattachConfig
  <2> QED
    BY <1>0, <1>c, <2>1, <2>2, Zenon
       DEF StartInv, IdleInv, FirstInv, AdoptedInv
<1>3. CASE StartChecksum
  <2>1. env' = env
    BY <1>3, Zenon DEF StartChecksum, srvVars
  <2> QED
    BY <1>3, <1>c, <2>1, FirstStart, SMT, Z3, SMTT(20)
    DEF StartInv, IdleInv, FirstInv, AdoptedInv
<1>4. CASE StartLaunch
  <2>1. starts' = 1 => env'.versions = HostVersions
    <3>1. env'.versions = {v \in Versions : versioned'[v] # <<>>}
      BY <1>4, Zenon DEF StartLaunch
    <3> QED
      BY <1>0, <1>4, <3>1, FirstStart, MergedVersions, Zenon
  <2> QED
    BY <1>4, <1>c, <2>1, FirstStart, SMT, Z3, SMTT(20)
    DEF StartInv, IdleInv, FirstInv, AdoptedInv
<1>5. CASE NewClient
  <2>1. starts # 0
    BY <1>5, Zenon DEF NewClient, StartInv, IdleInv
  <2> QED
    BY <1>0, <1>5, <2>1, Zenon DEF NewClient, StartInv, IdleInv, FirstInv,
         AdoptedInv
<1>6. CASE Reattach
  <2>1. /\ UNCHANGED <<starts, versioned, plugins, start, version, protocol,
                       env, line>>
        /\ start = "ok"
    BY <1>6, Zenon DEF Reattach, srvVars
  <2>2. ReattachConfig' = ReattachConfig
    BY <2>1, Zenon DEF ReattachConfig
  <2>3. ReattachConfig.version = version
    BY Zenon DEF ReattachConfig
  <2>4. again' = <<ReattachConfig,
                   Merge(Registered(host), Unversioned(host), version)[version]>>
    BY <1>6, <2>3, Zenon DEF Reattach
  <2>5. IdleInv' /\ FirstInv'
    BY <1>c, <2>1, Zenon DEF StartInv, IdleInv, FirstInv
  <2>6. AdoptedInv'
    BY <1>0, <2>1, <2>2, <2>4, Zenon DEF StartInv, AdoptedInv
  <2> QED
    BY <2>5, <2>6, Zenon DEF StartInv
<1>7. CASE AnswerStep
  <2>1. /\ UNCHANGED <<starts, versioned, again, env, line>>
        /\ start = "wait" /\ start' \in {"failed", "panic", "ok"}
    BY <1>7, AnswerFrame, Zenon
  <2>2. again = <<>> /\ starts # 0
    BY <2>1, Zenon DEF StartInv, IdleInv, AdoptedInv
  <2>3. start' = "ok" =>
          version' = line.version /\ plugins' = versioned[line.version]
    BY <1>7, <2>1, Zenon DEF AnswerStep, StartNoLine, StartVersionRefused,
      StartTranslateFails, StartProtocolRefused, StartCertPanics,
      StartMuxRefused, StartOK, StartFails, Adopt
  <2> QED
    BY <1>c, <2>1, <2>2, <2>3, Zenon DEF StartInv, IdleInv, FirstInv,
         AdoptedInv
<1> QED
  BY <1>1, <1>2, <1>3, <1>4, <1>5, <1>6, <1>7, StepCases, Zenon

\* StartInv holds throughout.
LEMMA StartInvHolds == Spec => []StartInv
<1>1. Init => StartInv
  BY Zenon DEF Init, StartInv, IdleInv, FirstInv, AdoptedInv
<1> QED
  BY <1>1, StartStep, TypeInvHolds, PTL DEF Spec

-----------------------------------------------------------------------------
(* What comes of it: the version, and a client that reattaches.            *)

\* The maximum of a set is its one member that is above the others.
LEMMA MaxIs ==
  ASSUME NEW S \in SUBSET Nat, NEW v \in S, \A u \in S : u <= v
  PROVE  Max(S) = v
<1>1. \A u \in S : v >= u
  BY Zenon
<1>2. Max(S) \in S /\ \A u \in S : Max(S) >= u
  BY <1>1, Zenon DEF Max
<1>3. Max(S) \in Nat /\ v \in Nat /\ Max(S) >= v /\ Max(S) <= v
  BY <1>2, Zenon
<1> QED
  BY <1>3, SMT, Z3, SMTT(20)

\* What a successful Start has adopted.
LEMMA StartedWith ==
  ASSUME TypeInv, StartInv, starts = 1, start = "ok"
  PROVE  /\ version = line.version /\ version \in HostVersions
         /\ plugins = SetOf(version)
<1>1. ConfigOK /\ line \in Lines /\ plugins # <<>>
  BY Zenon DEF TypeInv, StateOK, ClientOK, PluginOK, StagesOK
<1>2. version = line.version /\ plugins = Merged[version]
  BY Zenon DEF StartInv, FirstInv, AdoptedInv
<1>3. version \in Versions
  BY <1>1, <1>2, Zenon DEF Lines
<1> QED
  BY <1>1, <1>2, <1>3, MergedVersions, Zenon

\* The plugin announces the highest version that both have, and the host adopts
\* it with the plugin set registered for it, or refuses (NegotiatesHighest): for
\* any versions and any mixture of VersionedPlugins, Plugins and ProtocolVersion.
THEOREM HighestNegotiated == Spec => []NegotiatesHighest
<1>1. TypeInv /\ VersionInv /\ StartInv => NegotiatesHighest
  <2> SUFFICES ASSUME TypeInv, VersionInv, StartInv, starts = 1, line # <<>>,
                      PluginVersions # {}
               PROVE  /\ Common # {} => line.version = Max(Common)
                      /\ Common = {} => line.version \notin HostVersions
                      /\ start = "ok" =>
                           version \in Common /\ plugins = SetOf(version)
    BY Zenon DEF NegotiatesHighest, Negotiated
  <2>1. /\ ConfigOK /\ env # <<>> /\ chosen # <<>>
        /\ srv \notin {"off", "cookie", "version"}
    BY Zenon DEF TypeInv, StateOK, StagesOK
  <2>2. env.versions = HostVersions /\ PluginVersions = Served
    BY <2>1, ServedVersions, Zenon DEF StartInv, FirstInv
  <2>3. /\ line.version \in Served
        /\ \A u \in Served \cap HostVersions : u <= line.version
        /\ Served \cap HostVersions # {} => line.version \in HostVersions
    BY <2>1, <2>2, Zenon DEF VersionInv, ChosenInv, AnnouncedInv
  <2>4. Common = Served \cap HostVersions /\ Common \in SUBSET Nat
    BY <2>2, VersionsAssumption, Zenon DEF Common, Served
  <2>5. Common # {} => line.version = Max(Common)
    BY <2>3, <2>4, MaxIs, Zenon
  <2>6. Common = {} => line.version \notin HostVersions
    BY <2>3, <2>4, Zenon
  <2>7. start = "ok" => version \in Common /\ plugins = SetOf(version)
    BY <2>3, <2>4, StartedWith, Zenon
  <2> QED
    BY <2>5, <2>6, <2>7, Zenon
<1> QED
  BY <1>1, TypeInvHolds, VersionInvHolds, StartInvHolds, PTL

\* A client given another's ReattachConfig looks up the plugin set the other has
\* (ReattachSame), though it adds Plugins under the version of the ReattachConfig
\* and the other under its own ProtocolVersion.
THEOREM ReattachesAlike == Spec => []ReattachSame
<1>1. TypeInv /\ StartInv => ReattachSame
  <2> SUFFICES ASSUME TypeInv, StartInv, again # <<>>, starts = 1
               PROVE  again[1].version = version /\ again[2] = plugins
    BY Zenon DEF ReattachSame
  <2>1. /\ ConfigOK /\ start = "ok"
        /\ again = <<ReattachConfig,
                     Merge(Registered(host), Unversioned(host), version)[version]>>
    BY Zenon DEF TypeInv, StateOK, StartInv, AdoptedInv
  <2>2. version \in HostVersions /\ plugins = SetOf(version)
    BY <2>1, StartedWith, Zenon
  <2>3. host.versioned \subseteq Versions /\ host.version \in Versions
    BY <2>1, HostFields, Zenon
  <2>4. Merge(Registered(host), Unversioned(host), version)[version]
          = SetOf(version)
    BY <2>2, <2>3, Zenon DEF HostVersions, SetOf, Merge, Registered,
         Unversioned
  <2>5. ReattachConfig.version = version
    BY Zenon DEF ReattachConfig
  <2>6. again[1] = ReattachConfig /\ again[2] = SetOf(version)
    BY <2>1, <2>4, Zenon
  <2> QED
    BY <2>2, <2>5, <2>6, Zenon
<1> QED
  BY <1>1, TypeInvHolds, StartInvHolds, PTL

-----------------------------------------------------------------------------
(* The transport.                                                          *)

OwnTLS == IF host.tls THEN "own" ELSE "none"
AskedCert == IF host.mtls THEN "client" ELSE "none"
AnswerTLS == IF plugin.provider THEN "provider"
             ELSE IF env.cert # "none" THEN "auto" ELSE "none"

\* What the host asks for, and has itself.
AskInv ==
  /\ tls = IF env # <<>> /\ host.mtls THEN "auto" ELSE OwnTLS
  /\ (env # <<>> /\ host.inherit = {}) =>
       env.cert = AskedCert /\ (env.mux <=> host.mux)

\* What the plugin makes of it.
AnswerInv ==
  /\ srv \in {"build", "announce", "serving"} =>
       /\ srvTLS = AnswerTLS
       /\ ~(plugin.provider /\ env.cert # "none")
  /\ line # <<>> => /\ line.cert <=> srvTLS = "auto"
                    /\ line.mux <=> (env.mux /\ ~plugin.old)

\* What Start makes of that.
SettledInv ==
  start = "ok" => /\ line.cert => root
                  /\ protocol = line.proto
                  /\ (host.mux /\ line.proto = "grpc") => line.mux

TransportInv == AskInv /\ AnswerInv /\ SettledInv

\* Every step, the host's side.
LEMMA AskStep == ASSUME TypeInv, AskInv, [Next]_vars PROVE AskInv'
<1>0. host' = host
  BY ConfigStays, Zenon
<1>1. OwnTLS' = OwnTLS /\ AskedCert' = AskedCert
  BY <1>0, Zenon DEF OwnTLS, AskedCert
<1>2. CASE UNCHANGED <<tls, env>>
  BY <1>0, <1>1, <1>2, Zenon DEF AskInv
<1>3. CASE StartLaunch
  <2>1. env' # <<>>
    BY <1>3, LaunchType, NotNothing, Zenon DEF TypeInv, StateOK
  <2>2. /\ env'.cert = IF host.mtls THEN "client"
                       ELSE IF "cert" \in host.inherit THEN "outer" ELSE "none"
        /\ env'.mux = (host.mux \/ "mux" \in host.inherit)
    BY <1>3, Zenon DEF StartLaunch
  <2>3. host.inherit = {} => env'.cert = AskedCert /\ (env'.mux <=> host.mux)
    BY <2>2, Zenon DEF AskedCert
  <2>4. tls' = IF host.mtls THEN "auto" ELSE OwnTLS
    BY <1>3, Zenon DEF StartLaunch, AskInv
  <2> QED
    BY <1>0, <1>1, <2>1, <2>3, <2>4, Zenon DEF AskInv
<1>4. CASE NewClient
  BY <1>0, <1>1, <1>4, Zenon DEF NewClient, AskInv, OwnTLS
<1>5. StartLaunch \/ NewClient \/ UNCHANGED <<tls, env>>
  <2>1. ServeStep \/ AnswerStep \/ ConnectStep => UNCHANGED <<tls, env>>
    BY ServeFrame, AnswerFrame, ConnectFrame, Zenon DEF cliVars, srvVars
  <2>2. StartChecksum \/ Reattach \/ UNCHANGED vars => UNCHANGED <<tls, env>>
    BY Zenon DEF StartChecksum, Reattach, vars, cliVars, srvVars
  <2> QED
    BY <2>1, <2>2, StepCases, Zenon
<1> QED
  BY <1>2, <1>3, <1>4, <1>5, Zenon

\* Every step, the plugin's side.
LEMMA AnswerInvStep == ASSUME TypeInv, AnswerInv, [Next]_vars PROVE AnswerInv'
<1>0. plugin' = plugin /\ StagesOK
  BY ConfigStays, Zenon DEF TypeInv, StateOK
<1>1. CASE ServeStep
  <2>0. env' = env /\ (env'.cert # "none" <=> env.cert # "none")
    BY <1>1, ServeFrame, Zenon
  <2>1. AnswerTLS' = AnswerTLS
    BY <1>0, <2>0, Zenon DEF AnswerTLS
  <2>2. CASE ServeTLS
    <3>1. line = <<>> /\ line' = line
      BY <1>0, <2>2, Zenon DEF ServeTLS, StagesOK
    <3>2. \/ srv' = "exited"
          \/ ~(plugin.provider /\ env.cert # "none") /\ srvTLS' = AnswerTLS
      BY <2>2, Zenon DEF ServeTLS, AnswerTLS
    <3> QED
      BY <1>0, <2>0, <2>1, <3>1, <3>2, Zenon DEF AnswerInv
  <2>3. CASE ServeAnnounce
    <3>1. srv = "announce" /\ srv' = "serving" /\ srvTLS' = srvTLS
      BY <2>3, Zenon DEF ServeAnnounce
    <3>2. /\ line'.cert = (srvTLS = "auto")
          /\ line'.mux = (env.mux /\ ~plugin.old)
      BY <2>3, Zenon DEF ServeAnnounce
    <3>3. srvTLS = AnswerTLS /\ ~(plugin.provider /\ env.cert # "none")
      BY <3>1, Zenon DEF AnswerInv
    <3> QED
      BY <1>0, <2>0, <2>1, <3>1, <3>2, <3>3, Zenon DEF AnswerInv
  <2>4. CASE \/ ServeCookie \/ protocolVersion \/ ServeListenUnix
             \/ ServeListenTCP \/ ServeBindTCP \/ ServePipeFails \/ ServeInit
             \/ ServeReturns \/ SessionTimeout
    <3>1. /\ line' = line /\ srvTLS' = srvTLS
          /\ srv' \in {"build", "announce", "serving"} =>
               srv \in {"build", "announce", "serving"}
      BY <2>4, Zenon DEF ServeCookie, protocolVersion, ServeListenUnix,
        ServeListenTCP, ServeBindTCP, ListenTCP,
        ServePipeFails, ServeInit, ServeReturns, SessionTimeout
    <3> QED
      BY <1>0, <2>0, <2>1, <3>1, Zenon DEF AnswerInv
  <2> QED
    BY <1>1, <2>2, <2>3, <2>4, Zenon DEF ServeStep
<1>2. CASE ListenerKept
  <2>1. UNCHANGED <<env, srvTLS, line>> /\ (srv' = srv \/ srv' = "killed")
    BY <1>2, Zenon DEF ListenerKept
  <2>2. AnswerTLS' = AnswerTLS
    BY <1>0, <2>1, Zenon DEF AnswerTLS
  <2>3. srv' \in {"build", "announce", "serving"} =>
          srv \in {"build", "announce", "serving"}
    BY <2>1, Zenon
  <2> QED
    BY <1>0, <2>1, <2>2, <2>3, Zenon DEF AnswerInv
<1>3. CASE srv' \in {"off", "cookie"} /\ line' = <<>>
  BY <1>3, Zenon DEF AnswerInv
<1> QED
  BY <1>1, <1>2, <1>3, ListenerCases, Zenon

\* Every step, what Start has settled on.
LEMMA SettledStep ==
  ASSUME TypeInv, StartInv, SettledInv, [Next]_vars
  PROVE  SettledInv'
<1>0. host' = host
  BY ConfigStays, Zenon
<1>1. CASE ServeStep
  <2>1. UNCHANGED <<start, root, protocol>> /\ (start = "ok" => line' = line)
    BY <1>1, ServeFrame, ServeNotIdle, Zenon DEF cliVars
  <2> QED
    BY <1>0, <2>1, Zenon DEF SettledInv
<1>2. CASE ConnectStep \/ Reattach \/ UNCHANGED vars
  <2>1. UNCHANGED <<start, root, protocol, line>>
    BY <1>2, ConnectFrame, Zenon DEF Reattach, vars, cliVars, srvVars
  <2> QED
    BY <1>0, <2>1, Zenon DEF SettledInv
<1>3. CASE StartChecksum \/ StartLaunch \/ NewClient
  BY <1>3, Zenon DEF StartChecksum, StartLaunch, NewClient, SettledInv
<1>4. CASE AnswerStep
  <2>1. start' = "ok" => StartOK
    BY <1>4, Zenon DEF AnswerStep, StartNoLine, StartVersionRefused,
      StartTranslateFails, StartProtocolRefused, StartCertPanics,
      StartMuxRefused, StartFails
  <2>2. StartOK => /\ line' = line /\ (root' <=> (root \/ line.cert))
                   /\ protocol' = line.proto
                   /\ (host.mux /\ line.proto = "grpc") => line.mux
    BY Zenon DEF StartOK, srvVars
  <2> QED
    BY <1>0, <2>1, <2>2, Zenon DEF SettledInv
<1> QED
  BY <1>1, <1>2, <1>3, <1>4, StepCases, Zenon

\* Both ends agree once Start has succeeded.
LEMMA Agree ==
  ASSUME TypeInv, VersionInv, TransportInv, start = "ok", srv = "serving",
         host.inherit = {}, host.mtls \/ host.tls = plugin.provider
  PROVE  TLSAgrees /\ MuxAgrees
<1>1. env # <<>> /\ line # <<>>
  BY Zenon DEF TypeInv, StateOK, StagesOK
<1>2. /\ tls = IF host.mtls THEN "auto" ELSE OwnTLS
      /\ env.cert = AskedCert
    BY <1>1, Zenon DEF TransportInv, AskInv
<1>3. env.mux <=> host.mux
    BY <1>1, Zenon DEF TransportInv, AskInv
<1>4. srvTLS = AnswerTLS /\ ~(plugin.provider /\ env.cert # "none")
  BY Zenon DEF TransportInv, AnswerInv
<1>5. (line.cert <=> srvTLS = "auto") /\ (line.mux <=> (env.mux /\ ~plugin.old))
  BY <1>1, Zenon DEF TransportInv, AnswerInv
<1>6. /\ line.cert => root
      /\ protocol = line.proto
      /\ (host.mux /\ line.proto = "grpc") => line.mux
  BY Zenon DEF TransportInv, SettledInv
<1>7. line.proto = chosen.proto
  BY <1>1, Zenon DEF VersionInv, AnnouncedInv
<1>8. TLSAgrees
  <2>1. CASE host.mtls
    <3>1. tls = "auto" /\ env.cert = "client"
      BY <1>2, <2>1, Zenon DEF AskedCert
    <3>2. srvTLS = "auto"
      BY <1>4, <3>1, Zenon DEF AnswerTLS
    <3> QED
      BY <1>5, <1>6, <3>1, <3>2, Zenon DEF TLSAgrees
  <2>2. CASE ~host.mtls
    <3>1. tls = OwnTLS /\ env.cert = "none"
      BY <1>2, <2>2, Zenon DEF AskedCert
    <3>2. srvTLS = IF plugin.provider THEN "provider" ELSE "none"
      BY <1>4, <3>1, Zenon DEF AnswerTLS
    <3>3. host.tls = plugin.provider
      BY <2>2, Zenon
    <3> QED
      BY <3>1, <3>2, <3>3, Zenon DEF OwnTLS, TLSAgrees
  <2> QED
    BY <2>1, <2>2, Zenon
<1>9. MuxAgrees
  BY <1>3, <1>5, <1>6, <1>7, Zenon DEF MuxAgrees, srvMux, hostMux
<1> QED
  BY <1>8, <1>9, Zenon

\* A certificate in the plugin's answer is one that the host has asked for.
LEMMA NoPanic ==
  ASSUME TypeInv, TransportInv, host.inherit = {}
  PROVE  ~StartCertPanics
<1> SUFFICES ASSUME StartCertPanics PROVE FALSE
  BY Zenon
<1>1. srv = "serving" /\ line.cert /\ tls = "none"
  BY Zenon DEF StartCertPanics, Adopt
<1>2. env # <<>> /\ line # <<>>
  BY <1>1, Zenon DEF TypeInv, StateOK, StagesOK
<1>3. srvTLS = "auto" /\ srvTLS = AnswerTLS
  BY <1>1, <1>2, Zenon DEF TransportInv, AnswerInv
<1>4. env.cert # "none" /\ env.cert = AskedCert
  BY <1>2, <1>3, Zenon DEF AnswerTLS, TransportInv, AskInv
<1>5. host.mtls
  BY <1>4, Zenon DEF AskedCert
<1>6. tls = "auto"
  BY <1>2, <1>5, Zenon DEF TransportInv, AskInv
<1> QED
  BY <1>1, <1>6, Zenon

\* Every step.
LEMMA AgreesStep ==
  ASSUME TypeInv, VersionInv, TransportInv, TransportAgrees, [Next]_vars
  PROVE  TransportAgrees'
<1>0. host' = host /\ plugin' = plugin
  BY ConfigStays, Zenon
<1> SUFFICES ASSUME host.inherit = {}, host.mtls \/ host.tls = plugin.provider
             PROVE  conn' # "failed" /\ start' # "panic"
  BY <1>0, Zenon DEF TransportAgrees
<1>1. conn # "failed" /\ start # "panic"
  BY Zenon DEF TransportAgrees
<1>2. CASE ServeStep \/ Reattach \/ UNCHANGED vars
  <2>1. UNCHANGED <<conn, start>>
    BY <1>2, ServeFrame, Zenon DEF Reattach, vars, cliVars
  <2> QED
    BY <1>1, <2>1, Zenon
<1>3. CASE StartChecksum \/ StartLaunch \/ NewClient
  BY <1>1, <1>3, Zenon DEF StartChecksum, StartLaunch, NewClient
<1>4. CASE ConnectStep
  <2>1. start' = start /\ start = "ok" /\ Connected
    BY <1>4, Zenon DEF ConnectStep, Connect, NewGRPCClientMuxer, cliVars
  <2>2. srv # "serving" \/ (TLSAgrees /\ MuxAgrees)
    BY <2>1, Agree, Zenon
  <2>3. conn' \in {"refused", "ok"}
    BY <2>1, <2>2, Zenon DEF Connected
  <2> QED
    BY <1>1, <2>1, <2>3, Zenon
<1>5. CASE AnswerStep
  <2>1. conn' = conn
    BY <1>5, AnswerFrame, Zenon
  <2>2. start' # "panic"
    BY <1>5, NoPanic, Zenon DEF AnswerStep, StartNoLine, StartVersionRefused,
      StartTranslateFails, StartProtocolRefused, StartMuxRefused, StartOK,
      StartFails
  <2> QED
    BY <1>1, <2>1, <2>2, Zenon
<1> QED
  BY <1>2, <1>3, <1>4, <1>5, StepCases, Zenon

\* When Start has succeeded the first connection does not fail over TLS or
\* multiplexing, and Start does not panic (TransportAgrees): for every
\* combination of AutoMTLS, TLSConfig, TLSProvider, multiplexing and protocol.
THEOREM TransportSettled == Spec => []TransportAgrees
<1>1. Init => TransportInv /\ TransportAgrees
  <2>1. Init => AskInv
    BY Zenon DEF Init, AskInv, OwnTLS
  <2>2. Init => AnswerInv /\ SettledInv /\ TransportAgrees
    BY Zenon DEF Init, AnswerInv, SettledInv, TransportAgrees
  <2> QED
    BY <2>1, <2>2, Zenon DEF TransportInv
<1>2. TypeInv /\ StartInv /\ TransportInv /\ [Next]_vars => TransportInv'
  BY AskStep, AnswerInvStep, SettledStep, Zenon DEF TransportInv
<1> QED
  BY <1>1, <1>2, AgreesStep, TypeInvHolds, VersionInvHolds, StartInvHolds, PTL
     DEF Spec

============================================================================
