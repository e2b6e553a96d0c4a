--------------------------------- MODULE Egress ---------------------------------
(* What leaves the platform: requests of the backend (the HTTP runner and    *)
(* the clients of MCP servers), checked against an environment's lists       *)
(* before they are sent (security/egress_policy.py, egress_proxy.py), and    *)
(* those of shell containers, which are checked by the proxy of the          *)
(* environment when they go by it, and kept from going past it only by the   *)
(* network policies of the Kubernetes manifests (egress_proxy_profile.py,    *)
(* egress_proxy_kubernetes_profile.py).  Names may resolve to other          *)
(* addresses at any time.  One request is on its way at a time: requests     *)
(* have nothing in common but the names.                                     *)
EXTENDS Naturals, FiniteSets

CONSTANTS Hosts,         \* host names
          Under,         \* <<h, d>>: h is a name below the domain d
          Ports,         \* ports
          Environments,  \* the environments that may be created
          NoEnvironment, \* none created yet
          Answers,       \* the sets of addresses a name may resolve to
          MaxServers,    \* bound: MCP servers registered
          Permitted      \* what EgressPolicy permits: plain_http and kinds of addresses

\* What an address is.  "private" are the networks of RFC 1918 and fc00::/7,
\* "special" the others that ipaddress calls private.
AddressKinds == {"public", "private", "special", "loopback", "link_local", "reserved", "shared",
                 "metadata", "unspecified", "multicast"}
Address      == [kind : AddressKinds, v6 : BOOLEAN]
Modes        == {"direct", "http_proxy", "docker_network"}
Deployments  == {"envoy", "squid", "manifests"}

ASSUME UnderHosts == Under \subseteq Hosts \X Hosts
\* Its lists, how the proxy is used, and whether the proxy's address is given.
Environment == [hosts : SUBSET [host : Hosts, wildcard : BOOLEAN], ports : SUBSET Ports,
                mode : Modes, configured : BOOLEAN]

ASSUME EnvironmentsAreRecords == Environments \subseteq Environment
ASSUME AnswersAreAddresses == \A a \in Answers : a \subseteq Address

VARIABLES environment, \* the environment of the project
          mcpServers,  \* the targets of the MCP servers registered in it
          deployed,    \* how its proxy is deployed
          proxyUp,     \* whether the proxy runs
          dns,         \* host -> the addresses it resolves to
          outbound,    \* the request on its way
          reached      \* the connection it led to

egressVars == <<environment, mcpServers, deployed, proxyUp, dns, outbound, reached>>

Targets == [scheme : {"http", "https"}, host : Hosts, port : Ports]

EgressInit ==
    /\ environment = NoEnvironment
    /\ mcpServers = {}
    /\ deployed \in Deployments
    /\ proxyUp = TRUE
    /\ dns = [h \in Hosts |-> {[kind |-> "public", v6 |-> FALSE]}]
    /\ outbound = {}
    /\ reached = {}

(***************************************************************************)
(* The check before a request is sent.                                     *)
(***************************************************************************)
HostMatches(h, entries) ==
    \E e \in entries : IF e.wildcard THEN <<h, e.host>> \in Under ELSE h = e.host

UnsafeAddress(a) ==
    \/ a.kind \in {"metadata", "unspecified", "multicast", "shared"}
    \/ a.kind \in {"loopback", "link_local", "private", "reserved"} /\ a.kind \notin Permitted
    \/ a.kind = "special" /\ "private" \notin Permitted

\* A name that does not resolve is refused, as is one with an unsafe address.
SafelyResolved(h) == dns[h] # {} /\ \A a \in dns[h] : ~UnsafeAddress(a)

\* An empty list of hosts allows every host.
ValidTarget(t) ==
    /\ t.scheme = "http" => "plain_http" \in Permitted
    /\ environment.hosts # {} => HostMatches(t.host, environment.hosts)
    /\ SafelyResolved(t.host)

PortAllowed(p) == environment.ports # {} => p \in environment.ports

\* The proxy's URL, or the network, must be given when the mode needs it.
Configured(network) == CASE environment.mode = "direct"         -> TRUE
                         [] environment.mode = "http_proxy"     -> environment.configured
                         [] environment.mode = "docker_network" -> network /\ environment.configured

PlanAllowed(t, network) == /\ environment # NoEnvironment
                           /\ ValidTarget(t) /\ PortAllowed(t.port) /\ Configured(network)

CreateEnvironment(e) ==
    /\ environment = NoEnvironment
    /\ environment' = e
    /\ UNCHANGED <<mcpServers, deployed, proxyUp, dns, outbound, reached>>

RegisterServer(t) ==
    /\ Cardinality(mcpServers) < MaxServers
    /\ PlanAllowed(t, TRUE)
    /\ mcpServers' = mcpServers \cup {t}
    /\ UNCHANGED <<environment, deployed, proxyUp, dns, outbound, reached>>

Send(c, t, route) ==
    /\ outbound = {}
    /\ outbound' = {[by |-> c, route |-> route, target |-> t]}
    /\ reached' = {}
    /\ UNCHANGED <<environment, mcpServers, deployed, proxyUp, dns>>

BackendRoute == IF environment.mode = "http_proxy" THEN "proxy" ELSE "direct"

\* A registered server is checked again by the client, which has no network
\* to give: with docker_network it sends nothing.
CallServer(t) ==
    /\ t \in mcpServers
    /\ PlanAllowed(t, FALSE)
    /\ Send("backend", t, BackendRoute)

RunHttp(t) == PlanAllowed(t, TRUE) /\ Send("backend", t, BackendRoute)

\* A command in a container sends what it likes, by the proxy or not.
ContainerSends(t, route) ==
    /\ environment # NoEnvironment /\ environment.mode = "docker_network"
    /\ Send("container", t, route)

(***************************************************************************)
(* The way to the target.                                                  *)
(***************************************************************************)
Resolves(h) == \E answer \in Answers : /\ answer # dns[h]
                                       /\ dns' = [dns EXCEPT ![h] = answer]
                                       /\ UNCHANGED <<environment, mcpServers, deployed, proxyUp, outbound, reached>>

\* The client policy of the manifests lets a container out to the proxy alone.
\* The networks of the compose files are plain bridges, which do not.
LeavesDirectly(c) == c = "container" => deployed # "manifests"

Reach(q, a) == reached' = {[by |-> q.by, route |-> q.route, host |-> q.target.host,
                           port |-> q.target.port, address |-> a]}

Ends == outbound' = {} /\ UNCHANGED <<environment, mcpServers, deployed, proxyUp, dns>>

ConnectDirectly(q) ==
    /\ q.route = "direct" /\ LeavesDirectly(q.by)
    /\ \E a \in dns[q.target.host] : Reach(q, a)
    /\ Ends

\* The Lua filter: with no host listed nothing passes, with no port every port.
LuaAllows(t) == /\ HostMatches(t.host, environment.hosts)
                /\ environment.ports # {} => t.port \in environment.ports

\* SQUID_UNSAFE_DST_RANGES and KUBERNETES_UNSAFE_CIDRS, all of them IPv4.
InUnsafeRange(a) ==
    /\ ~a.v6
    /\ a.kind \in {"private", "loopback", "link_local", "reserved", "shared", "metadata", "multicast"}

\* Squid's lists are the same and have no wildcards: it may or may not take
\* an entry "*.domain"; unsafe destinations are denied first.
SquidAllows(t, wildcards) ==
    /\ HostMatches(t.host, IF wildcards THEN environment.hosts
                           ELSE {e \in environment.hosts : ~e.wildcard})
    /\ t.port \in environment.ports

\* The proxy's own network policy.
PolicyLetsOut(t, a) == /\ ~a.v6 /\ ~InUnsafeRange(a)
                       /\ environment.ports # {} => t.port \in environment.ports

\* Mutant: the manifests leave out the addresses that are not public.
ProxyAllows_NoPolicy(t, a) ==
    CASE deployed = "envoy"     -> ~a.v6 /\ LuaAllows(t)
      [] deployed = "squid"     -> ~InUnsafeRange(a) /\ \E w \in BOOLEAN : SquidAllows(t, w)
      [] deployed = "manifests" -> ~a.v6 /\ LuaAllows(t)

\* Envoy looks up IPv4 addresses only.
ProxyAllows(t, a) ==
    CASE deployed = "envoy"     -> ~a.v6 /\ LuaAllows(t)
      [] deployed = "squid"     -> ~InUnsafeRange(a) /\ \E w \in BOOLEAN : SquidAllows(t, w)
      [] deployed = "manifests" -> ~a.v6 /\ LuaAllows(t) /\ PolicyLetsOut(t, a)

\* The proxy resolves the name itself.
ConnectByProxy(q) ==
    /\ q.route = "proxy" /\ proxyUp
    /\ \E a \in dns[q.target.host] : ProxyAllows(q.target, a) /\ Reach(q, a)
    /\ Ends

\* Nothing resolves, the proxy or the network refuses, or the request times
\* out: there is no other way.  No client follows a redirect.
RefuseRequest(q) == Ends /\ UNCHANGED reached

ProxyStopsOrStarts ==
    /\ proxyUp' = ~proxyUp
    /\ UNCHANGED <<environment, mcpServers, deployed, dns, outbound, reached>>

EgressNext ==
    \/ \E e \in Environments : CreateEnvironment(e)
    \/ \E t \in Targets : \/ RegisterServer(t) \/ CallServer(t) \/ RunHttp(t)
                          \/ \E route \in {"direct", "proxy"} : ContainerSends(t, route)
    \/ \E h \in Hosts : Resolves(h)
    \/ \E q \in outbound : ConnectDirectly(q) \/ ConnectByProxy(q) \/ RefuseRequest(q)
    \/ ProxyStopsOrStarts

EgressSpec == EgressInit /\ [][EgressNext]_egressVars

(***************************************************************************)
(* Properties.                                                             *)
(***************************************************************************)
\* What the backend reaches, and what a container reaches by the proxy, is on
\* the environment's lists; and no name leads the proxy of the manifests, or
\* squid over IPv4, to an address inside, whenever its answer changed.  Only
\* behind the manifests does a container reach nothing past the proxy.
OnlyListedIsReached ==
    \A x \in reached :
        /\ x.by = "backend" \/ x.route = "proxy" \/ deployed = "manifests"
           => /\ environment.hosts # {} => HostMatches(x.host, environment.hosts)
              /\ environment.ports # {} => x.port \in environment.ports
        /\ x.by = "container" /\ deployed = "manifests" => x.route = "proxy"
        /\ x.route = "proxy" /\ deployed \in {"squid", "manifests"} => ~InUnsafeRange(x.address)
        /\ x.route = "proxy" /\ deployed = "manifests" => x.address.kind \in {"public", "special", "unspecified"}
=============================================================================
