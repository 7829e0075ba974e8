-------------------------------- MODULE Discovery --------------------------------
(***************************************************************************)
(* How a client finds its relays and its exit (core/discovery.py, called   *)
(* by Scattered.prepare_network): it takes the listing of the directory,   *)
(* or scans the ports of one host, probes what it found, fetches the keys  *)
(* it has not got and keeps the result for good.  Services come, go and    *)
(* change place between any two of these steps.                            *)
(***************************************************************************)
EXTENDS Integers, FiniteSets, SequencesExt

CONSTANTS
  Machines,      \* the machines are 1 .. Machines; the client runs on the first
  Ports,         \* DEFAULT_SCAN_START .. DEFAULT_SCAN_END, from 1
  MinNodes,      \* of the client
  Modes,         \* how the client may have been created
  Advertised,    \* <<m, p, host>>: the names the services at m, p register under
  Kinds,         \* what may listen: of "relay", "exit", "app", "none"
  Installed,     \* what may listen where when the client is created
  MaxChanges     \* bound: services stopped or started, listings not answered

Machine == 1 .. Machines
Port == 1 .. Ports
Local == 0
Host == {Local} \cup Machine
Mode == [useRegistry : BOOLEAN,            \* else the ports of scanHost are scanned
         scanHost : Host,                  \* Local, or the given network_host
         exitPort : {0} \cup Port,         \* 0 if none is given
         numNodes : 0 .. Ports,            \* 0 if not given
         useAll : BOOLEAN,
         secure : BOOLEAN]                 \* chooses a chain for each message

ASSUME DiscoveryAssumption ==
  /\ Machines \in Nat \ {0} /\ Ports \in Nat \ {0} /\ MinNodes \in Nat \ {0}
  /\ Modes \subseteq Mode
  /\ Advertised \subseteq Machine \X Port \X Host
  /\ Kinds \subseteq {"relay", "exit", "app", "none"}
  /\ Installed \subseteq [Machine \X Port -> Kinds]
  /\ MaxChanges \in Nat

MachineOf(host) == IF host = Local THEN 1 ELSE host   \* localhost is the client's

(* A key pair is made at each start.                                        *)
Key == [machine : Machine, port : Port, start : 0 .. MaxChanges]
NoKey == [port |-> 0]
NoNode == [host |-> Local, port |-> 0, key |-> NoKey]

VARIABLES
  mode,      \* how the client was created
  service,   \* service[<<m, p>>]: what listens there, and how often it was started
  busy,      \* exits that serve a connection; they accept no other meanwhile
  listing,   \* what the directory lists
  phase,     \* of the client: "start", "scan", "relays", "exit", "load", "keys",
             \* "ready" or "failed"
  todo,      \* nodes still to be probed, or ports still to be scanned
  nodes,     \* nodes it has found
  exits,     \* candidates for the exit, the best one first
  exit,      \* the exit it has found
  chain,     \* the relays of its last circuit
  changes,
  asked      \* history: changes when the client last asked

NetworkHost == mode.scanHost
UseRegistry == mode.useRegistry
ExitPort == mode.exitPort
NumNodes == mode.numNodes
UseAll == mode.useAll
Secure == mode.secure

envVars == <<service, busy, listing, changes>>
vars == <<mode, envVars, phase, todo, nodes, exits, exit, chain, asked>>

Init ==
  /\ mode \in Modes
  /\ \E kinds \in Installed :
       service = [at \in Machine \X Port |-> [kind |-> kinds[at], start |-> 0]]
  /\ busy = {} /\ listing = {}
  /\ phase = "start"
  /\ todo = {} /\ nodes = {} /\ exits = <<>>
  /\ exit = NoNode /\ chain = <<>>
  /\ changes = 0 /\ asked = 0

---------------------------------------------------------------------------------
(* The services and the directory, as far as a client can see them.         *)

KeyAt(m, p) == [machine |-> m, port |-> p, start |-> service[<<m, p>>].start]
clientIdle == UNCHANGED <<phase, todo, nodes, exits, exit, chain, asked>>

Replace(m, p, kind) ==
  /\ changes < MaxChanges
  /\ changes' = changes + 1
  /\ service' = [service EXCEPT ![<<m, p>>] = [kind |-> kind, start |-> @.start + 1]]
  /\ busy' = busy \ {<<m, p>>}
  /\ UNCHANGED listing /\ clientIdle

(* An exit accepts a connection and serves it, for as long as a tunnel or a *)
(* client stays; then it accepts again.                                     *)
Accept(m, p) ==
  /\ service[<<m, p>>].kind \in {"exit", "app"} /\ <<m, p>> \notin busy
  /\ busy' = busy \cup {<<m, p>>}
  /\ UNCHANGED <<service, listing, changes>> /\ clientIdle

Served(m, p) ==
  /\ <<m, p>> \in busy
  /\ busy' = busy \ {<<m, p>>}
  /\ UNCHANGED <<service, listing, changes>> /\ clientIdle

(* A service advertises what its user says, the address it is bound to, or  *)
(* that of the machine - or localhost, on any machine, if it finds none.    *)
(* An exit displaces the other exits of its host (module Directory).        *)
Register(m, p, host) ==
  /\ UseRegistry
  /\ service[<<m, p>>].kind \in {"relay", "exit"}
  /\ <<m, p, host>> \in Advertised
  /\ LET new == [type |-> service[<<m, p>>].kind, host |-> host, port |-> p,
                 key |-> KeyAt(m, p)]
         old == {e \in listing : /\ e.type = new.type /\ e.host = new.host
                                 /\ (e.port = new.port \/ e.type = "exit")}
     IN listing' = (listing \ old) \cup {new}
  /\ UNCHANGED <<service, busy, changes>> /\ clientIdle

(* The directory forgets who has not registered for a while.                *)
Expire(e) ==
  /\ e.key # KeyAt(e.key.machine, e.key.port)
  /\ listing' = listing \ {e}
  /\ UNCHANGED <<service, busy, changes>> /\ clientIdle

(* probe_port: who answers what, and that a busy exit lets the probe wait   *)
(* until it times out.                                                      *)
Tag(host, p) == CASE service[<<MachineOf(host), p>>].kind = "relay" -> "node"
                  [] service[<<MachineOf(host), p>>].kind = "exit" -> "server"
                  [] OTHER -> "none"
Answer(host, p) == IF <<MachineOf(host), p>> \in busy THEN "none" ELSE Tag(host, p)

---------------------------------------------------------------------------------
(* Choosing, as pure operators.                                             *)

ConnectHostAlways(registered) == NetworkHost     \* mutant: localhost too

(* _connect_host: a network host given by the user stands for all others.   *)
ConnectHost(registered) == IF NetworkHost # Local THEN NetworkHost ELSE registered

NodeEntry(e) == [host |-> ConnectHost(e.host), port |-> e.port, key |-> e.key]
OfType(entries, type) == {e \in entries : e.type = type}

(* nodes_from_registry: of the entries of one port, sorted by host, the     *)
(* first one counts.                                                        *)
NodesFromRegistry(relays) ==
  {NodeEntry(e) : e \in {r \in relays : \A s \in relays :
                           s.port = r.port => r.host <= s.host}}

(* Sorted by port and host: the i-th entry is the one after i - 1 others.   *)
Before(a, b) == a.port < b.port \/ (a.port = b.port /\ a.host < b.host)
ByPort(entries) ==
  [i \in 1 .. Cardinality(entries) |->
     CHOOSE e \in entries : Cardinality({a \in entries : Before(a, e)}) = i - 1]

ExitFromRegistryFirst(servers) ==        \* mutant: only the first one is tried
  LET s == ByPort(servers) IN IF s = <<>> THEN <<>> ELSE <<NodeEntry(s[1])>>

(* exit_from_registry: what it tries, in order.  A given exit_port is tried *)
(* first, on NetworkHost, with the key of an entry of that port if there is *)
(* one - and without an entry too.                                          *)
ExitFromRegistry(servers) ==
  LET pinned == ByPort({e \in servers : e.port = ExitPort})
      preferred == [host |-> NetworkHost, port |-> ExitPort,
                    key |-> IF pinned = <<>> THEN NoKey ELSE pinned[1].key]
      others == ByPort({e \in servers : e.port # ExitPort})
      entries == [i \in 1 .. Len(pinned \o others) |-> NodeEntry((pinned \o others)[i])]
  IN IF ExitPort = 0 THEN entries ELSE <<preferred>> \o entries

(* _chain_count; 0 stands for the exception.                                *)
ChainCount(found) ==
  LET count == IF UseAll THEN Cardinality(found)
               ELSE IF NumNodes # 0 THEN NumNodes ELSE MinNodes
  IN IF count < MinNodes \/ Cardinality(found) < count THEN 0 ELSE count

(* select_random_relay_chain samples, select_relay_chain takes the first.   *)
RandomChainsAny(found, n) ==             \* mutant: choices in place of sample
  [1 .. n -> found]
RandomChains(found, n) == {c \in [1 .. n -> found] : IsInjective(c)}
FixedChain(found, n) == 
  [i \in (1 .. n) \cap (1 .. Cardinality(found)) |-> ByPort(found)[i]]

---------------------------------------------------------------------------------
(* The client: load_network and prepare_network.                            *)

List ==
  /\ phase = "start" /\ UseRegistry
  /\ phase' = "relays"
  /\ todo' = NodesFromRegistry(OfType(listing, "relay"))
  /\ nodes' = {}
  /\ exits' = ExitFromRegistry(OfType(listing, "exit"))
  /\ UNCHANGED <<envVars, exit, chain>>
  /\ asked' = changes

ListFails ==
  /\ phase = "start" /\ UseRegistry
  /\ changes < MaxChanges /\ changes' = changes + 1
  /\ phase' = "failed"
  /\ UNCHANGED <<service, busy, listing, todo, nodes, exits, exit, chain, asked>>

(* scan_network.                                                            *)
Scan ==
  /\ phase = "start" /\ ~UseRegistry
  /\ phase' = "scan"
  /\ todo' = Port
  /\ nodes' = {} /\ exits' = <<>>
  /\ UNCHANGED <<envVars, exit, chain>>
  /\ asked' = changes

ScanPort(p) ==
  /\ phase = "scan" /\ p \in todo /\ \A q \in todo : p <= q
  /\ todo' = todo \ {p}
  /\ LET found == [host |-> NetworkHost, port |-> p, key |-> NoKey]
     IN /\ nodes' = IF Answer(NetworkHost, p) = "node" THEN nodes \cup {found} ELSE nodes
        /\ exits' = IF Answer(NetworkHost, p) = "server" /\ exits = <<>> THEN <<found>>
                    ELSE exits
  /\ UNCHANGED <<envVars, phase, exit, chain, asked>>

(* filter_live_relays probes again what the scan has found.                 *)
Scanned ==
  /\ phase = "scan" /\ todo = {}
  /\ phase' = "relays"
  /\ todo' = nodes /\ nodes' = {}
  /\ UNCHANGED <<envVars, exits, exit, chain, asked>>

(* keep_live_nodes takes any answer for a sign of life; filter_live_relays  *)
(* and resolve_live_exit want the right one.                                *)
IsAliveAlways(n, tag) == TRUE            \* mutant: not probed
IsAlive(n, tag) == IF UseRegistry THEN Answer(n.host, n.port) # "none"
                   ELSE Answer(n.host, n.port) = tag

ProbeRelay(n) ==
  /\ phase = "relays" /\ n \in todo
  /\ todo' = todo \ {n}
  /\ nodes' = IF IsAlive(n, "node") THEN nodes \cup {n} ELSE nodes
  /\ UNCHANGED <<envVars, phase, exits, exit, chain, asked>>

RelaysProbed ==
  /\ phase = "relays" /\ todo = {}
  /\ phase' = "exit"
  /\ UNCHANGED <<envVars, todo, nodes, exits, exit, chain, asked>>

ProbeExit ==
  /\ phase = "exit"
  /\ \/ /\ exits # <<>> /\ IsAlive(Head(exits), "server")
        /\ exit' = Head(exits) /\ phase' = "load"
        /\ UNCHANGED exits
     \/ /\ exits # <<>> /\ ~IsAlive(Head(exits), "server")
        /\ exits' = Tail(exits)
        /\ UNCHANGED <<exit, phase>>
     \/ /\ exits = <<>>
        /\ exit' = NoNode /\ phase' = "load"
        /\ UNCHANGED exits
  /\ UNCHANGED <<envVars, todo, nodes, chain, asked>>

Complete ==
  /\ exit # NoNode
  /\ ExitPort # 0 => exit.port = ExitPort
  /\ Cardinality(nodes) >= MinNodes

LoadNetwork ==
  /\ phase = "load"
  /\ phase' = IF Complete THEN "keys" ELSE "failed"
  /\ UNCHANGED <<envVars, todo, nodes, exits, exit, chain, asked>>

At(n) == <<MachineOf(n.host), n.port>>
FetchKey(n) == KeyAt(MachineOf(n.host), n.port)

(* enrich_chain_with_pubkeys, enrich_server_with_pubkey.  An application    *)
(* server answers a key request too; one that is busy lets it time out.     *)
Enrich(n) ==
  /\ phase = "keys" /\ n.key = NoKey
  /\ \/ n \in nodes
     \/ n = exit /\ \A r \in nodes : r.key # NoKey
  /\ IF service[At(n)].kind = "none" \/ At(n) \in busy
     THEN phase' = "failed" /\ UNCHANGED <<nodes, exit>>
     ELSE LET enriched == [n EXCEPT !.key = FetchKey(n)]
          IN /\ nodes' = IF n \in nodes THEN (nodes \ {n}) \cup {enriched} ELSE nodes
             /\ exit' = IF n \in nodes THEN exit ELSE enriched
             /\ UNCHANGED phase
  /\ UNCHANGED <<envVars, todo, exits, chain, asked>>

(* _nodes_cache and _server_info are set and never looked at again.         *)
Cached ==
  /\ phase = "keys" /\ \A n \in nodes \cup {exit} : n.key # NoKey
  /\ phase' = "ready"
  /\ UNCHANGED <<envVars, todo, nodes, exits, exit, chain, asked>>

(* Each message of a secure client, the first one of an insecure client.    *)
NewCircuit ==
  /\ phase = "ready" /\ ChainCount(nodes) # 0
  /\ \/ Secure /\ chain' \in RandomChains(nodes, ChainCount(nodes))
     \/ ~Secure /\ chain = <<>> /\ chain' = FixedChain(nodes, ChainCount(nodes))
  /\ UNCHANGED <<envVars, phase, todo, nodes, exits, exit, asked>>

(* The user tries again.                                                    *)
Retry ==
  /\ phase = "failed"
  /\ phase' = "start"
  /\ UNCHANGED <<envVars, todo, nodes, exits, exit, chain, asked>>

ClientStep ==
  \/ List \/ Scan \/ Scanned \/ RelaysProbed \/ ProbeExit \/ LoadNetwork
  \/ Cached \/ Retry
  \/ \E p \in Port : ScanPort(p)
  \/ \E n \in todo : ProbeRelay(n)
  \/ \E n \in nodes \cup {exit} : Enrich(n)

Step ==
  \/ ClientStep \/ ListFails \/ NewCircuit
  \/ \E m \in Machine, p \in Port :
       \/ \E kind \in Kinds : Replace(m, p, kind)
       \/ Accept(m, p) \/ Served(m, p)
       \/ \E host \in Host : Register(m, p, host)
  \/ \E e \in listing : Expire(e)
Next == Step /\ UNCHANGED mode

Spec == Init /\ [][Next]_vars

(* The client goes on and tries again.                                      *)
FairSpec == Spec /\ WF_vars(ClientStep /\ UNCHANGED mode)

---------------------------------------------------------------------------------
(* Properties.                                                              *)

Node == [host : Host, port : Port, key : Key \cup {NoKey}]

(* The type invariant.                                                      *)
TypeOK ==
  /\ mode \in Modes
  /\ \A e \in listing : e.key \in Key /\ e.key.port = e.port
  /\ phase \in {"start", "scan", "relays", "exit", "load", "keys", "ready", "failed"}
  /\ phase = "scan" => todo \subseteq Port
  /\ phase = "relays" => todo \subseteq Node
  /\ nodes \subseteq Node /\ ToSet(exits) \subseteq Node
  /\ exit \in Node \cup {NoNode}
  /\ ToSet(chain) \subseteq Node
  /\ changes \in 0 .. MaxChanges

(* A circuit has as many relays as it should have, no service among them    *)
(* twice under whatever names it is known.                                  *)
ChainOfDistinct ==
  TypeOK /\ (chain # <<>> =>
    /\ Len(chain) >= MinNodes
    /\ NumNodes # 0 /\ ~UseAll => Len(chain) = NumNodes
    /\ \A i, j \in DOMAIN chain : i # j => At(chain[i]) # At(chain[j]))

(* No pinned exit, and no network host that the listed addresses give way  *)
(* to (a listed key may belong to another machine then).                    *)
Plain == ExitPort = 0 /\ (NetworkHost = Local \/ ~UseRegistry)

(* Whatever restarts and moves meanwhile, a key is used for the address of  *)
(* the service it belongs to, the one that runs or an earlier one, or for a *)
(* name that very service goes by: where all services advertise their own   *)
(* machine every key fits, where one goes by localhost on another machine   *)
(* its key is used for a port of the client's.                              *)
KeysFit ==
  phase = "ready" /\ Plain =>
    \A n \in nodes \cup {exit} :
      /\ n.key.port = n.port
      /\ \/ n.key.machine = MachineOf(n.host)
         \/ <<n.key.machine, n.port, n.host>> \in Advertised
      /\ n.key.start <= service[<<n.key.machine, n.port>>].start

(* What stopped or moved before the client asked is not used: if nothing    *)
(* changes from then on, something runs wherever the client found anything, *)
(* and after a scan what the client takes it for.                           *)
Runs(n, tag) == IF UseRegistry THEN Tag(n.host, n.port) # "none"
                ELSE Tag(n.host, n.port) = tag
OnlyLive ==
  phase = "ready" /\ changes = asked =>
    Runs(exit, "server") /\ \A n \in nodes : Runs(n, "node")

(* With enough ports under which only living relays are listed, and an      *)
(* address in the listing at which an exit is and has nobody to serve, the  *)
(* client gets ready, however often it failed before; dead entries on other *)
(* ports, dead exits and busy ones do not keep it from that.                *)
Address(e) == <<MachineOf(ConnectHost(e.host)), e.port>>
LiveAt(e) == Answer(ConnectHost(e.host), e.port) # "none"
Enough(at) ==
  /\ UseRegistry /\ ExitPort = 0 /\ UseAll
  /\ \E good \in SUBSET Port :
       /\ Cardinality(good) >= MinNodes
       /\ \A p \in good :
            LET there == {e \in OfType(listing, "relay") : e.port = p}
            IN there # {} /\ \A e \in there : LiveAt(e)
  /\ \E e \in OfType(listing, "exit") : Address(e) = at /\ LiveAt(e)
EventuallyReady ==
  \A at \in Machine \X Port : []<>(Enough(at) => phase = "ready")
================================================================================
