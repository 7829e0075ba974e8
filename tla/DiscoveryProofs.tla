----------------------------- MODULE DiscoveryProofs ----------------------------
(***************************************************************************)
(* Proofs about Discovery, for any number of machines, ports and changes.  *)
(***************************************************************************)
EXTENDS Discovery, FiniteSetTheorems, TLAPS

(* A finite set of entries no two of which have the same port and host is   *)
(* listed by ByPort, each once.                                             *)
OnePerAddress(S) ==
  \A a, b \in S : a.port = b.port /\ a.host = b.host => a = b
Ordered(S) ==
  /\ IsFiniteSet(S) /\ OnePerAddress(S)
  /\ \A a \in S : a.port \in Int /\ a.host \in Int

Below(S, e) == {a \in S : Before(a, e)}
Rank(S, e) == Cardinality(Below(S, e))
IthOf(S, i) == CHOOSE e \in S : Rank(S, e) = i - 1

LEMMA ByPortIs ==
  ASSUME NEW S
  PROVE  ByPort(S) = [i \in 1 .. Cardinality(S) |-> IthOf(S, i)]
BY Zenon DEF ByPort, IthOf, Rank, Below

LEMMA RankGrows ==
  ASSUME NEW S, Ordered(S), NEW b \in S
  PROVE  /\ Rank(S, b) \in 0 .. Cardinality(S) - 1
         /\ \A a \in S : Before(a, b) => Rank(S, a) < Rank(S, b)
<1>1. IsFiniteSet(S) /\ Cardinality(S) \in Nat
  BY FS_CardinalityType DEF Ordered
<1>2. \A e \in S : IsFiniteSet(Below(S, e)) /\ Rank(S, e) \in Nat
  <2> SUFFICES ASSUME NEW e \in S
               PROVE  IsFiniteSet(Below(S, e)) /\ Rank(S, e) \in Nat
    OBVIOUS
  <2>1. Below(S, e) \in SUBSET S
    BY DEF Below
  <2>2. IsFiniteSet(Below(S, e))
    BY <1>1, <2>1, FS_Subset
  <2> QED
    BY <2>2, FS_CardinalityType DEF Rank
<1>3. \A e \in S : e \notin Below(S, e)
  BY DEF Below, Before, Ordered
<1>4. Rank(S, b) < Cardinality(S)
  <2>1. Below(S, b) \in SUBSET S /\ Below(S, b) # S
    BY <1>3 DEF Below
  <2> QED
    BY <1>1, <1>2, <2>1, FS_Subset DEF Rank
<1>5. ASSUME NEW a \in S, Before(a, b) PROVE Rank(S, a) < Rank(S, b)
  <2>1. Below(S, a) \in SUBSET Below(S, b)
    BY <1>5 DEF Below, Before, Ordered
  <2>2. Below(S, a) # Below(S, b)
    BY <1>3, <1>5 DEF Below
  <2>3. /\ Cardinality(Below(S, a)) <= Cardinality(Below(S, b))
        /\ Cardinality(Below(S, b)) # Cardinality(Below(S, a))
    BY <1>2, <2>1, <2>2, FS_Subset
  <2>4. Rank(S, a) \in Nat /\ Rank(S, b) \in Nat
    BY <1>2
  <2> QED
    BY <2>3, <2>4 DEF Rank
<1> QED
  BY <1>1, <1>2, <1>4, <1>5

LEMMA ByPortLists ==
  ASSUME NEW S, Ordered(S)
  PROVE  LET s == ByPort(S)
         IN  /\ s \in Seq(S) /\ Len(s) = Cardinality(S)
             /\ \A i, j \in DOMAIN s : s[i] = s[j] => i = j
<1> DEFINE n == Cardinality(S)
           rank == [e \in S |-> Rank(S, e) + 1]
           s == ByPort(S)
<1>1. IsFiniteSet(S) /\ n \in Nat
  BY FS_CardinalityType DEF Ordered
<1>2. \A e \in S : rank[e] = Rank(S, e) + 1 /\ Rank(S, e) \in 0 .. n - 1 /\ rank[e] \in 1 .. n
  <2> SUFFICES ASSUME NEW e \in S
               PROVE  rank[e] = Rank(S, e) + 1 /\ Rank(S, e) \in 0 .. n - 1 /\ rank[e] \in 1 .. n
    OBVIOUS
  <2>1. Rank(S, e) \in 0 .. n - 1
    BY RankGrows
  <2> QED
    BY <1>1, <2>1
<1>3. ASSUME NEW a \in S, NEW b \in S, rank[a] = rank[b] PROVE a = b
  <2>1. Rank(S, a) = Rank(S, b)
    BY <1>2, <1>3
  <2>2. ~Before(a, b) /\ ~Before(b, a)
    BY <1>2, <2>1, RankGrows
  <2> QED
    BY <2>2 DEF Before, Ordered, OnePerAddress
<1>4. rank \in Injection(S, 1 .. n)
  <2>1. rank \in [S -> 1 .. n]
    BY <1>2
  <2> QED
    BY <1>3, <2>1 DEF Injection, IsInjective
<1>5. rank \in Surjection(S, 1 .. n)
  <2>1. IsFiniteSet(1 .. n) /\ Cardinality(1 .. n) = n
    BY <1>1, FS_Interval
  <2> QED
    BY <1>4, <2>1, FS_Injection
<1>6. \A i \in 1 .. n : \E e \in S : Rank(S, e) = i - 1
  <2> SUFFICES ASSUME NEW i \in 1 .. n PROVE \E e \in S : Rank(S, e) = i - 1
    OBVIOUS
  <2>1. PICK e \in S : rank[e] = i
    BY <1>5 DEF Surjection
  <2> QED
    BY <1>1, <1>2, <2>1
<1>7. s = [i \in 1 .. n |-> IthOf(S, i)]
  BY ByPortIs
<1>8. \A i \in 1 .. n : s[i] \in S /\ Rank(S, s[i]) = i - 1
  BY <1>6, <1>7 DEF IthOf
<1>9. s \in Seq(S) /\ Len(s) = n /\ DOMAIN s = 1 .. n
  <2> HIDE DEF s
  <2>1. s \in [1 .. n -> S]
    BY <1>7, <1>8
  <2> QED
    BY <1>1, <2>1
<1>10. ASSUME NEW i \in DOMAIN s, NEW j \in DOMAIN s, s[i] = s[j] PROVE i = j
  <2>1. i \in 1 .. n /\ j \in 1 .. n /\ i - 1 = j - 1
    BY <1>8, <1>9, <1>10
  <2> QED
    BY <1>1, <2>1
<1> QED
  BY <1>9, <1>10
(* The catalogue: what listens and what is listed.  A listed key was made   *)
(* by a service that goes by the name it is listed under, the one that runs *)
(* now or an earlier one.                                                   *)
Fits(n) ==
  n.key # NoKey =>
    /\ n.key \in Key /\ n.key.port = n.port
    /\ \/ n.key.machine = MachineOf(n.host)
       \/ <<n.key.machine, n.port, n.host>> \in Advertised
    /\ n.key.start <= service[<<n.key.machine, n.port>>].start
Genuine(e) ==
  /\ e \in [type : {"relay", "exit"}, host : Host, port : Port,
            key : Key]
  /\ Fits(e)
Catalogued ==
  /\ service \in [Machine \X Port -> [kind : Kinds, start : 0 .. MaxChanges]]
  /\ changes \in 0 .. MaxChanges /\ asked \in 0 .. changes
  /\ \A at \in Machine \X Port : service[at].start <= changes
  /\ IsFiniteSet(listing) /\ \A e \in listing : Genuine(e)
  /\ \A e, f \in listing :
       e.type = f.type /\ e.host = f.host /\ e.port = f.port => e = f

LEMMA Places ==
  ASSUME DiscoveryAssumption
  PROVE  /\ Machines \in Nat \ {0} /\ Ports \in Nat \ {0} /\ MinNodes \in Nat \ {0}
         /\ Modes \subseteq Mode /\ MaxChanges \in Nat
         /\ Kinds \subseteq {"relay", "exit", "app", "none"}
         /\ Advertised \subseteq Machine \X Port \X Host
         /\ Installed \subseteq [Machine \X Port -> Kinds]
         /\ \A h \in Host : MachineOf(h) \in Machine
BY DEF DiscoveryAssumption, Host, Machine, MachineOf,
       Local

LEMMA NoKeyIsNone == NoKey \notin Key
BY DEF NoKey, Key, Port

LEMMA CatalogueInit ==
  ASSUME DiscoveryAssumption, Init
  PROVE  Catalogued
<1>0. PICK kinds \in Installed :
        service = [at \in Machine \X Port |-> [kind |-> kinds[at], start |-> 0]]
  BY DEF Init
<1>1. service \in [Machine \X Port -> [kind : Kinds, start : 0 .. MaxChanges]]
      /\ \A at \in Machine \X Port : service[at].start <= changes
  <2>1. kinds \in [Machine \X Port -> Kinds] /\ 0 \in 0 .. MaxChanges /\ changes = 0
    BY Places DEF Init
  <2> QED
    BY <1>0, <2>1
<1>2. listing = {} /\ changes = 0 /\ asked = 0
  BY DEF Init
<1> QED
  BY <1>1, <1>2, Places, FS_EmptySet DEF Catalogued

LEMMA KeyTaken ==
  ASSUME DiscoveryAssumption, Catalogued, NEW m \in Machine, NEW p \in Port
  PROVE  LET k == KeyAt(m, p)
         IN  /\ k \in Key /\ k # NoKey /\ k.machine = m /\ k.port = p
             /\ k.start = service[<<m, p>>].start /\ k.start \in Int
<1>1. service[<<m, p>>].start \in 0 .. MaxChanges
  BY DEF Catalogued
<1> QED
  BY <1>1, Places, NoKeyIsNone DEF KeyAt, Key

(* A start makes the keys of its address older.                             *)
LEMMA FitsLater ==
  ASSUME DiscoveryAssumption, Catalogued, NEW n,
         NEW m \in Machine, NEW p \in Port, NEW k \in Kinds, Replace(m, p, k),
         Fits(n)
  PROVE  Fits(n)'
<1> DEFINE at == <<n.key.machine, n.port>>
<1> SUFFICES ASSUME n.key # NoKey
             PROVE  n.key.start <= service'[at].start
  BY DEF Fits, MachineOf
<1>1. /\ n.key.start \in Int /\ n.key.start <= service[at].start
      /\ at \in Machine \X Port /\ service[at].start \in Int
  BY Places DEF Fits, Key, Catalogued
<1>2. service'[at].start \in {service[at].start, service[at].start + 1}
  <2> HIDE DEF at
  <2> QED
    BY <1>1 DEF Replace, Catalogued
<1> QED
  BY <1>1, <1>2

LEMMA CatalogueStep ==
  ASSUME DiscoveryAssumption, Catalogued, [Next]_vars
  PROVE  Catalogued'
<1>1. CASE \E m \in Machine, p \in Port : \E kind \in Kinds : Replace(m, p, kind)
  <2>1. PICK m \in Machine, p \in Port, kind \in Kinds : Replace(m, p, kind)
    BY <1>1
  <2>2. /\ changes < MaxChanges /\ changes' = changes + 1 /\ asked' = asked
        /\ service' = [service EXCEPT ![<<m, p>>] =
                         [kind |-> kind, start |-> service[<<m, p>>].start + 1]]
        /\ listing' = listing
    BY <2>1 DEF Replace, clientIdle
  <2>3. <<m, p>> \in Machine \X Port /\ service[<<m, p>>].start \in 0 .. MaxChanges
        /\ service[<<m, p>>].start <= changes /\ changes \in 0 .. MaxChanges /\ asked \in 0 .. changes
    BY DEF Catalogued
  <2>4. service' \in [Machine \X Port -> [kind : Kinds, start : 0 .. MaxChanges]]
    BY <2>2, <2>3, Places DEF Catalogued
  <2>5. \A at \in Machine \X Port : service'[at].start <= changes'
    <3> SUFFICES ASSUME NEW at \in Machine \X Port
                 PROVE  service'[at].start <= changes'
      OBVIOUS
    <3>1. service[at].start <= changes /\ service[at].start \in 0 .. MaxChanges
      BY DEF Catalogued
    <3> QED
      BY <2>2, <2>3, <3>1, Places DEF Catalogued
  <2>6. \A e \in listing : Genuine(e)'
    <3> SUFFICES ASSUME NEW e \in listing PROVE Genuine(e)'
      OBVIOUS
    <3>1. Genuine(e)
      BY DEF Catalogued
    <3>3. Fits(e)'
      BY <2>1, <3>1, FitsLater DEF Genuine
    <3> QED
      BY <3>1, <3>3 DEF Genuine
  <2> QED
    BY <2>2, <2>3, <2>4, <2>5, <2>6, Places DEF Catalogued
<1>2. CASE \E m \in Machine, p \in Port : \E host \in Host : Register(m, p, host)
  <2>1. PICK m \in Machine, p \in Port, host \in Host : Register(m, p, host)
    BY <1>2
  <2> DEFINE new == [type |-> service[<<m, p>>].kind, host |-> host, port |-> p,
                     key |-> KeyAt(m, p)]
             old == {e \in listing : /\ e.type = new.type /\ e.host = new.host
                                     /\ (e.port = new.port \/ e.type = "exit")}
  <2>2. listing' = (listing \ old) \cup {new} /\ UNCHANGED <<service, changes, asked>>
        /\ service[<<m, p>>].kind \in {"relay", "exit"} /\ <<m, p, host>> \in Advertised
    BY <2>1 DEF Register, clientIdle
  <2>3. Genuine(new)
    <3>1. /\ KeyAt(m, p) \in Key /\ KeyAt(m, p).machine = m /\ KeyAt(m, p).port = p
          /\ KeyAt(m, p).start = service[<<m, p>>].start /\ KeyAt(m, p).start \in Int
      BY KeyTaken
    <3> HIDE DEF KeyAt
    <3> QED
      BY <2>2, <3>1 DEF Genuine, Fits
  <2>4. IsFiniteSet(listing')
    <3>1. listing \ old \in SUBSET listing /\ IsFiniteSet(listing)
      BY DEF Catalogued
    <3>2. IsFiniteSet(listing \ old)
      BY <3>1, FS_Subset
    <3> HIDE DEF new, old
    <3>3. IsFiniteSet((listing \ old) \cup {new})
      BY <3>2, FS_AddElement
    <3> QED
      BY <2>2, <3>3
  <2>5. \A e \in listing' : e = new \/ (e \in listing /\ ~(e.type = new.type /\ e.host = new.host /\ e.port = new.port))
    BY <2>2
  <2>6. \A e \in listing' : Genuine(e)
    BY <2>3, <2>5 DEF Catalogued
  <2>7. \A e, f \in listing' : e.type = f.type /\ e.host = f.host /\ e.port = f.port => e = f
    <3> HIDE DEF new
    <3> QED
      BY <2>5 DEF Catalogued
  <2>8. \A e \in listing' : Genuine(e)'
    BY <2>2, <2>6 DEF Genuine, Fits, MachineOf, Local
  <2> QED
    BY <2>2, <2>4, <2>7, <2>8 DEF Catalogued
<1>3. CASE \E e \in listing : Expire(e)
  <2>1. PICK e \in listing : listing' = listing \ {e} /\ UNCHANGED <<service, changes, asked>>
    BY <1>3 DEF Expire, clientIdle
  <2>2. IsFiniteSet(listing')
    BY <2>1, FS_RemoveElement DEF Catalogued
  <2>3. \A d \in listing' : Genuine(d)'
    BY <2>1 DEF Catalogued, Genuine, Fits, MachineOf, Local
  <2> QED
    BY <2>1, <2>2, <2>3 DEF Catalogued
<1>4. CASE ListFails
  <2>1. /\ changes < MaxChanges /\ changes' = changes + 1 /\ asked' = asked
        /\ UNCHANGED <<service, listing>>
    BY <1>4 DEF ListFails
  <2>2. \A e \in listing : Genuine(e)'
    BY <2>1 DEF Catalogued, Genuine, Fits, MachineOf, Local
  <2>3. \A at \in Machine \X Port :
          service[at].start <= changes /\ service[at].start \in 0 .. MaxChanges
    BY DEF Catalogued
  <2>4. changes \in 0 .. MaxChanges /\ asked \in 0 .. changes
    BY DEF Catalogued
  <2>5. \A at \in Machine \X Port : service'[at].start <= changes'
    BY <2>1, <2>3, <2>4, Places
  <2> QED
    BY <2>1, <2>2, <2>4, <2>5, Places DEF Catalogued
<1>5. CASE UNCHANGED <<service, listing, changes>> /\ asked' \in {asked, changes}
  <2>1. \A e \in listing : Genuine(e)'
    BY <1>5 DEF Catalogued, Genuine, Fits, MachineOf, Local
  <2>2. asked' \in 0 .. changes'
    BY <1>5, Places DEF Catalogued
  <2> QED
    BY <1>5, <2>1, <2>2 DEF Catalogued
<1>7. CASE \E m \in Machine, p \in Port : Accept(m, p) \/ Served(m, p)
  <2>1. UNCHANGED <<service, listing, changes, asked>>
    BY <1>7 DEF Accept, Served, clientIdle
  <2> QED
    BY <1>5, <2>1
<1>6. ClientStep \/ NewCircuit \/ UNCHANGED vars =>
        UNCHANGED <<service, listing, changes>> /\ asked' \in {asked, changes}
  BY DEF ClientStep, NewCircuit, vars, envVars, List,
         Scan, Scanned, RelaysProbed, ProbeExit,
         LoadNetwork, Cached, Retry, ScanPort,
         ProbeRelay, Enrich
<1> QED
  BY <1>1, <1>2, <1>3, <1>4, <1>5, <1>6, <1>7 DEF Next, Step

(* The search: what is found is on different ports, and there is an exit    *)
(* once the network is loaded.                                              *)
Candidates == nodes \cup (IF phase = "relays" THEN todo ELSE {})
OnePerPort(S) == \A n, o \in S : n.port = o.port => n = o
Searching ==
  /\ mode \in Modes \cap Mode
  /\ phase \in {"start", "scan", "relays", "exit", "load", "keys", "ready", "failed"}
  /\ IsFiniteSet(nodes) /\ Candidates \subseteq Node /\ OnePerPort(Candidates)
  /\ phase = "scan" => todo \subseteq Port /\ \A n \in nodes : n.port \notin todo
  /\ exits \in Seq(Node)
  /\ exit \in Node \cup {NoNode}
  /\ phase \in {"keys", "ready"} => exit \in Node
KeysFound ==
  /\ Plain => /\ \A n \in Candidates \cup {exit} : Fits(n)
                     /\ \A i \in DOMAIN exits : Fits(exits[i])
  /\ phase = "ready" => \A n \in nodes \cup {exit} : n.key # NoKey

LEMMA Entries ==
  ASSUME DiscoveryAssumption, mode \in Mode, NEW e, Genuine(e)
  PROVE  LET n == NodeEntry(e)
         IN  /\ n \in Node /\ n.port = e.port
             /\ Plain /\ UseRegistry => Fits(n)
<1>1. ConnectHost(e.host) \in Host
  BY DEF ConnectHost, NetworkHost, Mode, Genuine
<1>2. Plain /\ UseRegistry => ConnectHost(e.host) = e.host
  BY DEF Plain, ConnectHost
<1> QED
  BY <1>1, <1>2 DEF NodeEntry, Node, Genuine, Fits

LEMMA RelaysListed ==
  ASSUME DiscoveryAssumption, mode \in Mode, Catalogued
  PROVE  LET found == NodesFromRegistry(OfType(listing, "relay"))
         IN  /\ found \subseteq Node /\ OnePerPort(found)
             /\ Plain /\ UseRegistry => \A n \in found : Fits(n)
<1> DEFINE relays == OfType(listing, "relay")
           best == {r \in relays : \A s \in relays : s.port = r.port => r.host <= s.host}
           found == NodesFromRegistry(relays)
<1>1. \A r \in relays : r \in listing /\ Genuine(r) /\ r.type = "relay" /\ r.host \in Int
  BY Places DEF OfType, Catalogued, Genuine, Host, Machine, Local
<1>2. \A r, s \in best : r.port = s.port => r = s
  <2> SUFFICES ASSUME NEW r \in best, NEW s \in best, r.port = s.port PROVE r = s
    OBVIOUS
  <2>1. r.host <= s.host /\ s.host <= r.host
    OBVIOUS
  <2>2. r.host = s.host
    BY <1>1, <2>1
  <2> QED
    BY <1>1, <2>2 DEF Catalogued
<1>3. found = {NodeEntry(e) : e \in best}
  BY DEF NodesFromRegistry
<1>4. found \subseteq Node /\ (Plain /\ UseRegistry => \A n \in found : Fits(n))
  BY <1>1, <1>3, Entries
<1>5. OnePerPort(found)
  <2> SUFFICES ASSUME NEW a \in best, NEW b \in best,
                      NodeEntry(a).port = NodeEntry(b).port
               PROVE  a = b
    BY <1>3 DEF OnePerPort
  <2>1. a.port = b.port
    BY <1>1, Entries
  <2> QED
    BY <1>2, <2>1
<1> QED
  BY <1>4, <1>5

LEMMA ExitsListed ==
  ASSUME DiscoveryAssumption, mode \in Mode, Catalogued
  PROVE  LET found == ExitFromRegistry(OfType(listing, "exit"))
         IN  /\ found \in Seq(Node)
             /\ Plain /\ UseRegistry => \A i \in DOMAIN found : Fits(found[i])
<1> DEFINE servers == OfType(listing, "exit")
           ours == {e \in servers : e.port = ExitPort}
           rest == {e \in servers : e.port # ExitPort}
           pinned == ByPort(ours)
           others == ByPort(rest)
           all == pinned \o others
           listed == [i \in 1 .. Len(all) |-> NodeEntry(all[i])]
           preferred == [host |-> NetworkHost, port |-> ExitPort,
                         key |-> IF pinned = <<>> THEN NoKey ELSE pinned[1].key]
           found == ExitFromRegistry(servers)
<1>1. \A e \in servers : e \in listing /\ Genuine(e) /\ e.type = "exit" /\ e.host \in Int /\ e.port \in Int
  BY Places DEF OfType, Catalogued, Genuine, Host, Machine, Local, Port
<1>2. ASSUME NEW S \in SUBSET servers PROVE Ordered(S)
  <2>1. S \in SUBSET listing
    BY <1>1
  <2>2. IsFiniteSet(S)
    BY <2>1, FS_Subset DEF Catalogued
  <2> QED
    BY <1>1, <2>1, <2>2 DEF Ordered, OnePerAddress, Catalogued
<1>3. pinned \in Seq(servers) /\ others \in Seq(servers)
  <2>1. ours \in SUBSET servers /\ rest \in SUBSET servers
    OBVIOUS
  <2>2. pinned \in Seq(ours) /\ others \in Seq(rest)
    BY <1>2, <2>1, ByPortLists
  <2> HIDE DEF pinned, others, ours, rest, servers
  <2> QED
    BY <2>1, <2>2
<1>4. all \in Seq(servers)
  <2> HIDE DEF pinned, others, servers
  <2> QED
    BY <1>3
<1>5. listed \in Seq(Node) /\ DOMAIN listed = 1 .. Len(all)
      /\ \A i \in DOMAIN listed : listed[i] = NodeEntry(all[i]) /\ all[i] \in servers
  <2> HIDE DEF all, servers
  <2>1. \A i \in 1 .. Len(all) : all[i] \in servers
    BY <1>4
  <2>2. \A i \in 1 .. Len(all) : NodeEntry(all[i]) \in Node
    BY <1>1, <2>1, Entries
  <2>3. Len(all) \in Nat
    BY <1>4
  <2> QED
    BY <2>1, <2>2, <2>3
<1>6. \A i \in DOMAIN listed : Plain /\ UseRegistry => Fits(listed[i])
  <2> HIDE DEF all, servers, listed
  <2> QED
    BY <1>1, <1>5, Entries
<1>7. found = IF ExitPort = 0 THEN listed ELSE <<preferred>> \o listed
  BY Zenon DEF ExitFromRegistry
<1>8. ExitPort # 0 => preferred \in Node
  <2>1. pinned = <<>> \/ pinned[1].key \in Key
    <3> HIDE DEF pinned, servers
    <3> QED
      BY <1>1, <1>3 DEF Genuine
  <2> HIDE DEF pinned
  <2> QED
    BY <2>1 DEF Node, Mode, ExitPort, NetworkHost
<1> DEFINE Good(s) == /\ s \in Seq(Node)
                      /\ Plain /\ UseRegistry => \A i \in DOMAIN s : Fits(s[i])
<1>9. ASSUME ExitPort = 0 PROVE Good(found)
  <2> HIDE DEF listed, found
  <2> QED
    BY <1>5, <1>6, <1>7, <1>9
<1>10. ASSUME ExitPort # 0 PROVE Good(found)
  <2>1. found = <<preferred>> \o listed /\ ~Plain
    BY <1>7, <1>10, Zenon DEF Plain
  <2> HIDE DEF listed, found, preferred
  <2> QED
    BY <1>5, <1>8, <1>10, <2>1
<1> QED
  BY <1>9, <1>10

SearchInv == Searching /\ KeysFound

LEMMA FitsStays ==
  ASSUME UNCHANGED service, NEW n
  PROVE  Fits(n)' = Fits(n)
BY DEF Fits, MachineOf, Local

LEMMA SearchInit ==
  ASSUME DiscoveryAssumption, Init
  PROVE  SearchInv
<1>1. Searching
  BY Places, FS_EmptySet
  DEF Init, Searching, Candidates, OnePerPort, NoNode
<1>2. KeysFound
  BY DEF Init, KeysFound, Candidates, Fits, NoNode
<1> QED
  BY <1>1, <1>2 DEF SearchInv

(* The catalogue changes: the client's state stays.                         *)
LEMMA SearchIdle ==
  ASSUME DiscoveryAssumption, Catalogued, SearchInv, UNCHANGED mode, clientIdle,
         \A n : Fits(n) => Fits(n)'
  PROVE  SearchInv'
<1>1. Searching'
  BY DEF SearchInv, Searching, clientIdle, Candidates, OnePerPort
<1>4. KeysFound'
  <2>1. \A i \in DOMAIN exits : exits[i] \in Node
    BY DEF SearchInv, Searching
  <2>2. Candidates' = Candidates /\ Candidates \subseteq Node
    BY DEF SearchInv, Searching, clientIdle, Candidates
  <2>3. Plain' = Plain
    BY DEF Plain, ExitPort, NetworkHost, UseRegistry, Local
  <2> QED
    BY <2>1, <2>2, <2>3 DEF SearchInv, Searching, KeysFound, clientIdle
<1> QED
  BY <1>1, <1>4 DEF SearchInv

LEMMA SearchKeeps ==
  ASSUME DiscoveryAssumption, Catalogued, SearchInv, UNCHANGED <<mode, service>>,
         Candidates' \subseteq Candidates, nodes' \subseteq Candidates, IsFiniteSet(nodes'),
         UNCHANGED <<exits, exit>>,
         phase' \in {"start", "relays", "exit", "load", "keys", "ready", "failed"},
         phase' \in {"keys", "ready"} => exit \in Node,
         phase' = "ready" => \A n \in nodes' \cup {exit} : n.key # NoKey
  PROVE  SearchInv'
<1>1. Searching'
  BY DEF SearchInv, Searching, OnePerPort
<1>2. Plain' = Plain
  BY DEF Plain, ExitPort, NetworkHost, UseRegistry, Local
<1>3. KeysFound'
  BY <1>2, FitsStays DEF SearchInv, Searching, KeysFound
<1> QED
  BY <1>1, <1>3 DEF SearchInv

LEMMA SearchLists ==
  ASSUME DiscoveryAssumption, Catalogued, SearchInv, UNCHANGED mode, List
  PROVE  SearchInv'
<1> DEFINE found == NodesFromRegistry(OfType(listing, "relay"))
           tries == ExitFromRegistry(OfType(listing, "exit"))
<1>1. /\ phase' = "relays" /\ todo' = found /\ nodes' = {} /\ exits' = tries
      /\ UNCHANGED <<service, exit, mode>> /\ UseRegistry
  BY DEF List, envVars
<1>2. mode \in Modes \cap Mode /\ exit \in Node \cup {NoNode}
  BY DEF SearchInv, Searching
<1>3. /\ found \subseteq Node /\ OnePerPort(found)
      /\ Plain => \A n \in found : Fits(n)
  BY <1>1, <1>2, RelaysListed
<1>4. /\ tries \in Seq(Node)
      /\ Plain => \A i \in DOMAIN tries : Fits(tries[i])
  BY <1>1, <1>2, ExitsListed
<1> HIDE DEF found, tries
<1>5. Candidates' = found
  BY <1>1 DEF Candidates
<1>6. Searching'
  BY <1>1, <1>2, <1>3, <1>4, <1>5, FS_EmptySet DEF Searching
<1>7. Plain' = Plain
  BY <1>1 DEF Plain, ExitPort, NetworkHost, UseRegistry, Local
<1>8. KeysFound'
  BY <1>1, <1>3, <1>4, <1>5, <1>7, FitsStays DEF KeysFound, SearchInv
<1> QED
  BY <1>6, <1>8 DEF SearchInv

LEMMA SearchScans ==
  ASSUME DiscoveryAssumption, Catalogued, SearchInv, UNCHANGED mode,
         Scan \/ (\E p \in Port : ScanPort(p))
  PROVE  SearchInv'
<1>1. Plain' = Plain
  BY DEF Plain, ExitPort, NetworkHost, UseRegistry, Local
<1>2. CASE Scan
  <2>1. /\ phase' = "scan" /\ todo' = Port /\ nodes' = {} /\ exits' = <<>>
        /\ UNCHANGED <<service, exit>> /\ Candidates' = {}
    BY <1>2 DEF Scan, envVars, Candidates
  <2>2. Searching'
    BY <2>1, FS_EmptySet DEF SearchInv, Searching, OnePerPort
  <2>3. KeysFound'
    BY <1>1, <2>1, FitsStays DEF SearchInv, KeysFound
  <2> QED
    BY <2>2, <2>3 DEF SearchInv
<1>3. CASE \E p \in Port : ScanPort(p)
  <2>1. PICK p \in Port : ScanPort(p)
    BY <1>3
  <2> DEFINE found == [host |-> NetworkHost, port |-> p, key |-> NoKey]
  <2>2. /\ phase = "scan" /\ phase' = "scan" /\ p \in todo /\ todo' = todo \ {p}
        /\ nodes' \in {nodes, nodes \cup {found}} /\ exits' \in {exits, <<found>>}
        /\ UNCHANGED <<service, exit>> /\ Candidates' = nodes' /\ Candidates = nodes
    BY <2>1 DEF ScanPort, envVars, Candidates
  <2>3. found \in Node /\ found.port = p
    BY DEF Node, SearchInv, Searching, Mode, NetworkHost
  <2>4. found.key = NoKey /\ Fits(found) /\ Fits(found)'
    BY DEF Fits
  <2> HIDE DEF found
  <2>5. IsFiniteSet(nodes')
    <3>1. IsFiniteSet(nodes)
      BY DEF SearchInv, Searching
    <3>2. IsFiniteSet(nodes \cup {found})
      BY <3>1, FS_AddElement
    <3> QED
      BY <2>2, <3>1, <3>2
  <2>6. Searching'
    <3>1. nodes' \subseteq Node /\ \A n \in nodes' : n.port \notin todo'
      BY <2>2, <2>3 DEF SearchInv, Searching
    <3>2. OnePerPort(nodes')
      BY <2>2, <2>3 DEF SearchInv, Searching, OnePerPort
    <3>3. exits' \in Seq(Node)
      <4>1. <<found>> \in Seq(Node) /\ exits \in Seq(Node)
        BY <2>3 DEF SearchInv, Searching
      <4> QED
        BY <2>2, <4>1
    <3> QED
      BY <2>2, <2>5, <3>1, <3>2, <3>3 DEF SearchInv, Searching
  <2>7. KeysFound'
    <3>1. CASE exits' = <<found>>
      <4>1. DOMAIN <<found>> = {1} /\ <<found>>[1] = found
        OBVIOUS
      <4>2. (\A i \in DOMAIN exits : Fits(exits[i]))'
        BY <2>4, <3>1, <4>1 DEF Fits
      <4> QED
        BY <1>1, <2>2, <2>4, <4>2, FitsStays DEF SearchInv, KeysFound
    <3>2. CASE exits' = exits
      BY <1>1, <2>2, <2>4, <3>2, FitsStays DEF SearchInv, KeysFound
    <3> QED
      BY <2>2, <3>1, <3>2
  <2> QED
    BY <2>6, <2>7 DEF SearchInv
<1> QED
  BY <1>2, <1>3

LEMMA SearchProbes ==
  ASSUME DiscoveryAssumption, Catalogued, SearchInv, UNCHANGED mode,
         \/ Scanned \/ RelaysProbed \/ ProbeExit \/ LoadNetwork
         \/ Cached \/ Retry \/ NewCircuit
         \/ \E n \in todo : ProbeRelay(n)
  PROVE  SearchInv'
<1> USE FS_EmptySet DEF SearchInv
<1>1. CASE Scanned
  <2>1. Candidates' = nodes /\ Candidates = nodes /\ nodes' = {} /\ phase' = "relays"
        /\ UNCHANGED <<service, exits, exit>>
    BY <1>1 DEF Scanned, Candidates, envVars
  <2> QED
    BY <2>1, SearchKeeps
<1>2. CASE RelaysProbed
  <2>1. Candidates' = nodes /\ Candidates = nodes \cup todo /\ nodes' = nodes /\ phase' = "exit"
        /\ UNCHANGED <<service, exits, exit>>
    BY <1>2 DEF RelaysProbed, Candidates, envVars
  <2> QED
    BY <2>1, SearchKeeps DEF Searching
<1>3. CASE LoadNetwork
  <2>1. Candidates' = nodes /\ Candidates = nodes /\ nodes' = nodes /\ phase' \in {"keys", "failed"}
        /\ UNCHANGED <<service, exits, exit>> /\ (phase' = "keys" => exit # NoNode)
    BY <1>3 DEF LoadNetwork, Candidates, envVars, Complete
  <2> QED
    BY <2>1, SearchKeeps DEF Searching
<1>4. CASE Cached
  <2>1. Candidates' = nodes /\ Candidates = nodes /\ nodes' = nodes /\ phase' = "ready"
        /\ phase = "keys" /\ UNCHANGED <<service, exits, exit>>
        /\ \A n \in nodes \cup {exit} : n.key # NoKey
    BY <1>4 DEF Cached, Candidates, envVars
  <2> QED
    BY <2>1, SearchKeeps DEF Searching
<1>5. CASE Retry
  <2>1. Candidates' = nodes /\ Candidates = nodes /\ nodes' = nodes /\ phase' = "start"
        /\ UNCHANGED <<service, exits, exit>>
    BY <1>5 DEF Retry, Candidates, envVars
  <2> QED
    BY <2>1, SearchKeeps DEF Searching
<1>6. CASE NewCircuit
  <2>1. Candidates' = nodes /\ Candidates = nodes /\ nodes' = nodes /\ phase' = "ready"
        /\ phase = "ready" /\ UNCHANGED <<service, exits, exit>>
    BY <1>6 DEF NewCircuit, Candidates, envVars
  <2> QED
    BY <2>1, SearchKeeps DEF Searching, KeysFound
<1>7. CASE \E n \in todo : ProbeRelay(n)
  <2>1. PICK n \in todo : ProbeRelay(n)
    BY <1>7
  <2>2. /\ phase = "relays" /\ phase' = "relays" /\ todo' = todo \ {n}
        /\ nodes' \in {nodes, nodes \cup {n}} /\ UNCHANGED <<service, exits, exit>>
    BY <2>1 DEF ProbeRelay, envVars
  <2>3. Candidates' \subseteq Candidates /\ nodes' \subseteq Candidates
    BY <2>2 DEF Candidates
  <2>4. IsFiniteSet(nodes')
    BY <2>2, FS_AddElement DEF Searching
  <2> QED
    BY <2>2, <2>3, <2>4, SearchKeeps
<1>8. CASE ProbeExit
  <2>1. /\ phase = "exit" /\ phase' \in {"exit", "load"} /\ UNCHANGED <<service, nodes, todo>>
        /\ \/ exits # <<>> /\ exit' = Head(exits) /\ UNCHANGED exits
           \/ exits # <<>> /\ exits' = Tail(exits) /\ UNCHANGED exit
           \/ exit' = NoNode /\ UNCHANGED exits
    BY <1>8 DEF ProbeExit, envVars
  <2>2. Candidates' = nodes /\ Candidates = nodes
    BY <2>1 DEF Candidates
  <2>3. exits # <<>> => /\ Head(exits) = exits[1] /\ 1 \in DOMAIN exits
                        /\ Tail(exits) \in Seq(Node)
                        /\ \A i \in DOMAIN Tail(exits) : i + 1 \in DOMAIN exits /\ Tail(exits)[i] = exits[i + 1]
    BY DEF Searching
  <2>4. Searching'
    BY <2>1, <2>2, <2>3 DEF Searching
  <2>5. Plain' = Plain
    BY DEF Plain, ExitPort, NetworkHost, UseRegistry, Local
  <2>6. Fits(NoNode)
    BY DEF Fits, NoNode
  <2>7. Plain => Fits(exit') /\ \A i \in DOMAIN exits' : Fits(exits'[i])
    <3> SUFFICES ASSUME Plain
                 PROVE  Fits(exit') /\ \A i \in DOMAIN exits' : Fits(exits'[i])
      OBVIOUS
    <3>1. Fits(exit) /\ \A i \in DOMAIN exits : Fits(exits[i])
      BY DEF KeysFound
    <3>2. exits # <<>> => /\ Fits(Head(exits))
                          /\ \A i \in DOMAIN Tail(exits) : Fits(Tail(exits)[i])
      BY <2>3, <3>1
    <3>3. CASE exits # <<>> /\ exit' = Head(exits) /\ UNCHANGED exits
      BY <3>1, <3>2, <3>3, Zenon
    <3>4. CASE exits # <<>> /\ exits' = Tail(exits) /\ UNCHANGED exit
      BY <3>1, <3>2, <3>4, Zenon
    <3>5. CASE exit' = NoNode /\ UNCHANGED exits
      BY <2>6, <3>1, <3>5, Zenon
    <3> QED
      BY <2>1, <3>3, <3>4, <3>5
  <2>8. KeysFound'
    BY <2>1, <2>2, <2>5, <2>7, FitsStays DEF KeysFound
  <2> QED
    BY <2>4, <2>8
<1> QED
  BY <1>1, <1>2, <1>3, <1>4, <1>5, <1>6, <1>7, <1>8

LEMMA SearchEnriches ==
  ASSUME DiscoveryAssumption, Catalogued, SearchInv, UNCHANGED mode,
         NEW n \in nodes \cup {exit}, Enrich(n)
  PROVE  SearchInv'
<1> DEFINE new == [n EXCEPT !.key = FetchKey(n)]
<1>1. /\ phase = "keys" /\ phase' \in {"keys", "failed"}
      /\ \/ UNCHANGED <<nodes, exit>>
         \/ n \in nodes /\ nodes' = (nodes \ {n}) \cup {new} /\ exit' = exit
         \/ n = exit /\ exit' = new /\ nodes' = nodes
      /\ UNCHANGED <<service, exits>>
  BY DEF Enrich, envVars
<1>2. Candidates' = nodes' /\ Candidates = nodes
  BY <1>1 DEF Candidates
<1>3. n \in Node
  BY <1>1, <1>2 DEF SearchInv, Searching
<1>4. new \in Node /\ new.port = n.port /\ Fits(new)
  <2>1. n.host \in Host /\ n.port \in Port
        /\ n = [host |-> n.host, port |-> n.port, key |-> n.key]
    BY <1>3 DEF Node
  <2> DEFINE k == KeyAt(MachineOf(n.host), n.port)
  <2>2. /\ k \in Key /\ k.machine = MachineOf(n.host) /\ k.port = n.port
        /\ k.start = service[<<MachineOf(n.host), n.port>>].start /\ k.start \in Int
    BY <2>1, KeyTaken, Places
  <2>3. FetchKey(n) = k
    BY DEF FetchKey
  <2> HIDE DEF k
  <2>4. new = [host |-> n.host, port |-> n.port, key |-> k]
    BY <2>1, <2>3
  <2> QED
    BY <2>1, <2>2, <2>4 DEF Node, Fits
<1> HIDE DEF new
<1>5. Searching'
  <2>1. IsFiniteSet(nodes')
    <3>1. IsFiniteSet(nodes)
      BY DEF SearchInv, Searching
    <3>2. IsFiniteSet((nodes \ {n}) \cup {new})
      BY <3>1, FS_RemoveElement, FS_AddElement
    <3> QED
      BY <1>1, <3>1, <3>2
  <2>2. OnePerPort(nodes')
    BY <1>1, <1>2, <1>4 DEF SearchInv, Searching, OnePerPort
  <2> QED
    BY <1>1, <1>2, <1>4, <2>1, <2>2 DEF SearchInv, Searching
<1>6. Plain' = Plain
  BY DEF Plain, ExitPort, NetworkHost, UseRegistry, Local
<1>7. KeysFound'
  BY <1>1, <1>2, <1>4, <1>6, FitsStays DEF SearchInv, KeysFound
<1> QED
  BY <1>5, <1>7 DEF SearchInv

LEMMA SearchStep ==
  ASSUME DiscoveryAssumption, Catalogued, SearchInv, [Next]_vars
  PROVE  SearchInv'
<1>1. UNCHANGED mode
  BY DEF Next, vars
<1>2. CASE \E m \in Machine, p \in Port : \E kind \in Kinds : Replace(m, p, kind)
  <2>1. PICK m \in Machine, p \in Port, kind \in Kinds : Replace(m, p, kind)
    BY <1>2
  <2>2. clientIdle
    BY <2>1 DEF Replace
  <2> QED
    BY <1>1, <2>1, <2>2, FitsLater, SearchIdle
<1>3. CASE \E m \in Machine, p \in Port :
             Accept(m, p) \/ Served(m, p) \/ \E host \in Host : Register(m, p, host)
  <2>1. UNCHANGED service /\ clientIdle
    BY <1>3 DEF Register, Accept, Served
  <2> QED
    BY <1>1, <2>1, FitsStays, SearchIdle
<1>4. CASE \E e \in listing : Expire(e)
  <2>1. UNCHANGED service /\ clientIdle
    BY <1>4 DEF Expire
  <2> QED
    BY <1>1, <2>1, FitsStays, SearchIdle
<1>5. CASE ListFails
  <2>1. UNCHANGED <<service, nodes, exits, exit, todo>> /\ phase' = "failed" /\ phase = "start"
    BY <1>5 DEF ListFails
  <2>2. Candidates' = nodes /\ Candidates = nodes
    BY <2>1 DEF Candidates
  <2> QED
    BY <1>1, <2>1, <2>2, SearchKeeps DEF SearchInv, Searching
<1>6. CASE UNCHANGED vars
  <2>1. UNCHANGED service /\ clientIdle
    BY <1>6 DEF vars, envVars, clientIdle
  <2> QED
    BY <1>1, <2>1, FitsStays, SearchIdle
<1> QED
  BY <1>1, <1>2, <1>3, <1>4, <1>5, <1>6, SearchLists, SearchScans, SearchProbes, SearchEnriches
  DEF Next, Step, ClientStep

(* The circuit: a sequence of nodes on different ports, as many as the      *)
(* client was asked for.                                                    *)
Chosen ==
  /\ chain \in Seq(Node)
  /\ chain # <<>> =>
       /\ Len(chain) >= MinNodes
       /\ NumNodes # 0 /\ ~UseAll => Len(chain) = NumNodes
       /\ \A i, j \in DOMAIN chain : i # j => chain[i].port # chain[j].port

LEMMA ChosenInit ==
  ASSUME Init
  PROVE  Chosen
BY DEF Init, Chosen

LEMMA CircuitChosen ==
  ASSUME DiscoveryAssumption, SearchInv, UNCHANGED mode, NewCircuit
  PROVE  Chosen'
<1> DEFINE n == ChainCount(nodes)
           sorted == ByPort(nodes)
<1>1. /\ IsFiniteSet(nodes) /\ nodes \subseteq Node /\ OnePerPort(nodes)
      /\ Cardinality(nodes) \in Nat /\ mode \in Mode
  BY FS_CardinalityType DEF SearchInv, Searching, Candidates, OnePerPort
<1>2. /\ n \in Nat /\ n >= MinNodes /\ n <= Cardinality(nodes)
      /\ NumNodes # 0 /\ ~UseAll => n = NumNodes
  <2>1. n # 0
    BY DEF NewCircuit
  <2>2. NumNodes \in Nat /\ MinNodes \in Nat
    BY <1>1, Places DEF Mode, NumNodes
  <2> QED
    BY <1>1, <2>1, <2>2 DEF ChainCount
<1>3. \/ chain' \in [1 .. n -> nodes] /\ \A i, j \in 1 .. n : chain'[i] = chain'[j] => i = j
      \/ chain' = [i \in (1 .. n) \cap (1 .. Cardinality(nodes)) |-> sorted[i]]
  BY DEF NewCircuit, RandomChains, FixedChain, IsInjective
<1> HIDE DEF n
<1>4. ASSUME chain' = [i \in (1 .. n) \cap (1 .. Cardinality(nodes)) |-> sorted[i]]
      PROVE  chain' \in [1 .. n -> nodes] /\ \A i, j \in 1 .. n : chain'[i] = chain'[j] => i = j
  <2>1. Ordered(nodes)
    BY <1>1, Places
    DEF Ordered, OnePerAddress, OnePerPort, Node, Host, Port,
        Machine, Local
  <2>2. /\ sorted \in Seq(nodes) /\ Len(sorted) = Cardinality(nodes)
        /\ \A i, j \in DOMAIN sorted : sorted[i] = sorted[j] => i = j
    BY <2>1, ByPortLists
  <2> HIDE DEF sorted
  <2>3. (1 .. n) \cap (1 .. Cardinality(nodes)) = 1 .. n
    BY <1>1, <1>2
  <2>4. chain' = [i \in 1 .. n |-> sorted[i]]
    BY <1>4, <2>3
  <2>5. \A i \in 1 .. n : i \in DOMAIN sorted /\ sorted[i] \in nodes
    BY <1>1, <1>2, <2>2
  <2> QED
    BY <2>2, <2>4, <2>5
<1>5. chain' \in [1 .. n -> nodes] /\ \A i, j \in 1 .. n : chain'[i] = chain'[j] => i = j
  BY <1>3, <1>4
<1>6. chain' \in Seq(Node) /\ Len(chain') = n /\ DOMAIN chain' = 1 .. n
  <2>1. chain' \in [1 .. n -> Node]
    BY <1>1, <1>5
  <2> QED
    BY <1>2, <2>1
<1>7. \A i, j \in 1 .. n : i # j => chain'[i].port # chain'[j].port
  BY <1>1, <1>5 DEF OnePerPort
<1> QED
  BY <1>2, <1>6, <1>7 DEF Chosen, NumNodes, UseAll

LEMMA ChosenStep ==
  ASSUME DiscoveryAssumption, SearchInv, Chosen, [Next]_vars
  PROVE  Chosen'
<1>1. UNCHANGED mode
  BY DEF Next, vars
<1>2. NewCircuit \/ UNCHANGED chain
  <2>1. ClientStep => UNCHANGED chain
    BY DEF ClientStep, List, Scan, Scanned,
           RelaysProbed, ProbeExit, LoadNetwork, Cached,
           Retry, ScanPort, ProbeRelay, Enrich
  <2>2. ListFails \/ (\E e \in listing : Expire(e)) => UNCHANGED chain
    BY DEF ListFails, Expire, clientIdle
  <2>3. ASSUME NEW m \in Machine, NEW p \in Port,
               \/ \E kind \in Kinds : Replace(m, p, kind)
               \/ Accept(m, p) \/ Served(m, p)
               \/ \E host \in Host : Register(m, p, host)
        PROVE  UNCHANGED chain
    BY <2>3 DEF Replace, Accept, Served, Register, clientIdle
  <2> QED
    BY <2>1, <2>2, <2>3 DEF Next, vars, Step
<1>3. CASE UNCHANGED chain
  BY <1>1, <1>3 DEF Chosen, NumNodes, UseAll
<1> QED
  BY <1>1, <1>2, <1>3, CircuitChosen

(* What has been probed since the client asked runs, unless something has   *)
(* changed since.                                                           *)
Living ==
  changes = asked =>
    /\ phase \in {"relays", "exit", "load", "keys", "ready"} =>
         \A n \in nodes : Runs(n, "node")
    /\ phase \in {"load", "keys", "ready"} /\ exit # NoNode =>
         Runs(exit, "server")

LEMMA AliveRuns ==
  ASSUME NEW n, NEW t, IsAlive(n, t), t # "none"
  PROVE  Runs(n, t)
BY DEF IsAlive, Answer, Runs

LEMMA RunsStays ==
  ASSUME UNCHANGED <<mode, service>>, NEW n, NEW t
  PROVE  Runs(n, t)' = Runs(n, t)
BY DEF Runs, Tag, MachineOf, UseRegistry, Local

LEMMA LivingStep ==
  ASSUME DiscoveryAssumption, Catalogued, SearchInv, Living, [Next]_vars
  PROVE  Living'
<1>1. UNCHANGED mode
  BY DEF Next, vars
<1>2. changes \in Int /\ asked \in Int /\ asked <= changes
  BY Places DEF Catalogued
<1>3. CASE changes' = changes + 1 /\ asked' = asked
  BY <1>2, <1>3 DEF Living
<1>4. CASE UNCHANGED <<service, changes>> /\ clientIdle
  BY <1>1, <1>4, RunsStays DEF Living, clientIdle
<1>5. CASE List \/ Scan \/ (\E p \in Port : ScanPort(p))
  <2>1. phase' \in {"relays", "scan"} /\ (phase' = "relays" => nodes' = {})
    BY <1>5 DEF List, Scan, ScanPort
  <2> QED
    BY <2>1 DEF Living
<1>6. CASE Scanned \/ RelaysProbed \/ LoadNetwork \/ Cached
           \/ Retry \/ NewCircuit
  <2>1. /\ UNCHANGED <<service, changes, asked, exit>> /\ nodes' \in {nodes, {}}
        /\ phase' \in {"exit", "load", "keys", "ready"} =>
             phase \in {"relays", "exit", "load", "keys", "ready"} /\ nodes' = nodes
        /\ phase' \in {"load", "keys", "ready"} => phase \in {"load", "keys", "ready"}
        /\ phase' = "relays" => nodes' = {}
    BY <1>6
    DEF Scanned, RelaysProbed, LoadNetwork, Cached,
        Retry, NewCircuit, envVars
  <2> QED
    BY <1>1, <2>1, RunsStays DEF Living
<1>7. CASE \E n \in todo : ProbeRelay(n)
  <2>1. PICK n \in todo : ProbeRelay(n)
    BY <1>7
  <2>2. /\ phase = "relays" /\ phase' = "relays" /\ UNCHANGED <<service, changes, asked, exit>>
        /\ nodes' = nodes \/ (nodes' = nodes \cup {n} /\ Runs(n, "node"))
    BY <2>1, AliveRuns DEF ProbeRelay, envVars
  <2> QED
    BY <1>1, <2>2, RunsStays DEF Living
<1>8. CASE ProbeExit
  <2>1. /\ phase = "exit" /\ UNCHANGED <<service, changes, asked, nodes>>
        /\ phase' \in {"exit", "load"}
        /\ phase' = "load" => exit' = NoNode \/ Runs(exit', "server")
    BY <1>8, AliveRuns DEF ProbeExit, envVars
  <2>2. phase' = "load" /\ exit' # NoNode => Runs(exit, "server")'
    BY <1>1, <2>1 DEF Runs, Tag, MachineOf, UseRegistry, Local
  <2> QED
    BY <1>1, <2>1, <2>2, RunsStays DEF Living
<1>9. CASE \E n \in nodes \cup {exit} : Enrich(n)
  <2>1. PICK n \in nodes \cup {exit} : Enrich(n)
    BY <1>9
  <2> DEFINE new == [n EXCEPT !.key = FetchKey(n)]
  <2>2. /\ phase = "keys" /\ phase' \in {"keys", "failed"}
        /\ \/ UNCHANGED <<nodes, exit>>
           \/ n \in nodes /\ nodes' = (nodes \ {n}) \cup {new} /\ exit' = exit
           \/ n = exit /\ exit' = new /\ nodes' = nodes
        /\ UNCHANGED <<service, changes, asked>>
    BY <2>1 DEF Enrich, envVars
  <2>3. exit \in Node /\ nodes \subseteq Node /\ exit # NoNode
    BY <2>2
    DEF SearchInv, Searching, Candidates, NoNode, Node, Port
  <2>4. new.host = n.host /\ new.port = n.port
    BY <2>2, <2>3 DEF Node
  <2> HIDE DEF new
  <2>5. \A t : Runs(new, t) = Runs(n, t)
    BY <2>4 DEF Runs
  <2>6. changes = asked => /\ \A o \in nodes' : Runs(o, "node")
                           /\ Runs(exit', "server")
    BY <2>2, <2>3, <2>5 DEF Living
  <2>7. changes = asked => Runs(exit, "server")'
    BY <1>1, <2>2, <2>6 DEF Runs, Tag, MachineOf, UseRegistry, Local
  <2> QED
    BY <1>1, <2>2, <2>6, <2>7, RunsStays DEF Living
<1>10. CASE UNCHANGED vars
  BY <1>4, <1>10 DEF vars, envVars, clientIdle
<1>11. ASSUME NEW m \in Machine, NEW p \in Port,
              \/ \E kind \in Kinds : Replace(m, p, kind)
              \/ Accept(m, p) \/ Served(m, p)
              \/ \E host \in Host : Register(m, p, host)
       PROVE  Living'
  BY <1>3, <1>4, <1>11 DEF Replace, Accept, Served, Register, clientIdle
<1>12. CASE ListFails \/ \E e \in listing : Expire(e)
  BY <1>3, <1>4, <1>12 DEF ListFails, Expire, clientIdle
<1> QED
  BY <1>5, <1>6, <1>7, <1>8, <1>9, <1>10, <1>11, <1>12
  DEF Next, Step, ClientStep

LEMMA DiscoveryInvariant ==
  ASSUME DiscoveryAssumption
  PROVE  Spec => [](Catalogued /\ SearchInv /\ Chosen /\ Living)
<1>1. Init => Catalogued /\ SearchInv /\ Chosen
  BY CatalogueInit, SearchInit, ChosenInit
<1>2. Init => Living
  BY DEF Init, Living
<1>3. Catalogued /\ SearchInv /\ Chosen /\ Living /\ [Next]_vars
        => (Catalogued /\ SearchInv /\ Chosen /\ Living)'
  BY CatalogueStep, SearchStep, ChosenStep, LivingStep
<1> QED
  BY <1>1, <1>2, <1>3, PTL DEF Spec

(* A circuit has the number of relays its client was asked for, or at least *)
(* MinNodes, and no service is in it twice: whatever the directory lists    *)
(* and however services move, for any number of machines and ports.         *)
THEOREM ChainOfDistinctHolds ==
  ASSUME DiscoveryAssumption
  PROVE  Spec => []ChainOfDistinct
<1>1. ASSUME Catalogued, SearchInv, Chosen PROVE ChainOfDistinct
  <2>1. TypeOK
    <3>1. mode \in Modes
      BY <1>1 DEF SearchInv, Searching
    <3>2. \A e \in listing : e.key \in Key /\ e.key.port = e.port
      BY <1>1, NoKeyIsNone, ZenonT(30) DEF Catalogued, Genuine, Fits
    <3>3. ToSet(exits) \subseteq Node /\ ToSet(chain) \subseteq Node
      BY <1>1 DEF SearchInv, Searching, Chosen, ToSet
    <3> QED
      BY <1>1, <3>1, <3>2, <3>3
      DEF Catalogued, SearchInv, Searching, Candidates, TypeOK
  <2> QED
    BY <1>1, <2>1 DEF Chosen, ChainOfDistinct, At
<1> QED
  BY <1>1, DiscoveryInvariant, PTL

(* Without a pinned exit or a network host a client that is ready has, for  *)
(* each of its relays and its exit, a key of the service at that address or *)
(* of one that advertises that very host and port: of no other, whatever    *)
(* restarts and moves, for any number of machines and ports.                *)
THEOREM KeysFitHolds ==
  ASSUME DiscoveryAssumption
  PROVE  Spec => []KeysFit
<1>1. ASSUME SearchInv PROVE KeysFit
  BY <1>1 DEF SearchInv, KeysFound, Candidates, Fits, KeysFit
<1> QED
  BY <1>1, DiscoveryInvariant, PTL

(* Where a ready client has found a relay or an exit something runs, unless *)
(* a service has changed since it asked; after a scan what it was found to  *)
(* be.                                                                      *)
THEOREM OnlyLiveHolds ==
  ASSUME DiscoveryAssumption
  PROVE  Spec => []OnlyLive
<1>1. ASSUME SearchInv, Living PROVE OnlyLive
  <2> SUFFICES ASSUME phase = "ready", changes = asked
               PROVE  Runs(exit, "server") /\ \A n \in nodes : Runs(n, "node")
    BY DEF OnlyLive
  <2>1. exit # NoNode
    BY <1>1 DEF SearchInv, Searching, NoNode, Node, Port
  <2> QED
    BY <1>1, <2>1 DEF Living
<1> QED
  BY <1>1, DiscoveryInvariant, PTL
================================================================================
