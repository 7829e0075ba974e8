------------------------------- MODULE Directory -------------------------------
(***************************************************************************)
(* The directory (server/directory.py) and the registration loops that     *)
(* keep its entries alive (core/registry_client.py).                       *)
(*                                                                         *)
(* A relay or an exit is known by its address (type, host, port) and makes *)
(* a new key pair each time it starts; keys are numbered per address.  A   *)
(* registration is a one-way message: the loop does not wait for an answer *)
(* and the directory handles each connection in a thread of its own, so    *)
(* registrations may be handled out of order.  Time passes in ticks; the   *)
(* age of an entry stands for time.time() - last_seen.                     *)
(***************************************************************************)
EXTENDS Naturals, FiniteSets

CONSTANTS
  Host, Port,
  Address,   \* the services of the network
  Interval,  \* REGISTRY_REGISTER_INTERVAL
  Retry,     \* REGISTRY_RETRY_INTERVAL
  Timeout,   \* what a failing connect may take
  TTL,       \* REGISTRY_TTL_SECONDS
  Delay,     \* what may pass until a registration is handled
  MaxKeys    \* bound: times a service is started

ASSUME DirectoryAssumption ==
  /\ Address \subseteq [type : {"relay", "exit"}, host : Host, port : Port]
  /\ Interval \in Nat \ {0}
  /\ Retry \in Nat \ {0}
  /\ Timeout \in Nat
  /\ TTL \in Nat
  /\ Delay \in Nat
  /\ MaxKeys \in Nat

VARIABLES
  entries,    \* Directory.entries, a function on the registered addresses
  listening,  \* the directory process runs
  dirSince,   \* ticks since that last changed
  inflight,   \* registrations sent and not yet handled
  running,    \* running[a]: the process at address a runs
  key,        \* key[a]: its key pair, or that of the last one; 0: none yet
  timer,      \* timer[a]: rest of its registration loop's sleep
  since       \* since[a]: ticks since running[a] last changed

vars == <<entries, listening, dirSince, inflight, running, key, timer, since>>
serviceVars == <<running, key, timer, since>>

Key == 1 .. MaxKeys
Larger(m, n) == IF m > n THEN m ELSE n

(* Ages are not counted past TTL + 1, nor the other times past Horizon: no  *)
(* guard or property tells larger ones apart.                               *)
LongestSleep == Larger(Interval, Retry + Timeout)
HealTime == LongestSleep + 2 * Delay
Horizon == Larger(HealTime, TTL + Delay) + 1
Later(t, cap) == IF t < cap THEN t + 1 ELSE cap

Entry == [public_key : Key, age : 0 .. TTL + 1]
Registration == [addr : Address, public_key : Key, wait : 0 .. Delay]

TypeOK ==
  /\ DOMAIN entries \subseteq Address
  /\ \A a \in DOMAIN entries : entries[a] \in Entry
  /\ listening \in BOOLEAN
  /\ dirSince \in 0 .. Horizon
  /\ inflight \subseteq Registration
  /\ running \in [Address -> BOOLEAN]
  /\ key \in [Address -> 0 .. MaxKeys]
  /\ timer \in [Address -> 0 .. LongestSleep]
  /\ since \in [Address -> 0 .. Horizon]

NoEntries == [a \in {} |-> 0]

(* Nothing has been started for a long time.                                *)
Init ==
  /\ entries = NoEntries
  /\ listening = FALSE
  /\ dirSince = Horizon
  /\ inflight = {}
  /\ running = [a \in Address |-> FALSE]
  /\ key = [a \in Address |-> 0]
  /\ timer = [a \in Address |-> 0]
  /\ since = [a \in Address |-> Horizon]

-------------------------------------------------------------------------------
(* The directory.                                                           *)

(* Mutated forms: the comparison of ports is the wrong way round; the type  *)
(* of the entries is not looked at.                                         *)
EvictedSamePort(p) ==
  {a \in DOMAIN entries : /\ p.addr.type = "exit"
                          /\ a.type = "exit"
                          /\ a.host = p.addr.host
                          /\ a.port = p.addr.port}
EvictedAnyType(p) ==
  {a \in DOMAIN entries : /\ p.addr.type = "exit"
                          /\ a.host = p.addr.host
                          /\ a.port # p.addr.port}

(* Entries an exit's registration removes: other exits of its host.         *)
Evicted(p) ==
  {a \in DOMAIN entries : /\ p.addr.type = "exit"
                          /\ a.type = "exit"
                          /\ a.host = p.addr.host
                          /\ a.port # p.addr.port}

(* Mutated forms: last_seen is set only for a new entry; the key is not     *)
(* taken over.                                                              *)
EntryNotRefreshed(p) ==
  [public_key |-> p.public_key,
   age |-> IF p.addr \in DOMAIN entries THEN entries[p.addr].age ELSE 0]
EntryWithoutKey(p) == [public_key |-> 0, age |-> 0]

EntryOf(p) == [public_key |-> p.public_key, age |-> 0]

(* handle_connection and register, in the thread of one connection.         *)
HandleRegister(p) ==
  /\ listening
  /\ p \in inflight
  /\ inflight' = inflight \ {p}
  /\ entries' = [a \in (DOMAIN entries \ Evicted(p)) \cup {p.addr} |->
                   IF a = p.addr THEN EntryOf(p) ELSE entries[a]]
  /\ UNCHANGED <<listening, dirSince, serviceVars>>

(* Mutated form: nothing is pruned.                                         *)
NeverExpired(a) == FALSE

Expired(a) == entries[a].age > TTL

(* list_active: prune, then return what is left.                            *)
Listed == {a \in DOMAIN entries : ~Expired(a)}

ListActive ==
  /\ listening
  /\ entries' = [a \in Listed |-> entries[a]]
  /\ UNCHANGED <<listening, dirSince, inflight, serviceVars>>

StartDirectory ==
  /\ ~listening
  /\ listening' = TRUE
  /\ dirSince' = 0
  /\ UNCHANGED <<entries, inflight, serviceVars>>

(* The entries are only in memory; connections not yet handled are gone.    *)
StopDirectory ==
  /\ listening
  /\ listening' = FALSE
  /\ dirSince' = 0
  /\ entries' = NoEntries
  /\ inflight' = {}
  /\ UNCHANGED serviceVars

-------------------------------------------------------------------------------
(* The services.                                                            *)

(* A new key pair, and a registration loop that starts at once.             *)
StartService(a) ==
  /\ ~running[a]
  /\ key[a] < MaxKeys
  /\ running' = [running EXCEPT ![a] = TRUE]
  /\ key' = [key EXCEPT ![a] = @ + 1]
  /\ timer' = [timer EXCEPT ![a] = 0]
  /\ since' = [since EXCEPT ![a] = 0]
  /\ UNCHANGED <<entries, listening, dirSince, inflight>>

(* Nothing is unregistered, and what was sent is still handled.             *)
StopService(a) ==
  /\ running[a]
  /\ running' = [running EXCEPT ![a] = FALSE]
  /\ timer' = [timer EXCEPT ![a] = 0]
  /\ since' = [since EXCEPT ![a] = 0]
  /\ UNCHANGED <<entries, listening, dirSince, inflight, key>>

Due(a) == running[a] /\ timer[a] = 0

(* One turn of the loop: register_service returns, or it raises.            *)
RegisterService(a) ==
  /\ Due(a)
  /\ listening
  /\ inflight' = inflight \cup {[addr |-> a, public_key |-> key[a], wait |-> 0]}
  /\ timer' = [timer EXCEPT ![a] = Interval]
  /\ UNCHANGED <<entries, listening, dirSince, running, key, since>>

RegistryUnreachable(a) ==
  /\ Due(a)
  /\ ~listening
  /\ \E t \in 0 .. Timeout : timer' = [timer EXCEPT ![a] = Retry + t]
  /\ UNCHANGED <<entries, listening, dirSince, inflight, running, key, since>>

-------------------------------------------------------------------------------
(* Time.  A loop whose sleep is over runs before the next tick, and no      *)
(* registration waits longer than Delay.                                    *)
Tick ==
  /\ \A a \in Address : ~Due(a)
  /\ \A p \in inflight : p.wait < Delay
  /\ entries' = [a \in DOMAIN entries |->
                   [entries[a] EXCEPT !.age = Later(@, TTL + 1)]]
  /\ inflight' = {[p EXCEPT !.wait = @ + 1] : p \in inflight}
  /\ timer' = [a \in Address |-> IF running[a] THEN timer[a] - 1 ELSE timer[a]]
  /\ since' = [a \in Address |-> Later(since[a], Horizon)]
  /\ dirSince' = Later(dirSince, Horizon)
  /\ UNCHANGED <<listening, running, key>>

Next ==
  \/ \E p \in inflight : HandleRegister(p)
  \/ ListActive \/ StartDirectory \/ StopDirectory
  \/ \E a \in Address : \/ StartService(a) \/ StopService(a)
                        \/ RegisterService(a) \/ RegistryUnreachable(a)
  \/ Tick

Spec == Init /\ [][Next]_vars

-------------------------------------------------------------------------------
(* The directory never holds two exits of one host, in whatever order the   *)
(* registrations of successive and of simultaneous exits are handled: a     *)
(* client that takes an exit from the listing takes the last one heard of.  *)
OneExitPerHost ==
  \A a, b \in DOMAIN entries :
    a.type = "exit" /\ b.type = "exit" /\ a.host = b.host => a = b

RunsFor(a, t) == running[a] /\ since[a] > t
SilentFor(a, t) == ~running[a] /\ since[a] > t
UpFor(t) == listening /\ dirSince > t

Rivals(a) == {b \in Address \ {a} : a.type = "exit" /\ b.type = "exit" /\ a.host = b.host}

(* "Nodes re-register periodically to stay alive and to self-heal across    *)
(* directory restarts": once a node and the directory have both run for     *)
(* HealTime, the node is registered with the key it has now and will not    *)
(* expire, whatever restarts, failed attempts and late registrations came   *)
(* before.  For an exit, as long as no other exit of its host is active.    *)
SelfHeals ==
  \A a \in Address :
    RunsFor(a, HealTime) /\ UpFor(HealTime) /\ (\A b \in Rivals(a) : SilentFor(b, HealTime))
      => a \in DOMAIN entries /\ entries[a].public_key = key[a] /\ ~Expired(a)

(* Exits of one host that run at the same time keep removing each other,    *)
(* but one of them, or one that ran until shortly before, is registered.    *)
HostKeepsAnExit ==
  \A a \in Address :
    a.type = "exit" /\ RunsFor(a, HealTime) /\ UpFor(HealTime) =>
      \E b \in DOMAIN entries : /\ b = a \/ b \in Rivals(a)
                                /\ ~Expired(b)
                                /\ ~SilentFor(b, HealTime)

(* Whoever asks for the listing is told of no service that ended longer     *)
(* than TTL + Delay ago, also if its last registration was handled after    *)
(* its end.                                                                 *)
DeadForgotten == \A a \in Listed : ~SilentFor(a, TTL + Delay)
================================================================================
