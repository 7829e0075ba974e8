---------------------------- MODULE DirectoryProofs ----------------------------
(***************************************************************************)
(* Proofs about Directory, for every set of services and every choice of   *)
(* the timing constants.                                                   *)
(***************************************************************************)
EXTENDS Directory, FiniteSetTheorems, TLAPS

(* TypeOK is inductive once it is known that a directory that does not run  *)
(* has no connections to handle, and that an ended service does not sleep.  *)
Idle ==
  /\ ~listening => entries = NoEntries /\ inflight = {}
  /\ \A a \in Address : ~running[a] => timer[a] = 0
  /\ \A a \in Address : running[a] => key[a] \in Key

TypeInv == TypeOK /\ Idle

LEMMA Times ==
  /\ LongestSleep \in Nat /\ Horizon \in Nat
  /\ Interval \in 0 .. LongestSleep
  /\ \A t \in 0 .. Timeout : Retry + t \in 0 .. LongestSleep
  /\ \A cap \in Nat : \A t \in 0 .. cap : Later(t, cap) \in 0 .. cap
<1>1. /\ Interval \in Nat /\ Retry \in Nat /\ Timeout \in Nat /\ TTL \in Nat
      /\ Delay \in Nat
  BY DirectoryAssumption
<1> QED
  BY <1>1 DEF LongestSleep, Horizon, HealTime, Larger, Later

LEMMA NoneRegistered == DOMAIN NoEntries = {}
BY DEF NoEntries

LEMMA TypeInit == Init => TypeInv
<1> SUFFICES ASSUME Init PROVE TypeInv
  OBVIOUS
<1>1. DOMAIN entries = {} /\ 0 \in 0 .. MaxKeys
  BY NoneRegistered, DirectoryAssumption DEF Init
<1>2. 0 \in 0 .. LongestSleep /\ Horizon \in 0 .. Horizon
  BY Times
<1>3. TypeOK
  BY <1>1, <1>2 DEF Init, TypeOK
<1>4. Idle
  BY DEF Init, Idle
<1> QED
  BY <1>3, <1>4 DEF TypeInv

(* What registering and pruning leave of the table.                         *)
LEMMA TypeHandle ==
  ASSUME TypeInv, NEW p \in inflight, HandleRegister(p)
  PROVE  TypeInv'
<1> USE DEF HandleRegister, serviceVars
<1>1. p \in Registration /\ EntryOf(p) \in Entry
  BY DirectoryAssumption DEF TypeInv, TypeOK, Registration, Entry, EntryOf
<1>2. DOMAIN entries' = (DOMAIN entries \ Evicted(p)) \cup {p.addr}
  OBVIOUS
<1>3. \A a \in DOMAIN entries' :
        entries'[a] = IF a = p.addr THEN EntryOf(p) ELSE entries[a]
  OBVIOUS
<1>4. /\ DOMAIN entries' \subseteq Address
      /\ \A a \in DOMAIN entries' : entries'[a] \in Entry
  BY <1>1, <1>2, <1>3 DEF TypeInv, TypeOK, Registration
<1>5. TypeOK'
  BY <1>4 DEF TypeInv, TypeOK
<1>6. Idle'
  BY DEF TypeInv, Idle
<1> QED
  BY <1>5, <1>6 DEF TypeInv

LEMMA TypeList ==
  ASSUME TypeInv, ListActive
  PROVE  TypeInv'
<1>1. /\ DOMAIN entries' \subseteq DOMAIN entries
      /\ \A a \in DOMAIN entries' : entries'[a] = entries[a]
  BY DEF ListActive, Listed
<1>2. TypeOK'
  BY <1>1 DEF ListActive, serviceVars, TypeInv, TypeOK
<1>3. Idle'
  BY DEF ListActive, Listed, serviceVars, TypeInv, Idle
<1> QED
  BY <1>2, <1>3 DEF TypeInv

LEMMA TypeDirectoryRestarts ==
  ASSUME TypeInv, StartDirectory \/ StopDirectory
  PROVE  TypeInv'
<1>1. CASE StartDirectory
  BY <1>1, Times DEF StartDirectory, serviceVars, TypeInv, TypeOK, Idle
<1>2. CASE StopDirectory
  <2>1. DOMAIN entries' = {} /\ 0 \in 0 .. Horizon
    BY <1>2, NoneRegistered, Times DEF StopDirectory
  <2>2. TypeOK'
    BY <1>2, <2>1 DEF StopDirectory, serviceVars, TypeInv, TypeOK
  <2>3. Idle'
    BY <1>2, NoneRegistered DEF StopDirectory, serviceVars, TypeInv, Idle, NoEntries
  <2> QED
    BY <2>2, <2>3 DEF TypeInv
<1> QED
  BY <1>1, <1>2

LEMMA TypeService ==
  ASSUME TypeInv, NEW a \in Address,
         \/ StartService(a) \/ StopService(a)
         \/ RegisterService(a) \/ RegistryUnreachable(a)
  PROVE  TypeInv'
<1> USE DEF TypeInv, TypeOK, Idle, Key
<1>1. CASE StartService(a)
  <2>1. key[a] + 1 \in Key
    BY <1>1, DirectoryAssumption DEF StartService
  <2>2. 0 \in 0 .. LongestSleep /\ 0 \in 0 .. Horizon
    BY Times
  <2>3. TypeOK'
    BY <1>1, <2>1, <2>2 DEF StartService
  <2>4. Idle'
    BY <1>1, <2>1 DEF StartService
  <2> QED
    BY <2>3, <2>4
<1>2. CASE StopService(a)
  BY <1>2, Times DEF StopService
<1>3. CASE RegisterService(a)
  <2>1. [addr |-> a, public_key |-> key[a], wait |-> 0] \in Registration
    BY <1>3, DirectoryAssumption DEF RegisterService, Due, Registration
  <2> QED
    BY <1>3, <2>1, Times DEF RegisterService, Due
<1>4. CASE RegistryUnreachable(a)
  BY SMTT(30), <1>4, Times DEF RegistryUnreachable, Due
<1> QED
  BY <1>1, <1>2, <1>3, <1>4

LEMMA TypeTick ==
  ASSUME TypeInv, Tick
  PROVE  TypeInv'
<1>1. TTL + 1 \in Nat
  BY DirectoryAssumption
<1>2. /\ DOMAIN entries' = DOMAIN entries
      /\ \A a \in DOMAIN entries : entries'[a] \in Entry
  <2> SUFFICES ASSUME NEW a \in DOMAIN entries
               PROVE  [entries[a] EXCEPT !.age = Later(@, TTL + 1)] \in Entry
    BY DEF Tick
  <2>1. entries[a] \in Entry
    BY DEF TypeInv, TypeOK
  <2>2. Later(entries[a].age, TTL + 1) \in 0 .. TTL + 1
    BY <1>1, <2>1, Times DEF Entry
  <2> QED
    BY <2>1, <2>2 DEF Entry
<1>3. inflight' \subseteq Registration
  <2> SUFFICES ASSUME NEW p \in inflight
               PROVE  [p EXCEPT !.wait = @ + 1] \in Registration
    BY DEF Tick
  <2>1. p \in Registration /\ p.wait < Delay
    BY DEF Tick, TypeInv, TypeOK
  <2> QED
    BY <2>1, DirectoryAssumption DEF Registration
<1>4. /\ timer' \in [Address -> 0 .. LongestSleep]
      /\ \A a \in Address : ~running[a] => timer'[a] = 0
  <2> SUFFICES ASSUME NEW a \in Address
               PROVE  /\ timer'[a] \in 0 .. LongestSleep
                      /\ ~running[a] => timer'[a] = 0
    BY DEF Tick
  <2>1. timer[a] \in 0 .. LongestSleep /\ LongestSleep \in Nat
    BY Times DEF TypeInv, TypeOK
  <2>2. CASE running[a]
    <3>1. timer'[a] = timer[a] - 1 /\ timer[a] # 0
      BY <2>2 DEF Tick, Due
    <3> QED
      BY <2>1, <2>2, <3>1
  <2>3. CASE ~running[a]
    BY <2>1, <2>3 DEF Tick, TypeInv, Idle
  <2> QED
    BY <2>2, <2>3
<1>5. since' \in [Address -> 0 .. Horizon] /\ dirSince' \in 0 .. Horizon
  BY Times DEF Tick, TypeInv, TypeOK
<1>6. TypeOK'
  BY <1>2, <1>3, <1>4, <1>5 DEF Tick, TypeInv, TypeOK
<1>7. ~listening => entries' = NoEntries /\ inflight' = {}
  BY DEF Tick, TypeInv, Idle, NoEntries
<1>8. Idle'
  BY <1>4, <1>7 DEF Tick, TypeInv, Idle
<1> QED
  BY <1>6, <1>8 DEF TypeInv

LEMMA TypeStep ==
  ASSUME TypeInv, [Next]_vars
  PROVE  TypeInv'
<1>1. CASE UNCHANGED vars
  BY <1>1 DEF vars, TypeInv, TypeOK, Idle
<1>2. CASE Next
  BY <1>2, TypeHandle, TypeList, TypeDirectoryRestarts, TypeService, TypeTick DEF Next
<1> QED
  BY <1>1, <1>2

LEMMA TypeInvariant == Spec => []TypeInv
<1>1. TypeInv /\ [Next]_vars => TypeInv'
  BY TypeStep
<1> QED
  BY <1>1, TypeInit, PTL DEF Spec

(* Every variable of the directory and of the services always has its type, *)
(* for any services and timing constants.                                   *)
THEOREM DirectoryTypeCorrect == Spec => []TypeOK
<1>1. TypeInv => TypeOK
  BY DEF TypeInv
<1> QED
  BY <1>1, TypeInvariant, PTL

-------------------------------------------------------------------------------
(* OneExitPerHost.                                                          *)

(* Two addresses of exits of one host differ in the port.                   *)
LEMMA SameExit ==
  ASSUME NEW a \in Address, NEW b \in Address,
         a.type = b.type, a.host = b.host, a.port = b.port
  PROVE  a = b
BY DirectoryAssumption

LEMMA OneExitStep ==
  ASSUME TypeInv, OneExitPerHost, [Next]_vars
  PROVE  OneExitPerHost'
<1>1. CASE \E p \in inflight : HandleRegister(p)
  <2> PICK p \in inflight : HandleRegister(p)
    BY <1>1
  <2>1. p.addr \in Address /\ DOMAIN entries \subseteq Address
    BY DEF TypeInv, TypeOK, Registration
  <2>2. DOMAIN entries' = (DOMAIN entries \ Evicted(p)) \cup {p.addr}
    BY DEF HandleRegister
  <2>3. ASSUME NEW a \in DOMAIN entries', a # p.addr, p.addr.type = "exit",
               a.type = "exit", a.host = p.addr.host
        PROVE  FALSE
    BY <2>1, <2>2, <2>3, SameExit DEF Evicted
  <2> QED
    BY <2>2, <2>3 DEF OneExitPerHost
<1>2. CASE ~\E p \in inflight : HandleRegister(p)
  <2>1. DOMAIN entries' \subseteq DOMAIN entries
    BY <1>2 DEF Next, vars, ListActive, Listed, StartDirectory, StopDirectory, NoEntries,
                StartService, StopService, RegisterService, RegistryUnreachable, Tick
  <2> QED
    BY <2>1 DEF OneExitPerHost
<1> QED
  BY <1>1, <1>2

(* However many exits of a host start, restart and register, and in         *)
(* whatever order the directory's threads handle what they sent, it never   *)
(* holds two of them.                                                       *)
THEOREM OneExitPerHostHolds == Spec => []OneExitPerHost
<1>1. Init => OneExitPerHost
  BY DEF Init, NoEntries, OneExitPerHost
<1>2. TypeInv /\ OneExitPerHost /\ [Next]_vars => OneExitPerHost'
  BY OneExitStep
<1> QED
  BY <1>1, <1>2, TypeInvariant, PTL DEF Spec

-------------------------------------------------------------------------------
(* Time and registrations: what the three timing properties rest on.        *)

(* A registration is no older than the end of the service that sent it, or  *)
(* than the restart that gave the service another key.                      *)
SentInLife ==
  \A p \in inflight :
    /\ p.public_key <= key[p.addr]
    /\ ~running[p.addr] => since[p.addr] <= p.wait
    /\ running[p.addr] /\ p.public_key # key[p.addr] => since[p.addr] <= p.wait

(* Nor is an entry, but for what passed until it was handled.               *)
HeardInLife ==
  \A a \in DOMAIN entries :
    /\ entries[a].public_key <= key[a]
    /\ ~running[a] /\ ~Expired(a) => since[a] <= entries[a].age + Delay

(* A service that runs sleeps for Interval once it has reached the          *)
(* directory that runs: only a failed attempt makes it sleep longer.        *)
Reached(a) ==
  \/ \E p \in inflight : p.addr = a /\ p.public_key = key[a]
  \/ a \in DOMAIN entries /\ entries[a].public_key = key[a]
OnSchedule == \A a \in Address : running[a] /\ Reached(a) => timer[a] <= Interval

LifeInv == SentInLife /\ HeardInLife /\ OnSchedule

(* Another registration of a is handled before the entry of b is older      *)
(* than Interval + Delay.                                                   *)
Refreshed(a, b) ==
  \/ \E p \in inflight : p.addr = a /\ entries[b].age <= Interval + p.wait
  \/ entries[b].age + timer[a] <= Interval

(* SelfHeals.  a has run, with the directory and without rivals, for more   *)
(* than t.                                                                  *)
Undisturbed(a, t) ==
  RunsFor(a, t) /\ UpFor(t) /\ \A b \in Rivals(a) : SilentFor(b, t)

(* Once what was sent before is handled, a is registered and will be again  *)
(* in time, or it has registered, or it is going to.                        *)
Healing(a) ==
  \/ /\ a \in DOMAIN entries /\ entries[a].public_key = key[a]
     /\ Refreshed(a, a)
  \/ \E p \in inflight : p.addr = a /\ ~Undisturbed(a, Delay + LongestSleep + p.wait)
  \/ ~Undisturbed(a, Delay + LongestSleep - timer[a])
HealInv == \A a \in Address : Undisturbed(a, Delay) => Healing(a)

(* HostKeepsAnExit.  The exit a keeps an entry of its host fresh, its own   *)
(* or a rival's, or it has registered, or it is going to.                   *)
Alive(a, t) == RunsFor(a, t) /\ UpFor(t)
SameHost(a) == Rivals(a) \cup {a}
Kept(a) ==
  \/ /\ timer[a] <= Interval
     /\ \E b \in SameHost(a) \cap DOMAIN entries : Refreshed(a, b)
  \/ \E p \in inflight : /\ p.addr = a /\ p.public_key = key[a]
                         /\ ~Alive(a, LongestSleep + p.wait)
  \/ ~Alive(a, LongestSleep - timer[a])
KeepInv ==
  \A a \in Address : a.type = "exit" /\ running[a] /\ listening => Kept(a)

-------------------------------------------------------------------------------
LEMMA Numbers ==
  /\ Interval \in Nat /\ TTL \in Nat /\ Delay \in Nat
  /\ LongestSleep \in Nat /\ Interval <= LongestSleep
  /\ HealTime \in Nat /\ HealTime = LongestSleep + Delay + Delay
  /\ Horizon \in Nat /\ HealTime < Horizon /\ TTL + Delay < Horizon
BY DirectoryAssumption DEF LongestSleep, Horizon, HealTime, Larger

LEMMA Typed ==
  ASSUME TypeInv
  PROVE  /\ \A a \in Address : /\ since[a] \in Nat /\ since[a] <= Horizon
                               /\ timer[a] \in Nat /\ timer[a] <= LongestSleep
                               /\ key[a] \in Nat
         /\ \A p \in inflight : /\ p.addr \in Address /\ p.public_key \in Nat
                                /\ p.wait \in Nat /\ p.wait <= Delay
         /\ \A a \in DOMAIN entries :
              /\ a \in Address /\ entries[a].public_key \in Nat
              /\ entries[a].age \in Nat /\ entries[a].age <= TTL + 1
         /\ dirSince \in Nat
<1>1. /\ LongestSleep \in Nat /\ Horizon \in Nat /\ Delay \in Nat /\ TTL \in Nat
      /\ MaxKeys \in Nat
  BY Numbers, DirectoryAssumption
<1>2. \A p \in inflight : p \in Registration
  BY DEF TypeInv, TypeOK
<1>3. \A a \in DOMAIN entries : a \in Address /\ entries[a] \in Entry
  BY DEF TypeInv, TypeOK
<1>4. \A p \in inflight : /\ p.addr \in Address /\ p.public_key \in Nat
                          /\ p.wait \in Nat /\ p.wait <= Delay
  BY <1>1, <1>2 DEF Registration, Key
<1>5. \A a \in DOMAIN entries :
        /\ a \in Address /\ entries[a].public_key \in Nat
        /\ entries[a].age \in Nat /\ entries[a].age <= TTL + 1
  BY <1>1, <1>3 DEF Entry, Key
<1>6. /\ \A a \in Address : /\ since[a] \in Nat /\ since[a] <= Horizon
                            /\ timer[a] \in Nat /\ timer[a] <= LongestSleep
                            /\ key[a] \in Nat
      /\ dirSince \in Nat
  BY <1>1 DEF TypeInv, TypeOK
<1> QED
  BY <1>4, <1>5, <1>6

(* What a tick does, in the terms of the invariants.                        *)
LEMMA Ticks ==
  ASSUME TypeInv, Tick
  PROVE  /\ \A a \in Address :
              /\ since'[a] \in Nat /\ since[a] <= since'[a] /\ since'[a] <= since[a] + 1
              /\ timer'[a] <= timer[a]
              /\ running[a] => timer'[a] = timer[a] - 1 /\ timer[a] # 0
         /\ dirSince' \in Nat /\ dirSince' <= dirSince + 1
         /\ DOMAIN entries' = DOMAIN entries
         /\ \A a \in DOMAIN entries :
              /\ entries'[a].public_key = entries[a].public_key
              /\ entries'[a].age = Later(entries[a].age, TTL + 1)
              /\ entries'[a].age <= entries[a].age + 1
         /\ \A p \in inflight' : \E q \in inflight :
              p.addr = q.addr /\ p.public_key = q.public_key /\ p.wait = q.wait + 1
         /\ \A q \in inflight : \E p \in inflight' :
              p.addr = q.addr /\ p.public_key = q.public_key /\ p.wait = q.wait + 1
<1>1. /\ Horizon \in Nat /\ TTL + 1 \in Nat
  BY Numbers
<1>2. \A a \in Address :
        /\ since'[a] \in Nat /\ since[a] <= since'[a] /\ since'[a] <= since[a] + 1
  BY <1>1, Typed DEF Tick, Later
<1>3. \A a \in Address :
        /\ timer'[a] <= timer[a]
        /\ running[a] => timer'[a] = timer[a] - 1 /\ timer[a] # 0
  BY Typed DEF Tick, Due
<1>4. dirSince' \in Nat /\ dirSince' <= dirSince + 1
  BY <1>1, Typed DEF Tick, Later
<1>5. /\ DOMAIN entries' = DOMAIN entries
      /\ \A a \in DOMAIN entries :
           entries'[a] = [entries[a] EXCEPT !.age = Later(@, TTL + 1)]
  BY DEF Tick
<1>6. \A a \in DOMAIN entries : entries[a] \in Entry
  BY DEF TypeInv, TypeOK
<1>7. \A a \in DOMAIN entries :
        /\ entries'[a].public_key = entries[a].public_key
        /\ entries'[a].age = Later(entries[a].age, TTL + 1)
  BY <1>5, <1>6 DEF Entry
<1>8. \A a \in DOMAIN entries : entries'[a].age <= entries[a].age + 1
  BY <1>1, <1>7, Typed DEF Later
<1>9. \A q \in inflight : q \in Registration
  BY DEF TypeInv, TypeOK
<1>10. inflight' = {[p EXCEPT !.wait = @ + 1] : p \in inflight}
  BY DEF Tick
<1>11. \A q \in inflight : LET p == [q EXCEPT !.wait = @ + 1] IN
         p.addr = q.addr /\ p.public_key = q.public_key /\ p.wait = q.wait + 1
  BY <1>9 DEF Registration
<1>12. \A p \in inflight' : \E q \in inflight :
         p.addr = q.addr /\ p.public_key = q.public_key /\ p.wait = q.wait + 1
  BY <1>10, <1>11
<1>13. \A q \in inflight : \E p \in inflight' :
         p.addr = q.addr /\ p.public_key = q.public_key /\ p.wait = q.wait + 1
  BY <1>10, <1>11
<1> QED
  BY <1>2, <1>3, <1>4, <1>5, <1>7, <1>8, <1>12, <1>13

(* What handling a registration leaves, and what it adds.                   *)
LEMMA Handled ==
  ASSUME NEW p \in inflight, HandleRegister(p)
  PROVE  /\ inflight' = inflight \ {p}
         /\ DOMAIN entries' = (DOMAIN entries \ Evicted(p)) \cup {p.addr}
         /\ entries'[p.addr].public_key = p.public_key
         /\ entries'[p.addr].age = 0
         /\ \A a \in DOMAIN entries' : a # p.addr => entries'[a] = entries[a]
         /\ listening /\ listening' = listening /\ dirSince' = dirSince
         /\ running' = running /\ key' = key /\ timer' = timer /\ since' = since
BY DEF HandleRegister, serviceVars, EntryOf

LEMMA Emptied ==
  ASSUME TypeInv
  PROVE  /\ StopDirectory => inflight' = {} /\ DOMAIN entries' = {}
         /\ ~listening => inflight = {} /\ DOMAIN entries = {}
BY NoneRegistered DEF StopDirectory, TypeInv, Idle

LEMMA SentStep ==
  ASSUME TypeInv, SentInLife, Next
  PROVE  SentInLife'
<1> USE Typed
<1>1. ASSUME NEW p \in inflight, HandleRegister(p)
      PROVE  SentInLife'
  <2>1. inflight' \subseteq inflight /\ running' = running /\ key' = key /\ since' = since
    BY <1>1, Handled
  <2> QED
    BY <2>1 DEF SentInLife
<1>2. CASE ListActive \/ StartDirectory
  BY <1>2 DEF ListActive, StartDirectory, serviceVars, SentInLife
<1>3. CASE StopDirectory
  BY <1>3 DEF StopDirectory, SentInLife
<1>4. ASSUME NEW a \in Address, StartService(a) \/ StopService(a)
      PROVE  SentInLife'
  <2> SUFFICES ASSUME NEW p \in inflight
               PROVE  /\ p.public_key <= key'[p.addr]
                      /\ ~running'[p.addr] => since'[p.addr] <= p.wait
                      /\ running'[p.addr] /\ p.public_key # key'[p.addr]
                           => since'[p.addr] <= p.wait
    BY <1>4 DEF StartService, StopService, SentInLife
  <2>1. p.addr \in Address /\ p.wait \in Nat /\ p.public_key \in Nat
    OBVIOUS
  <2>2. CASE p.addr = a
    BY <1>4, <2>1, <2>2 DEF StartService, StopService, SentInLife, TypeInv, TypeOK
  <2>3. CASE p.addr # a
    BY <1>4, <2>1, <2>3 DEF StartService, StopService, SentInLife, TypeInv, TypeOK
  <2> QED
    BY <2>2, <2>3
<1>5. ASSUME NEW a \in Address, RegisterService(a) \/ RegistryUnreachable(a)
      PROVE  SentInLife'
  BY <1>5 DEF RegisterService, RegistryUnreachable, Due, SentInLife
<1>6. CASE Tick
  <2> SUFFICES ASSUME NEW p \in inflight'
               PROVE  /\ p.public_key <= key'[p.addr]
                      /\ ~running'[p.addr] => since'[p.addr] <= p.wait
                      /\ running'[p.addr] /\ p.public_key # key'[p.addr]
                           => since'[p.addr] <= p.wait
    BY DEF SentInLife
  <2>1. PICK q \in inflight :
          p.addr = q.addr /\ p.public_key = q.public_key /\ p.wait = q.wait + 1
    BY <1>6, Ticks
  <2>2. running' = running /\ key' = key
    BY <1>6 DEF Tick
  <2>3. since'[q.addr] \in Nat /\ since'[q.addr] <= since[q.addr] + 1
    BY <1>6, Ticks
  <2> QED
    BY <2>1, <2>2, <2>3 DEF SentInLife
<1> QED
  BY <1>1, <1>2, <1>3, <1>4, <1>5, <1>6 DEF Next

LEMMA HeardStep ==
  ASSUME TypeInv, SentInLife, HeardInLife, Next
  PROVE  HeardInLife'
<1> USE Typed
<1> DEFINE Heard(a, es, k, run, s) ==
      /\ es[a].public_key <= k[a]
      /\ ~run[a] /\ ~(es[a].age > TTL) => s[a] <= es[a].age + Delay
<1>1. /\ HeardInLife = \A a \in DOMAIN entries : Heard(a, entries, key, running, since)
      /\ HeardInLife' = \A a \in DOMAIN entries' : Heard(a, entries', key', running', since')
  BY DEF HeardInLife, Expired
<1>2. Delay \in Nat /\ TTL \in Nat
  BY Numbers
<1>3. ASSUME NEW p \in inflight, HandleRegister(p)
      PROVE  HeardInLife'
  <2>1. SUFFICES ASSUME NEW a \in DOMAIN entries'
                 PROVE  Heard(a, entries', key, running, since)
    BY <1>1, <1>3, Handled
  <2>2. CASE a = p.addr
    <3>1. entries'[a].public_key = p.public_key /\ entries'[a].age = 0
      BY <1>3, <2>2, Handled
    <3>2. p.addr \in Address /\ p.wait \in Nat /\ p.wait <= Delay /\ since[p.addr] \in Nat
      OBVIOUS
    <3> QED
      BY <1>2, <2>2, <3>1, <3>2 DEF SentInLife
  <2>3. CASE a # p.addr
    <3>1. a \in DOMAIN entries /\ entries'[a] = entries[a]
      BY <1>3, <2>1, <2>3, Handled
    <3> QED
      BY <1>1, <3>1
  <2> QED
    BY <2>2, <2>3
<1>4. CASE ListActive
  <2>1. /\ \A a \in DOMAIN entries' : a \in DOMAIN entries /\ entries'[a] = entries[a]
        /\ key' = key /\ running' = running /\ since' = since
    BY <1>4 DEF ListActive, Listed, serviceVars
  <2> QED
    BY <1>1, <2>1
<1>5. CASE StartDirectory
  BY <1>5 DEF StartDirectory, serviceVars, HeardInLife, Expired
<1>6. CASE StopDirectory
  BY <1>1, <1>6, Emptied
<1>7. ASSUME NEW c \in Address, StartService(c) \/ StopService(c)
      PROVE  HeardInLife'
  <2>1. SUFFICES ASSUME NEW a \in DOMAIN entries
                 PROVE  Heard(a, entries, key', running', since')
    BY <1>1, <1>7 DEF StartService, StopService
  <2>2. /\ a \in Address /\ entries[a].public_key \in Nat /\ entries[a].age \in Nat
        /\ Heard(a, entries, key, running, since)
    BY <1>1
  <2>3. CASE a = c
    BY <1>2, <1>7, <2>2, <2>3 DEF StartService, StopService, TypeInv, TypeOK
  <2>4. CASE a # c
    BY <1>7, <2>2, <2>4 DEF StartService, StopService, TypeInv, TypeOK
  <2> QED
    BY <2>3, <2>4
<1>8. ASSUME NEW a \in Address, RegisterService(a) \/ RegistryUnreachable(a)
      PROVE  HeardInLife'
  BY <1>8 DEF RegisterService, RegistryUnreachable, HeardInLife, Expired
<1>9. CASE Tick
  <2>1. SUFFICES ASSUME NEW a \in DOMAIN entries
                 PROVE  Heard(a, entries', key, running, since')
    BY <1>1, <1>9, Ticks DEF Tick
  <2>2. /\ a \in Address /\ entries[a].age \in Nat /\ since[a] \in Nat
        /\ entries[a].age <= TTL + 1
        /\ Heard(a, entries, key, running, since)
    BY <1>1
  <2>3. /\ entries'[a].public_key = entries[a].public_key
        /\ entries'[a].age = Later(entries[a].age, TTL + 1)
        /\ since'[a] \in Nat /\ since'[a] <= since[a] + 1
    BY <1>9, <2>2, Ticks
  <2> QED
    BY <1>2, <2>2, <2>3 DEF Later
<1> QED
  BY <1>3, <1>4, <1>5, <1>6, <1>7, <1>8, <1>9 DEF Next

LEMMA ScheduleStep ==
  ASSUME TypeInv, LifeInv, Next
  PROVE  OnSchedule'
<1> USE Typed, Numbers
<1>1. ASSUME NEW a \in Address, Reached(a)', running[a], running'[a] PROVE
        \/ Reached(a)
        \/ timer'[a] <= Interval
  <2>1. ASSUME NEW p \in inflight, HandleRegister(p)
        PROVE  Reached(a)
    <3>1. CASE \E q \in inflight' : q.addr = a /\ q.public_key = key'[a]
      BY <2>1, <3>1, Handled DEF Reached
    <3>2. CASE a \in DOMAIN entries' /\ entries'[a].public_key = key'[a]
      BY ZenonT(30), <2>1, <3>2, Handled DEF Reached
    <3> QED
      BY <1>1, <3>1, <3>2 DEF Reached
  <2>2. CASE ListActive
    BY <1>1, <2>2 DEF ListActive, Listed, serviceVars, Reached
  <2>3. CASE StartDirectory
    BY <1>1, <2>3 DEF StartDirectory, serviceVars, Reached
  <2>4. CASE StopDirectory
    BY <1>1, <2>4, Emptied DEF Reached
  <2>5. ASSUME NEW c \in Address, StartService(c) \/ StopService(c)
        PROVE  Reached(a)
    <3>1. a # c
      BY <1>1, <2>5 DEF StartService, StopService, TypeInv, TypeOK
    <3>2. key'[a] = key[a] /\ inflight' = inflight /\ entries' = entries
      BY <2>5, <3>1 DEF StartService, StopService, TypeInv, TypeOK
    <3> QED
      BY <1>1, <3>2 DEF Reached
  <2>6. ASSUME NEW c \in Address, RegisterService(c)
        PROVE  Reached(a) \/ timer'[a] <= Interval
    <3>1. CASE a = c
      BY <2>6, <3>1 DEF RegisterService, TypeInv, TypeOK
    <3>2. CASE a # c
      BY <1>1, <2>6, <3>2 DEF RegisterService, Reached
    <3> QED
      BY <3>1, <3>2
  <2>7. ASSUME NEW c \in Address, RegistryUnreachable(c)
        PROVE  Reached(a)
    BY <1>1, <2>7 DEF RegistryUnreachable, Reached
  <2>8. CASE Tick
    <3>1. CASE \E q \in inflight' : q.addr = a /\ q.public_key = key'[a]
      BY <2>8, <3>1, Ticks DEF Tick, Reached
    <3>2. CASE a \in DOMAIN entries' /\ entries'[a].public_key = key'[a]
      BY <2>8, <3>2, Ticks DEF Tick, Reached
    <3> QED
      BY <1>1, <3>1, <3>2 DEF Reached
  <2> QED
    BY <2>1, <2>2, <2>3, <2>4, <2>5, <2>6, <2>7, <2>8 DEF Next
<1>2. ASSUME NEW a \in Address, Reached(a), running[a], running'[a]
      PROVE  timer'[a] <= timer[a] \/ timer'[a] <= Interval
  <2>1. listening
    BY <1>2, Emptied DEF Reached
  <2>2. ASSUME NEW p \in inflight, HandleRegister(p)
        PROVE  timer' = timer
    BY <2>2, Handled
  <2>3. CASE ListActive \/ StartDirectory \/ StopDirectory
    BY <2>3 DEF ListActive, StartDirectory, StopDirectory, serviceVars
  <2>4. ASSUME NEW c \in Address, StartService(c) \/ StopService(c) \/ RegisterService(c)
        PROVE  timer'[a] <= timer[a] \/ timer'[a] <= Interval
    BY <2>4 DEF StartService, StopService, RegisterService, TypeInv, TypeOK
  <2>5. ASSUME NEW c \in Address, RegistryUnreachable(c)
        PROVE  FALSE
    BY <2>1, <2>5 DEF RegistryUnreachable
  <2>6. CASE Tick
    BY <2>6, Ticks
  <2> QED
    BY <2>2, <2>3, <2>4, <2>5, <2>6 DEF Next
<1>3. ASSUME NEW a \in Address, ~running[a], running'[a]
      PROVE  timer'[a] <= Interval
  <2>1. PICK c \in Address : StartService(c) \/ StopService(c)
    BY <1>3 DEF Next, HandleRegister, ListActive, StartDirectory, StopDirectory, serviceVars,
                RegisterService, RegistryUnreachable, Tick
  <2>2. a = c /\ timer'[a] = 0
    BY <1>3, <2>1 DEF StartService, StopService, TypeInv, TypeOK
  <2> QED
    BY <2>2
<1> SUFFICES ASSUME NEW a \in Address, running'[a], Reached(a)'
             PROVE  timer'[a] <= Interval
  BY DEF OnSchedule
<1>4. CASE running[a] /\ Reached(a)
  <2>1. timer[a] \in Nat /\ timer[a] <= Interval
    BY <1>4 DEF LifeInv, OnSchedule
  <2>2. CASE timer'[a] <= timer[a]
    <3>1. timer'[a] \in Nat
      BY TypeStep DEF TypeInv, TypeOK
    <3> QED
      BY <2>1, <2>2, <3>1
  <2> QED
    BY <1>2, <1>4, <2>2
<1> QED
  BY <1>1, <1>3, <1>4

LEMMA LifeInvariant == Spec => []LifeInv
<1>1. Init => LifeInv
  <2> SUFFICES ASSUME Init PROVE LifeInv
    OBVIOUS
  <2>1. inflight = {} /\ DOMAIN entries = {} /\ \A a \in Address : ~running[a]
    BY NoneRegistered DEF Init
  <2> QED
    BY <2>1 DEF LifeInv, SentInLife, HeardInLife, OnSchedule
<1>2. TypeInv /\ LifeInv /\ [Next]_vars => LifeInv'
  <2> SUFFICES ASSUME TypeInv, LifeInv, [Next]_vars PROVE LifeInv'
    OBVIOUS
  <2>1. CASE Next
    BY <2>1, SentStep, HeardStep, ScheduleStep DEF LifeInv
  <2>2. CASE UNCHANGED vars
    BY <2>2 DEF vars, LifeInv, SentInLife, HeardInLife, OnSchedule, Reached, Expired
  <2> QED
    BY <2>1, <2>2
<1> QED
  BY <1>1, <1>2, TypeInvariant, PTL DEF Spec

(* Nobody who asks for the listing is told of a service that ended longer   *)
(* than TTL + Delay ago, whatever the timing constants are and however late *)
(* its last registration was handled.                                       *)
THEOREM DeadForgottenHolds == Spec => []DeadForgotten
<1>1. TypeInv /\ LifeInv => DeadForgotten
  <2> SUFFICES ASSUME TypeInv, LifeInv, NEW a \in Listed, SilentFor(a, TTL + Delay)
               PROVE  FALSE
    BY DEF DeadForgotten
  <2>1. a \in DOMAIN entries /\ entries[a].age <= TTL
    BY Numbers, Typed DEF Listed, Expired
  <2>2. a \in Address /\ entries[a].age \in Nat /\ since[a] \in Nat
    BY <2>1, Typed
  <2>3. since[a] <= entries[a].age + Delay
    BY <2>1 DEF SilentFor, LifeInv, HeardInLife, Expired, Listed
  <2> QED
    BY <2>1, <2>2, <2>3, Numbers DEF SilentFor
<1> QED
  BY <1>1, TypeInvariant, LifeInvariant, PTL

-------------------------------------------------------------------------------
(* How long a service and the directory have run.                           *)

LEMMA LongerIsLater ==
  ASSUME TypeInv, NEW a \in Address, NEW t \in Nat, NEW s \in Nat, s <= t
  PROVE  /\ Undisturbed(a, t) => Undisturbed(a, s)
         /\ Alive(a, t) => Alive(a, s)
<1>1. /\ RunsFor(a, t) => RunsFor(a, s)
      /\ UpFor(t) => UpFor(s)
  BY Typed DEF RunsFor, UpFor
<1>2. \A b \in Rivals(a) : SilentFor(b, t) => SilentFor(b, s)
  BY Typed DEF SilentFor, Rivals
<1> QED
  BY <1>1, <1>2 DEF Undisturbed, Alive

(* Only a tick makes it longer.                                             *)
LEMMA OnlyTime ==
  ASSUME TypeInv, Next, ~Tick, NEW a \in Address, NEW t \in Nat
  PROVE  /\ Undisturbed(a, t)' => Undisturbed(a, t)
         /\ Alive(a, t)' => Alive(a, t)
<1>1. UpFor(t)' => UpFor(t)
  <2>1. CASE StartDirectory \/ StopDirectory
    BY <2>1 DEF StartDirectory, StopDirectory, UpFor
  <2>2. CASE ~(StartDirectory \/ StopDirectory)
    <3>1. listening' = listening /\ dirSince' = dirSince
      BY <2>2 DEF Next, HandleRegister, ListActive, StartService, StopService,
                  RegisterService, RegistryUnreachable
    <3> QED
      BY <3>1 DEF UpFor
  <2> QED
    BY <2>1, <2>2
<1>2. ASSUME NEW b \in Address
      PROVE  /\ RunsFor(b, t)' => RunsFor(b, t)
             /\ SilentFor(b, t)' => SilentFor(b, t)
  <2>1. CASE \E c \in Address : StartService(c) \/ StopService(c)
    BY <2>1 DEF StartService, StopService, RunsFor, SilentFor, TypeInv, TypeOK
  <2>2. CASE ~\E c \in Address : StartService(c) \/ StopService(c)
    <3>1. running' = running /\ since' = since
      BY <2>2 DEF Next, HandleRegister, ListActive, StartDirectory, StopDirectory, serviceVars,
                  RegisterService, RegistryUnreachable
    <3> QED
      BY <3>1 DEF RunsFor, SilentFor
  <2> QED
    BY <2>1, <2>2
<1>3. \A b \in Rivals(a) : b \in Address
  BY DEF Rivals
<1> QED
  BY <1>1, <1>2, <1>3 DEF Undisturbed, Alive, Rivals

LEMMA OneTickLonger ==
  ASSUME TypeInv, Tick, NEW a \in Address, NEW t \in Nat
  PROVE  /\ Undisturbed(a, t + 1)' => Undisturbed(a, t)
         /\ Alive(a, t + 1)' => Alive(a, t)
<1>1. running' = running /\ listening' = listening
  BY DEF Tick
<1>2. \A b \in Address : since'[b] > t + 1 => since[b] > t
  BY Ticks, Typed
<1>3. dirSince' > t + 1 => dirSince > t
  BY Ticks, Typed
<1>4. \A b \in Rivals(a) : b \in Address
  BY DEF Rivals
<1> QED
  BY <1>1, <1>2, <1>3, <1>4 DEF Undisturbed, Alive, RunsFor, SilentFor, UpFor, Rivals

-------------------------------------------------------------------------------
(* SelfHeals and HostKeepsAnExit, when an entry lives for longer than it    *)
(* takes until it is renewed (REGISTRY_TTL_SECONDS is 45, the interval 5).  *)
InTime == Interval + Delay <= TTL

LEMMA RefreshedListed ==
  ASSUME InTime, TypeInv, NEW a \in Address, NEW b \in DOMAIN entries, Refreshed(a, b)
  PROVE  entries[b].age <= Interval + Delay /\ b \in Listed
<1>1. entries[b].age \in Nat /\ timer[a] \in Nat
  BY Typed
<1>2. entries[b].age <= Interval + Delay
  <2>1. CASE \E p \in inflight : p.addr = a /\ entries[b].age <= Interval + p.wait
    BY <1>1, <2>1, Typed, Numbers
  <2>2. CASE entries[b].age + timer[a] <= Interval
    BY <1>1, <2>2, Numbers
  <2> QED
    BY <2>1, <2>2 DEF Refreshed
<1> QED
  BY <1>1, <1>2, Numbers DEF InTime, Listed, Expired

(* What a tick leaves of it, and what another turn of the loop adds.        *)
LEMMA RefreshedTick ==
  ASSUME TypeInv, Tick, NEW a \in Address, running[a], NEW b \in DOMAIN entries,
         Refreshed(a, b)
  PROVE  Refreshed(a, b)'
<1>1. entries[b].age \in Nat /\ entries'[b].age \in Nat
  BY Typed, Ticks, Numbers DEF Later
<1>2. entries'[b].age <= entries[b].age + 1
  BY Ticks
<1>3. CASE \E p \in inflight : p.addr = a /\ entries[b].age <= Interval + p.wait
  <2>1. PICK p \in inflight : p.addr = a /\ entries[b].age <= Interval + p.wait
    BY <1>3
  <2>2. PICK q \in inflight' : q.addr = a /\ q.wait = p.wait + 1
    BY <2>1, Ticks
  <2>3. entries'[b].age <= Interval + q.wait
    BY <1>1, <1>2, <2>1, <2>2, Typed, Numbers
  <2> QED
    BY <2>2, <2>3 DEF Refreshed
<1>4. CASE entries[b].age + timer[a] <= Interval
  <2>1. timer'[a] = timer[a] - 1 /\ timer[a] \in Nat
    BY Ticks, Typed
  <2>2. entries'[b].age + timer'[a] <= Interval
    BY <1>1, <1>2, <1>4, <2>1, Numbers
  <2> QED
    BY <2>2 DEF Refreshed
<1> QED
  BY <1>3, <1>4 DEF Refreshed

LEMMA RefreshedAgain ==
  ASSUME TypeInv, NEW a \in Address, NEW b \in DOMAIN entries, Refreshed(a, b),
         RegisterService(a)
  PROVE  Refreshed(a, b)'
<1> DEFINE r == [addr |-> a, public_key |-> key[a], wait |-> 0]
<1>1. entries' = entries /\ inflight' = inflight \cup {r} /\ timer[a] = 0
  BY DEF RegisterService, Due
<1>2. r.addr = a /\ r.wait = 0
  OBVIOUS
<1> HIDE DEF r
<1>3. entries[b].age \in Nat
  BY Typed
<1> QED
  BY <1>1, <1>2, <1>3, Numbers DEF Refreshed

LEMMA HealTick ==
  ASSUME TypeInv, TypeInv', HealInv, Tick, NEW a \in Address, Undisturbed(a, Delay)'
  PROVE  Healing(a)'
<1>1. running[a] /\ running' = running /\ key' = key /\ DOMAIN entries' = DOMAIN entries
  BY Ticks DEF Tick, Undisturbed, RunsFor
<1>2. timer'[a] = timer[a] - 1 /\ timer[a] \in Nat /\ timer'[a] \in Nat /\ timer[a] <= LongestSleep
  <2>1. timer'[a] \in Nat
    BY Typed DEF TypeInv, TypeOK
  <2> QED
    BY <1>1, <2>1, Ticks, Typed
<1>3. PICK t \in Nat : t + timer[a] = Delay + LongestSleep
  <2>1. Delay + LongestSleep - timer[a] \in Nat
    BY <1>2, Numbers
  <2> QED
    BY <1>2, <2>1, Numbers
<1>4. t = Delay + LongestSleep - timer[a] /\ t + 1 = Delay + LongestSleep - timer'[a]
  BY <1>2, <1>3, Numbers
<1>5. Delay <= t /\ Delay \in Nat
  BY <1>2, <1>3, Numbers
<1>6. CASE ~Undisturbed(a, t)
  <2>1. ~Undisturbed(a, t + 1)'
    BY <1>6, OneTickLonger
  <2> QED
    BY <1>4, <2>1 DEF Healing
<1>7. CASE Undisturbed(a, t)
  <2>1. Undisturbed(a, Delay)
    BY <1>5, <1>7, LongerIsLater
  <2>2. Healing(a) /\ ~(~Undisturbed(a, Delay + LongestSleep - timer[a]))
    BY <1>4, <1>7, <2>1 DEF HealInv
  <2>3. CASE a \in DOMAIN entries /\ entries[a].public_key = key[a] /\ Refreshed(a, a)
    BY <1>1, <2>3, Ticks, RefreshedTick DEF Healing
  <2>4. CASE \E p \in inflight :
               p.addr = a /\ ~Undisturbed(a, Delay + LongestSleep + p.wait)
    <3>1. PICK p \in inflight :
            p.addr = a /\ ~Undisturbed(a, Delay + LongestSleep + p.wait)
      BY <2>4
    <3>2. PICK q \in inflight' : q.addr = a /\ q.wait = p.wait + 1
      BY <3>1, Ticks
    <3>3. PICK s \in Nat : s = Delay + LongestSleep + p.wait
      BY Typed, Numbers
    <3>4. s + 1 = Delay + LongestSleep + q.wait
      BY <3>2, <3>3, Typed, Numbers
    <3>5. ~Undisturbed(a, s + 1)'
      BY <3>1, <3>3, OneTickLonger
    <3> QED
      BY <3>2, <3>4, <3>5 DEF Healing
  <2> QED
    BY <2>2, <2>3, <2>4 DEF Healing
<1> QED
  BY <1>6, <1>7

LEMMA HealHandle ==
  ASSUME TypeInv, LifeInv, NEW p \in inflight, HandleRegister(p), NEW a \in Address,
         Undisturbed(a, Delay), Healing(a),
         \A t \in Nat : Undisturbed(a, t)' => Undisturbed(a, t)
  PROVE  Healing(a)'
<1>1. /\ running[a] /\ since[a] \in Nat /\ since[a] > Delay
      /\ \A b \in Rivals(a) : /\ b \in Address /\ ~running[b]
                              /\ since[b] \in Nat /\ since[b] > Delay
  BY Typed DEF Undisturbed, RunsFor, SilentFor, Rivals
<1>2. p.addr \in Address /\ p.wait \in Nat /\ p.wait <= Delay /\ Delay \in Nat
  BY Typed, Numbers
<1>3. timer' = timer /\ key' = key
  BY Handled
<1>4. CASE p.addr = a
  <2>1. p.public_key = key[a]
    BY <1>1, <1>2, <1>4 DEF LifeInv, SentInLife
  <2>2. timer[a] <= Interval
    BY <1>1, <1>4, <2>1 DEF LifeInv, OnSchedule, Reached
  <2>3. /\ a \in DOMAIN entries' /\ entries'[a].public_key = key[a]
        /\ entries'[a].age = 0
    BY <1>4, <2>1, Handled
  <2>4. entries'[a].age + timer'[a] <= Interval
    BY <1>3, <2>2, <2>3, Typed, Numbers
  <2> QED
    BY <1>3, <2>3, <2>4 DEF Healing, Refreshed
<1>5. CASE p.addr # a
  <2>1. p.addr \notin Rivals(a)
    BY <1>1, <1>2 DEF LifeInv, SentInLife
  <2>2. a \notin Evicted(p)
    BY <1>2, <1>5, <2>1 DEF Evicted, Rivals
  <2>3. \A q \in inflight : q.addr = a => q \in inflight'
    BY <1>5, Handled
  <2>4. CASE a \in DOMAIN entries /\ entries[a].public_key = key[a] /\ Refreshed(a, a)
    <3>1. a \in DOMAIN entries' /\ entries'[a] = entries[a]
      BY <1>5, <2>2, <2>4, Handled
    <3> QED
      BY <1>3, <2>3, <2>4, <3>1 DEF Healing, Refreshed
  <2>5. CASE \E q \in inflight :
               q.addr = a /\ ~Undisturbed(a, Delay + LongestSleep + q.wait)
    <3>1. PICK q \in inflight :
            q.addr = a /\ ~Undisturbed(a, Delay + LongestSleep + q.wait)
      BY <2>5
    <3>2. PICK s \in Nat : s = Delay + LongestSleep + q.wait
      BY Typed, Numbers
    <3>3. ~Undisturbed(a, s)'
      BY <3>1, <3>2
    <3> QED
      BY <2>3, <3>1, <3>2, <3>3 DEF Healing
  <2>6. CASE ~Undisturbed(a, Delay + LongestSleep - timer[a])
    <3>1. PICK s \in Nat : s = Delay + LongestSleep - timer[a]
      BY Typed, Numbers
    <3>2. ~Undisturbed(a, s)'
      BY <2>6, <3>1
    <3> QED
      BY <1>3, <3>1, <3>2 DEF Healing
  <2> QED
    BY <2>4, <2>5, <2>6 DEF Healing
<1> QED
  BY <1>4, <1>5

(* The steps that leave the entry, the key and the loop of a alone.         *)
LEMMA HealLeft ==
  ASSUME TypeInv, NEW a \in Address, Healing(a),
         \A t \in Nat : Undisturbed(a, t)' => Undisturbed(a, t),
         a \in DOMAIN entries /\ Refreshed(a, a)
           => a \in DOMAIN entries' /\ entries'[a] = entries[a],
         key'[a] = key[a], timer'[a] = timer[a], inflight \subseteq inflight'
  PROVE  Healing(a)'
<1>1. CASE a \in DOMAIN entries /\ entries[a].public_key = key[a] /\ Refreshed(a, a)
  BY <1>1 DEF Healing, Refreshed
<1>2. CASE \E q \in inflight :
             q.addr = a /\ ~Undisturbed(a, Delay + LongestSleep + q.wait)
  <2>1. PICK q \in inflight :
          q.addr = a /\ ~Undisturbed(a, Delay + LongestSleep + q.wait)
    BY <1>2
  <2>2. PICK s \in Nat : s = Delay + LongestSleep + q.wait
    BY Typed, Numbers
  <2>3. ~Undisturbed(a, s)'
    BY <2>1, <2>2
  <2> QED
    BY <2>1, <2>2, <2>3 DEF Healing
<1>3. CASE ~Undisturbed(a, Delay + LongestSleep - timer[a])
  <2>1. PICK s \in Nat : s = Delay + LongestSleep - timer[a]
    BY Typed, Numbers
  <2>2. ~Undisturbed(a, s)'
    BY <1>3, <2>1
  <2> QED
    BY <2>1, <2>2 DEF Healing
<1> QED
  BY <1>1, <1>2, <1>3 DEF Healing

LEMMA HealRegister ==
  ASSUME TypeInv, NEW a \in Address, RegisterService(a), Healing(a),
         \A t \in Nat : Undisturbed(a, t)' => Undisturbed(a, t)
  PROVE  Healing(a)'
<1> DEFINE r == [addr |-> a, public_key |-> key[a], wait |-> 0]
<1>1. /\ entries' = entries /\ inflight' = inflight \cup {r} /\ timer[a] = 0
      /\ key' = key
  BY DEF RegisterService, Due
<1>2. r.addr = a /\ r.wait = 0
  OBVIOUS
<1> HIDE DEF r
<1>3. CASE a \in DOMAIN entries /\ entries[a].public_key = key[a] /\ Refreshed(a, a)
  BY <1>1, <1>3, RefreshedAgain DEF Healing
<1>4. CASE \E q \in inflight :
             q.addr = a /\ ~Undisturbed(a, Delay + LongestSleep + q.wait)
  <2>1. PICK q \in inflight :
          q.addr = a /\ ~Undisturbed(a, Delay + LongestSleep + q.wait)
    BY <1>4
  <2>2. PICK s \in Nat : s = Delay + LongestSleep + q.wait
    BY Typed, Numbers
  <2>3. ~Undisturbed(a, s)'
    BY <2>1, <2>2
  <2> QED
    BY <1>1, <2>1, <2>2, <2>3 DEF Healing
<1>5. CASE ~Undisturbed(a, Delay + LongestSleep - timer[a])
  <2>1. PICK s \in Nat : s = Delay + LongestSleep
    BY Numbers
  <2>2. s = Delay + LongestSleep - timer[a] /\ s = Delay + LongestSleep + r.wait
    BY <1>1, <1>2, <2>1, Numbers
  <2>3. ~Undisturbed(a, s)'
    BY <1>5, <2>1, <2>2
  <2> QED
    BY <1>1, <1>2, <2>2, <2>3 DEF Healing
<1> QED
  BY <1>3, <1>4, <1>5 DEF Healing

LEMMA HealStep ==
  ASSUME InTime, TypeInv, TypeInv', LifeInv, HealInv, [Next]_vars
  PROVE  HealInv'
<1>1. CASE UNCHANGED vars
  BY <1>1 DEF vars, HealInv, Undisturbed, RunsFor, SilentFor, UpFor, Healing, Refreshed
<1>2. CASE Tick
  BY <1>2, HealTick DEF HealInv
<1>3. CASE Next /\ ~Tick
  <2> SUFFICES ASSUME NEW a \in Address, Undisturbed(a, Delay)'
               PROVE  Healing(a)'
    BY DEF HealInv
  <2>1. \A t \in Nat : Undisturbed(a, t)' => Undisturbed(a, t)
    BY <1>3, OnlyTime
  <2>2. Undisturbed(a, Delay)
    BY <2>1, Numbers
  <2>3. Healing(a) /\ running[a] /\ running'[a] /\ listening /\ listening'
    BY <2>2 DEF HealInv, Undisturbed, RunsFor, UpFor
  <2>4. CASE \E p \in inflight : HandleRegister(p)
    BY <2>1, <2>2, <2>3, <2>4, HealHandle
  <2>5. CASE ListActive
    <3>1. a \in DOMAIN entries /\ Refreshed(a, a) => a \in Listed
      BY RefreshedListed
    <3> QED
      BY <2>1, <2>3, <2>5, <3>1, HealLeft DEF ListActive, serviceVars
  <2>6. CASE StartDirectory \/ StopDirectory
    BY <2>3, <2>6 DEF StartDirectory, StopDirectory
  <2>7. ASSUME NEW c \in Address, StartService(c) \/ StopService(c)
        PROVE  Healing(a)'
    <3>1. a # c
      BY <2>3, <2>7 DEF StartService, StopService, TypeInv, TypeOK
    <3> QED
      BY <2>1, <2>3, <2>7, <3>1, HealLeft DEF StartService, StopService, TypeInv, TypeOK
  <2>8. ASSUME NEW c \in Address, RegisterService(c)
        PROVE  Healing(a)'
    <3>1. CASE a = c
      BY <2>1, <2>3, <2>8, <3>1, HealRegister
    <3>2. CASE a # c
      BY <2>1, <2>3, <2>8, <3>2, HealLeft DEF RegisterService, TypeInv, TypeOK
    <3> QED
      BY <3>1, <3>2
  <2>9. ASSUME NEW c \in Address, RegistryUnreachable(c)
        PROVE  FALSE
    BY <2>3, <2>9 DEF RegistryUnreachable
  <2> QED
    BY <1>3, <2>4, <2>5, <2>6, <2>7, <2>8, <2>9 DEF Next
<1> QED
  BY <1>1, <1>2, <1>3

(* Whatever restarts, failed attempts and late registrations came before,   *)
(* a node that has run without rivals and with the directory for HealTime   *)
(* is registered with the key it has now, and will not expire.              *)
THEOREM SelfHealsHolds ==
  ASSUME InTime
  PROVE  Spec => []SelfHeals
<1>1. Init => HealInv
  BY DEF Init, HealInv, Undisturbed, RunsFor
<1>2. TypeInv /\ TypeInv' /\ LifeInv /\ HealInv /\ [Next]_vars => HealInv'
  BY HealStep
<1>3. TypeInv /\ HealInv => SelfHeals
  <2> SUFFICES ASSUME TypeInv, HealInv, NEW a \in Address, Undisturbed(a, HealTime)
               PROVE  a \in DOMAIN entries /\ entries[a].public_key = key[a] /\ ~Expired(a)
    BY DEF SelfHeals, Undisturbed
  <2>1. \A t \in Nat : t <= HealTime => Undisturbed(a, t)
    BY LongerIsLater, Numbers
  <2>2. Healing(a)
    BY <2>1, Numbers DEF HealInv
  <2>3. \A p \in inflight : Undisturbed(a, Delay + LongestSleep + p.wait)
    BY <2>1, Typed, Numbers
  <2>4. Undisturbed(a, Delay + LongestSleep - timer[a])
    BY <2>1, Typed, Numbers
  <2>5. a \in DOMAIN entries /\ entries[a].public_key = key[a] /\ Refreshed(a, a)
    BY <2>2, <2>3, <2>4 DEF Healing
  <2> QED
    BY <2>5, RefreshedListed DEF Listed
<1> QED
  BY <1>1, <1>2, <1>3, TypeInvariant, LifeInvariant, PTL DEF Spec

LEMMA HostIsShared ==
  ASSUME NEW a \in Address, NEW b \in Address, a.type = "exit"
  PROVE  b \in SameHost(a) <=> b.type = "exit" /\ b.host = a.host
<1>1. a = b => b.type = "exit" /\ b.host = a.host
  OBVIOUS
<1> QED
  BY <1>1 DEF SameHost, Rivals

LEMMA KeepTick ==
  ASSUME TypeInv, TypeInv', KeepInv, Tick,
         NEW a \in Address, a.type = "exit", running'[a], listening'
  PROVE  Kept(a)'
<1>1. /\ running[a] /\ listening
      /\ running' = running /\ key' = key /\ DOMAIN entries' = DOMAIN entries
  BY Ticks DEF Tick
<1>2. timer'[a] = timer[a] - 1 /\ timer[a] \in Nat /\ timer'[a] \in Nat /\ timer[a] <= LongestSleep
  <2>1. timer'[a] \in Nat
    BY Typed DEF TypeInv, TypeOK
  <2> QED
    BY <1>1, <2>1, Ticks, Typed
<1>3. Kept(a)
  BY <1>1 DEF KeepInv
<1>4. CASE timer[a] <= Interval /\ \E b \in SameHost(a) \cap DOMAIN entries : Refreshed(a, b)
  <2>1. PICK b \in SameHost(a) \cap DOMAIN entries : Refreshed(a, b)
    BY <1>4
  <2>2. b \in DOMAIN entries' /\ Refreshed(a, b)'
    BY <1>1, <2>1, RefreshedTick
  <2>3. timer'[a] <= Interval
    BY <1>2, <1>4, Numbers
  <2> QED
    BY <2>1, <2>2, <2>3 DEF Kept
<1>5. CASE \E p \in inflight : /\ p.addr = a /\ p.public_key = key[a]
                               /\ ~Alive(a, LongestSleep + p.wait)
  <2>1. PICK p \in inflight : /\ p.addr = a /\ p.public_key = key[a]
                              /\ ~Alive(a, LongestSleep + p.wait)
    BY <1>5
  <2>2. PICK q \in inflight' :
          q.addr = a /\ q.public_key = key[a] /\ q.wait = p.wait + 1
    BY <2>1, Ticks
  <2>3. PICK s \in Nat : s = LongestSleep + p.wait
    BY Typed, Numbers
  <2>4. s + 1 = LongestSleep + q.wait
    BY <2>2, <2>3, Typed, Numbers
  <2>5. ~Alive(a, s + 1)'
    BY <2>1, <2>3, OneTickLonger
  <2> QED
    BY <1>1, <2>2, <2>4, <2>5 DEF Kept
<1>6. CASE ~Alive(a, LongestSleep - timer[a])
  <2>1. PICK s \in Nat : s = LongestSleep - timer[a]
    BY <1>2, Numbers
  <2>2. s + 1 = LongestSleep - timer'[a]
    BY <1>2, <2>1, Numbers
  <2>3. ~Alive(a, s + 1)'
    BY <1>6, <2>1, OneTickLonger
  <2> QED
    BY <2>2, <2>3 DEF Kept
<1> QED
  BY <1>3, <1>4, <1>5, <1>6 DEF Kept

(* A registration of the exit itself, or of a rival when the exit has       *)
(* registered before, makes an entry of the host as fresh as can be.        *)
LEMMA KeptFresh ==
  ASSUME TypeInv, NEW p \in inflight, HandleRegister(p), NEW a \in Address,
         p.addr \in SameHost(a), timer[a] <= Interval
  PROVE  Kept(a)'
<1>1. /\ p.addr \in DOMAIN entries' /\ entries'[p.addr].age = 0
      /\ timer'[a] = timer[a] /\ timer[a] \in Nat
  BY Handled, Typed
<1>2. entries'[p.addr].age + timer'[a] <= Interval
  BY <1>1, Numbers
<1>3. Refreshed(a, p.addr)'
  BY <1>2, Handled DEF Refreshed
<1> QED
  BY <1>1, <1>3 DEF Kept, SameHost, Rivals

LEMMA KeepHandle ==
  ASSUME TypeInv, LifeInv, NEW p \in inflight, HandleRegister(p), NEW a \in Address,
         a.type = "exit", running[a], Kept(a),
         \A t \in Nat : Alive(a, t)' => Alive(a, t)
  PROVE  Kept(a)'
<1>1. p.addr \in Address
  BY Typed
<1>2. timer' = timer /\ key' = key
  BY Handled
<1>3. CASE p.addr = a /\ p.public_key = key[a]
  <2>1. timer[a] <= Interval
    BY <1>3 DEF LifeInv, OnSchedule, Reached
  <2> QED
    BY <1>3, <2>1, KeptFresh DEF SameHost
<1>4. CASE ~(p.addr = a /\ p.public_key = key[a])
  <2>1. CASE timer[a] <= Interval /\ \E b \in SameHost(a) \cap DOMAIN entries : Refreshed(a, b)
    <3>1. CASE p.addr \in SameHost(a)
      BY <2>1, <3>1, KeptFresh
    <3>2. CASE p.addr \notin SameHost(a)
      <4>1. PICK b \in SameHost(a) \cap DOMAIN entries : Refreshed(a, b)
        BY <2>1
      <4>2. b \in Address /\ b # p.addr /\ a # p.addr
        BY <3>2, <4>1, Typed DEF SameHost
      <4>3. b \notin Evicted(p)
        BY <1>1, <3>2, <4>1, <4>2, HostIsShared DEF Evicted
      <4>4. b \in DOMAIN entries' /\ entries'[b] = entries[b]
        BY <4>1, <4>2, <4>3, Handled
      <4>5. \A q \in inflight : q.addr = a => q \in inflight'
        BY <4>2, Handled
      <4>6. Refreshed(a, b)'
        BY <1>2, <4>1, <4>4, <4>5 DEF Refreshed
      <4> QED
        BY <1>2, <2>1, <4>1, <4>4, <4>6 DEF Kept
    <3> QED
      BY <3>1, <3>2
  <2>2. CASE \E q \in inflight : /\ q.addr = a /\ q.public_key = key[a]
                                 /\ ~Alive(a, LongestSleep + q.wait)
    <3>1. PICK q \in inflight : /\ q.addr = a /\ q.public_key = key[a]
                                /\ ~Alive(a, LongestSleep + q.wait)
      BY <2>2
    <3>2. q \in inflight'
      BY ZenonT(30), <1>4, <3>1, Handled
    <3>3. PICK s \in Nat : s = LongestSleep + q.wait
      BY Typed, Numbers
    <3>4. ~Alive(a, s)'
      BY <3>1, <3>3
    <3> QED
      BY <1>2, <3>1, <3>2, <3>3, <3>4 DEF Kept
  <2>3. CASE ~Alive(a, LongestSleep - timer[a])
    <3>1. PICK s \in Nat : s = LongestSleep - timer[a]
      BY Typed, Numbers
    <3>2. ~Alive(a, s)'
      BY <2>3, <3>1
    <3> QED
      BY <1>2, <3>1, <3>2 DEF Kept
  <2> QED
    BY <2>1, <2>2, <2>3 DEF Kept
<1> QED
  BY <1>3, <1>4

LEMMA KeptLeft ==
  ASSUME TypeInv, NEW a \in Address, Kept(a),
         \A t \in Nat : Alive(a, t)' => Alive(a, t),
         \A b \in DOMAIN entries :
           Refreshed(a, b) => b \in DOMAIN entries' /\ entries'[b] = entries[b],
         key'[a] = key[a], timer'[a] = timer[a], inflight \subseteq inflight'
  PROVE  Kept(a)'
<1>1. CASE timer[a] <= Interval /\ \E b \in SameHost(a) \cap DOMAIN entries : Refreshed(a, b)
  <2>1. PICK b \in SameHost(a) \cap DOMAIN entries : Refreshed(a, b)
    BY <1>1
  <2>2. b \in DOMAIN entries' /\ entries'[b] = entries[b]
    BY <2>1
  <2>3. Refreshed(a, b)'
    BY <2>1, <2>2 DEF Refreshed
  <2> QED
    BY <1>1, <2>1, <2>2, <2>3 DEF Kept
<1>2. CASE \E q \in inflight : /\ q.addr = a /\ q.public_key = key[a]
                               /\ ~Alive(a, LongestSleep + q.wait)
  <2>1. PICK q \in inflight : /\ q.addr = a /\ q.public_key = key[a]
                              /\ ~Alive(a, LongestSleep + q.wait)
    BY <1>2
  <2>2. PICK s \in Nat : s = LongestSleep + q.wait
    BY Typed, Numbers
  <2>3. ~Alive(a, s)'
    BY <2>1, <2>2
  <2> QED
    BY <2>1, <2>2, <2>3 DEF Kept
<1>3. CASE ~Alive(a, LongestSleep - timer[a])
  <2>1. PICK s \in Nat : s = LongestSleep - timer[a]
    BY Typed, Numbers
  <2>2. ~Alive(a, s)'
    BY <1>3, <2>1
  <2> QED
    BY <2>1, <2>2 DEF Kept
<1> QED
  BY <1>1, <1>2, <1>3 DEF Kept

LEMMA KeepRegister ==
  ASSUME TypeInv, NEW a \in Address, RegisterService(a), Kept(a),
         \A t \in Nat : Alive(a, t)' => Alive(a, t)
  PROVE  Kept(a)'
<1> DEFINE r == [addr |-> a, public_key |-> key[a], wait |-> 0]
<1>1. /\ entries' = entries /\ inflight' = inflight \cup {r} /\ timer[a] = 0
      /\ key' = key /\ timer'[a] = Interval
  BY DEF RegisterService, Due, TypeInv, TypeOK
<1>2. r.addr = a /\ r.wait = 0 /\ r.public_key = key[a]
  OBVIOUS
<1> HIDE DEF r
<1>3. CASE \E b \in SameHost(a) \cap DOMAIN entries : Refreshed(a, b)
  BY <1>1, <1>3, RefreshedAgain, Numbers DEF Kept
<1>4. CASE \E q \in inflight : /\ q.addr = a /\ q.public_key = key[a]
                               /\ ~Alive(a, LongestSleep + q.wait)
  <2>1. PICK q \in inflight : /\ q.addr = a /\ q.public_key = key[a]
                              /\ ~Alive(a, LongestSleep + q.wait)
    BY <1>4
  <2>2. PICK s \in Nat : s = LongestSleep + q.wait
    BY Typed, Numbers
  <2>3. ~Alive(a, s)'
    BY <2>1, <2>2
  <2> QED
    BY <1>1, <2>1, <2>2, <2>3 DEF Kept
<1>5. CASE ~Alive(a, LongestSleep - timer[a])
  <2>1. LongestSleep - timer[a] = LongestSleep /\ LongestSleep + r.wait = LongestSleep
    BY <1>1, <1>2, Numbers
  <2>2. ~Alive(a, LongestSleep)'
    BY <1>5, <2>1, Numbers
  <2> QED
    BY <1>1, <1>2, <2>1, <2>2 DEF Kept
<1> QED
  BY <1>3, <1>4, <1>5 DEF Kept

(* A loop that has just started registers at once.                          *)
LEMMA JustStarted ==
  ASSUME TypeInv, NEW a \in Address, StartService(a) \/ StartDirectory
  PROVE  Kept(a)'
<1>1. PICK s \in Nat : s = LongestSleep - timer'[a]
  <2>1. TypeInv'
    BY TypeStep DEF Next
  <2> QED
    BY <2>1, Typed, Numbers DEF TypeInv, TypeOK
<1>2. since'[a] = 0 \/ dirSince' = 0
  BY DEF StartService, StartDirectory, TypeInv, TypeOK
<1>3. ~Alive(a, s)'
  BY <1>2 DEF Alive, RunsFor, UpFor
<1> QED
  BY <1>1, <1>3 DEF Kept

LEMMA KeepStep ==
  ASSUME InTime, TypeInv, TypeInv', LifeInv, KeepInv, [Next]_vars
  PROVE  KeepInv'
<1>1. CASE UNCHANGED vars
  BY <1>1 DEF vars, KeepInv, Alive, RunsFor, UpFor, Kept, Refreshed
<1>2. CASE Tick
  BY <1>2, KeepTick DEF KeepInv
<1>3. CASE Next /\ ~Tick
  <2> SUFFICES ASSUME NEW a \in Address, a.type = "exit", running'[a], listening'
               PROVE  Kept(a)'
    BY DEF KeepInv
  <2>1. \A t \in Nat : Alive(a, t)' => Alive(a, t)
    BY <1>3, OnlyTime
  <2>2. CASE StartService(a) \/ StartDirectory
    BY <2>2, JustStarted
  <2>3. CASE ~(StartService(a) \/ StartDirectory)
    <3>1. /\ running[a] /\ listening
      BY <1>3, <2>3
         DEF Next, HandleRegister, ListActive, StopDirectory, StartService, StopService,
             RegisterService, RegistryUnreachable, serviceVars, TypeInv, TypeOK
    <3>2. Kept(a)
      BY <3>1 DEF KeepInv
    <3>3. CASE \E p \in inflight : HandleRegister(p)
      BY <2>1, <3>1, <3>2, <3>3, KeepHandle
    <3>4. CASE ListActive
      <4>1. \A b \in DOMAIN entries : Refreshed(a, b) => b \in Listed
        BY RefreshedListed
      <4> QED
        BY <2>1, <3>2, <3>4, <4>1, KeptLeft DEF ListActive, serviceVars
    <3>5. CASE StopDirectory
      BY <3>5 DEF StopDirectory
    <3>6. ASSUME NEW c \in Address, StartService(c) \/ StopService(c)
          PROVE  Kept(a)'
      <4>1. a # c
        BY <2>3, <3>1, <3>6 DEF StopService, TypeInv, TypeOK
      <4> QED
        BY <2>1, <3>2, <3>6, <4>1, KeptLeft DEF StartService, StopService, TypeInv, TypeOK
    <3>7. ASSUME NEW c \in Address, RegisterService(c)
          PROVE  Kept(a)'
      <4>1. CASE a = c
        BY <2>1, <3>2, <3>7, <4>1, KeepRegister
      <4>2. CASE a # c
        BY <2>1, <3>2, <3>7, <4>2, KeptLeft DEF RegisterService, TypeInv, TypeOK
      <4> QED
        BY <4>1, <4>2
    <3>8. ASSUME NEW c \in Address, RegistryUnreachable(c)
          PROVE  FALSE
      BY <3>1, <3>8 DEF RegistryUnreachable
    <3> QED
      BY <1>3, <2>3, <3>3, <3>4, <3>5, <3>6, <3>7, <3>8 DEF Next
  <2> QED
    BY <2>2, <2>3
<1> QED
  BY <1>1, <1>2, <1>3

(* However often the exits of a host remove each other, one that runs, or   *)
(* ran until shortly before, is registered and listed once one of them has  *)
(* run with the directory for HealTime.                                     *)
THEOREM HostKeepsAnExitHolds ==
  ASSUME InTime
  PROVE  Spec => []HostKeepsAnExit
<1>1. Init => KeepInv
  BY DEF Init, KeepInv
<1>2. TypeInv /\ TypeInv' /\ LifeInv /\ KeepInv /\ [Next]_vars => KeepInv'
  BY KeepStep
<1>3. TypeInv /\ LifeInv /\ KeepInv => HostKeepsAnExit
  <2> SUFFICES ASSUME TypeInv, LifeInv, KeepInv, NEW a \in Address, a.type = "exit",
                      Alive(a, HealTime)
               PROVE  \E b \in DOMAIN entries : /\ b = a \/ b \in Rivals(a)
                                                /\ ~Expired(b)
                                                /\ ~SilentFor(b, HealTime)
    BY DEF HostKeepsAnExit, Alive
  <2>1. \A t \in Nat : t <= HealTime => Alive(a, t)
    BY LongerIsLater, Numbers
  <2>2. Kept(a)
    BY DEF KeepInv, Alive, RunsFor, UpFor
  <2>3. \A p \in inflight : Alive(a, LongestSleep + p.wait)
    BY <2>1, Typed, Numbers
  <2>4. Alive(a, LongestSleep - timer[a])
    BY <2>1, Typed, Numbers
  <2>5. PICK b \in SameHost(a) \cap DOMAIN entries : Refreshed(a, b)
    BY <2>2, <2>3, <2>4 DEF Kept
  <2>6. entries[b].age <= Interval + Delay /\ ~Expired(b)
    BY <2>5, RefreshedListed DEF Listed
  <2>7. ~SilentFor(b, HealTime)
    <3>1. b \in Address /\ entries[b].age \in Nat /\ since[b] \in Nat
      BY Typed
    <3>2. ~running[b] => since[b] <= entries[b].age + Delay
      BY <2>6 DEF LifeInv, HeardInLife
    <3> QED
      BY <2>6, <3>1, <3>2, Numbers DEF SilentFor
  <2> QED
    BY <2>6, <2>7 DEF SameHost
<1> QED
  BY <1>1, <1>2, <1>3, TypeInvariant, LifeInvariant, PTL DEF Spec
================================================================================
