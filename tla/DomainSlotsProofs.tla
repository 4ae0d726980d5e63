------------------------- MODULE DomainSlotsProofs -------------------------
(***************************************************************************)
(* Proofs about DomainSlots, for every number of threads, addresses, slots *)
(* and domains.                                                            *)
(***************************************************************************)
EXTENDS DomainSlots, TLAPS

Domain == [number : Nat \ {0}, id : Indices, generation : Nat]
Entry == [record : Nat \ {0}, domain : DomainAddresses, generation : Nat]

\* The shape of the state, and what a thread's step says of its `position`.
Shapes ==
    /\ slots \in [Indices -> [taken : BOOLEAN, generation : Nat]]
    /\ domains \in [DomainAddresses -> {NoDomain} \cup Domain]
    /\ built \in Nat
    /\ entries \in [Threads -> [Indices -> {NoEntry} \cup Entry]]
    /\ pc \in [Threads -> {"idle", "teardown", "check", "touch", "dead"}]
    /\ position \in [Threads -> DomainAddresses \cup (0 .. SlotCount)]
    /\ died \in [Threads -> SUBSET Nat]

Places ==
    \A t \in Threads :
        /\ pc[t] = "idle" => position[t] = 0
        /\ pc[t] = "teardown" => position[t] \in DomainAddresses
        /\ pc[t] = "check" => position[t] \in 0 .. SlotCount
        /\ pc[t] = "touch" => position[t] \in Indices /\ entries[t][position[t]] # NoEntry

\* A domain is destroyed by one thread, and is there until that is done.
Destroyers ==
    /\ \A t \in Threads : pc[t] = "teardown" => domains[position[t]] # NoDomain
    /\ \A t, u \in Threads :
        pc[t] = "teardown" /\ pc[u] = "teardown" /\ position[t] = position[u] => t = u

\* Domains that are in use own their slots, one each.
Owners ==
    /\ \A a \in DomainAddresses : Usable(a) =>
        /\ slots[domains[a].id].taken
        /\ slots[domains[a].id].generation = domains[a].generation
    /\ \A a, b \in DomainAddresses :
        Usable(a) /\ Usable(b) /\ domains[a].id = domains[b].id => a = b
    /\ \A i \in Indices : slots[i].taken =>
        \E a \in DomainAddresses : Usable(a) /\ domains[a].id = i

\* A slot's generation is never behind a domain's, and tells domains apart.
Generations ==
    /\ \A a \in DomainAddresses : domains[a] # NoDomain =>
        domains[a].generation <= slots[domains[a].id].generation
    /\ \A a, b \in DomainAddresses :
        /\ domains[a] # NoDomain /\ domains[b] # NoDomain
        /\ domains[a].id = domains[b].id
        /\ domains[a].generation = domains[b].generation
        => a = b

\* A cached record is the domain's whose slot and generation are cached.
Records ==
    \A t \in Threads, i \in Indices : entries[t][i] # NoEntry =>
        /\ entries[t][i].generation <= slots[i].generation
        /\ \A a \in DomainAddresses :
            /\ domains[a] # NoDomain /\ domains[a].id = i
            /\ domains[a].generation = entries[t][i].generation
            => domains[a].number = entries[t][i].record

Inv == Shapes /\ Places /\ Destroyers /\ Owners /\ Generations /\ Records
           /\ LateExitsTouchNothing

\* A record with a number is not the one that stands for nothing.
LEMMA RealDomains ==
  /\ \A d \in Domain : d # NoDomain
  /\ \A e \in Entry : e # NoEntry
<1>1. ASSUME NEW d \in Domain PROVE d # NoDomain
  <2>1. d.number # 0
    BY DEF Domain
  <2>2. NoDomain.number = 0
    BY DEF NoDomain
  <2> QED
    BY <2>1, <2>2
<1>2. ASSUME NEW e \in Entry PROVE e # NoEntry
  <2>1. e.record # 0
    BY DEF Entry
  <2>2. NoEntry.record = 0
    BY DEF NoEntry
  <2> QED
    BY <2>1, <2>2
<1> QED
  BY <1>1, <1>2

\* No domain, no record and no thread in the middle of anything.
LEMMA InitInv == SlotsInit => Inv
<1> SUFFICES ASSUME SlotsInit PROVE Inv
  OBVIOUS
<1> USE DEF SlotsInit
<1>1. Shapes /\ Places
  BY SlotsAssumption DEF Shapes, Places
<1>2. Destroyers
  BY DEF Destroyers
<1>3. Owners /\ Generations
  BY DEF Owners, Generations, Usable
<1>4. Records /\ LateExitsTouchNothing
  BY DEF Records, LateExitsTouchNothing
<1> QED
  BY <1>1, <1>2, <1>3, <1>4 DEF Inv

-----------------------------------------------------------------------------
(* Construct *)

\* A new domain has a slot of its own and a generation nobody has seen.
LEMMA ConstructInv ==
  ASSUME Inv, NEW t \in Threads, NEW a \in DomainAddresses, Construct(t, a)
  PROVE  Inv'
<1> USE DEF Inv
<1> PICK i \in Vacant :
        /\ slots' = [slots EXCEPT ![i] = Acquired(i)]
        /\ domains' = [domains EXCEPT ![a] =
               [number |-> built + 1, id |-> i, generation |-> slots'[i].generation]]
  BY DEF Construct
<1> DEFINE new == [number |-> built + 1, id |-> i,
                   generation |-> slots[i].generation + 1]
<1>1. /\ i \in Indices /\ ~slots[i].taken /\ domains[a] = NoDomain
      /\ slots[i].generation \in Nat
      /\ built' = built + 1 /\ pc[t] = "idle"
      /\ UNCHANGED <<entries, pc, position, died>>
  BY DEF Construct, Vacant, Shapes
<1>2. /\ slots'[i] = [taken |-> TRUE, generation |-> slots[i].generation + 1]
      /\ slots'[i].generation = slots[i].generation + 1 /\ slots'[i].taken
      /\ \A j \in Indices \ {i} : slots'[j] = slots[j]
  BY <1>1 DEF Acquired, Shapes
<1>3. /\ domains'[a] = new /\ new \in Domain
      /\ \A b \in DomainAddresses \ {a} : domains'[b] = domains[b]
  BY <1>1, <1>2 DEF Shapes, Domain
<1>4. /\ domains'[a] # NoDomain
      /\ domains'[a].id = i /\ domains'[a].generation = slots[i].generation + 1
      /\ domains'[a].number = built + 1
  BY <1>3, RealDomains
<1>5. Shapes'
  <2>1. slots' \in [Indices -> [taken : BOOLEAN, generation : Nat]]
    <3>1. Acquired(i) \in [taken : BOOLEAN, generation : Nat]
      BY <1>1 DEF Acquired
    <3> QED
      BY <3>1 DEF Shapes
  <2>2. domains' \in [DomainAddresses -> {NoDomain} \cup Domain]
    BY <1>3 DEF Shapes
  <2> QED
    BY <1>1, <2>1, <2>2 DEF Shapes
<1>6. Places' /\ Destroyers'
  BY <1>1, <1>3, <1>4 DEF Places, Destroyers
<1>7. /\ Usable(a)'
      /\ \A b \in DomainAddresses \ {a} : Usable(b)' <=> Usable(b)
  BY <1>1, <1>3, <1>4 DEF Usable, Destroyers
<1>8. \A b \in DomainAddresses : Usable(b) =>
          b # a /\ domains[b].id \in Indices /\ domains[b].id # i
  BY <1>1 DEF Usable, Owners, Shapes, Domain
<1>9. Owners'
  <2>1. \A b \in DomainAddresses : Usable(b)' =>
          /\ slots'[domains'[b].id].taken
          /\ slots'[domains'[b].id].generation = domains'[b].generation
    BY <1>2, <1>3, <1>4, <1>7, <1>8 DEF Owners
  <2>2. \A b, c \in DomainAddresses :
          Usable(b)' /\ Usable(c)' /\ domains'[b].id = domains'[c].id => b = c
    BY <1>3, <1>4, <1>7, <1>8 DEF Owners
  <2>3. \A j \in Indices : slots'[j].taken =>
          \E b \in DomainAddresses : Usable(b)' /\ domains'[b].id = j
    <3> SUFFICES ASSUME NEW j \in Indices, slots'[j].taken
                 PROVE  \E b \in DomainAddresses : Usable(b)' /\ domains'[b].id = j
      OBVIOUS
    <3>1. CASE j = i
      BY <3>1, <1>4, <1>7
    <3>2. CASE j # i
      <4>1. PICK b \in DomainAddresses : Usable(b) /\ domains[b].id = j
        BY <3>2, <1>2 DEF Owners
      <4> QED
        BY <4>1, <1>3, <1>7, <1>8
    <3> QED
      BY <3>1, <3>2
  <2> QED
    BY <2>1, <2>2, <2>3 DEF Owners
<1>10. \A b \in DomainAddresses : domains[b] # NoDomain =>
          /\ domains[b].id \in Indices /\ domains[b].generation \in Nat
          /\ domains[b].generation <= slots[domains[b].id].generation
          /\ slots[domains[b].id].generation \in Nat
  BY DEF Generations, Shapes, Domain
<1>11. Generations'
  <2>1. \A b \in DomainAddresses : domains'[b] # NoDomain =>
          domains'[b].generation <= slots'[domains'[b].id].generation
    BY <1>1, <1>2, <1>3, <1>4, <1>10
  <2>2. \A b \in DomainAddresses : domains[b] # NoDomain /\ domains[b].id = i =>
          domains[b].generation # slots[i].generation + 1
    BY <1>1, <1>10
  <2>3. \A b, c \in DomainAddresses :
          /\ domains'[b] # NoDomain /\ domains'[c] # NoDomain
          /\ domains'[b].id = domains'[c].id
          /\ domains'[b].generation = domains'[c].generation
          => b = c
    BY <1>3, <1>4, <2>2 DEF Generations
  <2> QED
    BY <2>1, <2>3 DEF Generations
<1>12. Records'
  <2> SUFFICES ASSUME NEW u \in Threads, NEW j \in Indices, entries[u][j] # NoEntry
               PROVE  /\ entries[u][j].generation <= slots'[j].generation
                      /\ \A b \in DomainAddresses :
                          /\ domains'[b] # NoDomain /\ domains'[b].id = j
                          /\ domains'[b].generation = entries[u][j].generation
                          => domains'[b].number = entries[u][j].record
    BY <1>1 DEF Records
  <2>1. /\ entries[u][j].generation \in Nat
        /\ slots[j].generation \in Nat
        /\ entries[u][j].generation <= slots[j].generation
    BY DEF Records, Shapes, Entry
  <2>2. entries[u][j].generation <= slots'[j].generation
    BY <2>1, <1>2
  <2>3. ASSUME NEW b \in DomainAddresses,
               domains'[b] # NoDomain, domains'[b].id = j,
               domains'[b].generation = entries[u][j].generation
        PROVE  domains'[b].number = entries[u][j].record
    <3>1. b # a
      BY <2>1, <2>3, <1>1, <1>4
    <3> QED
      BY <3>1, <2>3, <1>3 DEF Records
  <2> QED
    BY <2>2, <2>3
<1>13. LateExitsTouchNothing'
  <2> SUFFICES ASSUME NEW u \in Threads, pc[u] = "touch"
               PROVE  Alive(Touched(u))' \/ Touched(u)' \in died[u]
    BY <1>1 DEF LateExitsTouchNothing
  <2>1. Touched(u)' = Touched(u) /\ Touched(u) # 0
    BY <1>1 DEF Places, Shapes, Touched, Entry
  <2>2. Alive(Touched(u)) => Alive(Touched(u))'
    <3> SUFFICES ASSUME NEW b \in DomainAddresses, domains[b].number = Touched(u)
                 PROVE  \E c \in DomainAddresses : domains'[c].number = Touched(u)
      BY <2>1 DEF Alive
    <3>1. b # a
      BY <2>1, <1>1 DEF NoDomain
    <3> QED
      BY <3>1, <1>3
  <2> QED
    BY <2>1, <2>2, <1>1 DEF LateExitsTouchNothing
<1> QED
  BY <1>5, <1>6, <1>9, <1>11, <1>12, <1>13
-----------------------------------------------------------------------------
(* Release, Teardown and Register *)

\* A destructor that gives its slot back leaves the other domains alone.
LEMMA ReleaseInv ==
  ASSUME Inv, NEW t \in Threads, NEW a \in DomainAddresses, Release(t, a)
  PROVE  Inv'
<1> USE DEF Inv
<1>1. /\ pc[t] = "idle" /\ Usable(a) /\ domains[a] # NoDomain
      /\ domains[a] \in Domain /\ domains[a].id \in Indices
      /\ UNCHANGED <<domains, built, entries, died>>
      /\ position' = [position EXCEPT ![t] = a] /\ pc' = [pc EXCEPT ![t] = "teardown"]
  BY DEF Release, SlotsGoto, Usable, Shapes, Domain
<1> DEFINE i == domains[a].id
<1>2. /\ slots'[i].taken = FALSE
      /\ \A j \in Indices : slots'[j].generation = slots[j].generation
      /\ \A j \in Indices \ {i} : slots'[j] = slots[j]
  BY <1>1 DEF Release, Shapes
<1>3. Shapes'
  <2>1. slots' \in [Indices -> [taken : BOOLEAN, generation : Nat]]
    <3>1. /\ slots \in [Indices -> [taken : BOOLEAN, generation : Nat]]
          /\ slots' = [slots EXCEPT ![i] = [slots[i] EXCEPT !.taken = FALSE]]
      BY DEF Release, Shapes
    <3>2. [slots[i] EXCEPT !.taken = FALSE] \in [taken : BOOLEAN, generation : Nat]
      BY <1>1, <3>1
    <3> QED
      BY ONLY <1>1, <3>1, <3>2
  <2> QED
    BY <1>1, <2>1 DEF Shapes
<1>4. Places' /\ Destroyers'
  BY <1>1 DEF Places, Destroyers, Usable, Shapes
<1>5. /\ ~Usable(a)'
      /\ \A b \in DomainAddresses \ {a} : Usable(b)' <=> Usable(b)
  BY <1>1 DEF Usable, Shapes
<1>6. Owners'
  <2>1. \A b \in DomainAddresses : Usable(b)' =>
          /\ Usable(b) /\ domains[b].id \in Indices
          /\ domains[b].id # i
    BY <1>1, <1>5 DEF Usable, Owners, Shapes, Domain
  <2>2. \A b \in DomainAddresses : Usable(b)' =>
          /\ slots'[domains'[b].id].taken
          /\ slots'[domains'[b].id].generation = domains'[b].generation
    BY <2>1, <1>1, <1>2 DEF Owners
  <2>3. \A b, c \in DomainAddresses :
          Usable(b)' /\ Usable(c)' /\ domains'[b].id = domains'[c].id => b = c
    BY <2>1, <1>1 DEF Owners
  <2>4. \A j \in Indices : slots'[j].taken =>
          \E b \in DomainAddresses : Usable(b)' /\ domains'[b].id = j
    BY <1>1, <1>2, <1>5 DEF Owners
  <2> QED
    BY <2>2, <2>3, <2>4 DEF Owners
<1>7. Generations' /\ Records'
  BY <1>1, <1>2 DEF Generations, Records, Shapes, Domain
<1>8. LateExitsTouchNothing'
  BY <1>1 DEF LateExitsTouchNothing, Touched, Alive, Shapes
<1> QED
  BY <1>3, <1>4, <1>6, <1>7, <1>8

\* When a domain is gone, a thread that was about to call into it knows.
LEMMA TeardownInv ==
  ASSUME Inv, NEW t \in Threads, Teardown(t)
  PROVE  Inv'
<1> USE DEF Inv
<1> PICK a \in DomainAddresses : a = position[t]
  BY DEF Teardown, Places
<1>1. /\ pc[t] = "teardown" /\ a = position[t] /\ domains[a] # NoDomain
      /\ domains[a] \in Domain
      /\ entries' = [entries EXCEPT ![t] = Forget(t, a)]
      /\ died' = [u \in Threads |-> died[u] \cup {domains[a].number}]
      /\ domains' = [domains EXCEPT ![a] = NoDomain]
      /\ position' = [position EXCEPT ![t] = 0]
      /\ pc' = [pc EXCEPT ![t] = "idle"]
      /\ UNCHANGED <<slots, built>>
  BY DEF Teardown, SlotsGoto, Places, Destroyers, Shapes
<1>2. /\ domains'[a] = NoDomain
      /\ \A b \in DomainAddresses \ {a} : domains'[b] = domains[b]
  BY <1>1 DEF Shapes
<1>3. /\ \A u \in Threads \ {t} : entries'[u] = entries[u]
      /\ \A j \in Indices : entries'[t][j] \in {NoEntry, entries[t][j]}
  BY <1>1 DEF Shapes, Forget
<1>4. Shapes'
  <2>1. Forget(t, a) \in [Indices -> {NoEntry} \cup Entry]
    BY DEF Forget, Shapes
  <2>2. entries' \in [Threads -> [Indices -> {NoEntry} \cup Entry]]
    BY <2>1, <1>1 DEF Shapes
  <2>3. died' \in [Threads -> SUBSET Nat]
    BY <1>1 DEF Shapes, Domain
  <2> QED
    BY <1>1, <2>2, <2>3, SlotsAssumption DEF Shapes
<1>5. Places' /\ Destroyers'
  BY <1>1, <1>2, <1>3 DEF Places, Destroyers, Shapes
<1>6. \A b \in DomainAddresses : Usable(b)' <=> Usable(b)
  <2>1. ~Usable(a) /\ ~Usable(a)'
    BY <1>1, <1>2 DEF Usable
  <2>2. \A b \in DomainAddresses \ {a} : Usable(b)' <=> Usable(b)
    BY <1>1, <1>2 DEF Usable, Shapes
  <2> QED
    BY <2>1, <2>2
<1>7. \A b \in DomainAddresses : Usable(b) => b # a /\ domains'[b] = domains[b]
  BY <1>1, <1>2 DEF Usable
<1>8. Owners'
  BY <1>1, <1>6, <1>7 DEF Owners
<1>9. Generations' /\ Records'
  <2>1. Generations'
    BY <1>1, <1>2 DEF Generations
  <2>2. \A u \in Threads, j \in Indices : entries'[u][j] # NoEntry =>
          entries'[u][j] = entries[u][j]
    BY <1>3
  <2>3. Records'
    BY <2>2, <1>1, <1>2 DEF Records
  <2> QED
    BY <2>1, <2>3
<1>10. LateExitsTouchNothing'
  <2> SUFFICES ASSUME NEW u \in Threads, pc'[u] = "touch"
               PROVE  Alive(Touched(u))' \/ Touched(u)' \in died'[u]
    BY DEF LateExitsTouchNothing
  <2>1. u # t /\ pc[u] = "touch" /\ Touched(u)' = Touched(u)
    BY <1>1, <1>3 DEF Touched, Shapes
  <2>2. CASE Touched(u) \in died[u]
    BY <2>1, <2>2, <1>1
  <2>3. CASE Alive(Touched(u))
    <3>1. PICK b \in DomainAddresses : domains[b].number = Touched(u)
      BY <2>3 DEF Alive
    <3>2. CASE b = a
      BY <3>1, <3>2, <2>1, <1>1
    <3>3. CASE b # a
      BY <3>1, <3>3, <2>1, <1>2 DEF Alive
    <3> QED
      BY <3>2, <3>3
  <2> QED
    BY <2>1, <2>2, <2>3 DEF LateExitsTouchNothing
<1> QED
  BY <1>4, <1>5, <1>8, <1>9, <1>10

\* A thread caches the record of a domain that is there.
LEMMA RegisterInv ==
  ASSUME Inv, NEW t \in Threads, NEW a \in DomainAddresses, Register(t, a)
  PROVE  Inv'
<1> USE DEF Inv
<1> DEFINE i == domains[a].id
           new == [record |-> domains[a].number, domain |-> a,
                   generation |-> domains[a].generation]
<1>1. /\ pc[t] = "idle" /\ Usable(a) /\ domains[a] # NoDomain
      /\ domains[a] \in Domain
      /\ entries' = [entries EXCEPT ![t][i] = new]
      /\ UNCHANGED <<slots, domains, built, pc, position, died>>
  BY DEF Register, Usable, Shapes
<1>2. i \in Indices /\ new \in Entry
  BY <1>1 DEF Domain, Entry
<1>3. /\ entries'[t][i] = new
      /\ \A j \in Indices \ {i} : entries'[t][j] = entries[t][j]
      /\ \A u \in Threads \ {t} : entries'[u] = entries[u]
  BY <1>1, <1>2 DEF Shapes
<1>4. Shapes'
  <2>1. [entries[t] EXCEPT ![i] = new] \in [Indices -> {NoEntry} \cup Entry]
    BY <1>2 DEF Shapes
  <2>2. entries' \in [Threads -> [Indices -> {NoEntry} \cup Entry]]
    BY <2>1, <1>1 DEF Shapes
  <2> QED
    BY <1>1, <2>2 DEF Shapes
<1>5. Places' /\ Destroyers' /\ Owners' /\ Generations'
  BY <1>1, <1>3 DEF Places, Destroyers, Owners, Generations, Usable
<1>6. Records'
  <2>1. /\ new.generation <= slots[i].generation
        /\ \A b \in DomainAddresses :
              /\ domains[b] # NoDomain /\ domains[b].id = i
              /\ domains[b].generation = new.generation
              => domains[b].number = new.record
    BY <1>1 DEF Generations
  <2> QED
    BY <2>1, <1>1, <1>3 DEF Records
<1>7. LateExitsTouchNothing'
  BY <1>1, <1>3 DEF LateExitsTouchNothing, Touched, Alive
<1> QED
  BY <1>4, <1>5, <1>6, <1>7
-----------------------------------------------------------------------------
(* Thread exit *)

\* A step that leaves slots, domains, caches and destructors alone.
LEMMA QuietInv ==
  ASSUME Inv, UNCHANGED <<slots, domains, built, entries>>,
         \A t \in Threads : pc'[t] = "teardown" <=> pc[t] = "teardown",
         \A t \in Threads : pc[t] = "teardown" => position'[t] = position[t]
  PROVE  Destroyers' /\ Owners' /\ Generations' /\ Records'
<1> USE DEF Inv
<1>1. \A a \in DomainAddresses : Usable(a)' <=> Usable(a)
  BY DEF Usable
<1> QED
  BY <1>1 DEF Destroyers, Owners, Generations, Records

\* An exiting thread goes on to a slot's domain when that domain is there.
LEMMA ExitInv ==
  ASSUME Inv, NEW t \in Threads,
         ThreadExit(t) \/ ExitCheck(t) \/ ExitSkip(t) \/ ExitTouch(t) \/ ExitDone(t)
  PROVE  Inv'
<1> USE SlotsAssumption DEF Inv
<1>1. /\ UNCHANGED <<slots, domains, built, entries>>
      /\ pc[t] \in {"idle", "check", "touch"}
      /\ position[t] \in 0 .. SlotCount
      /\ pc' \in [Threads -> {"idle", "teardown", "check", "touch", "dead"}]
      /\ pc'[t] \in {"check", "touch", "dead"}
      /\ \A u \in Threads \ {t} : pc'[u] = pc[u] /\ position'[u] = position[u]
  <2> USE DEF ThreadExit, ExitCheck, ExitSkip, ExitTouch, ExitDone
  <2>1. UNCHANGED <<slots, domains, built, entries>>
    OBVIOUS
  <2>2. pc[t] \in {"idle", "check", "touch"}
    OBVIOUS
  <2>3. position[t] \in 0 .. SlotCount
    BY <2>2 DEF Places, Indices
  <2>4. /\ pc' \in [Threads -> {"idle", "teardown", "check", "touch", "dead"}]
        /\ pc'[t] \in {"check", "touch", "dead"}
        /\ \A u \in Threads \ {t} : pc'[u] = pc[u]
    BY DEF SlotsGoto, Shapes
  <2>5. \A u \in Threads \ {t} : position'[u] = position[u]
    BY DEF Shapes
  <2> QED
    BY <2>1, <2>2, <2>3, <2>4, <2>5
<1>2. /\ position' \in [Threads -> DomainAddresses \cup (0 .. SlotCount)]
      /\ position'[t] \in 0 .. SlotCount
  <2>1. CASE UNCHANGED position
    BY <2>1, <1>1 DEF Shapes
  <2>2. CASE position' = [position EXCEPT ![t] = @ + 1] /\ position[t] < SlotCount
    <3>1. position[t] + 1 \in 0 .. SlotCount
      BY <2>2, <1>1
    <3> QED
      BY <2>2, <3>1 DEF Shapes
  <2>3. pc[t] = "touch" => position[t] < SlotCount
    BY DEF Places, Indices
  <2> QED
    BY <2>1, <2>2, <2>3 DEF ThreadExit, ExitCheck, ExitSkip, ExitTouch, ExitDone
<1>3. died' \in [Threads -> SUBSET Nat]
  BY DEF ThreadExit, ExitCheck, ExitSkip, ExitTouch, ExitDone, Shapes
<1>4. Shapes'
  BY <1>1, <1>2, <1>3 DEF Shapes
<1>5. pc'[t] = "touch" =>
        /\ position'[t] = position[t] /\ position[t] \in Indices /\ Owes(t)
  BY <1>1 DEF ThreadExit, ExitCheck, ExitSkip, ExitTouch, ExitDone, SlotsGoto, Shapes,
              Indices
<1>6. Places'
  BY <1>1, <1>2, <1>5 DEF Places, Owes
<1>7. Destroyers' /\ Owners' /\ Generations' /\ Records'
  BY <1>1, QuietInv
<1>8. LateExitsTouchNothing'
  <2> SUFFICES ASSUME NEW u \in Threads, pc'[u] = "touch"
               PROVE  Alive(Touched(u))' \/ Touched(u)' \in died'[u]
    BY DEF LateExitsTouchNothing
  <2>1. CASE u # t
    <3>1. died'[u] = died[u]
      BY <2>1 DEF ThreadExit, ExitCheck, ExitSkip, ExitTouch, ExitDone, Shapes
    <3> QED
      BY <2>1, <3>1, <1>1 DEF LateExitsTouchNothing, Alive, Touched
  <2>2. CASE u = t
    <3> DEFINE i == position[t]
    <3>1. /\ i \in Indices /\ slots[i].taken /\ entries[t][i] # NoEntry
          /\ slots[i].generation = entries[t][i].generation
      BY <2>2, <1>5 DEF Owes, Live
    <3>2. PICK a \in DomainAddresses : Usable(a) /\ domains[a].id = position[t]
      BY <3>1 DEF Owners
    <3>3. domains[a] # NoDomain /\ domains[a].generation = slots[i].generation
      BY <3>2 DEF Usable, Owners
    <3>4. domains[a].number = entries[t][i].record
      BY <3>1, <3>2, <3>3 DEF Records
    <3> QED
      BY <2>2, <3>4, <1>1, <1>5 DEF Alive, Touched
  <2> QED
    BY <2>1, <2>2
<1> QED
  BY <1>4, <1>6, <1>7, <1>8

-----------------------------------------------------------------------------
(* The theorems *)

\* Every step of the process keeps the invariant.
LEMMA NextInv == Inv /\ [SlotsNext]_slotsVars => Inv'
<1> SUFFICES ASSUME Inv, [SlotsNext]_slotsVars PROVE Inv'
  OBVIOUS
<1>1. CASE SlotsNext
  BY <1>1, ConstructInv, ReleaseInv, RegisterInv, TeardownInv, ExitInv DEF SlotsNext
<1>2. CASE UNCHANGED slotsVars
  BY <1>2 DEF slotsVars, Inv, Shapes, Places, Destroyers, Owners, Generations,
              Records, Usable, LateExitsTouchNothing, Alive, Touched
<1> QED
  BY <1>1, <1>2

\* The invariant says what the three properties say.
LEMMA InvImplies ==
  Inv => LateExitsTouchNothing /\ CachedRecordsAreCurrent /\ SlotsHaveOwners
<1> SUFFICES ASSUME Inv
             PROVE  /\ LateExitsTouchNothing
                    /\ CachedRecordsAreCurrent
                    /\ SlotsHaveOwners
  OBVIOUS
<1> USE DEF Inv
<1>1. \A a \in DomainAddresses : Usable(a) =>
        domains[a] # NoDomain /\ domains[a].id \in Indices
  BY DEF Usable, Shapes, Domain
<1>2. CachedRecordsAreCurrent
  BY <1>1 DEF CachedRecordsAreCurrent, Cached, Records
<1>3. SlotsHaveOwners
  BY <1>1 DEF SlotsHaveOwners, Owners
<1> QED
  BY <1>2, <1>3

\* A domain that an exiting thread calls into was alive when the thread asked
\* slot_is_live() (epoch.cpp:80): only its destruction since then can hurt.
THEOREM LateExitsAreHarmless == SlotsSpec => []LateExitsTouchNothing
  BY InitInv, NextInv, InvImplies, PTL DEF SlotsSpec

\* The fast path of local_record() (epoch.cpp:137) gives no record of another
\* domain, however often slots and addresses have changed hands.
THEOREM CachesAreCurrent == SlotsSpec => []CachedRecordsAreCurrent
  BY InitInv, NextInv, InvImplies, PTL DEF SlotsSpec

\* acquire_slot() and the destructor (epoch.cpp:33, 98) neither lose a slot nor
\* give one to two domains.
THEOREM SlotsAreOwned == SlotsSpec => []SlotsHaveOwners
  BY InitInv, NextInv, InvImplies, PTL DEF SlotsSpec
=============================================================================
