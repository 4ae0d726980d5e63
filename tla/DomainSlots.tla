---------------------------- MODULE DomainSlots ----------------------------
(***************************************************************************)
(* The lifetime of epoch domains (src/src/epoch.cpp:10-139): the process's *)
(* slots, the records that threads cache per slot, the constructor and the *)
(* destructor of a domain, and the hook that runs when a thread exits.     *)
(*                                                                         *)
(* A domain is an object at an address that a later domain may have again. *)
(* Everything a domain owns is one thing here, known by the number of the  *)
(* domain: a record is the number of the domain that allocated it.         *)
(***************************************************************************)
EXTENDS Integers

CONSTANTS
    Threads,
    DomainAddresses,   \* where domains are constructed
    SlotCount,         \* max_epoch_domains, 8 in the code
    MaxDomains         \* domains that are ever constructed

ASSUME SlotsAssumption == SlotCount \in Nat /\ MaxDomains \in Nat

Indices == 0 .. SlotCount - 1

VARIABLES
    slots,     \* slots(): taken and generation
    domains,   \* the domain at each address: id_, generation_, its number
    built,     \* history: how many domains there have been
    entries,   \* tls_slots of each thread
    pc,        \* a thread's next step
    position,  \* ~thread_slots(): its i; ~epoch_domain(): its address
    died       \* history: domains that died since the thread saw one live

slotsVars == <<slots, domains, built, entries, pc, position, died>>

\* No domain is at the address, and nothing is cached in the entry.
NoDomain == [number |-> 0]
NoEntry == [record |-> 0]

SlotsInit ==
    /\ slots = [i \in Indices |-> [taken |-> FALSE, generation |-> 0]]
    /\ domains = [a \in DomainAddresses |-> NoDomain]
    /\ built = 0
    /\ entries = [t \in Threads |-> [i \in Indices |-> NoEntry]]
    /\ pc = [t \in Threads |-> "idle"]
    /\ position = [t \in Threads |-> 0]
    /\ died = [t \in Threads |-> {}]

SlotsGoto(t, l) == pc' = [pc EXCEPT ![t] = l]

\* Nobody has begun to destroy the domain.
Usable(a) ==
    domains[a] # NoDomain /\ \A t \in Threads : pc[t] = "teardown" => position[t] # a

-----------------------------------------------------------------------------
(* Domains *)

\* Mutant: the scan does not test whether a slot is taken.
VacantAny == Indices

Vacant == {i \in Indices : ~slots[i].taken}

Acquired(i) == [taken |-> TRUE, generation |-> slots[i].generation + 1]

\* The constructor: acquire_slot() takes the first slot that is vacant.
Construct(t, a) ==
    /\ pc[t] = "idle" /\ built < MaxDomains
    /\ domains[a] = NoDomain
    /\ \E i \in Vacant :
        /\ \A j \in Vacant : i <= j
        /\ slots' = [slots EXCEPT ![i] = Acquired(i)]
        /\ domains' = [domains EXCEPT ![a] =
               [number |-> built + 1, id |-> i, generation |-> slots'[i].generation]]
    /\ built' = built + 1
    /\ UNCHANGED <<entries, pc, position, died>>

\* The destructor gives the slot back first.
Release(t, a) ==
    /\ pc[t] = "idle" /\ Usable(a)
    /\ slots' = [slots EXCEPT ![domains[a].id].taken = FALSE]
    /\ position' = [position EXCEPT ![t] = a]
    /\ SlotsGoto(t, "teardown")
    /\ UNCHANGED <<domains, built, entries, died>>

\* The destroying thread forgets the record it had cached, if it had one.
Forget(t, a) ==
    [i \in Indices |->
        IF /\ i = domains[a].id /\ entries[t][i] # NoEntry
           /\ entries[t][i].domain = a
        THEN NoEntry ELSE entries[t][i]]

\* Then the records and the domain are gone.
Teardown(t) ==
    /\ pc[t] = "teardown"
    /\ entries' = [entries EXCEPT ![t] = Forget(t, position[t])]
    /\ died' = [u \in Threads |-> died[u] \cup {domains[position[t]].number}]
    /\ domains' = [domains EXCEPT ![position[t]] = NoDomain]
    /\ position' = [position EXCEPT ![t] = 0]
    /\ SlotsGoto(t, "idle")
    /\ UNCHANGED <<slots, built>>

-----------------------------------------------------------------------------
(* Threads *)

\* Mutant: the generation is not compared.
CachedForAddress(t, a) ==
    LET entry == entries[t][domains[a].id]
    IN  entry # NoEntry /\ entry.domain = a

\* The fast path of local_record(): the entry is this domain's.
Cached(t, a) ==
    LET entry == entries[t][domains[a].id]
    IN  /\ entry # NoEntry
        /\ entry.domain = a /\ entry.generation = domains[a].generation

\* The slow path: the thread registers and caches its record.
Register(t, a) ==
    /\ pc[t] = "idle" /\ Usable(a)
    /\ ~Cached(t, a)
    /\ entries' = [entries EXCEPT ![t][domains[a].id] =
           [record |-> domains[a].number, domain |-> a,
            generation |-> domains[a].generation]]
    /\ UNCHANGED <<slots, domains, built, pc, position, died>>

ThreadExit(t) ==
    /\ pc[t] = "idle"
    /\ SlotsGoto(t, "check")
    /\ UNCHANGED <<slots, domains, built, entries, position, died>>

\* Mutant: whether the slot is taken, by whatever domain.
LiveSlot(i, generation) == slots[i].taken

\* slot_is_live()
Live(i, generation) == slots[i].taken /\ slots[i].generation = generation

\* The thread has a record to give back to the domain in slot position[t].
Owes(t) ==
    /\ entries[t][position[t]] # NoEntry
    /\ Live(position[t], entries[t][position[t]].generation)

ExitCheck(t) ==
    /\ pc[t] = "check" /\ position[t] < SlotCount
    /\ Owes(t)
    /\ SlotsGoto(t, "touch")
    /\ died' = [died EXCEPT ![t] = {}]
    /\ UNCHANGED <<slots, domains, built, entries, position>>

ExitSkip(t) ==
    /\ pc[t] = "check" /\ position[t] < SlotCount
    /\ ~Owes(t)
    /\ position' = [position EXCEPT ![t] = @ + 1]
    /\ UNCHANGED <<slots, domains, built, entries, pc, died>>

\* release_thread_record() on the cached domain.
ExitTouch(t) ==
    /\ pc[t] = "touch"
    /\ position' = [position EXCEPT ![t] = @ + 1]
    /\ SlotsGoto(t, "check")
    /\ UNCHANGED <<slots, domains, built, entries, died>>

ExitDone(t) ==
    /\ pc[t] = "check" /\ position[t] = SlotCount
    /\ SlotsGoto(t, "dead")
    /\ UNCHANGED <<slots, domains, built, entries, position, died>>

-----------------------------------------------------------------------------
SlotsNext == \E t \in Threads :
    \/ \E a \in DomainAddresses : Construct(t, a) \/ Release(t, a) \/ Register(t, a)
    \/ Teardown(t)
    \/ ThreadExit(t) \/ ExitCheck(t) \/ ExitSkip(t) \/ ExitTouch(t) \/ ExitDone(t)

SlotsSpec == SlotsInit /\ [][SlotsNext]_slotsVars

-----------------------------------------------------------------------------
(* Properties *)

\* The domain that allocated the record a thread touches is still there.
Alive(number) == \E a \in DomainAddresses : domains[a].number = number

Touched(t) == entries[t][position[t]].record

\* "Only touch the domain if it is still the one we registered with"
\* (epoch.cpp:79): an exiting thread never calls into a domain that is gone.
ExitTouchesOnlyLiveDomains ==
    \A t \in Threads : pc[t] = "touch" => Alive(Touched(t))

\* "Any thread that exits from here on sees a stale generation and leaves us
\* alone" (epoch.cpp:97-98): the domain that a thread touches was alive when the
\* thread looked, also when its slot or its address has changed hands.
LateExitsTouchNothing ==
    \A t \in Threads :
        pc[t] = "touch" => Alive(Touched(t)) \/ Touched(t) \in died[t]

\* "The generation counter distinguishes this domain from a later one that
\* reuses the same index" (epoch.cpp:15-17): the fast path of local_record()
\* never hands out a record of a domain that is gone.
CachedRecordsAreCurrent ==
    \A t \in Threads, a \in DomainAddresses :
        Usable(a) /\ pc[t] # "dead" /\ Cached(t, a) =>
            entries[t][domains[a].id].record = domains[a].number

\* Every taken slot has one domain, which knows its generation: domains are
\* told apart, and no slot is lost when domains come and go.
SlotsHaveOwners ==
    \A i \in Indices :
        /\ slots[i].taken <=> \E a \in DomainAddresses : Usable(a) /\ domains[a].id = i
        /\ \A a, b \in DomainAddresses :
            /\ Usable(a) /\ domains[a].id = i
            /\ Usable(b) /\ domains[b].id = i
            => a = b /\ domains[a].generation = slots[i].generation
=============================================================================
