-------------------------------- MODULE Rib --------------------------------
(***************************************************************************)
(* The routing table and its synchroniser, src/include/rcufib/rib.hpp, and *)
(* best-path selection of route.hpp: rib, rib_entry and fib_synchroniser.  *)
(*                                                                         *)
(* One control-plane thread calls all of it, so a call runs to its end     *)
(* before the next begins; the steps inside flush() are the ones that the  *)
(* forwarding side can see.  The forwarding table is a function from       *)
(* prefixes to entries, what ForwardingTable says insert and erase do.     *)
(***************************************************************************)
EXTENDS Integers, Sequences, FiniteSets

CONSTANTS
    Prefixes,
    Routes,       \* the routes on offer: records of source, hop and metric
    Limits,       \* arguments of flush() and flush_all(); 0 is no limit
    MaxMarks      \* calls of mark_dirty()

Distances == [connected |-> 0, local |-> 0, static_route |-> 1, isis |-> 115,
              ospf |-> 110, bgp |-> 200]

ASSUME RibAssumption ==
    /\ \A r \in Routes :
        DOMAIN r = {"source", "hop", "metric"}
            /\ r.source \in DOMAIN Distances /\ r.metric \in Nat
    /\ Limits \subseteq Nat /\ MaxMarks \in Nat

Sources == {r.source : r \in Routes}

VARIABLES
    table,       \* rib::table_: the routes of each prefix, the winner first
    dirty,       \* dirty_
    batch,       \* batch_
    take,        \* flush(): how many more prefixes to take
    drain,       \* flush_all(): its batch_size, or NotDraining
    pc,          \* the synchroniser's next step
    generation,  \* generation_
    stats,       \* sync_stats
    fib,         \* the forwarding table
    forgotten    \* history: prefixes that clear() dropped without a mark

rib == <<table, forgotten>>
flushing == <<batch, take, drain, pc, generation, fib>>
vars == <<table, dirty, batch, take, drain, pc, generation, stats, fib, forgotten>>

NotDraining == -1

\* No route, and no entry in the forwarding table.
None == [source |-> "none"]

Init ==
    /\ table = [p \in Prefixes |-> << >>]
    /\ dirty = {}
    /\ batch = << >>
    /\ take = 0
    /\ drain = NotDraining
    /\ pc = "idle"
    /\ generation = 0
    /\ stats = [marked |-> 0, coalesced |-> 0, adds |-> 0, removes |-> 0,
                updates_programmed |-> 0]
    /\ fib = [p \in Prefixes |-> None]
    /\ forgotten = {}

-----------------------------------------------------------------------------
(* Best-path selection *)

\* preferred_over(): administrative distance first, then metric.
Preferred(r, q) ==
    \/ Distances[r.source] < Distances[q.source]
    \/ Distances[r.source] = Distances[q.source] /\ r.metric < q.metric

\* Of two places in a list the first has the better route, or one as good.
Before(s, j, i) ==
    \/ Preferred(s[j], s[i])
    \/ ~Preferred(s[i], s[j]) /\ j <= i

\* std::stable_sort: routes that tie keep their order.
Sorted(s) ==
    LET Rank(i) == Cardinality({j \in DOMAIN s : Before(s, j, i)})
    IN  [k \in DOMAIN s |-> s[CHOOSE i \in DOMAIN s : Rank(i) = k]]

\* The routes with one protocol's offering inserted or replaced.
Placed(s, c) ==
    IF \E i \in DOMAIN s : s[i].source = c.source
    THEN [i \in DOMAIN s |-> IF s[i].source = c.source THEN c ELSE s[i]]
    ELSE Append(s, c)

\* Mutant: a replaced offering keeps its place.
OfferUnsorted(s, c) == Placed(s, c)

Offer(s, c) == Sorted(Placed(s, c))

\* std::erase_if: the routes of the other protocols keep their order.
Withdraw(s, source) ==
    LET kept == {i \in DOMAIN s : s[i].source # source}
        At(k) == CHOOSE i \in kept : Cardinality({j \in kept : j <= i}) = k
    IN  [k \in 1 .. Cardinality(kept) |-> s[At(k)]]

\* Mutant: the route that was offered last.
BestLast(s) == IF s = << >> THEN None ELSE s[Len(s)]

Best(s) == IF s = << >> THEN None ELSE Head(s)

\* Mutant: a new next hop from the same protocol only.
ChangedHopOnly(s, t) ==
    \/ (s = << >>) # (t = << >>)
    \/ s # << >> /\ t # << >> /\ Best(t).hop # Best(s).hop

\* What add() and remove() return: the winner is another one.
Changed(s, t) ==
    \/ (s = << >>) # (t = << >>)
    \/ /\ s # << >> /\ t # << >>
       /\ Best(t).source # Best(s).source \/ Best(t).hop # Best(s).hop

-----------------------------------------------------------------------------
(* The control plane: a RIB change, and the mark it owes the synchroniser *)

Marks == stats.marked + stats.coalesced

\* Mutant: every mark counts as a new one.
MarkedAlways(p) == [stats EXCEPT !.marked = @ + 1]

\* The counters after mark_dirty(p).
Marked(p) ==
    IF p \in dirty THEN [stats EXCEPT !.coalesced = @ + 1]
                   ELSE [stats EXCEPT !.marked = @ + 1]

\* The caller has to mark a prefix whose winner changed, and may mark others.
Update(p, routes) ==
    /\ pc = "idle" /\ Marks < MaxMarks
    /\ table' = [table EXCEPT ![p] = routes]
    /\ \/ /\ dirty' = dirty \cup {p}
          /\ stats' = Marked(p)
          /\ forgotten' = forgotten \ {p}
       \/ /\ ~Changed(table[p], routes)
          /\ UNCHANGED <<dirty, stats, forgotten>>
    /\ UNCHANGED flushing

Add(p, r) == Update(p, Offer(table[p], r))

Remove(p, source) == Update(p, Withdraw(table[p], source))

\* rib::clear() empties the table, and tells the synchroniser nothing.
Clear ==
    /\ pc = "idle"
    /\ table' = [p \in Prefixes |-> << >>]
    /\ forgotten' = forgotten \cup {p \in Prefixes : table[p] # << >>}
    /\ UNCHANGED <<dirty, stats, flushing>>

-----------------------------------------------------------------------------
(* flush and flush_all *)

\* Mutant: a limit of 0 is a limit.
TakeLiteral(limit) == IF limit < Cardinality(dirty) THEN limit ELSE Cardinality(dirty)

\* Mutant: more is taken than there is.
TakeUnbounded(limit) == IF limit = 0 THEN Cardinality(dirty) ELSE limit

Take(limit) ==
    IF limit = 0 \/ Cardinality(dirty) < limit THEN Cardinality(dirty) ELSE limit

StartFlush(limit) ==
    /\ batch' = << >>
    /\ take' = Take(limit)
    /\ pc' = "resolve"
    /\ UNCHANGED <<rib, dirty, generation, stats, fib>>

Flush(limit) ==
    /\ pc = "idle" /\ dirty # {}
    /\ StartFlush(limit)
    /\ UNCHANGED drain

FlushAll(limit) ==
    /\ pc = "idle" /\ dirty # {}
    /\ StartFlush(limit)
    /\ drain' = limit

FlushAgain ==
    /\ pc = "again"
    /\ StartFlush(drain)
    /\ UNCHANGED drain

\* Mutant: the generation of an entry is its place in the batch.
StampLocal == Len(batch) + 1

\* ++generation_
Stamp == generation + 1

\* A dirty prefix, in the order of the hash table, is resolved once.
Resolve(p) ==
    /\ pc = "resolve" /\ take > 0
    /\ p \in dirty
    /\ dirty' = dirty \ {p}
    /\ take' = take - 1
    /\ LET best == Best(table[p])
       IN  \/ /\ best # None
              /\ generation' = Stamp
              /\ batch' = Append(batch,
                     [prefix |-> p, kind |-> "add",
                      entry |-> [source |-> best.source, hop |-> best.hop,
                                 generation |-> generation']])
              /\ stats' = [stats EXCEPT !.adds = @ + 1]
           \/ /\ best = None
              /\ batch' = Append(batch, [prefix |-> p, kind |-> "remove"])
              /\ stats' = [stats EXCEPT !.removes = @ + 1]
              /\ UNCHANGED generation
    /\ UNCHANGED <<rib, drain, pc, fib>>

Resolved ==
    /\ pc = "resolve" /\ take = 0
    /\ pc' = "apply"
    /\ UNCHANGED <<rib, dirty, batch, take, drain, generation, stats, fib>>

\* fib_.apply(): the updates of the batch in order.
Apply ==
    /\ pc = "apply" /\ batch # << >>
    /\ LET update == Head(batch)
       IN  fib' = [fib EXCEPT ![update.prefix] =
                      IF update.kind = "add" THEN update.entry ELSE None]
    /\ batch' = Tail(batch)
    /\ stats' = [stats EXCEPT !.updates_programmed = @ + 1]
    /\ UNCHANGED <<rib, dirty, take, drain, pc, generation>>

\* flush() returns, to its caller or to the loop of flush_all().
Applied ==
    /\ pc = "apply" /\ batch = << >>
    /\ \/ /\ drain # NotDraining /\ dirty # {}
          /\ pc' = "again"
          /\ UNCHANGED drain
       \/ /\ drain = NotDraining \/ dirty = {}
          /\ pc' = "idle"
          /\ drain' = NotDraining
    /\ UNCHANGED <<rib, dirty, batch, take, generation, stats, fib>>

-----------------------------------------------------------------------------
FlushStep ==
    \/ \E p \in Prefixes : Resolve(p)
    \/ Resolved \/ Apply \/ Applied \/ FlushAgain

Next ==
    \/ \E p \in Prefixes :
        (\E r \in Routes : Add(p, r)) \/ (\E s \in Sources : Remove(p, s))
    \/ Clear
    \/ \E l \in Limits : Flush(l) \/ FlushAll(l)
    \/ FlushStep

Spec == Init /\ [][Next]_vars

\* The thread keeps running, and calls flush_all() again and again.
Fairness == WF_vars(FlushStep) /\ SF_vars(\E l \in Limits : FlushAll(l))

FairSpec == Spec /\ Fairness

-----------------------------------------------------------------------------
(* Properties *)

Entries ==
    {[source |-> r.source, hop |-> r.hop, generation |-> g] :
        r \in Routes, g \in 1 .. MaxMarks} \cup {None}

\* The shape of the RIB, of the synchroniser and of the forwarding table.
TypeOK ==
    /\ \A p \in Prefixes : table[p] \in Seq(Routes)
    /\ dirty \subseteq Prefixes /\ forgotten \subseteq Prefixes
    /\ take \in 0 .. Cardinality(dirty)
    /\ drain \in Limits \cup {NotDraining}
    /\ pc \in {"idle", "resolve", "apply", "again"}
    /\ generation \in 0 .. MaxMarks
    /\ fib \in [Prefixes -> Entries]

\* The forwarding entry says what a route says.
Agrees(entry, r) ==
    /\ entry.source = r.source
    /\ r # None => entry.hop = r.hop

InBatch(p) == \E i \in DOMAIN batch : batch[i].prefix = p

\* add() and remove() tell "the only case the FIB needs to hear about"
\* (rib.hpp:102-103): marking on nothing but their result is enough for every
\* prefix that is not waiting to be programmed to forward as the RIB says.
InStep ==
    \A p \in Prefixes \ (dirty \cup forgotten) :
        ~InBatch(p) => Agrees(fib[p], Best(table[p]))

\* What no other route of the prefix beats.
Unbeaten(p) ==
    {r \in Routes : \E i \in DOMAIN table[p] :
        table[p][i] = r /\ \A j \in DOMAIN table[p] : ~Preferred(table[p][j], r)}

\* "Any intermediate states this prefix passed through never reach the
\* forwarding plane" (rib.hpp:212-214), and a prefix with a route left falls
\* back instead of vanishing: what is programmed is a winner of that moment.
ProgramsWinners ==
    \A p \in Prefixes : fib'[p] # fib[p] =>
        IF fib'[p] = None THEN table[p] = << >>
                          ELSE \E r \in Unbeaten(p) : Agrees(fib'[p], r)

OnlyWinnersProgrammed == [][ProgramsWinners]_vars

\* One route for each protocol, and the first is beaten by none, whatever was
\* offered, replaced, made worse and withdrawn before.
WinnerFirst ==
    \A p \in Prefixes :
        /\ \A i, j \in DOMAIN table[p] :
            table[p][i].source = table[p][j].source => i = j
        /\ table[p] # << >> => Head(table[p]) \in Unbeaten(p)

\* "Bumped on every reprogramming" (route.hpp:82-83): an entry that reaches the
\* forwarding table is younger than every entry that is in it.
ProgramsYounger ==
    \A p, q \in Prefixes :
        fib'[p] \notin {fib[p], None} /\ fib[q] # None =>
            fib[q].generation < fib'[p].generation

GenerationsIncrease == [][ProgramsYounger]_vars

\* coalesce_ratio (rib.hpp:166-171): a mark that was not coalesced is still
\* pending, in the batch or programmed, so it counts the saved FIB writes.
MarksAccountedFor ==
    /\ stats.marked =
          Cardinality(dirty) + Len(batch) + stats.updates_programmed
    /\ stats.adds + stats.removes = Len(batch) + stats.updates_programmed

\* The FIB converges on the RIB once the routes stop changing, whatever the
\* limits of the flushes were.
Converges ==
    <>[](\A p \in Prefixes :
            p \notin forgotten => Agrees(fib[p], Best(table[p])))
=============================================================================
