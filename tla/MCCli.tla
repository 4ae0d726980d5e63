-------------------------------- MODULE MCCli --------------------------------
(* What one process does, for TLC: the tool and the tries of MCRadixTrie with six *)
(* prefixes, the conversions of addresses, and the domains that come and go.      *)
EXTENDS Cli, Address, DomainSlots, TLC

KeyList == << << >>, << >>, <<0, 0>>, <<0, 0>>, <<0, 1>>, <<0, 1>>, <<0>>, <<0>>,
              <<1>>, <<1>>, <<1, 0>>, <<1, 0>> >>

MCPrefixes == Members(KeyList)
MCNodes == 1 .. 12
MCValues == 13 .. 24
MCEntries == [b \in MCValues |-> KeyList[b - 12]]

Rib(bytes, length, bits) == [rib |-> TRUE, bytes |-> bytes, length |-> length, bits |-> bits]

\* Routes of every length, one written with its host bit set, and a record of
\* each kind that is skipped: foreign, without a header, too long, cut short.
MCRecords == {Rib(0, 0, <<0, 0>>), Rib(1, 1, <<0, 1>>), Rib(1, 2, <<0, 1>>),
              Rib(1, 2, <<1, 0>>), Rib(NoHeader, 0, <<0, 0>>), Rib(1, 3, <<0, 0>>),
              Rib(0, 1, <<0, 1>>), [Rib(1, 1, <<1, 0>>) EXCEPT !.rib = FALSE]}

MCReserved == {<<1>>}

\* Half of a word, and two whole words.
MCShapes == {[word |-> 6, used |-> 3, count |-> 1], [word |-> 2, used |-> 2, count |-> 2]}

\* Between two commands addresses are converted and domains come and go; the three
\* share no state, so each is looked at while the others rest.
MCInit == CliInit /\ AddressInit /\ SlotsInit

Command == CliNext /\ UNCHANGED <<subject, slotsVars>>

Convert == AddressNext /\ UNCHANGED <<cliVars, slotsVars>>

\* No domain was constructed, and no thread has begun to exit.
Fresh == built = 0 /\ \A t \in Threads : pc[t] = "idle"

\* When all its threads are dead the process is over.
Over == (\A t \in Threads : pc[t] = "dead") /\ UNCHANGED slotsVars

Domains == (SlotsNext \/ Over) /\ UNCHANGED <<cliVars, subject>>

MCNext ==
    \/ subject = Nothing /\ Fresh /\ Command
    \/ phase = "start" /\ Fresh /\ Convert
    \/ phase = "start" /\ subject = Nothing /\ Domains

\* Threads, and the addresses of domains, are interchangeable.
SlotsSymmetry == Permutations(Threads) \cup Permutations(DomainAddresses)

MCSpec == MCInit /\ [][MCNext]_<<cliVars, subject, slotsVars>>
=============================================================================
