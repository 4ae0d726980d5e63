--------------------------------- MODULE Cli ---------------------------------
(***************************************************************************)
(* The command line tool (src/tools/cli.cpp): load a table, build a trie   *)
(* of it in sorted order, report on it, and exit.  The same process also   *)
(* stands for any other owner of a trie: `phase` "client" is the writer of *)
(* RadixTrie, which no command stops.                                      *)
(***************************************************************************)
EXTENDS TrieWalks, TableSource

CONSTANT Counts   \* the values of --prefixes, a size_t

ASSUME CliAssumption == Counts \subseteq Nat

Commands == {"info", "lookup", "verify", "dump"}

VARIABLES
    phase,     \* where the process is
    command,   \* the command it runs
    next       \* how many of the prefixes are in the trie

toolVars == <<phase, command, next>>
cliVars == <<trieVars, sourceVars, toolVars>>

CliInit ==
    /\ TrieInit /\ SourceInit
    /\ command = "none" /\ next = 0
    /\ \/ phase = "client" /\ deferred = TRUE
       \/ phase = "start" /\ deferred = FALSE

-----------------------------------------------------------------------------
\* main() and parse(): a dump if --mrt is given, a generated table if not.
Start(c, count) ==
    /\ phase = "start"
    /\ phase' = "load"
    /\ command' = c
    /\ OpenDump(count) \/ Generate(count)
    /\ UNCHANGED <<trieVars, next>>

Load ==
    /\ phase = "load"
    /\ LoadStep
    /\ UNCHANGED <<trieVars, toolVars>>

\* Everything the process had is gone.
Quit ==
    /\ phase' = "start"
    /\ command' = "none" /\ next' = 0
    /\ source' = "none" /\ wanted' = 0 /\ prefixes' = << >>
    /\ dump' = << >> /\ skipped' = 0 /\ failed' = FALSE
    /\ blocks' = << >> /\ attempts' = 0

Loaded == phase = "load" /\ source \in {"read", "generated"}

\* load_table(): an empty vector when there is an error, and exit code 1.
Refuse ==
    /\ Loaded
    /\ failed \/ prefixes = << >>
    /\ Quit
    /\ UNCHANGED trieVars

\* load_table() sorts what a dump gave; lookup uses an rcu_fib, the other
\* commands a trie with immediate_reclaim.
Accept ==
    /\ Loaded
    /\ ~failed /\ prefixes # << >>
    /\ phase' = "build"
    /\ prefixes' = Sorted(prefixes)
    /\ dump' = << >> /\ blocks' = << >>   \* locals of the loader
    /\ skipped' = 0 /\ attempts' = 0
    /\ source' = "none"
    /\ deferred' = (command = "lookup")
    /\ UNCHANGED <<memory, counters, life, writer, reader, history, wanted,
                   failed, command, next>>

\* trie.insert(prefixes[i], ...), or the same in fib.apply(batch).
Build ==
    /\ phase = "build" /\ next < Len(prefixes)
    /\ Insert(prefixes[next + 1])
    /\ next' = next + 1
    /\ UNCHANGED <<sourceVars, phase, command>>

\* verify's brute force: the longest prefix of the reference that contains
\* the address, 0 (-1 in the code) if none does.
BruteForce(a) ==
    LET Want[i \in 0 .. Len(prefixes)] ==
            IF i = 0 THEN [best |-> -1, want |-> 0]
            ELSE IF Matches(prefixes[i], a) /\ Len(prefixes[i]) > Want[i - 1].best
                 THEN [best |-> Len(prefixes[i]), want |-> i]
                 ELSE Want[i - 1]
    IN  Want[Len(prefixes)].want

\* lookup's second search, for the prefix to print; it begins with 0.0.0.0/0.
Matched(a) ==
    LET Scan[i \in 0 .. Len(prefixes)] ==
            IF i = 0 THEN << >>
            ELSE IF Matches(prefixes[i], a) /\ Len(prefixes[i]) >= Len(Scan[i - 1])
                 THEN prefixes[i] ELSE Scan[i - 1]
    IN  Scan[Len(prefixes)]

\* generate_traffic(): any address inside a prefix of the table, or, one time
\* in a hundred, any address at all.
Traffic == {a \in Hosts : \E p \in Members(prefixes) : Matches(p, a)} \cup Hosts

Built == phase = "build" /\ next = Len(prefixes)

\* The report only reads; then the trie and the process end.
Exit ==
    /\ Built
    /\ Destroy
    /\ deferred' = FALSE
    /\ Quit

CliNext ==
    \/ phase = "client" /\ Next /\ UNCHANGED <<sourceVars, toolVars>>
    \/ \E c \in Commands, n \in Counts : Start(c, n)
    \/ Load \/ Refuse \/ Accept \/ Build \/ Exit

CliSpec == CliInit /\ [][CliNext]_cliVars

-----------------------------------------------------------------------------
(* Properties *)

\* What the tool says of a table is so: size() is the number of prefixes
\* loaded (cli.cpp:98), dump prints them in the order of the sorted vector,
\* verify counts no mismatch between lookup() and its brute force
\* (cli.cpp:199), and lookup prints the prefix that the entry it found
\* belongs to (cli.cpp:162).
ReportsAgree ==
    Built =>
        /\ size = Len(prefixes)
        /\ Walked = prefixes
        /\ \A a \in Traffic :
            LET got == Lookup(a)
                want == BruteForce(a)
            IN  /\ (got = Null) <=> (want = 0)
                /\ got # Null => /\ EntryOf[got] = prefixes[want]
                                 /\ EntryOf[got] = Matched(a)
=============================================================================
