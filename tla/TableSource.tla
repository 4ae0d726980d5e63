----------------------------- MODULE TableSource -----------------------------
(***************************************************************************)
(* Where a table comes from: load_mrt_prefixes() (src/src/mrt.cpp), which  *)
(* decodes a dump record by record, and generate_prefixes()                *)
(* (src/src/synthetic.cpp), which carves prefixes out of allocations.      *)
(*                                                                         *)
(* What the file holds and what the generator draws are chosen as the      *)
(* loops come to them.  A record is reduced to what decides its fate:      *)
(* whether its type is an IPv4 RIB, how many bytes of the prefix follow    *)
(* the first five bytes of the body (NoHeader if there are not five), the  *)
(* length it claims, and the address bits in those bytes.                  *)
(***************************************************************************)
EXTENDS Prefix, FiniteSets

CONSTANTS
    ByteBits,          \* bits in a byte, 8 in the code
    FileRecords,       \* the records a dump may hold
    MaxRecords,        \* how many of them
    HaveZlib,          \* RCUFIB_HAVE_ZLIB
    OctetBits,         \* the first octet, 8 bits in the code
    Reserved,          \* the first octets that is_reserved() refuses
    BlockLengths,      \* lengths of the allocations, 8 .. 12 in the code
    AllocationBlocks,  \* synthetic_options::allocation_blocks, 400
    DefaultRoute,      \* what include_default_route may be, true for the tool
    MaskLengths,       \* lengths in the distribution, 8 .. 30 in the code
    AttemptsEach,      \* attempts for each prefix, 20 in the code
    SpareAttempts      \* attempts on top of them, 1000 in the code

NoHeader == -1

RecordType == [rib : BOOLEAN, bytes : NoHeader .. Width, length : 0 .. Width + 1,
               bits : Hosts]

ASSUME SourceAssumption ==
    /\ FileRecords \subseteq RecordType
    /\ ByteBits \in 1 .. Width /\ OctetBits \in 1 .. Width
    /\ Reserved \subseteq [1 .. OctetBits -> Bits]
    /\ BlockLengths \subseteq OctetBits .. Width /\ MaskLengths \subseteq 1 .. Width
    /\ MaxRecords \in Nat /\ AllocationBlocks \in Nat \ {0}
    /\ DefaultRoute \subseteq BOOLEAN
    /\ AttemptsEach \in Nat /\ SpareAttempts \in Nat

VARIABLES
    source,     \* where the loader is
    wanted,     \* `limit`, or prefix_count
    prefixes,   \* result.prefixes, or `out`
    dump,       \* history: the records the loop has read
    skipped,    \* records_skipped
    failed,     \* there is an error text
    blocks,     \* the allocations
    attempts

sourceVars == <<source, wanted, prefixes, dump, skipped, failed, blocks, attempts>>

Members(s) == {s[i] : i \in DOMAIN s}

SourceInit ==
    /\ source = "none"
    /\ wanted = 0
    /\ prefixes = << >>
    /\ dump = << >>
    /\ skipped = 0
    /\ failed = FALSE
    /\ blocks = << >>
    /\ attempts = 0

-----------------------------------------------------------------------------
(* load_mrt_prefixes *)

\* The formats this build decompresses itself.
Readable(format) == format = "plain" \/ (format = "gz" /\ HaveZlib)

OpenDump(limit) ==
    /\ source = "none"
    /\ wanted' = limit
    /\ \/ \E format \in {"plain", "gz", "bz2"} : Readable(format)
          /\ source' = "file" /\ UNCHANGED failed
       \/ source' = "read" /\ failed' = TRUE
    /\ UNCHANGED <<prefixes, dump, skipped, blocks, attempts>>

\* An error, or no IPv4 route in the whole file.
Finish(broken) ==
    /\ source' = "read"
    /\ failed' = (broken \/ prefixes' = << >>)

\* The end of the file: at a record boundary, inside a header or inside a body.
EndOfFile ==
    /\ source = "file"
    /\ UNCHANGED prefixes
    /\ Finish(FALSE)
    /\ UNCHANGED <<wanted, dump, skipped, blocks, attempts>>

\* A length field that no record has.
ImplausibleLength ==
    /\ source = "file"
    /\ UNCHANGED prefixes
    /\ Finish(TRUE)
    /\ UNCHANGED <<wanted, dump, skipped, blocks, attempts>>

PrefixBytes(length) == (length + ByteBits - 1) \div ByteBits

\* Mutant: the bytes of the prefix are rounded down.
DecodableShort(r) ==
    /\ r.rib /\ r.bytes # NoHeader
    /\ r.length <= Width /\ r.bytes >= r.length \div ByteBits

\* The tests before the bytes of the prefix are read.
Decodable(r) ==
    /\ r.rib /\ r.bytes # NoHeader
    /\ r.length <= Width /\ r.bytes >= PrefixBytes(r.length)

SkipRecord(r) ==
    /\ source = "file" /\ Len(dump) < MaxRecords
    /\ ~Decodable(r)
    /\ dump' = Append(dump, r)
    /\ skipped' = skipped + 1
    /\ UNCHANGED <<source, wanted, prefixes, failed, blocks, attempts>>

\* The first `limit` prefixes are enough; 0 is no limit.
Enough(n) == wanted # 0 /\ n >= wanted

\* Bytes that are not there stay 0; the constructor clears the host bits.
Decoded(r) ==
    PrefixOf([i \in 1 .. Width |-> IF i <= r.bytes * ByteBits THEN r.bits[i] ELSE 0],
             r.length)

TakeRecord(r) ==
    /\ source = "file" /\ Len(dump) < MaxRecords
    /\ Decodable(r)
    /\ dump' = Append(dump, r)
    /\ \/ /\ Decoded(r) \in Members(prefixes)
          /\ UNCHANGED <<source, prefixes, failed>>
       \/ /\ Decoded(r) \notin Members(prefixes)
          /\ prefixes' = Append(prefixes, Decoded(r))
          /\ IF Enough(Len(prefixes) + 1) THEN Finish(FALSE)
                                          ELSE UNCHANGED <<source, failed>>
    /\ UNCHANGED <<wanted, skipped, blocks, attempts>>

-----------------------------------------------------------------------------
(* generate_prefixes *)

Generate(count) ==
    /\ source = "none"
    /\ source' = "blocks"
    /\ wanted' = count
    /\ UNCHANGED <<prefixes, dump, skipped, failed, blocks, attempts>>

IsReserved(octet) == octet \in Reserved

\* A draw with a reserved first octet is repeated.
DrawBlock(raw, length) ==
    /\ source = "blocks" /\ Len(blocks) < AllocationBlocks
    /\ ~IsReserved(SubSeq(raw, 1, OctetBits))
    /\ blocks' = Append(blocks, PrefixOf(raw, length))
    /\ UNCHANGED <<source, wanted, prefixes, dump, skipped, failed, attempts>>

\* The default route comes first, unless a caller asks otherwise.
BlocksDrawn ==
    /\ source = "blocks" /\ Len(blocks) = AllocationBlocks
    /\ source' = "carve"
    /\ \E default \in DefaultRoute :
           prefixes' = IF default THEN << << >> >> ELSE << >>
    /\ UNCHANGED <<wanted, dump, skipped, failed, blocks, attempts>>

AttemptLimit == wanted * AttemptsEach + SpareAttempts

Carving == Len(prefixes) < wanted /\ attempts < AttemptLimit

\* Mutant: the candidate is appended without a look at `seen`.
IsNewAlways(p) == TRUE

\* seen.insert(candidate).second
IsNew(p) == p \notin Members(prefixes)

\* A length shorter than the allocation's is an attempt without a candidate.
Carve(block, raw, length) ==
    /\ source = "carve" /\ Carving
    /\ attempts' = attempts + 1
    /\ LET candidate == PrefixOf([i \in 1 .. Width |->
                           IF i <= Len(block) THEN block[i] ELSE raw[i]], length)
       IN  prefixes' = IF length >= Len(block) /\ IsNew(candidate)
                       THEN Append(prefixes, candidate) ELSE prefixes
    /\ UNCHANGED <<source, wanted, dump, skipped, failed, blocks>>

\* Mutant: the vector stays in the order it was filled.
SortedNot(s) == s

\* The first place comes no later than the second in an order of the vector.
NotAfter(s, j, i) == Before(s[j], s[i]) \/ (s[j] = s[i] /\ j <= i)

\* std::sort: a place for each, by how many are not after it.
Sorted(s) ==
    LET Rank(i) == Cardinality({j \in DOMAIN s : NotAfter(s, j, i)})
    IN  [k \in DOMAIN s |-> s[CHOOSE i \in DOMAIN s : Rank(i) = k]]

CarveDone ==
    /\ source = "carve" /\ ~Carving
    /\ prefixes' = Sorted(prefixes)
    /\ source' = "generated"
    /\ UNCHANGED <<wanted, dump, skipped, failed, blocks, attempts>>

LoadStep ==
    \/ EndOfFile \/ ImplausibleLength
    \/ \E r \in FileRecords : SkipRecord(r) \/ TakeRecord(r)
    \/ \E raw \in Hosts :
        \/ \E length \in BlockLengths : DrawBlock(raw, length)
        \/ \E b \in Members(blocks), length \in MaskLengths : Carve(b, raw, length)
    \/ BlocksDrawn \/ CarveDone

-----------------------------------------------------------------------------
(* Properties *)

\* What a record is for, by RFC 6396: the first `length` bits of its prefix,
\* provided that all of them are in the record.
Holds(r, p) ==
    /\ r.rib /\ r.length = Len(p) /\ r.length <= r.bytes * ByteBits
    /\ \A i \in 1 .. Len(p) : r.bits[i] = p[i]

\* load_mrt_prefixes(): the result is what the records before the end hold,
\* once each and in the order in which they first appear, every other record
\* is counted as skipped, a limit is reached and never passed, and success
\* without a prefix is never reported (mrt.hpp:28-33).
LoadedFile ==
    source \in {"file", "read"} =>
        /\ Members(prefixes) = {p \in Keys : \E i \in DOMAIN dump : Holds(dump[i], p)}
        /\ \A i, j \in DOMAIN prefixes : i < j =>
            \E m \in DOMAIN dump :
                /\ Holds(dump[m], prefixes[i])
                /\ \A l \in 1 .. m : ~Holds(dump[l], prefixes[j])
        /\ skipped = Cardinality({i \in DOMAIN dump : \A p \in Keys : ~Holds(dump[i], p)})
        /\ wanted # 0 => Len(prefixes) <= wanted
        /\ source = "read" /\ ~failed => prefixes # << >>

\* "Generate a deduplicated prefix set.  The result is sorted" (synthetic.hpp:46):
\* as many routes as asked for unless the attempts ran out, each of them inside an
\* allocation, except the default route, so that "address ranges no global table
\* carries" (synthetic.cpp:11) stay out.
GeneratedTable ==
    source = "generated" =>
        /\ \A i, j \in DOMAIN prefixes : i < j => Before(prefixes[i], prefixes[j])
        /\ Len(prefixes) <= (IF wanted = 0 THEN 1 ELSE wanted)
        /\ Len(prefixes) < wanted => attempts = AttemptLimit
        /\ \A p \in Members(prefixes) \ {<< >>} :
            /\ \E b \in Members(blocks) : Matches(b, p)
            /\ Len(p) >= OctetBits /\ SubSeq(p, 1, OctetBits) \notin Reserved
=============================================================================
