------------------------------- MODULE Caches -------------------------------
(***************************************************************************)
(* The cache routines of the board support package, on direct-mapped       *)
(* caches, and alt_uncached_malloc.  A flush is a loop over addresses,     *)
(* which interrupts break into.  Of memory only matters which lines are    *)
(* cached, which are dirty and which bytes are allocated.                  *)
(***************************************************************************)
EXTENDS Integers

CONSTANTS
    LINE_SIZE,                   \* bytes in a line
    DCACHE_SIZE, ICACHE_SIZE,    \* in bytes
    Lines,                       \* lines of memory
    Lengths,                     \* bound: the lengths of regions to flush
    Sizes,                       \* bound: the sizes of blocks
    None                         \* no line

CachesAssumption ==
    /\ LINE_SIZE \in Nat \ {0} /\ Lines \in Nat \ {0}
    /\ DCACHE_SIZE \in Nat /\ ICACHE_SIZE \in Nat
    /\ Lengths \subseteq Nat /\ Sizes \subseteq Nat
    /\ DCACHE_SIZE \div LINE_SIZE > 0 /\ DCACHE_SIZE % LINE_SIZE = 0
    /\ ICACHE_SIZE \div LINE_SIZE > 0 /\ ICACHE_SIZE % LINE_SIZE = 0
    /\ None \notin Nat

VARIABLES
    dcache, dirty,     \* the line in every place of the data cache; the dirty lines
    icache,
    lost,              \* lines whose last contents never reached memory
    owner,             \* of every byte: "free", "cached", "uncached"
    call               \* the routine that is running

cacheVars == <<dcache, dirty, icache, lost, owner, call>>
heap == <<owner>>

Line == 0 .. Lines - 1
Byte == 0 .. Lines * LINE_SIZE - 1
LineOf(b) == b \div LINE_SIZE
DPlace(l) == l % (DCACHE_SIZE \div LINE_SIZE)
IPlace(l) == l % (ICACHE_SIZE \div LINE_SIZE)

Touched(start, len) == {LineOf(b) : b \in start .. start + len - 1}

NoFlush == [op |-> "none", start |-> 0, end |-> 0, i |-> 0, region |-> {}]

-----------------------------------------------------------------------------
(* The caches.                                                             *)

\* A line comes in; the one that had its place is written back.
DCached(l) ==
    /\ dcache' = [dcache EXCEPT ![DPlace(l)] = l]
    /\ dirty' = IF dcache[DPlace(l)] = l THEN dirty ELSE dirty \ {dcache[DPlace(l)]}

\* flushda: the line of that address, if it is there.
Flushda(b) ==
    LET l == LineOf(b)
    IN  IF dcache[DPlace(l)] = l
        THEN dcache' = [dcache EXCEPT ![DPlace(l)] = None] /\ dirty' = dirty \ {l}
        ELSE UNCHANGED <<dcache, dirty>>

\* flushd: whatever is in the place of that address.
Flushd(b) ==
    /\ dcache' = [dcache EXCEPT ![DPlace(LineOf(b))] = None]
    /\ dirty' = dirty \ {dcache[DPlace(LineOf(b))]}

\* initda: as flushda, without writing the line back.
Initda(b) ==
    LET l == LineOf(b)
    IN  Flushda(b) /\ lost' = (IF l \in dirty /\ dcache[DPlace(l)] = l THEN lost \cup {l} ELSE lost)

Flushi(b) == icache' = [icache EXCEPT ![IPlace(LineOf(b))] = None]

-----------------------------------------------------------------------------
(* The flushes.  region are the lines that the caller means.               *)

Call(op, start, len, region) ==
    call' = [op |-> op, start |-> start, end |-> start + len, i |-> start, region |-> region]

alt_dcache_flush(start, len) == Call("dflush", start, len, Touched(start, len))

alt_dcache_flush_no_writeback(start, len) ==
    Call("discard", start, len, Touched(start, len))

alt_dcache_flush_all == Call("dall", 0, DCACHE_SIZE, Line)

\* No more than the whole cache.
alt_icache_flush(start, len) ==
    Call("iflush", start, IF len > ICACHE_SIZE THEN ICACHE_SIZE ELSE len, Touched(start, len))

alt_icache_flush_all == Call("iflush", 0, ICACHE_SIZE, Line)

Flushes ==
    /\ call = NoFlush
    /\ \/ alt_dcache_flush_all \/ alt_icache_flush_all
       \/ \E start \in Byte, len \in Lengths :
            /\ start + len - 1 \in Byte
            /\ \/ alt_dcache_flush(start, len)
               \/ alt_dcache_flush_no_writeback(start, len)
               \/ alt_icache_flush(start, len)
    /\ lost' = {}
    /\ UNCHANGED <<dcache, dirty, icache, heap>>

\* Faulty form: nothing is done for a region that is not aligned.
More_Aligned == call.i < call.end

\* The loop, and one line more if the region does not start at a line.
More ==
    \/ call.i < call.end
    \/ /\ call.op # "dall" /\ call.start % LINE_SIZE # 0
       /\ call.i < call.end + LINE_SIZE

FlushLine ==
    /\ call.op \in {"dflush", "discard", "dall", "iflush", "malloc"} /\ More
    /\ CASE call.op \in {"dflush", "malloc"} -> Flushda(call.i) /\ UNCHANGED <<icache, lost>>
         [] call.op = "dall" -> Flushd(call.i) /\ UNCHANGED <<icache, lost>>
         [] call.op = "discard" -> Initda(call.i) /\ UNCHANGED icache
         [] call.op = "iflush" -> Flushi(call.i) /\ UNCHANGED <<dcache, dirty, lost>>
    /\ call' = [call EXCEPT !.i = @ + LINE_SIZE]
    /\ UNCHANGED heap

FlushReturns ==
    /\ call.op \in {"dflush", "discard", "dall", "iflush"} /\ ~More
    /\ call' = NoFlush
    /\ UNCHANGED <<dcache, dirty, icache, lost, heap>>

-----------------------------------------------------------------------------
(* The heap.                                                               *)

Given(start, len, who) ==
    /\ \A b \in start .. start + len - 1 : b \in Byte /\ owner[b] = "free"
    /\ owner' = [b \in Byte |-> IF b \in start .. start + len - 1 THEN who ELSE owner[b]]

\* malloc and free of the library.
Malloc(start, len) ==
    /\ call = NoFlush /\ Given(start, len, "cached")
    /\ UNCHANGED <<dcache, dirty, icache, lost, call>>

Free(start, len) ==
    /\ call = NoFlush /\ \A b \in start .. start + len - 1 : b \in Byte /\ owner[b] = "cached"
    /\ owner' = [b \in Byte |-> IF b \in start .. start + len - 1 THEN "free" ELSE owner[b]]
    /\ UNCHANGED <<dcache, dirty, icache, lost, call>>

AlignedSize(size) == ((size + LINE_SIZE - 1) \div LINE_SIZE) * LINE_SIZE

\* The block, which memalign has aligned, is flushed and becomes uncached.
alt_uncached_malloc(l, size) ==
    /\ call = NoFlush
    /\ Given(l * LINE_SIZE, AlignedSize(size), "uncached")
    /\ Call("malloc", l * LINE_SIZE, AlignedSize(size), Touched(l * LINE_SIZE, size))
    /\ UNCHANGED <<dcache, dirty, icache, lost>>

MallocReturns ==
    /\ call.op = "malloc" /\ ~More
    /\ call' = NoFlush
    /\ UNCHANGED <<dcache, dirty, icache, lost, heap>>

\* The block is given back as a whole.
alt_uncached_free(l, size) ==
    LET block == l * LINE_SIZE .. l * LINE_SIZE + AlignedSize(size) - 1
    IN  /\ call = NoFlush /\ \A b \in block : b \in Byte /\ owner[b] = "uncached"
        /\ owner' = [b \in Byte |-> IF b \in block THEN "free" ELSE owner[b]]
        /\ UNCHANGED <<dcache, dirty, icache, lost, call>>

Heap ==
    \E size \in Sizes :
        \/ \E b \in Byte : Malloc(b, size) \/ Free(b, size)
        \/ \E l \in Line : alt_uncached_malloc(l, size) \/ alt_uncached_free(l, size)

-----------------------------------------------------------------------------
\* The program, and in the middle of a routine an interrupt, which leaves the
\* region alone.
MayTouch(l) == l \notin call.region

Load(b) ==
    /\ owner[b] # "uncached" /\ MayTouch(LineOf(b))
    /\ DCached(LineOf(b))
    /\ UNCHANGED <<icache, lost, heap, call>>

Store(b) ==
    LET l == LineOf(b)
    IN  /\ owner[b] # "uncached" /\ MayTouch(l)
        /\ dcache' = [dcache EXCEPT ![DPlace(l)] = l]
        /\ dirty' = (IF dcache[DPlace(l)] = l THEN dirty ELSE dirty \ {dcache[DPlace(l)]}) \cup {l}
        /\ UNCHANGED <<icache, lost, heap, call>>

Fetch(l) ==
    /\ MayTouch(l)
    /\ icache' = [icache EXCEPT ![IPlace(l)] = l]
    /\ UNCHANGED <<dcache, dirty, lost, heap, call>>

CachesInit ==
    /\ dcache = [p \in 0 .. DCACHE_SIZE \div LINE_SIZE - 1 |-> None] /\ dirty = {}
    /\ icache = [p \in 0 .. ICACHE_SIZE \div LINE_SIZE - 1 |-> None]
    /\ lost = {} /\ call = NoFlush
    /\ owner = [b \in Byte |-> IF Sizes = {} THEN "cached" ELSE "free"]

CachesNext ==
    \/ Flushes \/ FlushLine \/ FlushReturns \/ Heap \/ MallocReturns
    \/ \E b \in Byte : owner[b] = "cached" /\ (Load(b) \/ Store(b))
    \/ \E l \in Line : Fetch(l)

CachesSpec == CachesInit /\ [][CachesNext]_cacheVars

-----------------------------------------------------------------------------
\* When a flush returns, no line of its region is left in the cache, whatever its
\* alignment and length.  (alt_dcache_flush.c, alt_icache_flush.c.)
Flushed ==
    call # NoFlush /\ call.op # "malloc" /\ ~More =>
        \A l \in call.region :
            IF call.op = "iflush" THEN icache[IPlace(l)] # l ELSE dcache[DPlace(l)] # l

\* The lines of an uncached block never come back into the cache, whatever the
\* program does with the blocks next to it.  (alt_uncached_malloc.c.)
UncachedStaysOut ==
    \A b \in Byte : owner[b] = "uncached" /\ call.op # "malloc"
        => dcache[DPlace(LineOf(b))] # LineOf(b)

\* A flush leaves no line of its region in a cache, and no line of an uncached block
\* comes back.
NothingStays == Flushed /\ UncachedStaysOut

\* "alt_dcache_flush_no_writeback() is called to flush the data cache for a memory
\* region of length "len" bytes, starting at address "start"": what is written
\* elsewhere is not lost.  (alt_dcache_flush_no_writeback.c.)
NeighboursKept == call.op = "discard" => lost \subseteq call.region
=============================================================================
