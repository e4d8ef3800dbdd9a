------------------------------- MODULE Start --------------------------------
(***************************************************************************)
(* From reset to main and back: crt0.S, alt_load.c, alt_main.c, alt_exit.c *)
(* and the two halves of alt_sys_init.c.  A line of a cache is one word.   *)
(* After a reset memory, data cache and devices are as they were left, and *)
(* the data in memory is a copy of an image that the linker put behind it. *)
(***************************************************************************)
EXTENDS Integers, Sequences

CONSTANTS
    Sections,                    \* what alt_load copies: from, to, end
    Code,                        \* the words of the exception section
    BssStart, BssEnd,
    Handler,                     \* the word of alt_irq[0].handler, in the bss
    Words,                       \* words of memory
    DCACHE_WORDS, ICACHE_WORDS,  \* the sizes of the caches, in words
    Constructors, Destructors,   \* how many the lists of the linker hold
    LastReset                    \* bound: resets

VARIABLES
    memory, data_cache, code_cache,    \* of a cache, what is in every place
    stage, r2, section,                \* where the program is, its counter, the section
    status_pie, ienable,               \* the processor's interrupt enables
    line,                              \* the device asks for an interrupt
    resets

caches == <<memory, data_cache, code_cache>>
irqs == <<status_pie, ienable, line>>
startVars == <<caches, stage, r2, section, irqs, resets>>

Word == 0 .. Words - 1

\* What is in a word of memory: what the linker put there, which is known by the
\* word's number, or one of these.
Zero == -1
Junk == -2
Isr == -3

Empty == [word |-> -1, value |-> Junk, dirty |-> FALSE]
DataPlace(w) == w % DCACHE_WORDS
CodePlace(w) == w % ICACHE_WORDS
Bss == BssStart .. BssEnd - 1

\* The words that a section is copied to, and the image of such a word.
Copied(s) == IF s.from = s.to THEN {} ELSE s.to .. s.end - 1
ImageIn(s, w) == s.from + (w - s.to)
Data == UNION {Copied(Sections[s]) : s \in 1 .. Len(Sections)}
ImageOf(w) ==
    ImageIn(CHOOSE s \in {Sections[i] : i \in 1 .. Len(Sections)} : w \in Copied(s), w)

\* The linker keeps images, sections and the bss apart.
StartAssumption ==
    /\ Words \in Nat /\ Code \subseteq Word
    /\ BssStart \in Nat /\ BssEnd \in BssStart .. Words /\ Handler \in Bss
    /\ DCACHE_WORDS \in Nat \ {0} /\ ICACHE_WORDS \in Nat \ {0}
    /\ Constructors \in Nat /\ Destructors \in Nat /\ LastReset \in Nat
    /\ Sections \in Seq([from : Nat, to : Nat, end : Nat])
    /\ \A i \in 1 .. Len(Sections) :
         /\ Sections[i].to <= Sections[i].end /\ Sections[i].end <= BssStart
         /\ {ImageIn(Sections[i], w) : w \in Copied(Sections[i])} \subseteq Word \ (Data \cup Bss)
         /\ \A j \in 1 .. Len(Sections) \ {i} :
              Copied(Sections[i]) \cap Copied(Sections[j]) = {}

\* What is in a word once the program starts.
Fresh(w) == IF w \in Bss THEN Zero ELSE IF w \in Data THEN ImageOf(w) ELSE w

-----------------------------------------------------------------------------
(* The processor's accesses.                                               *)

InDCache(w) == data_cache[DataPlace(w)].word = w
Seen(w) == IF InDCache(w) THEN data_cache[DataPlace(w)].value ELSE memory[w]

\* Memory once the line in a place has been written back.
Evicted(p) ==
    IF data_cache[p].dirty THEN [memory EXCEPT ![data_cache[p].word] = data_cache[p].value]
                           ELSE memory

StoreWord(w, v) ==
    /\ memory' = (IF InDCache(w) THEN memory ELSE Evicted(DataPlace(w)))
    /\ data_cache' = [data_cache EXCEPT ![DataPlace(w)] = [word |-> w, value |-> v, dirty |-> TRUE]]

\* The instruction cache runs ahead, once it has been initialised.
Prefetch(w) ==
    /\ stage # "initi"
    /\ code_cache' = [code_cache EXCEPT ![CodePlace(w)] =
                         [word |-> w, value |-> memory[w], dirty |-> FALSE]]
    /\ UNCHANGED <<memory, data_cache, stage, r2, section, irqs, resets>>

At(here) == stage = here /\ UNCHANGED resets
Goto(next, r) == stage' = next /\ r2' = r

-----------------------------------------------------------------------------
(* crt0.S and alt_load.                                                    *)

\* From the size of the cache down; the place of address 0 is that of the size.
InitICache ==
    /\ At("initi")
    /\ code_cache' = [code_cache EXCEPT ![CodePlace(r2)] = Empty]
    /\ IF r2 - 1 > 0 THEN Goto("initi", r2 - 1) ELSE Goto("initd", DCACHE_WORDS)
    /\ UNCHANGED <<memory, data_cache, section, irqs>>

AfterInitD == IF BssStart = BssEnd THEN "load" ELSE "bss"

\* Faulty form: the loop starts at the last line.
InitDCache_Short ==
    /\ At("initd")
    /\ data_cache' = [data_cache EXCEPT ![DataPlace(r2 - 1)] = Empty]
    /\ IF r2 - 1 > 1 THEN Goto("initd", r2 - 1) ELSE Goto(AfterInitD, BssStart)
    /\ UNCHANGED <<memory, code_cache, section, irqs>>

\* Nothing is written back: what is in the cache is from before the reset.
InitDCache ==
    /\ At("initd")
    /\ data_cache' = [data_cache EXCEPT ![DataPlace(r2)] = Empty]
    /\ IF r2 - 1 > 0 THEN Goto("initd", r2 - 1) ELSE Goto(AfterInitD, BssStart)
    /\ UNCHANGED <<memory, code_cache, section, irqs>>

ClearBss ==
    /\ At("bss")
    /\ StoreWord(r2, Zero)
    /\ IF r2 + 1 < BssEnd THEN Goto("bss", r2 + 1) ELSE Goto("load", 0)
    /\ section' = 1
    /\ UNCHANGED <<code_cache, irqs>>

\* A word of a section that is not where its image is.
alt_load_section ==
    /\ At("load") /\ section <= Len(Sections)
    /\ LET s == Sections[section]
       IN  IF s.to # s.from /\ s.to + r2 # s.end
           THEN /\ StoreWord(s.to + r2, Seen(s.from + r2))
                /\ Goto("load", r2 + 1) /\ UNCHANGED section
           ELSE Goto("load", 0) /\ section' = section + 1 /\ UNCHANGED <<memory, data_cache>>
    /\ UNCHANGED <<code_cache, irqs>>

\* Then both caches are flushed, the data cache first.
LoadDone ==
    /\ At("load") /\ section > Len(Sections) /\ Goto("dflush", 0)
    /\ UNCHANGED <<caches, section, irqs>>

FlushDCache ==
    /\ At("dflush")
    /\ IF r2 < DCACHE_WORDS
       THEN /\ memory' = Evicted(DataPlace(r2))
            /\ data_cache' = [data_cache EXCEPT ![DataPlace(r2)] = Empty]
            /\ Goto("dflush", r2 + 1)
       ELSE Goto("iflush", 0) /\ UNCHANGED <<memory, data_cache>>
    /\ UNCHANGED <<code_cache, section, irqs>>

FlushICache ==
    /\ At("iflush")
    /\ IF r2 < ICACHE_WORDS
       THEN code_cache' = [code_cache EXCEPT ![CodePlace(r2)] = Empty] /\ Goto("iflush", r2 + 1)
       ELSE Goto("loaded", 0) /\ UNCHANGED code_cache
    /\ UNCHANGED <<memory, data_cache, section, irqs>>

\* Back from alt_load.
CallMain == At("loaded") /\ Goto("alt_main", 0) /\ UNCHANGED <<caches, section, irqs>>

-----------------------------------------------------------------------------
(* alt_main.                                                               *)

\* Every interrupt is off before the processor takes interrupts.
alt_irq_init ==
    /\ At("alt_main") /\ ienable' = FALSE /\ status_pie' = TRUE /\ Goto("sys_init", 0)
    /\ UNCHANGED <<caches, section, line>>

\* alt_sys_init: the driver registers its handler, and only then enables it.
Register ==
    /\ At("sys_init") /\ status_pie' = FALSE /\ StoreWord(Handler, Isr) /\ Goto("enable", 0)
    /\ UNCHANGED <<code_cache, section, ienable, line>>

Registered ==
    /\ At("enable") /\ ienable' = TRUE /\ status_pie' = TRUE /\ Goto("ctors", Constructors)
    /\ UNCHANGED <<caches, section, line>>

\* The program changes its data, and nothing else.
ChangesData == \E w \in (Data \ Code) \cup (Bss \ {Handler}) : StoreWord(w, Junk)

\* From the last of the list to the first.
_do_ctors ==
    /\ At("ctors")
    /\ IF r2 > 0 THEN ChangesData /\ Goto("ctors", r2 - 1)
                 ELSE Goto("main", 0) /\ UNCHANGED <<memory, data_cache>>
    /\ UNCHANGED <<code_cache, section, irqs>>

Main ==
    /\ At("main") /\ ChangesData
    /\ UNCHANGED <<code_cache, stage, r2, section, irqs>>

\* The program is the only process there is: r2 is what these calls return.
ALT_FORK == At("main") /\ Goto("main", -1) /\ UNCHANGED <<caches, section, irqs>>
ALT_WAIT == At("main") /\ Goto("main", -1) /\ UNCHANGED <<caches, section, irqs>>

\* Signals, and what becomes of a program that gets one; 0 is none.
Signals == {"none", "ends", "ignored", "unsupported"}

\* Numbers that are not positive mean the program itself; it ends without _do_dtors.
ALT_KILL(pid, sig) ==
    /\ At("main")
    /\ IF pid <= 0 /\ sig = "ends" THEN Goto("exit", 0)
       ELSE Goto("main", IF pid > 0 \/ sig = "unsupported" THEN -1 ELSE 0)
    /\ UNCHANGED <<caches, section, irqs>>

\* It returns, closes stdout and exits.
MainReturns ==
    /\ At("main") /\ Goto("dtors", Destructors)
    /\ UNCHANGED <<caches, section, irqs>>

_do_dtors ==
    /\ At("dtors")
    /\ IF r2 > 0 THEN ChangesData /\ Goto("dtors", r2 - 1)
                 ELSE Goto("exit", 0) /\ UNCHANGED <<memory, data_cache>>
    /\ UNCHANGED <<code_cache, section, irqs>>

\* The processor spins, with interrupts on.
ALT_EXIT == At("exit") /\ UNCHANGED <<caches, stage, r2, section, irqs>>

-----------------------------------------------------------------------------
(* The world.                                                              *)

Asks ==
    /\ ~line /\ line' = TRUE
    /\ UNCHANGED <<caches, stage, r2, section, status_pie, ienable, resets>>

\* The handler of the table serves the device.
Dispatches == status_pie /\ ienable /\ line

TakesInterrupt ==
    /\ Dispatches /\ line' = FALSE
    /\ UNCHANGED <<caches, stage, r2, section, status_pie, ienable, resets>>

\* A reset, or a boot loader that enters behind the instruction cache's loop.
Reset ==
    /\ resets < LastReset /\ resets' = resets + 1
    /\ status_pie' = FALSE /\ ienable' \in BOOLEAN /\ UNCHANGED line
    /\ section' = 1
    /\ \/ Goto("initi", ICACHE_WORDS)
       \/ stage # "initi" /\ Goto("initd", DCACHE_WORDS)
    /\ UNCHANGED caches

\* Power-up: the images are where the loader put them, the rest is anything.
StartInit ==
    /\ memory = [w \in Word |-> IF w \in Data \cup Bss THEN Junk ELSE w]
    /\ data_cache \in [0 .. DCACHE_WORDS - 1 ->
                      {Empty} \cup [word : Word, value : {Junk}, dirty : {TRUE}]]
    /\ \A p \in DOMAIN data_cache : data_cache[p].word # -1 => DataPlace(data_cache[p].word) = p
    /\ code_cache \in [0 .. ICACHE_WORDS - 1 ->
                      {Empty} \cup [word : Code, value : {Junk}, dirty : {FALSE}]]
    /\ \A p \in DOMAIN code_cache : code_cache[p].word # -1 => CodePlace(code_cache[p].word) = p
    /\ stage = "initi" /\ r2 = ICACHE_WORDS /\ section = 1
    /\ status_pie = FALSE /\ ienable \in BOOLEAN /\ line \in BOOLEAN /\ resets = 0

StartNext ==
    \/ InitICache \/ InitDCache \/ ClearBss
    \/ alt_load_section \/ LoadDone \/ FlushDCache \/ FlushICache \/ CallMain
    \/ alt_irq_init \/ Register \/ Registered
    \/ _do_ctors \/ Main \/ MainReturns \/ _do_dtors \/ ALT_EXIT
    \/ ALT_FORK \/ ALT_WAIT
    \/ \E pid \in {0, 1}, sig \in Signals : ALT_KILL(pid, sig)
    \/ Asks \/ TakesInterrupt \/ Reset
    \/ \E w \in Code : Prefetch(w)

StartSpec == StartInit /\ [][StartNext]_startVars

-----------------------------------------------------------------------------
\* Whenever alt_main is entered, at power-up or after a reset in the middle of
\* anything, the processor reads every word as the program was linked, and fetches
\* its exception code so.  (crt0.S, alt_load.c.)
FreshImage ==
    stage = "alt_main" =>
        /\ \A w \in Word : Seen(w) = Fresh(w)
        /\ \A w \in Code :
             code_cache[CodePlace(w)].word = w => code_cache[CodePlace(w)].value = Fresh(w)

\* No interrupt finds a handler that this start has not registered, though the
\* device asks for one since before the reset.  (alt_sys_init.c, alt_main.c.)
NoStray ==
    Dispatches => Seen(Handler) = Isr /\ stage \in {"ctors", "main", "dtors", "exit"}

\* The program starts with memory as it was linked, after any reset, and no interrupt
\* comes before its handler is there.
StartsFresh == FreshImage /\ NoStray
=============================================================================
