------------------------- MODULE Interrupts_proofs --------------------------
(***************************************************************************)
(* The interrupt enables for any number of lines and any depth: whenever   *)
(* an interrupt can be taken, the processor lets in the enabled lines that *)
(* have priority over all routines that run.  And the alarms, which the    *)
(* interrupt of the clock runs: any number of them, each on its tick.      *)
(***************************************************************************)
EXTENDS IrqMask, Alarms, SequenceTheorems, TLAPS

-----------------------------------------------------------------------------
(* The enables: the invariant.                                             *)

Top == Len(frames)

Accesses ==
    {<<"off">>, <<"restore">>, <<"load">>, <<"ienable">>}
    \cup ({"enable", "disable"} \X Irqs)
    \cup ({"handler", "context"} \X Irqs \X (Isrs \cup {NoIsr}))

Frames ==
    [isr : Irqs \cup {Nobody}, todo : Seq(Accesses), saved : Seq(BOOLEAN),
     loaded : SUBSET Irqs, old : SUBSET (Irqs \cup {Nobody})]

MaskTypeOK ==
    /\ pie \in BOOLEAN /\ ienable \subseteq Irqs /\ alt_irq_active \subseteq Irqs
    /\ alt_priority_mask \subseteq Irqs /\ asked \subseteq Irqs
    /\ handler \in [Irqs -> Isrs \cup {NoIsr}] /\ context \in [Irqs -> Isrs \cup {NoIsr}]
    /\ frames \in Seq(Frames) /\ Top >= 1

\* The lines that have priority over the routines of the first k frames.
Above(k) == {id \in Irqs : \A j \in 2 .. k : id < frames[j].isr}

\* A routine that was interrupted is interruptible, and what interrupts has a higher
\* priority; the mask is that of the last routine that became interruptible.
Levels ==
    /\ \A i \in 1 .. Top : (frames[i].isr = Nobody) = (i = 1)
    /\ frames[1].old = Closed
    /\ \A i \in 2 .. Top : frames[i].isr \in Above(i - 1)
    /\ \A i \in 2 .. Top :
         frames[i].old # Closed => frames[i].old = Above(i - 1) /\ frames[i].todo = <<>>
    /\ \A i \in 2 .. Top - 1 : frames[i].old # Closed
    /\ alt_priority_mask = Above(IF me.old # Closed THEN Top ELSE IF Top = 1 THEN 1 ELSE Top - 1)

\* How many accesses of a call are left after one, and what the next and the third are.
Step(access, left, then, third) ==
    LET op == access[1]
    IN  \/ op = "restore" /\ left \in 0 .. 1 /\ (left = 1 => then[1] = "restore")
        \/ op = "ienable" /\ left \in 1 .. 2 /\ then[1] = "restore"
        \/ op \in {"enable", "disable"} /\ left \in 2 .. 3 /\ then[1] = "ienable"
        \/ op = "load" /\ left \in 3 .. 4 /\ then[1] \in {"enable", "disable"}
        \/ op = "off" /\ left \in 4 .. 5 /\ then[1] = "load"
        \/ op = "off" /\ left = 6 /\ then[1] = "off"
        \/ op = "off" /\ left = 8 /\ then[1] = "handler"
        \/ op = "handler" /\ left = 7 /\ then = <<"context", access[2], access[3]>>
        \/ /\ op = "context" /\ left = 6 /\ then[1] = "off"
           /\ third = <<IF access[3] = NoIsr THEN "disable" ELSE "enable", access[2]>>

\* A call, from any of its accesses on.
Follows(todo, i) == Step(todo[i], Len(todo) - i, todo[i + 1], todo[i + 3])

WellFormed(todo) == \A i \in 1 .. Len(todo) : Follows(todo, i)

\* The critical sections that a call is in.
Depth(todo) ==
    LET op == todo[1][1]
    IN  IF todo = <<>> THEN 0
        ELSE IF op = "restore" THEN Len(todo)
        ELSE IF op = "ienable" THEN Len(todo) - 1
        ELSE IF op \in {"enable", "disable"} THEN Len(todo) - 2
        ELSE IF op = "load" THEN Len(todo) - 3
        ELSE IF op \in {"handler", "context"} \/ Len(todo) = 6 THEN 1
        ELSE 0

\* Interrupts are off in a section, and come on again where they were on.
Calls ==
    /\ \A k \in 1 .. Top : WellFormed(frames[k].todo)
    /\ \A k \in 1 .. Top : Len(frames[k].saved) = Depth(frames[k].todo)
    /\ \A k \in 1 .. Top - 1 : frames[k].saved = <<>>
    /\ \A k \in 2 .. Top : Len(frames[k].todo) <= 5
    /\ pie => me.saved = <<>>
    /\ Len(me.saved) = 2 => me.saved[1] = FALSE
    /\ pie \/ (\E i \in 1 .. Len(me.saved) : me.saved[i] = TRUE) => Top = 1 \/ me.old # Closed
    /\ Top > 1 /\ me.todo # <<>> => me.old = Closed /\ alt_priority_mask = Irqs

Doing(op) == me.todo # <<>> /\ me.todo[1][1] = op

\* No change is lost, and the register is behind only within a change.
Enables ==
    /\ asked = alt_irq_active
    /\ ~Doing("ienable") => ienable = alt_irq_active \cap alt_priority_mask
    /\ Doing("enable") \/ Doing("disable") => me.loaded = alt_irq_active

\* What a call will enable has a handler, or the call registers one before.
Known(handlers, todo) ==
    \A i \in 1 .. Len(todo) : todo[i][1] = "enable" =>
        handlers[todo[i][2]] # NoIsr \/ \E j \in 1 .. i - 1 : todo[j][1] = "handler"

\* A line that is enabled has a handler, or is about to be disabled.
Handlers ==
    /\ \A id \in Irqs : \/ context[id] = handler[id]
                        \/ /\ frames[1].saved # <<>> /\ frames[1].todo # <<>>
                           /\ frames[1].todo[1] = <<"context", id, handler[id]>>
    /\ frames[1].todo # <<>> /\ frames[1].todo[1][1] = "context" =>
         handler[frames[1].todo[1][2]] = frames[1].todo[1][3]
    /\ \A id \in alt_irq_active :
         \/ handler[id] # NoIsr
         \/ /\ frames[1].saved # <<>>
            /\ \E i \in 1 .. Len(frames[1].todo) : frames[1].todo[i] = <<"disable", id>>
    /\ \A k \in 1 .. Top : Known(handler, frames[k].todo)

MaskInv == MaskTypeOK /\ Levels /\ Calls /\ Enables /\ Handlers

-----------------------------------------------------------------------------
(* Calls.                                                                  *)

LEMMA ChangeCall ==
  ASSUME NEW op \in {"enable", "disable"}, NEW id \in Irqs
  PROVE  LET c == alt_irq_change(op, id)
         IN  /\ c \in Seq(Accesses) /\ Len(c) = 5
             /\ c[1] = <<"off">> /\ c[2] = <<"load">> /\ c[3] = <<op, id>>
             /\ c[4] = <<"ienable">> /\ c[5] = <<"restore">>
<1>1. {<<"off">>, <<"load">>, <<op, id>>, <<"ienable">>, <<"restore">>} \subseteq Accesses
  BY DEF Accesses
<1> QED
  BY <1>1 DEF alt_irq_change, alt_irq_disable_all, alt_irq_enable_all

LEMMA Joined ==
  ASSUME NEW s \in Seq(Accesses), NEW t \in Seq(Accesses)
  PROVE  /\ s \o t \in Seq(Accesses) /\ Len(s \o t) = Len(s) + Len(t)
         /\ \A i \in 1 .. Len(s) + Len(t) :
               (s \o t)[i] = IF i <= Len(s) THEN s[i] ELSE t[i - Len(s)]
BY ConcatProperties

LEMMA SectionCall ==
  ASSUME NEW id \in Irqs
  PROVE  LET c == alt_irq_disable_all \o alt_irq_change("disable", id) \o alt_irq_enable_all
         IN  /\ c \in Seq(Accesses) /\ Len(c) = 7
             /\ c[1] = <<"off">> /\ c[2] = <<"off">> /\ c[3] = <<"load">>
             /\ c[4] = <<"disable", id>>
             /\ c[5] = <<"ienable">> /\ c[6] = <<"restore">> /\ c[7] = <<"restore">>
<1> DEFINE d == alt_irq_change("disable", id)
<1>1. /\ d \in Seq(Accesses) /\ Len(d) = 5
      /\ d[1] = <<"off">> /\ d[2] = <<"load">> /\ d[3] = <<"disable", id>>
      /\ d[4] = <<"ienable">> /\ d[5] = <<"restore">>
  BY ChangeCall
<1>2. <<"off">> \in Accesses /\ <<"restore">> \in Accesses
  BY DEF Accesses
<1> HIDE DEF d
<1> DEFINE off == <<<<"off">>>>  on == <<<<"restore">>>>
<1> DEFINE e == off \o d  f == e \o on
<1>2a. /\ off \in Seq(Accesses) /\ Len(off) = 1 /\ off[1] = <<"off">>
       /\ on \in Seq(Accesses) /\ Len(on) = 1 /\ on[1] = <<"restore">>
  BY <1>2
<1>5. f = alt_irq_disable_all \o alt_irq_change("disable", id) \o alt_irq_enable_all
  BY DEF d, alt_irq_disable_all, alt_irq_enable_all
<1> HIDE DEF off, on
<1>3a. /\ e \in Seq(Accesses) /\ Len(e) = 6
       /\ \A i \in 1 .. 6 : e[i] = IF i <= 1 THEN off[i] ELSE d[i - 1]
  <2>1. /\ off \o d \in Seq(Accesses) /\ Len(off \o d) = Len(off) + Len(d)
        /\ \A i \in 1 .. Len(off) + Len(d) :
              (off \o d)[i] = IF i <= Len(off) THEN off[i] ELSE d[i - Len(off)]
    BY <1>1, <1>2a, Joined
  <2> QED
    BY <1>1, <1>2a, <2>1
<1> HIDE DEF e
<1>4a. /\ f \in Seq(Accesses) /\ Len(f) = 7
       /\ \A i \in 1 .. 7 : f[i] = IF i <= 6 THEN e[i] ELSE on[i - 6]
  <2>1. /\ e \o on \in Seq(Accesses) /\ Len(e \o on) = Len(e) + Len(on)
        /\ \A i \in 1 .. Len(e) + Len(on) :
              (e \o on)[i] = IF i <= Len(e) THEN e[i] ELSE on[i - Len(e)]
    BY <1>2a, <1>3a, Joined
  <2> QED
    BY <1>2a, <1>3a, <2>1
<1> HIDE DEF f
<1>4. /\ f[1] = off[1] /\ f[2] = d[1] /\ f[3] = d[2] /\ f[4] = d[3]
      /\ f[5] = d[4] /\ f[6] = d[5] /\ f[7] = on[1]
  BY <1>3a, <1>4a
<1> QED
  BY <1>1, <1>2a, <1>4, <1>4a, <1>5

LEMMA RegisterCall ==
  ASSUME NEW id \in Irqs, NEW isr \in Isrs \cup {NoIsr}
  PROVE  LET c == alt_iic_isr_register(id, isr)
         IN  /\ c \in Seq(Accesses) /\ Len(c) = 9
             /\ c[1] = <<"off">> /\ c[2] = <<"handler", id, isr>>
             /\ c[3] = <<"context", id, isr>>
             /\ c[4] = <<"off">> /\ c[5] = <<"load">>
             /\ c[6] = <<IF isr = NoIsr THEN "disable" ELSE "enable", id>>
             /\ c[7] = <<"ienable">> /\ c[8] = <<"restore">> /\ c[9] = <<"restore">>
<1> DEFINE op == IF isr = NoIsr THEN "disable" ELSE "enable"
<1> DEFINE d == alt_irq_change(op, id)
<1>0. op \in {"enable", "disable"}
  OBVIOUS
<1>1. /\ d \in Seq(Accesses) /\ Len(d) = 5
      /\ d[1] = <<"off">> /\ d[2] = <<"load">> /\ d[3] = <<op, id>>
      /\ d[4] = <<"ienable">> /\ d[5] = <<"restore">>
  BY <1>0, ChangeCall
<1>2. /\ <<"off">> \in Accesses /\ <<"restore">> \in Accesses
      /\ <<"handler", id, isr>> \in Accesses /\ <<"context", id, isr>> \in Accesses
  BY DEF Accesses
<1> HIDE DEF d
<1> HIDE DEF op
<1> DEFINE h == <<<<"off">>>> \o <<<<"handler", id, isr>>, <<"context", id, isr>>>>
<1> DEFINE on == <<<<"restore">>>>
<1> DEFINE e == h \o d  f == e \o on
<1>3. /\ h \in Seq(Accesses) /\ Len(h) = 3
      /\ h[1] = <<"off">> /\ h[2] = <<"handler", id, isr>> /\ h[3] = <<"context", id, isr>>
      /\ on \in Seq(Accesses) /\ Len(on) = 1 /\ on[1] = <<"restore">>
  BY <1>2
<1>4. f = alt_iic_isr_register(id, isr)
  BY DEF d, op, alt_iic_isr_register, alt_irq_disable_all, alt_irq_enable_all
<1> HIDE DEF h, on
<1>5. /\ e \in Seq(Accesses) /\ Len(e) = 8
      /\ \A i \in 1 .. 8 : e[i] = IF i <= 3 THEN h[i] ELSE d[i - 3]
  <2>1. /\ h \o d \in Seq(Accesses) /\ Len(h \o d) = Len(h) + Len(d)
        /\ \A i \in 1 .. Len(h) + Len(d) :
              (h \o d)[i] = IF i <= Len(h) THEN h[i] ELSE d[i - Len(h)]
    BY <1>1, <1>3, Joined
  <2> QED
    BY <1>1, <1>3, <2>1
<1> HIDE DEF e
<1>6. /\ f \in Seq(Accesses) /\ Len(f) = 9
      /\ \A i \in 1 .. 9 : f[i] = IF i <= 8 THEN e[i] ELSE on[i - 8]
  <2>1. /\ e \o on \in Seq(Accesses) /\ Len(e \o on) = Len(e) + Len(on)
        /\ \A i \in 1 .. Len(e) + Len(on) :
              (e \o on)[i] = IF i <= Len(e) THEN e[i] ELSE on[i - Len(e)]
    BY <1>3, <1>5, Joined
  <2> QED
    BY <1>3, <1>5, <2>1
<1> HIDE DEF f
<1>7. /\ f[1] = h[1] /\ f[2] = h[2] /\ f[3] = h[3]
      /\ f[4] = d[1] /\ f[5] = d[2] /\ f[6] = d[3] /\ f[7] = d[4] /\ f[8] = d[5]
      /\ f[9] = on[1]
  BY <1>5, <1>6
<1> QED
  BY <1>1, <1>3, <1>4, <1>6, <1>7 DEF op

\* What a call is at its start.
Fresh(todo) ==
    /\ todo \in Seq(Accesses) /\ todo # <<>>
    /\ WellFormed(todo) /\ Depth(todo) = 0

LEMMA ChangeFresh ==
  ASSUME NEW op \in {"enable", "disable"}, NEW id \in Irqs
  PROVE  LET c == alt_irq_change(op, id)
         IN  /\ Fresh(c) /\ Len(c) = 5
             /\ \A i \in 1 .. Len(c) : c[i][1] = "enable" => c[i][2] = id /\ op = "enable"
<1> DEFINE d == alt_irq_change(op, id)
<1>1. /\ d \in Seq(Accesses) /\ Len(d) = 5
      /\ d[1] = <<"off">> /\ d[2] = <<"load">> /\ d[3] = <<op, id>>
      /\ d[4] = <<"ienable">> /\ d[5] = <<"restore">>
  BY ChangeCall
<1> HIDE DEF d
<1>2. /\ Follows(d, 1) /\ Follows(d, 2) /\ Follows(d, 3) /\ Follows(d, 4) /\ Follows(d, 5)
  BY <1>1 DEF Follows, Step
<1>3. \A i \in 1 .. Len(d) : i \in {1, 2, 3, 4, 5}
  BY <1>1
<1>4. Fresh(d)
  BY <1>1, <1>2, <1>3 DEF Fresh, WellFormed, Depth
<1>5. \A i \in 1 .. Len(d) : d[i][1] = "enable" => d[i][2] = id /\ op = "enable"
  BY <1>1, <1>3
<1> QED
  BY <1>1, <1>4, <1>5 DEF d

LEMMA SectionFresh ==
  ASSUME NEW id \in Irqs
  PROVE  LET c == alt_irq_disable_all \o alt_irq_change("disable", id) \o alt_irq_enable_all
         IN  Fresh(c) /\ \A i \in 1 .. Len(c) : c[i][1] # "enable"
<1> DEFINE d == alt_irq_disable_all \o alt_irq_change("disable", id) \o alt_irq_enable_all
<1>1. /\ d \in Seq(Accesses) /\ Len(d) = 7
      /\ d[1] = <<"off">> /\ d[2] = <<"off">> /\ d[3] = <<"load">>
      /\ d[4] = <<"disable", id>>
      /\ d[5] = <<"ienable">> /\ d[6] = <<"restore">> /\ d[7] = <<"restore">>
  BY SectionCall
<1> HIDE DEF d
<1>2. /\ Follows(d, 1) /\ Follows(d, 2) /\ Follows(d, 3) /\ Follows(d, 4)
      /\ Follows(d, 5) /\ Follows(d, 6) /\ Follows(d, 7)
  BY <1>1 DEF Follows, Step
<1>3. \A i \in 1 .. Len(d) : i \in {1, 2, 3, 4, 5, 6, 7}
  BY <1>1
<1>4. Fresh(d)
  BY <1>1, <1>2, <1>3 DEF Fresh, WellFormed, Depth
<1>5. \A i \in 1 .. Len(d) : d[i][1] # "enable"
  BY <1>1, <1>3
<1> QED
  BY <1>4, <1>5 DEF d

LEMMA RegisterFresh ==
  ASSUME NEW id \in Irqs, NEW isr \in Isrs \cup {NoIsr}
  PROVE  LET c == alt_iic_isr_register(id, isr)
         IN  /\ Fresh(c)
             /\ \A i \in 1 .. Len(c) :
                  c[i][1] = "enable" => \E j \in 1 .. i - 1 : c[j][1] = "handler"
<1> DEFINE d == alt_iic_isr_register(id, isr)
<1>1. /\ d \in Seq(Accesses) /\ Len(d) = 9
      /\ d[1] = <<"off">> /\ d[2] = <<"handler", id, isr>>
      /\ d[3] = <<"context", id, isr>>
      /\ d[4] = <<"off">> /\ d[5] = <<"load">>
      /\ d[6] = <<IF isr = NoIsr THEN "disable" ELSE "enable", id>>
      /\ d[7] = <<"ienable">> /\ d[8] = <<"restore">> /\ d[9] = <<"restore">>
  BY RegisterCall
<1> HIDE DEF d
<1>2. /\ Follows(d, 1) /\ Follows(d, 2) /\ Follows(d, 3) /\ Follows(d, 4) /\ Follows(d, 5)
      /\ Follows(d, 6) /\ Follows(d, 7) /\ Follows(d, 8) /\ Follows(d, 9)
  BY <1>1 DEF Follows, Step
<1>3. \A i \in 1 .. Len(d) : i \in {1, 2, 3, 4, 5, 6, 7, 8, 9}
  BY <1>1
<1>4. Fresh(d)
  BY <1>1, <1>2, <1>3 DEF Fresh, WellFormed, Depth
<1>5. ASSUME NEW i \in 1 .. Len(d), d[i][1] = "enable"
      PROVE  \E j \in 1 .. i - 1 : d[j][1] = "handler"
  <2>1. i = 6
    BY <1>1, <1>3, <1>5
  <2> QED
    BY <1>1, <2>1
<1> QED
  BY <1>4, <1>5 DEF d

-----------------------------------------------------------------------------
(* One access of a call.                                                   *)

LEMMA StepReads ==
  ASSUME NEW access, NEW left \in Nat, NEW then, NEW third, NEW after, NEW third2,
         Step(access, left, then, third),
         left >= 1 => after = then, left >= 3 => third2 = third
  PROVE  Step(access, left, after, third2)
BY DEF Step

LEMMA TailCall ==
  ASSUME NEW todo \in Seq(Accesses), todo # <<>>, WellFormed(todo)
  PROVE  LET rest == Tail(todo)
         IN  /\ rest \in Seq(Accesses) /\ Len(rest) = Len(todo) - 1
             /\ \A i \in 1 .. Len(rest) : rest[i] = todo[i + 1]
             /\ WellFormed(rest)
<1> DEFINE rest == Tail(todo)
<1>1. /\ rest \in Seq(Accesses) /\ Len(rest) = Len(todo) - 1
      /\ \A i \in 1 .. Len(rest) : rest[i] = todo[i + 1]
  BY HeadTailProperties
<1> HIDE DEF rest
<1>2. ASSUME NEW i \in 1 .. Len(rest) PROVE Follows(rest, i)
  <2> DEFINE k == i + 1
  <2>1. /\ k \in 1 .. Len(todo) /\ Len(rest) - i = Len(todo) - k /\ rest[i] = todo[k]
        /\ Len(todo) - k \in Nat /\ k \in Nat /\ i \in Nat /\ Len(todo) \in Nat /\ Len(rest) \in Nat
    BY <1>1
  <2>2. Len(todo) - k >= 1 => rest[i + 1] = todo[k + 1]
    BY <1>1
  <2>3. Len(todo) - k >= 3 => rest[i + 3] = todo[k + 3]
    BY <1>1
  <2> HIDE DEF k
  <2>4. Follows(todo, k)
    BY <2>1 DEF WellFormed
  <2> QED
    BY <2>1, <2>2, <2>3, <2>4, StepReads DEF Follows
<1> QED
  BY <1>1, <1>2 DEF WellFormed, rest

\* The next access, how many are left with it, and the depth.
Place(op, n, depth) ==
    \/ op = "restore" /\ n \in 1 .. 2 /\ depth = n
    \/ op = "ienable" /\ n \in 2 .. 3 /\ depth = n - 1
    \/ op \in {"enable", "disable"} /\ n \in 3 .. 4 /\ depth = n - 2
    \/ op = "load" /\ n \in 4 .. 5 /\ depth = n - 3
    \/ op = "off" /\ n \in 5 .. 6 /\ depth = n - 5
    \/ op = "off" /\ n \in {7, 9} /\ depth = 0
    \/ op = "handler" /\ n = 8 /\ depth = 1
    \/ op = "context" /\ n = 7 /\ depth = 1

LEMMA DepthIs ==
  ASSUME NEW todo \in Seq(Accesses), todo # <<>>, WellFormed(todo)
  PROVE  Place(todo[1][1], Len(todo), Depth(todo))
<1>1. Len(todo) \in Nat /\ Len(todo) >= 1
  BY EmptySeq
<1>2. Follows(todo, 1)
  BY <1>1 DEF WellFormed
<1> QED
  BY <1>1, <1>2 DEF Follows, Step, Depth, Place

LEMMA TailDepth ==
  ASSUME NEW todo \in Seq(Accesses), todo # <<>>, WellFormed(todo)
  PROVE  LET op == todo[1][1]
         IN  Depth(Tail(todo)) = IF op = "off" THEN Depth(todo) + 1
                                 ELSE IF op = "restore" THEN Depth(todo) - 1 ELSE Depth(todo)
<1> DEFINE rest == Tail(todo)
<1>1. /\ rest \in Seq(Accesses) /\ Len(rest) = Len(todo) - 1
      /\ \A i \in 1 .. Len(rest) : rest[i] = todo[i + 1]
      /\ WellFormed(rest)
  BY TailCall
<1> HIDE DEF rest
<1>2. Len(todo) \in Nat /\ Len(todo) >= 1
  BY EmptySeq
<1>3. Follows(todo, 1)
  BY <1>2 DEF WellFormed
<1>4. CASE Len(todo) = 1
  <2>1. rest = <<>> /\ todo[1][1] = "restore"
    BY <1>1, <1>3, <1>4 DEF Follows, Step
  <2> QED
    BY <1>4, <2>1 DEF Depth, rest
<1>5. CASE Len(todo) # 1
  <2>1. rest # <<>> /\ rest[1] = todo[2]
    BY <1>1, <1>2, <1>5
  <2> DEFINE n == Len(todo)  op == todo[1][1]  then == todo[2][1]
             dt == Depth(todo)  dr == Depth(rest)
  <2>2. Place(op, n, dt)
    BY DepthIs
  <2>3. Place(then, n - 1, dr)
    <3>1. Place(rest[1][1], Len(rest), Depth(rest))
      BY <1>1, <2>1, DepthIs
    <3> QED
      BY <1>1, <2>1, <3>1
  <2>4. \/ op = "restore" /\ then = "restore"
        \/ op = "ienable" /\ then = "restore"
        \/ op \in {"enable", "disable"} /\ then = "ienable"
        \/ op = "load" /\ then \in {"enable", "disable"}
        \/ op = "off" /\ n \in 5 .. 6 /\ then = "load"
        \/ op = "off" /\ n = 7 /\ then = "off"
        \/ op = "off" /\ n = 9 /\ then = "handler"
        \/ op = "handler" /\ then = "context"
        \/ op = "context" /\ then = "off"
    BY <1>2, <1>3, <1>5 DEF Follows, Step
  <2> HIDE DEF n, op, then, dt, dr
  <2>5. n \in Nat
    BY <1>2 DEF n
  <2>6. dr = IF op = "off" THEN dt + 1 ELSE IF op = "restore" THEN dt - 1 ELSE dt
    BY <2>2, <2>3, <2>4, <2>5 DEF Place
  <2> QED
    BY <2>6 DEF op, dt, dr, rest
<1> QED
  BY <1>4, <1>5

-----------------------------------------------------------------------------
(* What a step does to the frames.                                         *)

LEMMA Types ==
  ASSUME MaskTypeOK
  PROVE  /\ Top \in Nat /\ Top \in 1 .. Top /\ me \in Frames /\ me = frames[Top]
         /\ \A k \in 1 .. Top : frames[k] \in Frames
BY DEF MaskTypeOK, me, Top

LEMMA BecomeEffect ==
  ASSUME MaskTypeOK, NEW f \in Frames, Become(f)
  PROVE  /\ frames' \in Seq(Frames) /\ Top' = Top /\ me' = f
         /\ \A k \in 1 .. Top : frames'[k] = IF k = Top THEN f ELSE frames[k]
<1>1. Top \in 1 .. Len(frames) /\ frames \in Seq(Frames)
  BY Types DEF MaskTypeOK, Top
<1>2. frames' = [frames EXCEPT ![Top] = f]
  BY DEF Become, Top
<1>3. /\ frames' \in Seq(Frames) /\ Len(frames') = Len(frames)
      /\ \A k \in 1 .. Len(frames) : frames'[k] = IF k = Top THEN f ELSE frames[k]
  BY <1>1, <1>2, ExceptSeq
<1>4. Top' = Top
  BY <1>3 DEF Top
<1>5. me' = f
  BY <1>1, <1>3, <1>4 DEF me, Top
<1> QED
  BY <1>3, <1>4, <1>5 DEF Top

LEMMA AboveIs ==
  ASSUME MaskTypeOK, Top' >= Top, \A k \in 1 .. Top : frames'[k].isr = frames[k].isr,
         NEW k \in 0 .. Top
  PROVE  Above(k)' = Above(k)
BY Types DEF Above

LEMMA AboveType ==
  ASSUME NEW k
  PROVE  Above(k) \subseteq Irqs /\ Above(k) # Closed
BY IrqMaskAssumption DEF Above, Closed, Nobody

\* The mask belongs to the routines that run, and to who is interruptible.
LEMMA LevelsKept ==
  ASSUME MaskTypeOK, Levels, Top' = Top,
         \A k \in 1 .. Top :
            /\ frames'[k].isr = frames[k].isr /\ frames'[k].old = frames[k].old
            /\ frames[k].old # Closed => frames'[k].todo = frames[k].todo,
         alt_priority_mask' = alt_priority_mask
  PROVE  Levels'
<1>1. Top \in Nat /\ Top \in 1 .. Top /\ me = frames[Top] /\ 1 \in 1 .. Top
  BY Types DEF MaskTypeOK
<1>2. \A k \in 0 .. Top : Above(k)' = Above(k)
  BY <1>1, AboveIs
<1>3. me' = frames'[Top]
  BY DEF me, Top
<1>4. me'.old = me.old
  BY <1>1, <1>3
<1>5. \A i \in 1 .. Top : (frames'[i].isr = Nobody) = (i = 1)
  BY DEF Levels
<1>6. frames'[1].old = Closed
  BY <1>1 DEF Levels
<1>7. \A i \in 2 .. Top : frames'[i].isr \in Above(i - 1)'
  BY <1>1, <1>2 DEF Levels
<1>8. \A i \in 2 .. Top :
        frames'[i].old # Closed => frames'[i].old = Above(i - 1)' /\ frames'[i].todo = <<>>
  BY <1>1, <1>2 DEF Levels
<1>9. \A i \in 2 .. Top - 1 : frames'[i].old # Closed
  BY <1>1 DEF Levels
<1>10. (alt_priority_mask = Above(IF me.old # Closed THEN Top ELSE IF Top = 1 THEN 1 ELSE Top - 1))'
  <2>1. CASE me.old # Closed
    <3>1. alt_priority_mask = Above(Top) /\ Above(Top)' = Above(Top)
      BY <1>1, <2>1, <1>2 DEF Levels, Above
    <3> QED
      BY <1>4, <2>1, <3>1
  <2>2. CASE me.old = Closed /\ Top = 1
    <3>1. alt_priority_mask = Above(1) /\ Above(1)' = Above(1)
      BY <1>1, <2>2, <1>2 DEF Levels
    <3> QED
      BY <1>4, <2>2, <3>1
  <2>3. CASE me.old = Closed /\ Top # 1
    <3>1. alt_priority_mask = Above(Top - 1) /\ Above(Top - 1)' = Above(Top - 1)
      BY <1>1, <2>3, <1>2 DEF Levels, Above
    <3> QED
      BY <1>4, <2>3, <3>1
  <2> QED
    BY <2>1, <2>2, <2>3
<1> QED
  BY <1>5, <1>6, <1>7, <1>8, <1>9, <1>10 DEF Levels

LEMMA FreshOff ==
  ASSUME NEW todo, Fresh(todo)
  PROVE  todo[1][1] = "off"
<1>1. todo \in Seq(Accesses) /\ todo # <<>> /\ WellFormed(todo) /\ Depth(todo) = 0
  BY DEF Fresh
<1>2. Place(todo[1][1], Len(todo), Depth(todo))
  BY <1>1, DepthIs
<1>3. \A op, n : Place(op, n, 0) => op = "off"
  BY DEF Place
<1> QED
  BY <1>1, <1>2, <1>3

\* The start of a call.
LEMMA CallHolds ==
  ASSUME MaskInv, NEW todo, Fresh(todo), Call(todo),
         Top > 1 => me.old = Closed /\ alt_priority_mask = Irqs /\ Len(todo) <= 5,
         Known(handler, todo)
  PROVE  MaskInv'
<1> DEFINE f == [me EXCEPT !.todo = todo]
<1>1. /\ Top \in Nat /\ Top >= 1 /\ Top \in 1 .. Top /\ me \in Frames /\ me = frames[Top]
      /\ \A k \in 1 .. Top : frames[k] \in Frames
  BY Types DEF MaskInv, MaskTypeOK
<1>2. /\ f \in Frames /\ f.isr = me.isr /\ f.todo = todo /\ f.saved = me.saved
      /\ f.loaded = me.loaded /\ f.old = me.old
  BY <1>1 DEF Frames, Fresh
<1>3. Become(f) /\ UNCHANGED <<pie, masks, table>> /\ me.todo = <<>>
  BY DEF Call, Free
<1> HIDE DEF f
<1>4. /\ frames' \in Seq(Frames) /\ Top' = Top /\ me' = f
      /\ \A k \in 1 .. Top : frames'[k] = IF k = Top THEN f ELSE frames[k]
  BY <1>2, <1>3, BecomeEffect DEF MaskInv
<1>5. MaskTypeOK'
  BY <1>3, <1>4 DEF MaskInv, MaskTypeOK, masks, table
<1>6. Top = 1 => me.old = Closed
  BY <1>1 DEF MaskInv, Levels
<1>7. Levels'
  <2>1. \A k \in 1 .. Top :
           /\ frames'[k].isr = frames[k].isr /\ frames'[k].old = frames[k].old
           /\ frames[k].old # Closed => frames'[k].todo = frames[k].todo
    BY <1>1, <1>2, <1>4, <1>6
  <2> QED
    BY <1>3, <1>4, <2>1, LevelsKept DEF MaskInv, masks
<1>8. me.saved = <<>>
  <2>1. Len(me.saved) = 0 /\ me.saved \in Seq(BOOLEAN)
    BY <1>1, <1>3 DEF MaskInv, Calls, Depth, Frames
  <2> QED
    BY <2>1
<1>9. Calls'
  <2>1. \A k \in 1 .. Top : WellFormed(frames'[k].todo)
    BY <1>2, <1>4 DEF MaskInv, Calls, Fresh
  <2>2. \A k \in 1 .. Top : Len(frames'[k].saved) = Depth(frames'[k].todo)
    BY <1>2, <1>4, <1>8 DEF MaskInv, Calls, Fresh
  <2>3. \A k \in 1 .. Top - 1 : frames'[k].saved = <<>>
    BY <1>1, <1>4 DEF MaskInv, Calls
  <2>4. \A k \in 2 .. Top : Len(frames'[k].todo) <= 5
    BY <1>1, <1>2, <1>4 DEF MaskInv, Calls
  <2>5. pie => Top = 1
    BY <1>1, <1>6 DEF MaskInv, Calls
  <2> QED
    BY <1>1, <1>2, <1>3, <1>4, <1>8, <2>1, <2>2, <2>3, <2>4, <2>5 DEF Calls, masks
<1>10. Enables'
  <2>1. todo[1][1] = "off"
    BY FreshOff
  <2>2. ienable = alt_irq_active \cap alt_priority_mask
    BY <1>3 DEF MaskInv, Enables, Doing
  <2> QED
    BY <1>2, <1>3, <1>4, <2>1, <2>2 DEF MaskInv, Enables, Doing, masks
<1>11. Handlers'
  <2>1. frames[1].saved = <<>>
    BY <1>1, <1>8 DEF MaskInv, Calls
  <2>2. \A k \in 1 .. Top : Known(handler, frames'[k].todo)
    BY <1>2, <1>4 DEF MaskInv, Handlers
  <2>3. handler' = handler /\ context' = context /\ alt_irq_active' = alt_irq_active
    BY <1>3 DEF masks, table
  <2>4. \A id \in Irqs : context[id] = handler[id]
    BY <2>1 DEF MaskInv, Handlers
  <2>5. \A id \in alt_irq_active : handler[id] # NoIsr
    BY <2>1 DEF MaskInv, Handlers
  <2>6. frames'[1].todo # <<>> /\ frames'[1].todo[1][1] = "context" =>
          handler[frames'[1].todo[1][2]] = frames'[1].todo[1][3]
    <3>1. CASE Top = 1
      BY <1>1, <1>2, <1>4, <3>1, FreshOff
    <3>2. CASE Top # 1
      BY <1>1, <1>4, <3>2 DEF MaskInv, Handlers
    <3> QED
      BY <3>1, <3>2
  <2> QED
    BY <1>4, <2>2, <2>3, <2>4, <2>5, <2>6 DEF Handlers
<1> QED
  BY <1>5, <1>7, <1>9, <1>10, <1>11 DEF MaskInv

-----------------------------------------------------------------------------
(* The accesses.  What they have in common: the frame on top goes on.      *)

\* The access that follows.
LEMMA NextAccess ==
  ASSUME NEW todo \in Seq(Accesses), todo # <<>>, WellFormed(todo)
  PROVE  LET op == todo[1][1]
             rest == Tail(todo)
         IN  /\ op = "off" => rest # <<>> /\ rest[1][1] \in {"load", "off", "handler"}
             /\ op = "load" => rest # <<>> /\ rest[1][1] \in {"enable", "disable"}
             /\ op \in {"enable", "disable"} => rest # <<>> /\ rest[1][1] = "ienable"
             /\ op = "ienable" => rest # <<>> /\ rest[1][1] = "restore"
             /\ op = "restore" => rest = <<>> \/ rest[1][1] = "restore"
             /\ op = "handler" => rest # <<>> /\ rest[1] = <<"context", todo[1][2], todo[1][3]>>
             /\ op = "context" =>
                   /\ rest # <<>> /\ rest[1][1] = "off" /\ Len(rest) = 6
                   /\ rest[3] = <<IF todo[1][3] = NoIsr THEN "disable" ELSE "enable", todo[1][2]>>
<1> DEFINE rest == Tail(todo)
<1>1. /\ rest \in Seq(Accesses) /\ Len(rest) = Len(todo) - 1
      /\ \A i \in 1 .. Len(rest) : rest[i] = todo[i + 1]
  BY TailCall
<1> HIDE DEF rest
<1>2. Len(todo) \in Nat /\ Len(todo) >= 1
  BY EmptySeq
<1>3. Follows(todo, 1)
  BY <1>2 DEF WellFormed
<1>4. Len(todo) >= 2 => rest # <<>> /\ rest[1] = todo[2]
  BY <1>1, <1>2
<1>5. Len(todo) >= 4 => rest[3] = todo[4]
  BY <1>1, <1>2
<1>6. Len(todo) = 1 => rest = <<>>
  BY <1>1
<1>7. Step(todo[1], Len(todo) - 1, todo[2], todo[4])
  BY <1>3 DEF Follows
<1> QED
  BY <1>1, <1>2, <1>4, <1>5, <1>6, <1>7 DEF Step, rest

\* A call under way: its frame, and where the others are.
LEMMA InCall ==
  ASSUME MaskInv, ~Free
  PROVE  /\ me.todo \in Seq(Accesses) /\ me.todo # <<>> /\ WellFormed(me.todo)
         /\ me.saved \in Seq(BOOLEAN) /\ Len(me.saved) = Depth(me.todo)
         /\ Done(me) \in Frames /\ Done(me).todo = Tail(me.todo)
         /\ Done(me).isr = me.isr /\ Done(me).saved = me.saved
         /\ Done(me).loaded = me.loaded /\ Done(me).old = me.old
         /\ me.old = Closed /\ (Top = 1 \/ alt_priority_mask = Irqs)
<1>1. /\ Top \in Nat /\ Top >= 1 /\ Top \in 1 .. Top /\ me \in Frames /\ me = frames[Top]
  BY Types DEF MaskInv, MaskTypeOK
<1>2. /\ me.todo \in Seq(Accesses) /\ me.todo # <<>> /\ me.saved \in Seq(BOOLEAN)
      /\ WellFormed(me.todo) /\ Len(me.saved) = Depth(me.todo)
  BY <1>1 DEF MaskInv, Calls, Free, Frames
<1>3. Tail(me.todo) \in Seq(Accesses)
  BY <1>2, TailCall
<1>4. /\ Done(me) \in Frames /\ Done(me).todo = Tail(me.todo)
      /\ Done(me).isr = me.isr /\ Done(me).saved = me.saved
      /\ Done(me).loaded = me.loaded /\ Done(me).old = me.old
  BY <1>1, <1>3 DEF Done, Frames
<1>5. me.old = Closed /\ (Top = 1 \/ alt_priority_mask = Irqs)
  BY <1>1, <1>2 DEF MaskInv, Levels, Calls
<1> QED
  BY <1>2, <1>4, <1>5

LEMMA GoesOn ==
  ASSUME MaskInv, ~Free, NEW f \in Frames, Become(f), f.todo = Tail(me.todo),
         f.isr = me.isr, f.old = me.old, alt_priority_mask' = alt_priority_mask,
         Len(f.saved) = Depth(f.todo), pie' => f.saved = <<>>,
         Len(f.saved) = 2 => f.saved[1] = FALSE,
         pie' \/ (\E i \in 1 .. Len(f.saved) : f.saved[i] = TRUE) => Top = 1
  PROVE  /\ Levels' /\ Calls'
         /\ frames' \in Seq(Frames) /\ Top' = Top /\ me' = f
         /\ \A k \in 1 .. Top : frames'[k] = IF k = Top THEN f ELSE frames[k]
<1>1. /\ Top \in Nat /\ Top >= 1 /\ Top \in 1 .. Top /\ me \in Frames /\ me = frames[Top]
      /\ \A k \in 1 .. Top : frames[k] \in Frames
  BY Types DEF MaskInv, MaskTypeOK
<1>2. /\ frames' \in Seq(Frames) /\ Top' = Top /\ me' = f
      /\ \A k \in 1 .. Top : frames'[k] = IF k = Top THEN f ELSE frames[k]
  BY BecomeEffect DEF MaskInv
<1>3. me.old = Closed /\ (Top = 1 \/ alt_priority_mask = Irqs)
  BY InCall
<1>4. Levels'
  <2>1. \A k \in 1 .. Top :
           /\ frames'[k].isr = frames[k].isr /\ frames'[k].old = frames[k].old
           /\ frames[k].old # Closed => frames'[k].todo = frames[k].todo
    BY <1>1, <1>2, <1>3
  <2> QED
    BY <1>2, <2>1, LevelsKept DEF MaskInv
<1>5. WellFormed(f.todo) /\ Len(f.todo) = Len(me.todo) - 1 /\ Len(me.todo) \in Nat
  BY InCall, TailCall
<1>6. Calls'
  <2>1. \A k \in 1 .. Top : WellFormed(frames'[k].todo)
    BY <1>2, <1>5 DEF MaskInv, Calls
  <2>2. \A k \in 1 .. Top : Len(frames'[k].saved) = Depth(frames'[k].todo)
    BY <1>2 DEF MaskInv, Calls
  <2>3. \A k \in 1 .. Top - 1 : frames'[k].saved = <<>>
    BY <1>1, <1>2 DEF MaskInv, Calls
  <2>4. \A k \in 2 .. Top : Len(frames'[k].todo) <= 5
    <3>1. \A k \in 2 .. Top : k \in 1 .. Top /\ Len(frames[k].todo) <= 5
      BY <1>1 DEF MaskInv, Calls
    <3>2. Top \in 2 .. Top => Len(f.todo) <= 5
      BY <1>1, <1>5, <3>1
    <3> QED
      BY <1>1, <1>2, <3>1, <3>2
  <2>5. (pie => me.saved = <<>>)'
    BY <1>2
  <2>6. (Len(me.saved) = 2 => me.saved[1] = FALSE)'
    BY <1>2
  <2>7. (pie \/ (\E i \in 1 .. Len(me.saved) : me.saved[i] = TRUE) => Top = 1 \/ me.old # Closed)'
    BY <1>2, Zenon
  <2>8. (Top > 1 /\ me.todo # <<>> => me.old = Closed /\ alt_priority_mask = Irqs)'
    BY <1>1, <1>2, <1>3
  <2> QED
    BY <1>2, <2>1, <2>2, <2>3, <2>4, <2>5, <2>6, <2>7, <2>8 DEF Calls
<1> QED
  BY <1>2, <1>4, <1>6

LEMMA AccessForm ==
  ASSUME NEW a \in Accesses
  PROVE  /\ a[1] \in {"off", "restore", "load", "ienable", "enable", "disable", "handler", "context"}
         /\ a[1] \in {"enable", "disable"} => a[2] \in Irqs /\ a = <<a[1], a[2]>>
         /\ a[1] \in {"handler", "context"} =>
               a[2] \in Irqs /\ a[3] \in Isrs \cup {NoIsr} /\ a = <<a[1], a[2], a[3]>>
BY DEF Accesses

\* What an access leaves of the handlers that a call needs.
LEMMA KnownRest ==
  ASSUME NEW todo \in Seq(Accesses), todo # <<>>, WellFormed(todo), NEW handlers,
         Known(handlers, todo), todo[1][1] # "handler"
  PROVE  Known(handlers, Tail(todo))
<1> DEFINE rest == Tail(todo)
<1>1. /\ Len(rest) = Len(todo) - 1 /\ Len(rest) \in Nat /\ Len(todo) \in Nat
      /\ \A i \in 1 .. Len(rest) : rest[i] = todo[i + 1]
  BY TailCall
<1> HIDE DEF rest
<1>2. ASSUME NEW i \in 1 .. Len(rest), rest[i][1] = "enable", handlers[rest[i][2]] = NoIsr
      PROVE  \E j \in 1 .. i - 1 : rest[j][1] = "handler"
  <2>1. i + 1 \in 1 .. Len(todo) /\ rest[i] = todo[i + 1]
    BY <1>1
  <2>2. PICK j \in 1 .. (i + 1) - 1 : todo[j][1] = "handler"
    BY <1>2, <2>1 DEF Known
  <2>3. j - 1 \in 1 .. i - 1 /\ j - 1 \in 1 .. Len(rest) /\ rest[j - 1] = todo[(j - 1) + 1]
    BY <1>1, <2>2
  <2> QED
    BY <2>2, <2>3
<1> QED
  BY <1>2 DEF Known, rest

\* What is still to be disabled.
LEMMA DisableRest ==
  ASSUME NEW todo \in Seq(Accesses), todo # <<>>, WellFormed(todo), NEW id,
         NEW i \in 1 .. Len(todo), todo[i] = <<"disable", id>>, i # 1
  PROVE  /\ \E k \in 1 .. Len(Tail(todo)) : Tail(todo)[k] = <<"disable", id>>
         /\ todo[1][1] # "restore"
<1> DEFINE rest == Tail(todo)
<1>1. /\ Len(rest) = Len(todo) - 1 /\ Len(rest) \in Nat /\ Len(todo) \in Nat
      /\ \A k \in 1 .. Len(rest) : rest[k] = todo[k + 1]
  BY TailCall
<1>2. Follows(todo, 1)
  BY <1>1 DEF WellFormed
<1> HIDE DEF rest
<1>3. i - 1 \in 1 .. Len(rest) /\ rest[i - 1] = <<"disable", id>>
  BY <1>1
<1>4. ASSUME todo[1][1] = "restore" PROVE FALSE
  <2>1. Len(todo) - 1 \in 0 .. 1 /\ (Len(todo) - 1 = 1 => todo[2][1] = "restore")
    BY <1>1, <1>2, <1>4 DEF Follows, Step
  <2>2. i = 2
    <3>1. Len(todo) \in {1, 2} /\ i \in Nat /\ 1 <= i /\ i <= Len(todo)
      BY <1>1, <2>1
    <3> QED
      BY <3>1
  <2> QED
    BY <1>1, <2>1, <2>2
<1>5. \E k \in 1 .. Len(rest) : rest[k] = <<"disable", id>>
  BY <1>3
<1> QED
  BY <1>4, <1>5 DEF rest

LEMMA HandlersKept ==
  ASSUME MaskInv, ~Free, NEW f \in Frames, f.todo = Tail(me.todo), Top' = Top,
         \A k \in 1 .. Top : frames'[k] = IF k = Top THEN f ELSE frames[k],
         me.todo[1][1] \notin {"handler", "context"}, handler' = handler, context' = context,
         me.todo[1][1] # "restore" => f.saved # <<>>,
         \A id \in alt_irq_active' :
            \/ id \in alt_irq_active /\ me.todo[1] # <<"disable", id>>
            \/ me.todo[1] = <<"enable", id>>
  PROVE  Handlers'
<1>1. /\ Top \in Nat /\ Top >= 1 /\ Top \in 1 .. Top /\ me = frames[Top] /\ 1 \in 1 .. Top
  BY Types DEF MaskInv, MaskTypeOK
<1>2. /\ me.todo \in Seq(Accesses) /\ me.todo # <<>> /\ WellFormed(me.todo) /\ 1 \in 1 .. Len(me.todo)
  BY InCall, EmptySeq
<1>3. Top # 1 => frames[1].saved = <<>> /\ frames'[1] = frames[1]
  BY <1>1 DEF MaskInv, Calls
<1>4. Top = 1 => frames[1] = me /\ frames'[1] = f
  BY <1>1
<1>5. \A id \in Irqs : context[id] = handler[id]
  BY <1>3, <1>4 DEF MaskInv, Handlers
<1>6. frames'[1].todo # <<>> /\ frames'[1].todo[1][1] = "context" =>
        handler[frames'[1].todo[1][2]] = frames'[1].todo[1][3]
  <2>1. f.todo # <<>> => f.todo[1][1] # "context"
    <3>1. me.todo[1] \in Accesses
      BY <1>2
    <3> QED
      BY <1>2, <3>1, AccessForm, NextAccess
  <2> QED
    BY <1>3, <1>4, <2>1 DEF MaskInv, Handlers
<1>7. \A k \in 1 .. Top : Known(handler, frames'[k].todo)
  BY <1>1, <1>2, KnownRest DEF MaskInv, Handlers
<1>8. ASSUME NEW id \in alt_irq_active', handler[id] = NoIsr
      PROVE  /\ frames'[1].saved # <<>>
             /\ \E i \in 1 .. Len(frames'[1].todo) : frames'[1].todo[i] = <<"disable", id>>
  <2>1. Known(handler, me.todo)
    BY <1>1 DEF MaskInv, Handlers
  <2>2. me.todo[1] # <<"enable", id>>
    BY <1>2, <1>8, <2>1 DEF Known
  <2>3. id \in alt_irq_active /\ me.todo[1] # <<"disable", id>>
    BY <2>2
  <2>4. Top = 1 /\ \E i \in 1 .. Len(me.todo) : me.todo[i] = <<"disable", id>>
    BY <1>3, <1>4, <1>8, <2>3 DEF MaskInv, Handlers
  <2>5. PICK i \in 1 .. Len(me.todo) : me.todo[i] = <<"disable", id>>
    BY <2>4
  <2>6. i # 1
    BY <2>3, <2>5
  <2>7. /\ \E k \in 1 .. Len(Tail(me.todo)) : Tail(me.todo)[k] = <<"disable", id>>
        /\ me.todo[1][1] # "restore"
    BY <1>2, <2>5, <2>6, DisableRest
  <2> QED
    BY <1>4, <2>4, <2>7
<1> QED
  BY <1>5, <1>6, <1>7, <1>8 DEF Handlers

LEMMA OffHolds == ASSUME MaskInv, Off PROVE MaskInv'
<1> DEFINE f == [Done(me) EXCEPT !.saved = <<pie>> \o @]
<1>1. ~Free /\ me.todo[1][1] = "off" /\ pie' = FALSE /\ Become(f) /\ UNCHANGED <<masks, table>>
  BY DEF Off, Todo
<1>2. /\ me.todo \in Seq(Accesses) /\ me.todo # <<>> /\ WellFormed(me.todo)
      /\ me.saved \in Seq(BOOLEAN) /\ Len(me.saved) = Depth(me.todo)
      /\ Done(me) \in Frames /\ Done(me).todo = Tail(me.todo)
      /\ Done(me).isr = me.isr /\ Done(me).saved = me.saved /\ Done(me).old = me.old
      /\ me.old = Closed /\ pie \in BOOLEAN
  BY <1>1, InCall DEF MaskInv, MaskTypeOK
<1>3. /\ <<pie>> \o me.saved \in Seq(BOOLEAN) /\ Len(<<pie>> \o me.saved) = Len(me.saved) + 1
      /\ \A i \in 1 .. Len(me.saved) + 1 :
            (<<pie>> \o me.saved)[i] = IF i = 1 THEN pie ELSE me.saved[i - 1]
  <2>1. <<pie>> \in Seq(BOOLEAN) /\ Len(<<pie>>) = 1 /\ <<pie>>[1] = pie
    BY <1>2
  <2> DEFINE q == <<pie>>
  <2> HIDE DEF q
  <2>2. /\ q \o me.saved \in Seq(BOOLEAN) /\ Len(q \o me.saved) = Len(q) + Len(me.saved)
        /\ \A i \in 1 .. Len(q) + Len(me.saved) :
              (q \o me.saved)[i] = IF i <= Len(q) THEN q[i] ELSE me.saved[i - Len(q)]
    BY <1>2, <2>1, ConcatProperties DEF q
  <2> QED
    BY <1>2, <2>1, <2>2 DEF q
<1>4. /\ f \in Frames /\ f.isr = me.isr /\ f.old = me.old /\ f.todo = Tail(me.todo)
      /\ f.saved = <<pie>> \o me.saved
  BY <1>2, <1>3 DEF Frames
<1> HIDE DEF f
<1>5. Len(f.saved) = Depth(f.todo)
  BY <1>1, <1>2, <1>3, <1>4, TailDepth
<1>6. Len(f.saved) = 2 => f.saved[1] = FALSE
  <2>1. ASSUME Len(f.saved) = 2 PROVE pie = FALSE
    <3>1. me.saved # <<>>
      BY <1>2, <1>3, <1>4, <2>1
    <3> QED
      BY <1>2, <3>1 DEF MaskInv, Calls
  <2>2. f.saved[1] = pie
    BY <1>2, <1>3, <1>4
  <2> QED
    BY <2>1, <2>2
<1>7. (\E i \in 1 .. Len(f.saved) : f.saved[i] = TRUE) => Top = 1
  <2> SUFFICES ASSUME NEW i \in 1 .. Len(f.saved), f.saved[i] = TRUE PROVE Top = 1
    OBVIOUS
  <2>1. pie = TRUE \/ \E k \in 1 .. Len(me.saved) : me.saved[k] = TRUE
    BY <1>2, <1>3, <1>4
  <2> QED
    BY <1>2, <2>1 DEF MaskInv, Calls
<1>8. /\ Levels' /\ Calls' /\ frames' \in Seq(Frames) /\ Top' = Top /\ me' = f
      /\ \A k \in 1 .. Top : frames'[k] = IF k = Top THEN f ELSE frames[k]
  BY <1>1, <1>4, <1>5, <1>6, <1>7, GoesOn DEF masks
<1>9. MaskTypeOK'
  BY <1>1, <1>8 DEF MaskInv, MaskTypeOK, masks, table
<1>10. Enables'
  <2>1. f.todo # <<>> /\ f.todo[1][1] \in {"load", "off", "handler"}
    BY <1>1, <1>2, <1>4, NextAccess
  <2> QED
    BY <1>1, <1>8, <2>1 DEF MaskInv, Enables, Doing, masks
<1>11. Handlers'
  <2>1. f.saved # <<>>
    BY <1>2, <1>3, <1>4
  <2>2. \A id : me.todo[1] # <<"disable", id>>
    BY <1>1
  <2> QED
    BY <1>1, <1>4, <1>8, <2>1, <2>2, HandlersKept DEF table, masks
<1> QED
  BY <1>8, <1>9, <1>10, <1>11 DEF MaskInv

LEMMA RestoreHolds == ASSUME MaskInv, Restore PROVE MaskInv'
<1> DEFINE f == [Done(me) EXCEPT !.saved = Tail(@)]
<1>1. /\ ~Free /\ me.todo[1][1] = "restore" /\ pie' = Head(me.saved) /\ Become(f)
      /\ UNCHANGED <<masks, table>>
  BY DEF Restore, Todo
<1>2. /\ me.todo \in Seq(Accesses) /\ me.todo # <<>> /\ WellFormed(me.todo)
      /\ me.saved \in Seq(BOOLEAN) /\ Len(me.saved) = Depth(me.todo)
      /\ Done(me) \in Frames /\ Done(me).todo = Tail(me.todo)
      /\ Done(me).isr = me.isr /\ Done(me).saved = me.saved /\ Done(me).old = me.old
      /\ me.old = Closed
  BY <1>1, InCall
<1>3. Len(me.saved) \in 1 .. 2
  <2>1. Place("restore", Len(me.todo), Depth(me.todo))
    BY <1>1, <1>2, DepthIs
  <2> QED
    BY <1>2, <2>1 DEF Place
<1>4. /\ Tail(me.saved) \in Seq(BOOLEAN) /\ Len(Tail(me.saved)) = Len(me.saved) - 1
      /\ \A i \in 1 .. Len(Tail(me.saved)) : Tail(me.saved)[i] = me.saved[i + 1]
      /\ Head(me.saved) \in BOOLEAN /\ Head(me.saved) = me.saved[1]
  <2> DEFINE s == me.saved
  <2>1. s \in Seq(BOOLEAN) /\ s # <<>> /\ Head(s) = s[1]
    BY <1>2, <1>3
  <2> HIDE DEF s
  <2>2. /\ Head(s) \in BOOLEAN /\ Tail(s) \in Seq(BOOLEAN) /\ Len(Tail(s)) = Len(s) - 1
        /\ \A i \in 1 .. Len(Tail(s)) : Tail(s)[i] = s[i + 1]
    BY <2>1, HeadTailProperties
  <2> QED
    BY <2>1, <2>2 DEF s
<1>5. /\ f \in Frames /\ f.isr = me.isr /\ f.old = me.old /\ f.todo = Tail(me.todo)
      /\ f.saved = Tail(me.saved)
  BY <1>2, <1>4 DEF Frames
<1> HIDE DEF f
<1>6. Len(f.saved) = Depth(f.todo)
  BY <1>1, <1>2, <1>4, <1>5, TailDepth
<1>7. pie' => f.saved = <<>>
  <2>1. CASE Len(me.saved) = 1
    <3>1. f.saved \in Seq(BOOLEAN) /\ Len(f.saved) = 0
      BY <1>4, <1>5, <2>1
    <3> QED
      BY <3>1, EmptySeq
  <2>2. CASE Len(me.saved) = 2
    BY <1>1, <1>4, <2>2 DEF MaskInv, Calls
  <2> QED
    BY <1>3, <2>1, <2>2
<1>8. Len(f.saved) # 2
  <2>1. Len(me.saved) \in {1, 2} /\ Len(f.saved) = Len(me.saved) - 1
    BY <1>3, <1>4, <1>5
  <2> QED
    BY <2>1
<1>9. pie' \/ (\E i \in 1 .. Len(f.saved) : f.saved[i] = TRUE) => Top = 1
  <2>1. ASSUME pie' PROVE me.saved[1] = TRUE
    BY <1>1, <1>4, <2>1
  <2>2. ASSUME NEW i \in 1 .. Len(f.saved), f.saved[i] = TRUE
        PROVE  \E k \in 1 .. Len(me.saved) : me.saved[k] = TRUE
    BY <1>3, <1>4, <1>5, <2>2
  <2>3. (\E k \in 1 .. Len(me.saved) : me.saved[k] = TRUE) => Top = 1
    BY <1>2 DEF MaskInv, Calls
  <2>4. 1 \in 1 .. Len(me.saved)
    BY <1>3
  <2> QED
    BY <2>1, <2>2, <2>3, <2>4
<1>10. /\ Levels' /\ Calls' /\ frames' \in Seq(Frames) /\ Top' = Top /\ me' = f
       /\ \A k \in 1 .. Top : frames'[k] = IF k = Top THEN f ELSE frames[k]
  BY <1>1, <1>5, <1>6, <1>7, <1>8, <1>9, GoesOn DEF masks
<1>11. MaskTypeOK'
  BY <1>1, <1>4, <1>10 DEF MaskInv, MaskTypeOK, masks, table
<1>12. Enables'
  <2>1. f.todo = <<>> \/ f.todo[1][1] = "restore"
    BY <1>1, <1>2, <1>5, NextAccess
  <2> QED
    BY <1>1, <1>10, <2>1 DEF MaskInv, Enables, Doing, masks
<1>13. Handlers'
  <2>1. \A id : me.todo[1] # <<"disable", id>>
    BY <1>1
  <2> QED
    BY <1>1, <1>5, <1>10, <2>1, HandlersKept DEF table, masks
<1> QED
  BY <1>10, <1>11, <1>12, <1>13 DEF MaskInv

\* The accesses between: the depth stays.
LEMMA Within ==
  ASSUME MaskInv, ~Free, me.todo[1][1] \notin {"off", "restore"}
  PROVE  /\ Depth(Tail(me.todo)) = Len(me.saved) /\ me.saved # <<>> /\ ~pie
         /\ Len(me.saved) = 2 => me.saved[1] = FALSE
         /\ (\E i \in 1 .. Len(me.saved) : me.saved[i] = TRUE) => Top = 1
<1>1. /\ me.todo \in Seq(Accesses) /\ me.todo # <<>> /\ WellFormed(me.todo)
      /\ me.saved \in Seq(BOOLEAN) /\ Len(me.saved) = Depth(me.todo) /\ me.old = Closed
  BY InCall
<1>2. Depth(Tail(me.todo)) = Len(me.saved)
  BY <1>1, TailDepth
<1>3. me.saved # <<>>
  <2>1. me.todo[1] \in Accesses /\ Place(me.todo[1][1], Len(me.todo), Depth(me.todo))
    BY <1>1, DepthIs
  <2>2. \A op, n : Place(op, n, 0) => op = "off"
    BY DEF Place
  <2> QED
    BY <1>1, <2>1, <2>2
<1> QED
  BY <1>1, <1>2, <1>3 DEF MaskInv, Calls

LEMMA LoadHolds == ASSUME MaskInv, Load PROVE MaskInv'
<1> DEFINE f == [Done(me) EXCEPT !.loaded = alt_irq_active]
<1>1. ~Free /\ me.todo[1][1] = "load" /\ Become(f) /\ UNCHANGED <<pie, masks, table>>
  BY DEF Load, Todo
<1>2. /\ me.todo \in Seq(Accesses) /\ me.todo # <<>> /\ WellFormed(me.todo)
      /\ Done(me) \in Frames /\ Done(me).todo = Tail(me.todo)
      /\ Done(me).isr = me.isr /\ Done(me).saved = me.saved /\ Done(me).old = me.old
  BY <1>1, InCall
<1>3. /\ f \in Frames /\ f.isr = me.isr /\ f.old = me.old /\ f.todo = Tail(me.todo)
      /\ f.saved = me.saved /\ f.loaded = alt_irq_active
  BY <1>2 DEF Frames, MaskInv, MaskTypeOK
<1> HIDE DEF f
<1>4. /\ Depth(Tail(me.todo)) = Len(me.saved) /\ me.saved # <<>> /\ ~pie
      /\ Len(me.saved) = 2 => me.saved[1] = FALSE
      /\ (\E i \in 1 .. Len(me.saved) : me.saved[i] = TRUE) => Top = 1
  BY <1>1, Within
<1>5. /\ Levels' /\ Calls' /\ frames' \in Seq(Frames) /\ Top' = Top /\ me' = f
      /\ \A k \in 1 .. Top : frames'[k] = IF k = Top THEN f ELSE frames[k]
  BY <1>1, <1>3, <1>4, GoesOn DEF masks
<1>6. MaskTypeOK'
  BY <1>1, <1>5 DEF MaskInv, MaskTypeOK, masks, table
<1>7. Enables'
  <2>1. f.todo # <<>> /\ f.todo[1][1] \in {"enable", "disable"}
    BY <1>1, <1>2, <1>3, NextAccess
  <2> QED
    BY <1>1, <1>3, <1>5, <2>1 DEF MaskInv, Enables, Doing, masks
<1>8. Handlers'
  <2>1. \A id : me.todo[1] # <<"disable", id>>
    BY <1>1
  <2> QED
    BY <1>1, <1>3, <1>4, <1>5, <2>1, HandlersKept DEF table, masks
<1> QED
  BY <1>5, <1>6, <1>7, <1>8 DEF MaskInv

LEMMA StoreHolds == ASSUME MaskInv, Store PROVE MaskInv'
<1> DEFINE f == [Done(me) EXCEPT !.loaded = {}]
<1>1. /\ ~Free /\ me.todo[1][1] \in {"enable", "disable"} /\ Become(f)
      /\ UNCHANGED <<pie, ienable, alt_priority_mask, table>>
  BY DEF Store, Todo
<1>2. /\ me.todo \in Seq(Accesses) /\ me.todo # <<>> /\ WellFormed(me.todo)
      /\ Done(me) \in Frames /\ Done(me).todo = Tail(me.todo)
      /\ Done(me).isr = me.isr /\ Done(me).saved = me.saved /\ Done(me).old = me.old
  BY <1>1, InCall
<1>3. me.todo[1] \in Accesses /\ me.todo[1][2] \in Irqs /\ me.todo[1] = <<me.todo[1][1], me.todo[1][2]>>
  BY <1>1, <1>2, AccessForm
<1>4. /\ asked' = alt_irq_active'
      /\ alt_irq_active' = IF me.todo[1][1] = "enable" THEN alt_irq_active \cup {me.todo[1][2]}
                            ELSE alt_irq_active \ {me.todo[1][2]}
  <2> DEFINE op == me.todo[1][1]  id == me.todo[1][2]
  <2>1. Todo = me.todo[1]
    BY <1>2 DEF Todo
  <2>2. me.loaded = alt_irq_active /\ asked = alt_irq_active
    BY <1>1, <1>2 DEF MaskInv, Enables, Doing
  <2>3. LET Changed(set) == IF op = "enable" THEN set \cup {id} ELSE set \ {id}
        IN  alt_irq_active' = Changed(me.loaded) /\ asked' = Changed(asked)
    BY <2>1 DEF Store
  <2> QED
    BY <2>2, <2>3
<1>5. /\ f \in Frames /\ f.isr = me.isr /\ f.old = me.old /\ f.todo = Tail(me.todo)
      /\ f.saved = me.saved
  BY <1>2 DEF Frames
<1> HIDE DEF f
<1>6. /\ Depth(Tail(me.todo)) = Len(me.saved) /\ me.saved # <<>> /\ ~pie
      /\ Len(me.saved) = 2 => me.saved[1] = FALSE
      /\ (\E i \in 1 .. Len(me.saved) : me.saved[i] = TRUE) => Top = 1
  BY <1>1, Within
<1>7. /\ Levels' /\ Calls' /\ frames' \in Seq(Frames) /\ Top' = Top /\ me' = f
      /\ \A k \in 1 .. Top : frames'[k] = IF k = Top THEN f ELSE frames[k]
  BY <1>1, <1>5, <1>6, GoesOn
<1>8. MaskTypeOK'
  BY <1>1, <1>3, <1>4, <1>7 DEF MaskInv, MaskTypeOK, table
<1>9. Enables'
  <2>1. f.todo # <<>> /\ f.todo[1][1] = "ienable"
    BY <1>1, <1>2, <1>5, NextAccess
  <2> QED
    BY <1>4, <1>7, <2>1 DEF Enables, Doing
<1>10. Handlers'
  <2>1. ASSUME NEW id \in alt_irq_active'
        PROVE  \/ id \in alt_irq_active /\ me.todo[1] # <<"disable", id>>
               \/ me.todo[1] = <<"enable", id>>
    <3>1. CASE me.todo[1][1] = "enable"
      BY <1>3, <1>4, <3>1
    <3>2. CASE me.todo[1][1] = "disable"
      BY <1>3, <1>4, <3>2
    <3> QED
      BY <1>1, <3>1, <3>2
  <2> QED
    BY <1>1, <1>5, <1>6, <1>7, <2>1, HandlersKept DEF table
<1> QED
  BY <1>7, <1>8, <1>9, <1>10 DEF MaskInv

LEMMA WriteIenableHolds == ASSUME MaskInv, WriteIenable PROVE MaskInv'
<1> DEFINE f == Done(me)
<1>1. /\ ~Free /\ me.todo[1][1] = "ienable" /\ Become(f) /\ ienable' = alt_irq_active
      /\ UNCHANGED <<pie, alt_irq_active, alt_priority_mask, asked, table>>
  BY DEF WriteIenable, Todo
<1>2. /\ me.todo \in Seq(Accesses) /\ me.todo # <<>> /\ WellFormed(me.todo)
      /\ f \in Frames /\ f.todo = Tail(me.todo)
      /\ f.isr = me.isr /\ f.saved = me.saved /\ f.old = me.old
      /\ me.old = Closed /\ (Top = 1 \/ alt_priority_mask = Irqs)
  BY <1>1, InCall
<1> HIDE DEF f
<1>3. /\ Depth(Tail(me.todo)) = Len(me.saved) /\ me.saved # <<>> /\ ~pie
      /\ Len(me.saved) = 2 => me.saved[1] = FALSE
      /\ (\E i \in 1 .. Len(me.saved) : me.saved[i] = TRUE) => Top = 1
  BY <1>1, Within
<1>4. /\ Levels' /\ Calls' /\ frames' \in Seq(Frames) /\ Top' = Top /\ me' = f
      /\ \A k \in 1 .. Top : frames'[k] = IF k = Top THEN f ELSE frames[k]
  BY <1>1, <1>2, <1>3, GoesOn
<1>5. MaskTypeOK'
  BY <1>1, <1>4 DEF MaskInv, MaskTypeOK, table
<1>6. Enables'
  <2>1. f.todo # <<>> /\ f.todo[1][1] = "restore"
    BY <1>1, <1>2, NextAccess
  <2>2. alt_priority_mask = Irqs
    <3>1. CASE Top = 1
      BY <1>2, <3>1 DEF MaskInv, Levels, Above
    <3> QED
      BY <1>2, <3>1
  <2>3. ienable' = alt_irq_active' \cap alt_priority_mask'
    BY <1>1, <2>2 DEF MaskInv, MaskTypeOK
  <2> QED
    BY <1>1, <1>4, <2>1, <2>3 DEF MaskInv, Enables, Doing
<1>7. Handlers'
  <2>1. \A id : me.todo[1] # <<"disable", id>>
    BY <1>1
  <2> QED
    BY <1>1, <1>2, <1>3, <1>4, <2>1, HandlersKept DEF table
<1> QED
  BY <1>4, <1>5, <1>6, <1>7 DEF MaskInv

\* Only the program registers.
LEMMA Registering ==
  ASSUME MaskInv, ~Free, me.todo[1][1] \in {"handler", "context"}
  PROVE  Top = 1 /\ Len(me.todo) >= 7 /\ Len(me.todo) <= 8
<1>1. /\ me.todo \in Seq(Accesses) /\ me.todo # <<>> /\ WellFormed(me.todo)
  BY InCall
<1>2. Len(me.todo) \in Nat /\ Len(me.todo) >= 7 /\ Len(me.todo) <= 8
  <2>1. Place(me.todo[1][1], Len(me.todo), Depth(me.todo))
    BY <1>1, DepthIs
  <2>2. \A op, n, depth : op \in {"handler", "context"} /\ Place(op, n, depth) => n \in {7, 8}
    BY DEF Place
  <2>3. Len(me.todo) \in {7, 8}
    BY <2>1, <2>2
  <2>4. \A n \in {7, 8} : n \in Nat /\ n >= 7 /\ n <= 8
    OBVIOUS
  <2> QED
    BY <2>3, <2>4
<1>3. Top \in Nat /\ Top >= 1 /\ me = frames[Top]
  BY Types DEF MaskInv, MaskTypeOK
<1>4. ASSUME Top # 1 PROVE FALSE
  <2>1. Top \in 2 .. Top
    BY <1>3, <1>4
  <2>2. Len(me.todo) <= 5
    BY <1>3, <2>1 DEF MaskInv, Calls
  <2> QED
    BY <1>2, <2>2
<1> QED
  BY <1>2, <1>4

\* The call that registers, from the access that stores the routine on.
LEMMA RegisterRest ==
  ASSUME NEW todo \in Seq(Accesses), todo # <<>>, WellFormed(todo), todo[1][1] = "context"
  PROVE  LET rest == Tail(todo)
         IN  /\ rest \in Seq(Accesses) /\ Len(rest) = 6
             /\ rest[3] = <<IF todo[1][3] = NoIsr THEN "disable" ELSE "enable", todo[1][2]>>
             /\ \A i \in 1 .. 6 : i # 3 => rest[i][1] \notin {"enable", "handler"}
<1> DEFINE rest == Tail(todo)
<1>1. rest \in Seq(Accesses) /\ WellFormed(rest)
  BY TailCall
<1>2. /\ rest # <<>> /\ rest[1][1] = "off" /\ Len(rest) = 6
      /\ rest[3] = <<IF todo[1][3] = NoIsr THEN "disable" ELSE "enable", todo[1][2]>>
  BY NextAccess
<1> HIDE DEF rest
<1>3. /\ Follows(rest, 1) /\ Follows(rest, 2) /\ Follows(rest, 3) /\ Follows(rest, 4)
      /\ Follows(rest, 5) /\ Follows(rest, 6)
  BY <1>1, <1>2 DEF WellFormed
<1>4. rest[3][1] \in {"enable", "disable"}
  BY <1>2
<1>5. /\ rest[2][1] \notin {"enable", "handler"} /\ rest[4][1] \notin {"enable", "handler"}
      /\ rest[5][1] \notin {"enable", "handler"} /\ rest[6][1] \notin {"enable", "handler"}
  BY <1>2, <1>3, <1>4 DEF Follows, Step
<1>6. \A i \in 1 .. 6 : i \in {1, 2, 3, 4, 5, 6}
  OBVIOUS
<1>7. \A i \in 1 .. 6 : i # 3 => rest[i][1] \notin {"enable", "handler"}
  BY <1>2, <1>5, <1>6
<1> QED
  BY <1>1, <1>2, <1>7 DEF rest

LEMMA SetHandlerHolds == ASSUME MaskInv, SetHandler PROVE MaskInv'
<1> DEFINE f == Done(me)  op == me.todo[1][1]  id == me.todo[1][2]  isr == me.todo[1][3]
<1>1. /\ ~Free /\ op \in {"handler", "context"} /\ Become(f)
      /\ UNCHANGED <<pie, masks>>
  BY DEF SetHandler, Todo
<1>2. /\ me.todo \in Seq(Accesses) /\ me.todo # <<>> /\ WellFormed(me.todo)
      /\ f \in Frames /\ f.todo = Tail(me.todo)
      /\ f.isr = me.isr /\ f.saved = me.saved /\ f.old = me.old
  BY <1>1, InCall
<1> HIDE DEF f
<1>3. /\ Depth(Tail(me.todo)) = Len(me.saved) /\ me.saved # <<>> /\ ~pie
      /\ Len(me.saved) = 2 => me.saved[1] = FALSE
      /\ (\E i \in 1 .. Len(me.saved) : me.saved[i] = TRUE) => Top = 1
  BY <1>1, Within
<1>4. /\ Levels' /\ Calls' /\ frames' \in Seq(Frames) /\ Top' = Top /\ me' = f
      /\ \A k \in 1 .. Top : frames'[k] = IF k = Top THEN f ELSE frames[k]
  BY <1>1, <1>2, <1>3, GoesOn DEF masks
<1>5. /\ me.todo[1] \in Accesses /\ id \in Irqs /\ isr \in Isrs \cup {NoIsr}
      /\ me.todo[1] = <<op, id, isr>>
  BY <1>1, <1>2, AccessForm
<1>6. /\ op = "handler" => handler' = [handler EXCEPT ![id] = isr] /\ context' = context
      /\ op = "context" => context' = [context EXCEPT ![id] = isr] /\ handler' = handler
  <2>1. Todo = me.todo[1]
    BY <1>2 DEF Todo
  <2> QED
    BY <1>1, <2>1 DEF SetHandler
<1>7. MaskTypeOK'
  BY <1>1, <1>4, <1>5, <1>6 DEF MaskInv, MaskTypeOK, masks
<1>8. f.todo # <<>> /\ f.todo[1][1] \in {"off", "context"}
  BY <1>1, <1>2, NextAccess
<1>9. Enables'
  BY <1>1, <1>4, <1>8 DEF MaskInv, Enables, Doing, masks
<1>10. /\ Top = 1 /\ frames[1] = me /\ frames'[1] = f
       /\ \A k \in 1 .. Top' : frames'[k] = f
       /\ \A k \in 1 .. Len(me.todo) : me.todo[k] = me.todo[1] => me.todo[k][1] = op
  <2>1. Top = 1
    BY <1>1, Registering
  <2> QED
    BY <1>4, <2>1, Types DEF MaskInv
<1> DEFINE rest == Tail(me.todo)
<1>11. /\ rest \in Seq(Accesses) /\ Len(rest) = Len(me.todo) - 1 /\ Len(rest) \in Nat
       /\ \A i \in 1 .. Len(rest) : rest[i] = me.todo[i + 1]
       /\ WellFormed(rest) /\ f.todo = rest
  BY <1>2, TailCall
<1> HIDE DEF rest
<1>12. ASSUME NEW line \in alt_irq_active, handler[line] = NoIsr
       PROVE  \E k \in 1 .. Len(rest) : rest[k] = <<"disable", line>>
  <2>1. PICK i \in 1 .. Len(me.todo) : me.todo[i] = <<"disable", line>>
    BY <1>10, <1>12 DEF MaskInv, Handlers
  <2>2. i # 1
    BY <1>1, <2>1
  <2> QED
    BY <1>2, <2>1, <2>2, DisableRest DEF rest
<1>13. \A line \in Irqs : context[line] = handler[line] \/ me.todo[1] = <<"context", line, handler[line]>>
  BY <1>10 DEF MaskInv, Handlers
<1>14. handler \in [Irqs -> Isrs \cup {NoIsr}] /\ context \in [Irqs -> Isrs \cup {NoIsr}]
  BY DEF MaskInv, MaskTypeOK
<1>15. ASSUME op = "handler" PROVE Handlers'
  <2>1. /\ \A line \in Irqs : handler'[line] = IF line = id THEN isr ELSE handler[line]
        /\ context' = context
    BY <1>5, <1>6, <1>14, <1>15
  <2>2. rest # <<>> /\ rest[1] = <<"context", id, isr>>
    BY <1>2, <1>15, NextAccess DEF rest
  <2> DEFINE more == Tail(rest)
  <2>3. /\ \A i \in 1 .. Len(more) : more[i] = rest[i + 1]
        /\ Len(more) = Len(rest) - 1
    BY <1>11, <2>2, TailCall
  <2>4. /\ Len(more) = 6
        /\ more[3] = <<IF isr = NoIsr THEN "disable" ELSE "enable", id>>
        /\ \A i \in 1 .. 6 : i # 3 => more[i][1] \notin {"enable", "handler"}
    <3>1. rest[1][1] = "context" /\ rest[1][2] = id /\ rest[1][3] = isr
      BY <2>2
    <3> QED
      BY <1>11, <2>2, <3>1, RegisterRest
  <2> HIDE DEF more, op, id, isr
  <2>5. Len(rest) = 7 /\ rest[4] = <<IF isr = NoIsr THEN "disable" ELSE "enable", id>>
    <3>1. \A n \in Nat : n - 1 = 6 => n = 7
      OBVIOUS
    <3>2. Len(rest) = 7
      BY <1>11, <2>3, <2>4, <3>1
    <3>3. more[3] = rest[3 + 1]
      BY <2>3, <2>4
    <3> QED
      BY <2>4, <3>2, <3>3
  <2>6. \A i \in 1 .. 7 : i # 4 => rest[i][1] # "enable"
    <3> SUFFICES ASSUME NEW i \in 1 .. 7, i # 4 PROVE rest[i][1] # "enable"
      OBVIOUS
    <3>1. CASE i = 1
      BY <2>2, <3>1
    <3>2. CASE i # 1
      <4>1. i - 1 \in 1 .. 6 /\ i - 1 # 3 /\ (i - 1) + 1 = i
        BY <3>2
      <4> QED
        BY <2>3, <2>4, <4>1
    <3> QED
      BY <3>1, <3>2
  <2>7. \A line \in Irqs : \/ context'[line] = handler'[line]
                           \/ rest[1] = <<"context", line, handler'[line]>>
    <3> SUFFICES ASSUME NEW line \in Irqs
                 PROVE  \/ context'[line] = handler'[line]
                        \/ rest[1] = <<"context", line, handler'[line]>>
      OBVIOUS
    <3>1. CASE line = id
      BY <2>1, <2>2, <3>1
    <3>2. CASE line # id
      <4>1. me.todo[1] # <<"context", line, handler[line]>>
        BY <1>5, <1>15
      <4> QED
        BY <1>13, <2>1, <3>2, <4>1
    <3> QED
      BY <3>1, <3>2
  <2>8. handler'[rest[1][2]] = rest[1][3]
    BY <1>5, <2>1, <2>2
  <2>9. \A line \in alt_irq_active' :
          handler'[line] # NoIsr \/ \E k \in 1 .. Len(rest) : rest[k] = <<"disable", line>>
    <3> SUFFICES ASSUME NEW line \in alt_irq_active, handler'[line] = NoIsr
                 PROVE  \E k \in 1 .. Len(rest) : rest[k] = <<"disable", line>>
      BY <1>1 DEF masks
    <3>0. line \in Irqs
      BY DEF MaskInv, MaskTypeOK
    <3>1. CASE line = id
      BY <2>1, <2>5, <3>0, <3>1
    <3>2. CASE line # id
      BY <1>12, <2>1, <3>0, <3>2
    <3> QED
      BY <3>1, <3>2
  <2>10. Known(handler', rest)
    <3> SUFFICES ASSUME NEW i \in 1 .. Len(rest), rest[i][1] = "enable"
                 PROVE  handler'[rest[i][2]] # NoIsr
      BY DEF Known
    <3>1. i = 4
      BY <2>5, <2>6
    <3>2. isr # NoIsr /\ rest[4][2] = id
      BY <2>5, <3>1
    <3> QED
      BY <1>5, <2>1, <3>1, <3>2
  <2>11. frames'[1].todo = rest /\ frames'[1].saved # <<>> /\ rest # <<>>
    BY <1>2, <1>3, <1>10, <1>11, <2>2
  <2>12. \A k \in 1 .. Top' : Known(handler', frames'[k].todo)
    BY <1>10, <1>11, <2>10
  <2> QED
    BY <2>7, <2>8, <2>9, <2>11, <2>12 DEF Handlers
<1>16. ASSUME op = "context" PROVE Handlers'
  <2>1. /\ \A line \in Irqs : context'[line] = IF line = id THEN isr ELSE context[line]
        /\ handler' = handler
    BY <1>5, <1>6, <1>14, <1>16
  <2>2. handler[id] = isr
    BY <1>2, <1>10, <1>16 DEF MaskInv, Handlers
  <2>3. rest # <<>> /\ rest[1][1] = "off"
    BY <1>2, <1>16, NextAccess DEF rest
  <2>4. Known(handler, rest)
    <3>1. Known(handler, me.todo)
      BY <1>10 DEF MaskInv, Handlers
    <3> QED
      BY <1>2, <1>16, <3>1, KnownRest DEF rest
  <2> HIDE DEF op, id, isr
  <2>5. \A line \in Irqs : context'[line] = handler[line]
    <3> SUFFICES ASSUME NEW line \in Irqs PROVE context'[line] = handler[line]
      OBVIOUS
    <3>1. CASE line = id
      BY <2>1, <2>2, <3>1
    <3>2. CASE line # id
      <4>1. me.todo[1] # <<"context", line, handler[line]>>
        BY <1>5, <3>2
      <4> QED
        BY <1>13, <2>1, <3>2, <4>1
    <3> QED
      BY <3>1, <3>2
  <2>6. \A line \in alt_irq_active' :
          handler[line] # NoIsr \/ \E k \in 1 .. Len(rest) : rest[k] = <<"disable", line>>
    BY <1>1, <1>12 DEF masks
  <2> QED
    BY <1>3, <1>2, <1>10, <1>11, <2>1, <2>3, <2>4, <2>5, <2>6 DEF Handlers
<1> QED
  BY <1>1, <1>4, <1>7, <1>9, <1>15, <1>16 DEF MaskInv

LEMMA AccessHolds == ASSUME MaskInv, Access PROVE MaskInv'
BY OffHolds, RestoreHolds, LoadHolds, StoreHolds, WriteIenableHolds, SetHandlerHolds DEF Access

-----------------------------------------------------------------------------
(* The calls.                                                              *)

LEMMA ProgramRuns == ASSUME MaskInv PROVE InIsr <=> Top # 1
BY Types DEF MaskInv, MaskTypeOK, Levels, InIsr

LEMMA RegisterHolds == ASSUME MaskInv, Register PROVE MaskInv'
<1>1. Top = 1
  BY ProgramRuns DEF Register
<1>2. PICK id \in Irqs, isr \in Isrs \cup {NoIsr} : Call(alt_iic_isr_register(id, isr))
  BY DEF Register
<1> DEFINE c == alt_iic_isr_register(id, isr)
<1>3. /\ Fresh(c)
      /\ \A i \in 1 .. Len(c) : c[i][1] = "enable" => \E j \in 1 .. i - 1 : c[j][1] = "handler"
  BY RegisterFresh
<1>4. Call(c)
  BY <1>2
<1> HIDE DEF c
<1>5. Known(handler, c)
  BY <1>3 DEF Known
<1> QED
  BY <1>1, <1>3, <1>4, <1>5, CallHolds

LEMMA ChangeHolds == ASSUME MaskInv, ~Careless, Change PROVE MaskInv'
<1>1. /\ Top \in Nat /\ Top >= 1 /\ Top \in 1 .. Top /\ me \in Frames /\ me = frames[Top]
  BY Types DEF MaskInv, MaskTypeOK
<1>2. Top > 1 => me.old = Closed /\ alt_priority_mask = Irqs
  <2> SUFFICES ASSUME Top > 1 PROVE me.old = Closed /\ alt_priority_mask = Irqs
    OBVIOUS
  <2>1. InIsr /\ alt_priority_mask = Irqs
    BY ProgramRuns DEF Change, All
  <2>2. me.isr \in Irqs
    BY <1>1, <2>1 DEF Frames, InIsr
  <2>3. me.isr \notin Above(Top)
    <3>1. Top \in 2 .. Top
      BY <1>1
    <3>2. \A n \in Nat : ~(n < n)
      OBVIOUS
    <3> QED
      BY <1>1, <2>2, <3>1, <3>2, IrqMaskAssumption DEF Above
  <2> QED
    BY <2>1, <2>2, <2>3 DEF MaskInv, Levels
<1>3. PICK op \in {"enable", "disable"}, id \in Irqs :
        Call(alt_irq_change(op, id)) /\ (op = "enable" => handler[id] # NoIsr)
  BY DEF Change
<1> DEFINE c == alt_irq_change(op, id)
<1>4. /\ Fresh(c) /\ Len(c) = 5
      /\ \A i \in 1 .. Len(c) : c[i][1] = "enable" => c[i][2] = id /\ op = "enable"
  BY ChangeFresh
<1>5. Call(c)
  BY <1>3
<1> HIDE DEF c
<1>6. Known(handler, c)
  BY <1>3, <1>4 DEF Known
<1>7. Fresh(c) /\ (Top > 1 => me.old = Closed /\ alt_priority_mask = Irqs /\ Len(c) <= 5)
  BY <1>2, <1>4
<1> QED
  BY <1>5, <1>6, <1>7, CallHolds

LEMMA SectionHolds == ASSUME MaskInv, Section PROVE MaskInv'
<1>1. Top = 1
  BY ProgramRuns DEF Section
<1>2. PICK id \in Irqs :
        Call(alt_irq_disable_all \o alt_irq_change("disable", id) \o alt_irq_enable_all)
  BY DEF Section
<1> DEFINE c == alt_irq_disable_all \o alt_irq_change("disable", id) \o alt_irq_enable_all
<1>3. Fresh(c) /\ \A i \in 1 .. Len(c) : c[i][1] # "enable"
  BY SectionFresh
<1>4. Call(c)
  BY <1>2
<1> HIDE DEF c
<1>5. Known(handler, c)
  BY <1>3 DEF Known
<1> QED
  BY <1>1, <1>3, <1>4, <1>5, CallHolds

-----------------------------------------------------------------------------
(* The interrupts.                                                         *)

LEMMA Outside ==
  ASSUME NEW todo \in Seq(Accesses), WellFormed(todo), Depth(todo) = 0
  PROVE  todo # <<>> => todo[1][1] = "off"
<1>1. \A op, n : Place(op, n, 0) => op = "off"
  BY DEF Place
<1> QED
  BY <1>1, DepthIs

LEMMA FrameTypes ==
  ASSUME MaskInv, NEW k \in 1 .. Top
  PROVE  /\ frames[k] \in Frames /\ frames[k].todo \in Seq(Accesses)
         /\ frames[k].saved \in Seq(BOOLEAN) /\ WellFormed(frames[k].todo)
         /\ frames[k].saved = <<>> <=> Depth(frames[k].todo) = 0
<1>1. frames[k] \in Frames
  BY Types DEF MaskInv
<1>2. frames[k].todo \in Seq(Accesses) /\ frames[k].saved \in Seq(BOOLEAN)
  BY <1>1 DEF Frames
<1>3. WellFormed(frames[k].todo) /\ Len(frames[k].saved) = Depth(frames[k].todo)
  BY DEF MaskInv, Calls
<1>4. frames[k].saved = <<>> <=> Len(frames[k].saved) = 0
  BY <1>2, EmptySeq
<1> QED
  BY <1>1, <1>2, <1>3, <1>4

\* When the processor lets interrupts in.
LEMMA Open ==
  ASSUME MaskInv, pie
  PROVE  /\ \A k \in 1 .. Top : frames[k].saved = <<>>
         /\ alt_priority_mask = Above(Top)
         /\ ienable = alt_irq_active \cap Above(Top)
<1>1. /\ Top \in Nat /\ Top >= 1 /\ Top \in 1 .. Top /\ me = frames[Top]
  BY Types DEF MaskInv, MaskTypeOK
<1>2. \A k \in 1 .. Top : frames[k].saved = <<>>
  <2>1. \A k \in 1 .. Top : k = Top \/ k \in 1 .. Top - 1
    BY <1>1
  <2> QED
    BY <1>1, <2>1 DEF MaskInv, Calls
<1>3. alt_priority_mask = Above(Top)
  <2>1. Top = 1 \/ me.old # Closed
    BY DEF MaskInv, Calls
  <2> QED
    BY <1>1, <2>1 DEF MaskInv, Levels
<1>4. ~Doing("ienable")
  BY <1>1, <1>2, FrameTypes, Outside DEF Doing
<1> QED
  BY <1>2, <1>3, <1>4 DEF MaskInv, Enables

LEMMA Allowed == ASSUME MaskInv, alt_irq_cpu_enable_interrupts PROVE MaskInv'
<1>1. /\ Top = 1 /\ me.todo = <<>> /\ pie' = TRUE /\ UNCHANGED <<masks, table, frames>>
  BY ProgramRuns DEF alt_irq_cpu_enable_interrupts, Free
<1>2. Top' = Top /\ me' = me /\ me = frames[1]
  BY <1>1 DEF Top, me
<1>3. me.saved = <<>>
  BY <1>1, <1>2, FrameTypes DEF Depth
<1>4. MaskTypeOK' /\ Levels' /\ Enables' /\ Handlers'
  BY <1>1, <1>2
     DEF MaskInv, MaskTypeOK, Levels, Enables, Handlers, masks, table, Above, Doing
<1>5. Calls'
  BY <1>1, <1>2, <1>3 DEF MaskInv, Calls, masks
<1> QED
  BY <1>4, <1>5 DEF MaskInv

LEMMA EmptyCall ==
  /\ <<>> \in Seq(Accesses) /\ WellFormed(<<>>) /\ Depth(<<>>) = 0
  /\ \A handlers : Known(handlers, <<>>)
BY DEF WellFormed, Depth, Known

LEMMA InterruptHolds == ASSUME MaskInv, Interrupt PROVE MaskInv'
<1>1. /\ Top \in Nat /\ Top >= 1 /\ Top \in 1 .. Top /\ me = frames[Top] /\ 1 \in 1 .. Top
      /\ frames \in Seq(Frames) /\ \A k \in 1 .. Top : frames[k] \in Frames
  BY Types DEF MaskInv, MaskTypeOK
<1>2. PICK id \in ienable : frames' = Append(frames, Frame(id))
  BY DEF Interrupt
<1>3. pie /\ pie' = FALSE /\ UNCHANGED <<masks, table>>
  BY DEF Interrupt
<1>4. /\ \A k \in 1 .. Top : frames[k].saved = <<>>
      /\ alt_priority_mask = Above(Top)
      /\ ienable = alt_irq_active \cap Above(Top)
  BY <1>3, Open
<1>5. id \in Irqs /\ id \in Above(Top) /\ id # Nobody
  BY <1>4, IrqMaskAssumption DEF Above, Nobody
<1> DEFINE f == Frame(id)
<1>6. /\ f \in Frames /\ f.isr = id /\ f.todo = <<>> /\ f.saved = <<>> /\ f.old = Closed
  BY <1>5 DEF Frame, Frames, Closed
<1> HIDE DEF f
<1>7. /\ frames' \in Seq(Frames) /\ Top' = Top + 1
      /\ \A k \in 1 .. Top : frames'[k] = frames[k]
      /\ frames'[Top + 1] = f
  BY <1>1, <1>2, <1>6, AppendProperties DEF f, Top
<1>8. me' = f
  BY <1>7 DEF me, Top
<1>9. \A k \in 1 .. Top' : \/ k \in 1 .. Top /\ frames'[k] = frames[k]
                           \/ k = Top' /\ frames'[k] = f
  BY <1>1, <1>7
<1>10. \A k \in 0 .. Top : Above(k)' = Above(k)
  BY <1>1, <1>7, AboveIs DEF MaskInv
<1>11. MaskTypeOK'
  <2>1. Top' >= 1
    BY <1>1, <1>7
  <2> QED
    BY <1>3, <1>7, <2>1 DEF MaskInv, MaskTypeOK, masks, table
<1>12. Levels'
  <2>1. \A i \in 1 .. Top' : (frames'[i].isr = Nobody) = (i = 1)
    BY <1>1, <1>5, <1>6, <1>7, <1>9 DEF MaskInv, Levels
  <2>2. frames'[1].old = Closed
    BY <1>1, <1>7 DEF MaskInv, Levels
  <2>3. \A i \in 2 .. Top' : frames'[i].isr \in Above(i - 1)'
    <3> SUFFICES ASSUME NEW i \in 2 .. Top' PROVE frames'[i].isr \in Above(i - 1)'
      OBVIOUS
    <3>1. Above(i - 1)' = Above(i - 1)
      BY <1>1, <1>7, <1>10
    <3>2. CASE i = Top'
      BY <1>1, <1>5, <1>6, <1>7, <3>1, <3>2
    <3>3. CASE i # Top'
      <4>1. i \in 2 .. Top /\ i \in 1 .. Top
        BY <1>1, <1>7, <3>3
      <4> QED
        BY <1>7, <3>1, <4>1 DEF MaskInv, Levels
    <3> QED
      BY <3>2, <3>3
  <2>4. \A i \in 2 .. Top' :
          frames'[i].old # Closed => frames'[i].old = Above(i - 1)' /\ frames'[i].todo = <<>>
    <3> SUFFICES ASSUME NEW i \in 2 .. Top', frames'[i].old # Closed
                 PROVE  frames'[i].old = Above(i - 1)' /\ frames'[i].todo = <<>>
      OBVIOUS
    <3>1. i \in 2 .. Top /\ i \in 1 .. Top /\ i - 1 \in 0 .. Top
      BY <1>1, <1>6, <1>7
    <3> QED
      BY <1>7, <1>10, <3>1 DEF MaskInv, Levels
  <2>5. \A i \in 2 .. Top' - 1 : frames'[i].old # Closed
    <3> SUFFICES ASSUME NEW i \in 2 .. Top PROVE frames'[i].old # Closed
      BY <1>1, <1>7
    <3>1. CASE i = Top
      BY <1>1, <1>3, <1>7, <3>1 DEF MaskInv, Calls
    <3>2. CASE i # Top
      <4>1. i \in 2 .. Top - 1 /\ i \in 1 .. Top
        BY <1>1, <3>2
      <4> QED
        BY <1>7, <4>1 DEF MaskInv, Levels
    <3> QED
      BY <3>1, <3>2
  <2>6. me'.old = Closed /\ Top' # 1 /\ Top' - 1 = Top
    BY <1>1, <1>6, <1>7, <1>8
  <2>7. PICK n \in 0 .. Top : n = Top
    BY <1>1
  <2>8. alt_priority_mask' = Above(n)'
    BY <1>3, <1>4, <1>10, <2>7 DEF masks
  <2>9. (alt_priority_mask = Above(IF me.old # Closed THEN Top ELSE IF Top = 1 THEN 1 ELSE Top - 1))'
    BY <2>6, <2>7, <2>8 DEF Above
  <2> QED
    BY <2>1, <2>2, <2>3, <2>4, <2>5, <2>9 DEF Levels
<1>13. Calls'
  <2>1. \A k \in 1 .. Top' : WellFormed(frames'[k].todo)
    BY <1>6, <1>9, EmptyCall DEF MaskInv, Calls
  <2>2. \A k \in 1 .. Top' : Len(frames'[k].saved) = Depth(frames'[k].todo)
    BY <1>6, <1>9, EmptyCall DEF MaskInv, Calls
  <2>3. \A k \in 1 .. Top' - 1 : frames'[k].saved = <<>>
    BY <1>1, <1>4, <1>7
  <2>4. \A k \in 2 .. Top' : Len(frames'[k].todo) <= 5
    <3> SUFFICES ASSUME NEW k \in 2 .. Top' PROVE Len(frames'[k].todo) <= 5
      OBVIOUS
    <3>1. CASE k = Top'
      BY <1>6, <1>7, <3>1
    <3>2. CASE k # Top'
      <4>1. k \in 2 .. Top /\ k \in 1 .. Top
        BY <1>1, <1>7, <3>2
      <4> QED
        BY <1>7, <4>1 DEF MaskInv, Calls
    <3> QED
      BY <3>1, <3>2
  <2>5. me'.saved = <<>> /\ me'.todo = <<>> /\ Len(me'.saved) = 0
    BY <1>6, <1>8
  <2>6. ~(\E i \in 1 .. Len(me'.saved) : me'.saved[i] = TRUE)
    BY <2>5
  <2> QED
    BY <1>3, <2>1, <2>2, <2>3, <2>4, <2>5, <2>6 DEF Calls
<1>14. Enables'
  <2>1. me'.todo = <<>>
    BY <1>6, <1>8
  <2> QED
    BY <1>3, <1>4, <2>1 DEF MaskInv, Enables, Doing, masks
<1>15. Handlers'
  <2>1. \A k \in 1 .. Top' : Known(handler, frames'[k].todo)
    BY <1>6, <1>9, EmptyCall DEF MaskInv, Handlers
  <2>2. frames'[1] = frames[1]
    BY <1>1, <1>7
  <2> QED
    BY <1>3, <2>1, <2>2 DEF MaskInv, Handlers, masks, table
<1> QED
  BY <1>11, <1>12, <1>13, <1>14, <1>15 DEF MaskInv

\* A step of the routine on top that changes only the mask that it keeps.
LEMMA MaskStep ==
  ASSUME MaskInv, Top # 1, Free, NEW f \in Frames, Become(f), f.isr = me.isr,
         f.todo = me.todo, f.saved = me.saved, f.old \in {Closed, Above(Top - 1)},
         alt_priority_mask' = Above(IF f.old # Closed THEN Top ELSE Top - 1),
         ienable' = alt_irq_active \cap alt_priority_mask',
         pie' \in BOOLEAN, pie' => f.old # Closed,
         UNCHANGED <<alt_irq_active, asked, table>>
  PROVE  MaskInv'
<1>1. /\ Top \in Nat /\ Top >= 1 /\ Top \in 1 .. Top /\ me = frames[Top] /\ 1 \in 1 .. Top
      /\ me \in Frames
  BY Types DEF MaskInv, MaskTypeOK
<1>2. /\ frames' \in Seq(Frames) /\ Top' = Top /\ me' = f
      /\ \A k \in 1 .. Top : frames'[k] = IF k = Top THEN f ELSE frames[k]
  BY BecomeEffect DEF MaskInv
<1>3. PICK n \in 0 .. Top : n = Top
  BY <1>1
<1>4. \A k \in 0 .. Top : Above(k)' = Above(k)
  BY <1>1, <1>2, AboveIs DEF MaskInv
<1>5. MaskTypeOK'
  <2>1. alt_priority_mask' \subseteq Irqs
    BY AboveType
  <2> QED
    BY <1>1, <1>2, <2>1 DEF MaskInv, MaskTypeOK, table
<1>6. me.saved = <<>> /\ f.todo = <<>> /\ me.todo = <<>>
  BY <1>1, FrameTypes, EmptyCall DEF Free
<1>7. Levels'
  <2>1. \A i \in 1 .. Top : (frames'[i].isr = Nobody) = (i = 1)
    BY <1>1, <1>2 DEF MaskInv, Levels
  <2>2. frames'[1].old = Closed
    BY <1>1, <1>2 DEF MaskInv, Levels
  <2>3. \A i \in 2 .. Top : frames'[i].isr \in Above(i - 1)'
    <3>1. \A i \in 2 .. Top : i \in 1 .. Top /\ i - 1 \in 0 .. Top
      BY <1>1
    <3> QED
      BY <1>1, <1>2, <1>4, <3>1 DEF MaskInv, Levels
  <2>4. \A i \in 2 .. Top :
          frames'[i].old # Closed => frames'[i].old = Above(i - 1)' /\ frames'[i].todo = <<>>
    <3>1. \A i \in 2 .. Top : i \in 1 .. Top /\ i - 1 \in 0 .. Top
      BY <1>1
    <3> QED
      BY <1>1, <1>2, <1>4, <1>6, <3>1 DEF MaskInv, Levels
  <2>5. \A i \in 2 .. Top - 1 : frames'[i].old # Closed
    <3>1. \A i \in 2 .. Top - 1 : i \in 1 .. Top /\ i # Top
      BY <1>1
    <3> QED
      BY <1>2, <3>1 DEF MaskInv, Levels
  <2>6. (alt_priority_mask = Above(IF me.old # Closed THEN Top ELSE IF Top = 1 THEN 1 ELSE Top - 1))'
    <3>1. CASE f.old # Closed
      <4>1. alt_priority_mask' = Above(n)'
        BY <1>3, <1>4, <3>1
      <4> QED
        BY <1>2, <1>3, <3>1, <4>1 DEF Above
    <3>2. CASE f.old = Closed
      <4>1. PICK k \in 0 .. Top : k = Top - 1
        BY <1>1
      <4>2. alt_priority_mask' = Above(k)'
        BY <1>4, <3>2, <4>1
      <4> QED
        BY <1>2, <3>2, <4>1, <4>2 DEF Above
    <3> QED
      BY <3>1, <3>2
  <2> QED
    BY <1>2, <2>1, <2>2, <2>3, <2>4, <2>5, <2>6 DEF Levels
<1>8. Calls'
  <2>1. \A k \in 1 .. Top : /\ frames'[k].todo = frames[k].todo
                            /\ frames'[k].saved = frames[k].saved
    BY <1>1, <1>2
  <2>2. \A k \in 1 .. Top : WellFormed(frames'[k].todo)
    BY <2>1 DEF MaskInv, Calls
  <2>3. \A k \in 1 .. Top : Len(frames'[k].saved) = Depth(frames'[k].todo)
    BY <2>1 DEF MaskInv, Calls
  <2>4. \A k \in 1 .. Top - 1 : frames'[k].saved = <<>>
    BY <1>1, <2>1 DEF MaskInv, Calls
  <2>5. \A k \in 2 .. Top : Len(frames'[k].todo) <= 5
    BY <1>1, <2>1 DEF MaskInv, Calls
  <2>6. me'.saved = <<>> /\ me'.todo = <<>> /\ Len(me'.saved) = 0
    BY <1>2, <1>6
  <2>7. ~(\E i \in 1 .. Len(me'.saved) : me'.saved[i] = TRUE)
    BY <2>6
  <2>8. pie' => me'.old # Closed
    BY <1>2
  <2> QED
    BY <1>2, <2>2, <2>3, <2>4, <2>5, <2>6, <2>7, <2>8 DEF Calls
<1>9. Enables'
  BY <1>2, <1>6 DEF MaskInv, Enables, Doing
<1>10. Handlers'
  <2>1. frames'[1] = frames[1]
    BY <1>1, <1>2
  <2>2. \A k \in 1 .. Top : Known(handler, frames'[k].todo)
    BY <1>1, <1>2 DEF MaskInv, Handlers
  <2> QED
    BY <1>2, <2>1, <2>2 DEF MaskInv, Handlers, table
<1> QED
  BY <1>5, <1>7, <1>8, <1>9, <1>10 DEF MaskInv

LEMMA InterruptibleHolds == ASSUME MaskInv, alt_irq_interruptible PROVE MaskInv'
<1>1. /\ Top \in Nat /\ Top >= 1 /\ me = frames[Top] /\ me \in Frames
      /\ frames \in Seq(Frames) /\ \A k \in 1 .. Top : frames[k] \in Frames
  BY Types DEF MaskInv, MaskTypeOK
<1>2. Top # 1 /\ Free /\ me.old = Closed /\ InIsr
  BY ProgramRuns DEF alt_irq_interruptible
<1>3. alt_priority_mask = Above(Top - 1)
  BY <1>2 DEF MaskInv, Levels
<1>4. me.isr \in Above(Top - 1)
  BY <1>1, <1>2 DEF MaskInv, Levels
<1>5. {id \in Irqs : id < me.isr} = Above(Top)
  <2>1. ASSUME NEW id \in Irqs
        PROVE  id < me.isr <=> \A j \in 2 .. Top : id < frames[j].isr
    <3>1. ASSUME id < me.isr, NEW j \in 2 .. Top PROVE id < frames[j].isr
      <4>1. CASE j = Top
        BY <1>1, <3>1, <4>1
      <4>2. CASE j # Top
        <5>1. j \in 2 .. Top - 1 /\ j \in 1 .. Top
          BY <1>1, <4>2
        <5>2. me.isr < frames[j].isr
          BY <1>4, <5>1 DEF Above
        <5>3. me.isr \in Int /\ frames[j].isr \in Int /\ id \in Int
          <6>1. -1 \in Int /\ Irqs \subseteq Int
            BY IrqMaskAssumption
          <6> QED
            BY <1>1, <5>1, <6>1 DEF Frames, Nobody
        <5> QED
          BY <3>1, <5>2, <5>3
      <4> QED
        BY <4>1, <4>2
    <3>2. Top \in 2 .. Top
      BY <1>1, <1>2
    <3> QED
      BY <1>1, <3>1, <3>2
  <2> QED
    BY <2>1 DEF Above
<1> DEFINE f == [me EXCEPT !.old = alt_priority_mask]
<1>6. /\ f \in Frames /\ f.isr = me.isr /\ f.todo = me.todo /\ f.saved = me.saved
      /\ f.old = alt_priority_mask
  BY <1>1 DEF Frames, MaskInv, MaskTypeOK
<1>7. /\ Become(f) /\ pie' = TRUE /\ alt_priority_mask' = Above(Top)
      /\ ienable' = alt_irq_active \cap alt_priority_mask'
      /\ UNCHANGED <<alt_irq_active, asked, table>>
  BY <1>5 DEF alt_irq_interruptible
<1> HIDE DEF f
<1>8. f.old # Closed
  BY <1>3, <1>6, AboveType
<1> QED
  BY <1>2, <1>3, <1>6, <1>7, <1>8, MaskStep

LEMMA NonInterruptibleHolds == ASSUME MaskInv, alt_irq_non_interruptible PROVE MaskInv'
<1>1. /\ Top \in Nat /\ Top >= 1 /\ me = frames[Top] /\ me \in Frames
  BY Types DEF MaskInv, MaskTypeOK
<1>2. Top # 1 /\ Free /\ me.old # Closed
  BY ProgramRuns DEF alt_irq_non_interruptible
<1>3. me.old = Above(Top - 1)
  BY <1>1, <1>2 DEF MaskInv, Levels
<1> DEFINE f == [me EXCEPT !.old = Closed]
<1>4. f \in Frames /\ f.isr = me.isr /\ f.todo = me.todo /\ f.saved = me.saved /\ f.old = Closed
  BY <1>1 DEF Frames, Closed
<1>5. /\ Become(f) /\ pie' = FALSE /\ alt_priority_mask' = Above(Top - 1)
      /\ ienable' = alt_irq_active \cap alt_priority_mask'
      /\ UNCHANGED <<alt_irq_active, asked, table>>
  BY <1>3 DEF alt_irq_non_interruptible
<1> HIDE DEF f
<1> QED
  BY <1>2, <1>4, <1>5, MaskStep

LEMMA ReturnHolds == ASSUME MaskInv, Return PROVE MaskInv'
<1>1. /\ Top \in Nat /\ Top >= 1 /\ Top \in 1 .. Top /\ me = frames[Top]
      /\ frames \in Seq(Frames) /\ \A k \in 1 .. Top : frames[k] \in Frames
  BY Types DEF MaskInv, MaskTypeOK
<1>2. /\ Top # 1 /\ me.todo = <<>> /\ me.old = Closed
      /\ frames' = SubSeq(frames, 1, Top - 1) /\ pie' = TRUE /\ UNCHANGED <<masks, table>>
  BY ProgramRuns DEF Return, Free, Top
<1>3. /\ frames' \in Seq(Frames) /\ Top' = Top - 1
      /\ \A k \in 1 .. Top - 1 : frames'[k] = frames[k]
  <2>1. 1 \in 1 .. Len(frames) + 1 /\ Top - 1 \in 0 .. Len(frames) /\ Top = Len(frames)
    BY <1>1 DEF Top
  <2>2. /\ SubSeq(frames, 1, Top - 1) \in Seq(Frames)
        /\ Len(SubSeq(frames, 1, Top - 1)) = Top - 1
        /\ \A k \in 1 .. Top - 1 : SubSeq(frames, 1, Top - 1)[k] = frames[k]
    BY <1>1, <1>2, <2>1
  <2> QED
    BY <1>2, <2>2 DEF Top
<1>4. me' = frames[Top - 1] /\ Top - 1 \in 1 .. Top - 1 /\ Top - 1 \in 1 .. Top /\ Top - 1 \in 0 .. Top
  BY <1>1, <1>2, <1>3 DEF me, Top
<1>5. \A k \in 0 .. Top - 1 : Above(k)' = Above(k)
  BY <1>1, <1>3 DEF Above
<1>6. MaskTypeOK'
  <2>1. Top' >= 1
    BY <1>1, <1>2, <1>3
  <2> QED
    BY <1>2, <1>3, <2>1 DEF MaskInv, MaskTypeOK, masks, table
<1>7. Levels'
  <2>1. \A i \in 1 .. Top' : (frames'[i].isr = Nobody) = (i = 1)
    BY <1>1, <1>3 DEF MaskInv, Levels
  <2>2. frames'[1].old = Closed
    BY <1>1, <1>2, <1>3 DEF MaskInv, Levels
  <2>3. \A i \in 2 .. Top' : frames'[i].isr \in Above(i - 1)'
    <3>1. \A i \in 2 .. Top - 1 : i \in 1 .. Top - 1 /\ i \in 2 .. Top /\ i - 1 \in 0 .. Top - 1
      BY <1>1
    <3> QED
      BY <1>3, <1>5, <3>1 DEF MaskInv, Levels
  <2>4. \A i \in 2 .. Top' :
          frames'[i].old # Closed => frames'[i].old = Above(i - 1)' /\ frames'[i].todo = <<>>
    <3>1. \A i \in 2 .. Top - 1 : i \in 1 .. Top - 1 /\ i \in 2 .. Top /\ i - 1 \in 0 .. Top - 1
      BY <1>1
    <3> QED
      BY <1>3, <1>5, <3>1 DEF MaskInv, Levels
  <2>5. \A i \in 2 .. Top' - 1 : frames'[i].old # Closed
    <3>1. \A i \in 2 .. (Top - 1) - 1 : i \in 1 .. Top - 1 /\ i \in 2 .. Top - 1
      BY <1>1
    <3> QED
      BY <1>3, <3>1 DEF MaskInv, Levels
  <2>6. (alt_priority_mask = Above(IF me.old # Closed THEN Top ELSE IF Top = 1 THEN 1 ELSE Top - 1))'
    <3>1. PICK n \in 0 .. Top - 1 : n = Top - 1
      BY <1>1
    <3>2. alt_priority_mask' = Above(n)'
      BY <1>2, <1>5, <3>1 DEF MaskInv, Levels, masks
    <3>3. Top' = n /\ (me'.old # Closed \/ n = 1)
      <4>1. Top - 1 = 1 \/ Top - 1 \in 2 .. Top - 1
        BY <1>1, <1>2
      <4> QED
        BY <1>3, <1>4, <3>1, <4>1 DEF MaskInv, Levels
    <3> QED
      BY <3>2, <3>3 DEF Above
  <2> QED
    BY <2>1, <2>2, <2>3, <2>4, <2>5, <2>6 DEF Levels
<1>8. frames[Top - 1].saved = <<>>
  BY <1>4 DEF MaskInv, Calls
<1>9. frames[Top - 1].todo # <<>> => frames[Top - 1].todo[1][1] = "off"
  BY <1>4, <1>8, FrameTypes, Outside
<1>10. Top - 1 # 1 => frames[Top - 1].old # Closed /\ frames[Top - 1].todo = <<>>
  <2> SUFFICES ASSUME Top - 1 # 1
               PROVE  frames[Top - 1].old # Closed /\ frames[Top - 1].todo = <<>>
    OBVIOUS
  <2>1. Top - 1 \in 2 .. Top - 1 /\ Top - 1 \in 2 .. Top
    BY <1>1, <1>2
  <2> QED
    BY <2>1 DEF MaskInv, Levels
<1>11. Calls'
  <2>1. \A k \in 1 .. Top' : WellFormed(frames'[k].todo)
    BY <1>1, <1>3 DEF MaskInv, Calls
  <2>2. \A k \in 1 .. Top' : Len(frames'[k].saved) = Depth(frames'[k].todo)
    BY <1>1, <1>3 DEF MaskInv, Calls
  <2>3. \A k \in 1 .. Top' - 1 : frames'[k].saved = <<>>
    BY <1>1, <1>3 DEF MaskInv, Calls
  <2>4. \A k \in 2 .. Top' : Len(frames'[k].todo) <= 5
    BY <1>1, <1>3 DEF MaskInv, Calls
  <2>5. me'.saved = <<>> /\ Len(me'.saved) = 0
    BY <1>4, <1>8
  <2>6. ~(\E i \in 1 .. Len(me'.saved) : me'.saved[i] = TRUE)
    BY <2>5
  <2>7. Top' # 1 => me'.old # Closed /\ me'.todo = <<>>
    BY <1>3, <1>4, <1>10
  <2>8. Top' = 1 \/ (Top' > 1 /\ Top' # 1)
    BY <1>1, <1>2, <1>3
  <2> QED
    BY <2>1, <2>2, <2>3, <2>4, <2>5, <2>6, <2>7, <2>8 DEF Calls
<1>12. Enables'
  BY <1>2, <1>4, <1>9 DEF MaskInv, Enables, Doing, masks
<1>13. Handlers'
  <2>1. frames'[1] = frames[1]
    BY <1>1, <1>2, <1>3
  <2>2. \A k \in 1 .. Top' : Known(handler, frames'[k].todo)
    BY <1>1, <1>3 DEF MaskInv, Handlers
  <2> QED
    BY <1>2, <2>1, <2>2 DEF MaskInv, Handlers, masks, table
<1> QED
  BY <1>6, <1>7, <1>11, <1>12, <1>13 DEF MaskInv

-----------------------------------------------------------------------------
(* The theorem.                                                            *)

LEMMA MaskStart == MaskInit => MaskInv
<1> SUFFICES ASSUME MaskInit PROVE MaskInv
  OBVIOUS
<1> DEFINE f == Frame(Nobody)
<1>1. /\ f \in Frames /\ f.isr = Nobody /\ f.todo = <<>> /\ f.saved = <<>> /\ f.old = Closed
  BY DEF Frame, Frames, Closed
<1> HIDE DEF f
<1>2. frames = <<f>>
  BY DEF MaskInit, f
<1>3. frames \in Seq(Frames) /\ Top = 1 /\ frames[1] = f /\ me = f
  BY <1>1, <1>2 DEF Top, me
<1>4. \A k \in 1 .. Top : k = 1 /\ frames[k] = f
  BY <1>3
<1>5. MaskTypeOK
  <2>1. handler \in [Irqs -> Isrs \cup {NoIsr}] /\ context = handler
    BY DEF MaskInit
  <2>2. pie \in BOOLEAN /\ alt_priority_mask = Irqs
    BY DEF MaskInit, All
  <2>3. Top >= 1
    BY <1>3
  <2> QED
    BY <1>3, <2>1, <2>2, <2>3 DEF MaskTypeOK, MaskInit
<1>6. Levels
  BY <1>1, <1>3, <1>4 DEF Levels, MaskInit, All, Above
<1>7. Calls
  <2>1. Len(me.saved) = 0
    BY <1>1, <1>3
  <2> QED
    BY <1>1, <1>3, <1>4, <2>1, EmptyCall DEF Calls, MaskInit
<1>8. Enables
  BY <1>1, <1>3 DEF Enables, Doing, MaskInit
<1>9. Handlers
  BY <1>1, <1>3, <1>4, EmptyCall DEF Handlers, MaskInit
<1> QED
  BY <1>5, <1>6, <1>7, <1>8, <1>9 DEF MaskInv

LEMMA MaskHolds == ASSUME MaskInv, ~Careless, [MaskNext]_maskVars PROVE MaskInv'
<1>1. ASSUME UNCHANGED maskVars PROVE MaskInv'
  <2>1. UNCHANGED <<pie, masks, table, frames>>
    BY <1>1 DEF maskVars
  <2>2. UNCHANGED <<pie, ienable, alt_irq_active, alt_priority_mask, asked, handler, context, frames>>
    BY <2>1 DEF masks, table
  <2>3. Top' = Top /\ me' = me
    BY <2>2 DEF Top, me
  <2>4. MaskTypeOK' /\ Levels' /\ Calls'
    BY <2>2, <2>3 DEF MaskInv, MaskTypeOK, Levels, Calls, Above
  <2>5. Enables' /\ Handlers'
    BY <2>2, <2>3 DEF MaskInv, Enables, Handlers, Doing
  <2> QED
    BY <2>4, <2>5 DEF MaskInv
<1> QED
  BY <1>1, RegisterHolds, ChangeHolds, SectionHolds, AccessHolds, Allowed, InterruptHolds,
     InterruptibleHolds, NonInterruptibleHolds, ReturnHolds DEF MaskNext

LEMMA MaskExact == MaskInv => EnablesExact
<1> SUFFICES ASSUME MaskInv, pie PROVE EnablesExact
  BY DEF EnablesExact
<1>1. /\ \A k \in 1 .. Top : frames[k].saved = <<>>
      /\ ienable = alt_irq_active \cap Above(Top)
  BY Open
<1>2. asked = alt_irq_active /\ asked \subseteq Irqs
  BY DEF MaskInv, MaskTypeOK, Enables
<1>3. ienable = {id \in asked : \A i \in 2 .. Top : id < frames[i].isr}
  BY <1>1, <1>2 DEF Above
<1>4. frames[1].saved = <<>>
  BY <1>1, Types DEF MaskInv, MaskTypeOK
<1>5. \A id \in ienable : handler[id] # NoIsr /\ context[id] = handler[id]
  BY <1>1, <1>2, <1>4 DEF MaskInv, Handlers
<1> QED
  BY <1>1, <1>3, <1>5 DEF EnablesExact, Top

\* The interrupt enables are exact for any number of lines, routines and nested interrupts,
\* as long as no interruptible routine changes them.
THEOREM EnablesHold == ~Careless => (MaskSpec => []EnablesExact)
<1> SUFFICES ASSUME ~Careless PROVE MaskSpec => []EnablesExact
  OBVIOUS
<1>1. MaskInv /\ [MaskNext]_maskVars => MaskInv'
  BY MaskHolds
<1> QED
  BY <1>1, MaskStart, MaskExact, PTL DEF MaskSpec

-----------------------------------------------------------------------------
(* The alarms: the ring of those that run.                                 *)

\* The entries of the list.
Entries == Alarm \cup {alt_alarm_list}

\* Every variable keeps its type, and alt_tick walks over entries that were once started.
AlarmsTypeOK ==
    /\ next \in Pointers /\ previous \in Pointers
    /\ time \in [Alarm -> 0 .. M - 1] /\ rollover \in [Alarm -> BOOLEAN]
    /\ nticks \in 0 .. M - 1 /\ tick_rate \in BOOLEAN
    /\ pc \in {"run", "tick", "callback"}
    /\ alarm \in Entries /\ next[alarm] # Nil
    /\ saved \in Entries /\ next[saved] # Nil
    /\ pc = "callback" => alarm \in Alarm

\* Every entry of the ring has one before it and one after it.
Doubly ==
    \A a \in Ring : /\ next[a] \in Ring /\ previous[next[a]] = a
                    /\ previous[a] \in Ring /\ next[previous[a]] = a

\* All of them are reached from the head.
OneRing == \A S \in SUBSET Ring : alt_alarm_list \in S /\ (\A a \in S : next[a] \in S) => S = Ring

\* An alarm that does not run points nowhere, or to itself.
Alone == \A a \in Alarm \ Ring : previous[a] = next[a]

\* The inductive invariant of the list.
AlarmsInv == AlarmsTypeOK /\ Doubly /\ OneRing /\ Alone

-----------------------------------------------------------------------------
(* The alarms: where alt_tick is in its walk, and the ticks left.          *)

\* S are the alarms that the walk has yet to visit, beginning with first.
ToCome(S, first) ==
    /\ S \subseteq Ring \ {alt_alarm_list}
    /\ first \in S \cup {alt_alarm_list}
    /\ \A a \in S : next[a] \in S \cup {alt_alarm_list} /\ next[a] # first
    /\ \A a \in Ring \ S : next[a] \in S => next[a] = first

\* This tick has been dealt with: ticks are left, and the wrap is not ahead any more.
Dealt(a) == Left[a] > 0 /\ (nticks = 0 => ~rollover[a])

\* Where the walk goes on.
First == IF pc = "callback" THEN saved ELSE alarm

\* No alarm is late, and none has been passed over.
InTime ==
    /\ \A a \in Alarm : Listed(a) => Left[a] \in 0 .. M - 1
    /\ pc = "run" => \A a \in Alarm : Listed(a) => Dealt(a)
    /\ pc = "callback" /\ Listed(alarm) => Left[alarm] = 0
    /\ pc # "run" =>
         \E S \in SUBSET Alarm :
            /\ ToCome(S, First)
            /\ pc = "callback" => alarm \notin S
            /\ \A a \in Alarm \ S : Listed(a) /\ (pc = "callback" => a # alarm) => Dealt(a)

\* What the types say of the list.
LEMMA ListIs ==
  ASSUME AlarmsAssumption, AlarmsTypeOK
  PROVE  /\ next \in [Entries -> Entries \cup {Nil}] /\ previous \in [Entries -> Entries \cup {Nil}]
         /\ Nil \notin Entries /\ alt_alarm_list \notin Alarm /\ alt_alarm_list \in Entries
         /\ Ring \subseteq Entries /\ alt_alarm_list \in Ring
         /\ \A a \in Alarm : a \in Ring <=> Listed(a)
         /\ \A a \in Alarm : Listed(a) <=> next[a] # Nil /\ next[a] # a
         /\ \A a \in Entries : a \in Alarm \/ a = alt_alarm_list
<1>1. next \in [Entries -> Entries \cup {Nil}] /\ previous \in [Entries -> Entries \cup {Nil}]
  BY DEF AlarmsTypeOK, Pointers, Entries
<1>2. Nil \notin Entries /\ alt_alarm_list \notin Alarm /\ alt_alarm_list \in Entries
  BY DEF AlarmsAssumption, Entries
<1> QED
  BY <1>1, <1>2 DEF Ring, Listed, Entries

\* An alarm goes in behind the head.
LEMMA ListInserts ==
  ASSUME AlarmsAssumption, AlarmsTypeOK, Doubly, OneRing, Alone,
         NEW a \in Alarm, ~Listed(a), alt_llist_insert(a)
  PROVE  /\ next' \in Pointers /\ previous' \in Pointers
         /\ Ring' = Ring \cup {a} /\ a \notin Ring
         /\ Doubly' /\ OneRing' /\ Alone'
         /\ next'[a] = next[alt_alarm_list] /\ next'[alt_alarm_list] = a
         /\ \A b \in Alarm \ {a} : next'[b] = next[b]
<1> DEFINE h == alt_alarm_list
           f == next[h]
<1>1. /\ next \in [Entries -> Entries \cup {Nil}] /\ previous \in [Entries -> Entries \cup {Nil}]
      /\ Nil \notin Entries /\ h \notin Alarm /\ h \in Entries
      /\ Ring \subseteq Entries /\ h \in Ring /\ a \notin Ring /\ a \in Entries
      /\ \A b \in Alarm : b \in Ring <=> next[b] # Nil /\ next[b] # b
      /\ \A b \in Entries : b \in Alarm \/ b = h
  BY ListIs DEF Entries
<1>2. f \in Ring /\ f # a /\ previous[f] = h /\ f \in Entries
  BY <1>1 DEF Doubly
<1>3. next' = [next EXCEPT ![a] = f, ![h] = a] /\ previous' = [previous EXCEPT ![a] = h, ![f] = a]
  BY DEF alt_llist_insert
<1> HIDE DEF h, f
<1>4. /\ next' \in [Entries -> Entries \cup {Nil}] /\ previous' \in [Entries -> Entries \cup {Nil}]
      /\ next'[a] = f /\ next'[h] = a /\ previous'[a] = h /\ previous'[f] = a
      /\ \A b \in Entries : b # a /\ b # h => next'[b] = next[b]
      /\ \A b \in Entries : b # a /\ b # f => previous'[b] = previous[b]
  BY <1>1, <1>2, <1>3
<1>5. Ring' = Ring \cup {a}
  <2>1. Ring' = {h} \cup {b \in Alarm : next'[b] # Nil /\ next'[b] # b}
    BY DEF Ring, Listed, h
  <2>2. Ring = {h} \cup {b \in Alarm : next[b] # Nil /\ next[b] # b}
    BY DEF Ring, Listed, h
  <2>3. ASSUME NEW b \in Alarm
        PROVE  (next'[b] # Nil /\ next'[b] # b) <=> (b \in Ring \/ b = a)
    <3>1. CASE b = a
      BY <1>1, <1>2, <1>4, <3>1
    <3>2. CASE b # a
      <4>1. next'[b] = next[b]
        BY <1>1, <1>4, <3>2 DEF Entries
      <4> QED
        BY <1>1, <3>2, <4>1
    <3> QED
      BY <3>1, <3>2
  <2> QED
    BY <1>1, <2>1, <2>3
<1>6. Doubly'
  <2> SUFFICES ASSUME NEW b \in Ring'
               PROVE  /\ next'[b] \in Ring' /\ previous'[next'[b]] = b
                      /\ previous'[b] \in Ring' /\ next'[previous'[b]] = b
    BY DEF Doubly
  <2>1. \A x \in Ring : /\ next[x] \in Ring /\ previous[next[x]] = x
                        /\ previous[x] \in Ring /\ next[previous[x]] = x
    BY DEF Doubly
  <2>2. CASE b = a
    BY <1>1, <1>2, <1>4, <1>5, <2>2
  <2>3. CASE b # a
    <3>1. b \in Ring /\ b \in Entries
      BY <1>1, <1>5, <2>3
    <3>2. next'[b] \in Ring' /\ previous'[next'[b]] = b
      <4>1. CASE b = h
        BY <1>4, <1>5, <4>1
      <4>2. CASE b # h
        <5>1. next'[b] = next[b] /\ next[b] \in Ring /\ previous[next[b]] = b
          BY <1>4, <2>1, <2>3, <3>1, <4>2
        <5>2. next[b] # a /\ next[b] # f /\ next[b] \in Entries
          BY <1>1, <1>2, <4>2, <5>1
        <5> QED
          BY <1>4, <1>5, <5>1, <5>2
      <4> QED
        BY <4>1, <4>2
    <3>3. previous'[b] \in Ring' /\ next'[previous'[b]] = b
      <4>1. CASE b = f
        BY <1>4, <1>5, <4>1
      <4>2. CASE b # f
        <5>1. previous'[b] = previous[b] /\ previous[b] \in Ring /\ next[previous[b]] = b
          BY <1>4, <2>1, <2>3, <3>1, <4>2
        <5>2. previous[b] # a /\ previous[b] # h /\ previous[b] \in Entries
          BY <1>1, <4>2, <5>1 DEF f
        <5> QED
          BY <1>4, <1>5, <5>1, <5>2
      <4> QED
        BY <4>1, <4>2
    <3> QED
      BY <3>2, <3>3
  <2> QED
    BY <2>2, <2>3
<1>7. OneRing'
  <2> SUFFICES ASSUME NEW S \in SUBSET Ring', h \in S, \A b \in S : next'[b] \in S
               PROVE  S = Ring'
    BY DEF OneRing, h
  <2> DEFINE T == S \ {a}
  <2>1. T \in SUBSET Ring /\ h \in T /\ a \in S
    BY <1>1, <1>4, <1>5
  <2>2. ASSUME NEW b \in T PROVE next[b] \in T
    <3>1. b \in Ring /\ b # a /\ b \in Entries /\ next[b] \in Ring /\ next[b] # a
      BY <1>1, <2>1 DEF Doubly
    <3>2. CASE b = h
      <4>1. next'[a] \in S
        BY <2>1
      <4> QED
        BY <1>2, <1>4, <3>2, <4>1 DEF f
    <3>3. CASE b # h
      <4>1. next'[b] = next[b]
        BY <1>4, <3>1, <3>3
      <4> QED
        BY <3>1, <4>1
    <3> QED
      BY <3>2, <3>3
  <2> HIDE DEF T
  <2>3. T = Ring
    BY <2>1, <2>2 DEF OneRing, h
  <2> QED
    BY <1>5, <2>1, <2>3 DEF T
<1>8. Alone'
  <2> SUFFICES ASSUME NEW b \in Alarm \ Ring' PROVE previous'[b] = next'[b]
    BY DEF Alone
  <2>1. b \in Alarm \ Ring /\ b # a /\ b # h /\ b # f /\ b \in Entries
    BY <1>1, <1>2, <1>5 DEF Entries
  <2> QED
    BY <1>4, <2>1 DEF Alone
<1>9. \A b \in Alarm \ {a} : next'[b] = next[b]
  BY <1>1, <1>4 DEF Entries
<1>10. next' \in Pointers /\ previous' \in Pointers
  BY <1>4 DEF Pointers, Entries
<1> QED
  BY <1>1, <1>4, <1>5, <1>6, <1>7, <1>8, <1>9, <1>10 DEF h, f

\* An alarm is taken out; taking it out again does no harm.
LEMMA ListRemoves ==
  ASSUME AlarmsAssumption, AlarmsTypeOK, Doubly, OneRing, Alone,
         NEW a \in Alarm, next[a] # Nil, alt_llist_remove(a)
  PROVE  /\ next' \in Pointers /\ previous' \in Pointers
         /\ Ring' = Ring \ {a}
         /\ Doubly' /\ OneRing' /\ Alone'
         /\ next'[a] = a
         /\ \A b \in Entries \ {a} : next'[b] = IF next[b] = a THEN next[a] ELSE next[b]
         /\ a \notin Ring => next' = next
<1> DEFINE h == alt_alarm_list
           p == previous[a]
           f == next[a]
<1>1. /\ next \in [Entries -> Entries \cup {Nil}] /\ previous \in [Entries -> Entries \cup {Nil}]
      /\ Nil \notin Entries /\ h \notin Alarm /\ h \in Entries
      /\ Ring \subseteq Entries /\ h \in Ring /\ a \in Entries /\ a # h
      /\ \A b \in Alarm : b \in Ring <=> next[b] # Nil /\ next[b] # b
      /\ \A b \in Entries : b \in Alarm \/ b = h
  BY ListIs DEF Entries
<1>2. /\ next' = [[next EXCEPT ![p] = f] EXCEPT ![a] = a]
      /\ previous' = [[previous EXCEPT ![f] = p] EXCEPT ![a] = a]
  BY DEF alt_llist_remove
<1>3. \A x \in Ring : /\ next[x] \in Ring /\ previous[next[x]] = x
                      /\ previous[x] \in Ring /\ next[previous[x]] = x
  BY DEF Doubly
<1>4. CASE a \notin Ring
  <2>1. f = a /\ p = a
    BY <1>1, <1>4 DEF Alone
  <2>2. next' = next /\ previous' = previous
    BY <1>1, <1>2, <2>1
  <2>3. Ring' = Ring
    BY <2>2 DEF Ring, Listed
  <2>4. Doubly' /\ OneRing' /\ Alone'
    BY <2>2, <2>3 DEF Doubly, OneRing, Alone
  <2>5. \A b \in Entries \ {a} : next'[b] = IF next[b] = a THEN next[a] ELSE next[b]
    BY <2>1, <2>2
  <2> QED
    BY <1>4, <2>1, <2>2, <2>3, <2>4, <2>5 DEF AlarmsTypeOK
<1>5. CASE a \in Ring
  <2>1. /\ p \in Ring /\ f \in Ring /\ next[p] = a /\ previous[f] = a
        /\ p \in Entries /\ f \in Entries /\ f # a /\ p # a
    BY <1>1, <1>3, <1>5
  <2> HIDE DEF h, p, f
  <2>2. /\ next' \in [Entries -> Entries \cup {Nil}] /\ previous' \in [Entries -> Entries \cup {Nil}]
        /\ next'[a] = a /\ previous'[a] = a /\ next'[p] = f /\ previous'[f] = p
        /\ \A b \in Entries : b # a /\ b # p => next'[b] = next[b]
        /\ \A b \in Entries : b # a /\ b # f => previous'[b] = previous[b]
    BY <1>1, <1>2, <2>1
  <2>3. p = f => p = h
    <3> SUFFICES ASSUME p = f, p # h PROVE FALSE
      OBVIOUS
    <3> DEFINE S == Ring \ {a, p}
    <3>1. S \in SUBSET Ring /\ h \in S
      BY <1>1
    <3>2. \A b \in S : next[b] \in S
      <4> SUFFICES ASSUME NEW b \in S PROVE next[b] \in S
        OBVIOUS
      <4>1. next[b] \in Ring /\ previous[next[b]] = b
        BY <1>3
      <4> QED
        BY <2>1, <4>1 DEF p, f
    <3>3. S = Ring
      BY <3>1, <3>2 DEF OneRing, h
    <3> QED
      BY <1>5, <3>3
  <2>4. Ring' = Ring \ {a}
    <3>1. Ring' = {h} \cup {b \in Alarm : next'[b] # Nil /\ next'[b] # b}
      BY DEF Ring, Listed, h
    <3>2. ASSUME NEW b \in Alarm
          PROVE  (next'[b] # Nil /\ next'[b] # b) <=> (b \in Ring /\ b # a)
      <4>1. CASE b = a
        BY <2>2, <4>1
      <4>2. CASE b = p
        BY <1>1, <2>1, <2>2, <2>3, <4>2
      <4>3. CASE b # a /\ b # p
        <5>1. next'[b] = next[b]
          BY <2>2, <4>3 DEF Entries
        <5> QED
          BY <1>1, <4>3, <5>1
      <4> QED
        BY <4>1, <4>2, <4>3
    <3> QED
      BY <1>1, <3>1, <3>2
  <2>5. Doubly'
    <3> SUFFICES ASSUME NEW b \in Ring'
                 PROVE  /\ next'[b] \in Ring' /\ previous'[next'[b]] = b
                        /\ previous'[b] \in Ring' /\ next'[previous'[b]] = b
      BY DEF Doubly
    <3>1. b \in Ring /\ b # a /\ b \in Entries
      BY <1>1, <2>4
    <3>2. next'[b] \in Ring' /\ previous'[next'[b]] = b
      <4>1. CASE b = p
        BY <2>1, <2>2, <2>4, <4>1
      <4>2. CASE b # p
        <5>1. next'[b] = next[b] /\ next[b] \in Ring /\ previous[next[b]] = b
          BY <1>3, <2>2, <3>1, <4>2
        <5>2. next[b] # a /\ next[b] # f /\ next[b] \in Entries
          BY <1>1, <2>1, <3>1, <4>2, <5>1 DEF p
        <5> QED
          BY <2>2, <2>4, <5>1, <5>2
      <4> QED
        BY <4>1, <4>2
    <3>3. previous'[b] \in Ring' /\ next'[previous'[b]] = b
      <4>1. CASE b = f
        BY <2>1, <2>2, <2>4, <4>1
      <4>2. CASE b # f
        <5>1. previous'[b] = previous[b] /\ previous[b] \in Ring /\ next[previous[b]] = b
          BY <1>3, <2>2, <3>1, <4>2
        <5>2. previous[b] # a /\ previous[b] # p /\ previous[b] \in Entries
          BY <1>1, <2>1, <3>1, <4>2, <5>1 DEF f
        <5> QED
          BY <2>2, <2>4, <5>1, <5>2
      <4> QED
        BY <4>1, <4>2
    <3> QED
      BY <3>2, <3>3
  <2>6. OneRing'
    <3> SUFFICES ASSUME NEW S \in SUBSET Ring', h \in S, \A b \in S : next'[b] \in S
                 PROVE  S = Ring'
      BY DEF OneRing, h
    <3> DEFINE T == IF p \in S THEN S \cup {a} ELSE S
    <3>1. T \in SUBSET Ring /\ h \in T
      BY <1>5, <2>4
    <3>2. ASSUME NEW b \in T PROVE next[b] \in T
      <4>1. CASE b = a
        <5>1. p \in S
          BY <2>4, <4>1
        <5>2. next'[p] \in S
          BY <5>1
        <5> QED
          BY <2>2, <4>1, <5>1, <5>2 DEF f
      <4>2. CASE b = p /\ b # a
        BY <2>1, <4>2
      <4>3. CASE b # p /\ b # a
        <5>1. b \in S /\ b \in Entries
          BY <1>1, <2>4, <4>3
        <5>2. next'[b] = next[b] /\ next'[b] \in S
          BY <2>2, <4>3, <5>1
        <5> QED
          BY <5>2
      <4> QED
        BY <4>1, <4>2, <4>3
    <3>3. T = Ring
      <4> HIDE DEF T
      <4> QED
        BY <3>1, <3>2 DEF OneRing, h
    <3> QED
      BY <2>1, <2>4, <3>3
  <2>7. Alone'
    <3> SUFFICES ASSUME NEW b \in Alarm \ Ring' PROVE previous'[b] = next'[b]
      BY DEF Alone
    <3>1. CASE b = a
      BY <2>2, <3>1
    <3>2. CASE b # a
      <4>1. b \in Alarm \ Ring /\ b # p /\ b # f /\ b \in Entries
        BY <2>1, <2>4, <3>2 DEF Entries
      <4> QED
        BY <2>2, <3>2, <4>1 DEF Alone
    <3> QED
      BY <3>1, <3>2
  <2>8. \A b \in Entries \ {a} : next'[b] = IF next[b] = a THEN next[a] ELSE next[b]
    <3> SUFFICES ASSUME NEW b \in Entries \ {a}
                 PROVE  next'[b] = IF next[b] = a THEN next[a] ELSE next[b]
      OBVIOUS
    <3>1. CASE b = p
      BY <2>1, <2>2, <3>1 DEF f
    <3>2. CASE b # p
      <4>1. next'[b] = next[b]
        BY <2>2, <3>2
      <4>2. next[b] # a
        <5> SUFFICES ASSUME next[b] = a PROVE FALSE
          OBVIOUS
        <5>1. b \in Ring
          <6>1. next[b] # Nil /\ next[b] # b
            BY <1>1
          <6> QED
            BY <1>1, <6>1
        <5> QED
          BY <1>3, <3>2, <5>1 DEF p
      <4> QED
        BY <4>1, <4>2
    <3> QED
      BY <3>1, <3>2
  <2>9. next' \in Pointers /\ previous' \in Pointers
    BY <2>2 DEF Pointers, Entries
  <2> QED
    BY <1>5, <2>2, <2>4, <2>5, <2>6, <2>7, <2>8, <2>9
<1> QED
  BY <1>4, <1>5

\* A time in the next M ticks, and whether it lies beyond the wrap.
LEMMA SetsTime ==
  ASSUME AlarmsAssumption, AlarmsTypeOK, NEW a \in Alarm, NEW t \in Nat, Sets(a, t)
  PROVE  /\ time' \in [Alarm -> 0 .. M - 1] /\ rollover' \in [Alarm -> BOOLEAN]
         /\ time'[a] = t % M /\ rollover'[a] = (t % M < nticks)
         /\ \A b \in Alarm \ {a} : time'[b] = time[b] /\ rollover'[b] = rollover[b]
<1>1. t % M \in 0 .. M - 1
  BY DEF AlarmsAssumption
<1>2. time \in [Alarm -> 0 .. M - 1] /\ rollover \in [Alarm -> BOOLEAN]
  BY DEF AlarmsTypeOK
<1>3. time' = [time EXCEPT ![a] = t % M] /\ rollover' = [rollover EXCEPT ![a] = t % M < nticks]
  BY DEF Sets
<1>4. (t % M < nticks) \in BOOLEAN
  OBVIOUS
<1> QED
  BY <1>1, <1>2, <1>3, <1>4

\* The ticks that are then left.
LEMMA SetsLeft ==
  ASSUME AlarmsAssumption, AlarmsTypeOK, NEW a \in Alarm, NEW k \in 1 .. M - 1,
         Sets(a, nticks + k)
  PROVE  /\ (IF rollover'[a] /\ nticks # 0 THEN time'[a] + M - nticks ELSE time'[a] - nticks) = k
         /\ nticks = 0 => ~rollover'[a]
<1>1. M \in Nat /\ M > 1 /\ nticks \in 0 .. M - 1 /\ k \in 1 .. M - 1
  BY DEF AlarmsAssumption, AlarmsTypeOK
<1>2. nticks + k \in Nat
  BY <1>1
<1>3. time'[a] = (nticks + k) % M /\ rollover'[a] = ((nticks + k) % M < nticks)
  BY <1>2, SetsTime
<1> DEFINE x == nticks + k
<1>x. x \in 0 .. 2 * M - 1 /\ x > nticks /\ x = nticks + k
  BY <1>1
<1>y. time'[a] = x % M /\ (rollover'[a] <=> x % M < nticks)
  BY <1>3
<1> HIDE DEF x
<1>4. CASE x < M
  <2>1. x % M = x
    BY <1>1, <1>4, <1>x
  <2>2. time'[a] = x /\ (rollover'[a] <=> x < nticks)
    BY <1>y, <2>1, Zenon
  <2> QED
    BY <1>1, <1>x, <2>2
<1>5. CASE x >= M
  <2>1. x % M = x - M
    <3>1. \A z \in M .. 2 * M - 1 : z % M = z - M
      BY <1>1
    <3>2. x \in M .. 2 * M - 1
      BY <1>1, <1>5, <1>x
    <3> QED
      BY <3>1, <3>2
  <2>2. time'[a] = x - M /\ (rollover'[a] <=> x - M < nticks)
    BY <1>y, <2>1, Zenon
  <2> QED
    BY <1>1, <1>5, <1>x, <2>2
<1> QED
  BY <1>1, <1>4, <1>5, <1>x

\* The list stays one ring when an alarm is started.
LEMMA StartLinks ==
  ASSUME AlarmsAssumption, AlarmsInv, NEW a \in Alarm, alt_alarm_start(a)
  PROVE  AlarmsInv'
<1>0. AlarmsTypeOK /\ Doubly /\ OneRing /\ Alone
  BY DEF AlarmsInv
<1>1. /\ ~Listed(a) /\ alt_llist_insert(a)
      /\ UNCHANGED <<nticks, tick_rate, pc, alarm, saved>>
  BY DEF alt_alarm_start, clock, local
<1>2. PICK m \in Ticks : Sets(a, m + nticks + 1)
  BY DEF alt_alarm_start
<1>3. m + nticks + 1 \in Nat
  BY <1>0 DEF AlarmsAssumption, AlarmsTypeOK
<1>4. time' \in [Alarm -> 0 .. M - 1] /\ rollover' \in [Alarm -> BOOLEAN]
  BY <1>0, <1>2, <1>3, SetsTime
<1>5. /\ next' \in Pointers /\ previous' \in Pointers /\ Doubly' /\ OneRing' /\ Alone'
      /\ next'[a] = next[alt_alarm_list] /\ next'[alt_alarm_list] = a
      /\ \A b \in Alarm \ {a} : next'[b] = next[b]
  BY <1>0, <1>1, ListInserts
<1>6. next'[alarm] # Nil /\ next'[saved] # Nil
  <2>1. next[alt_alarm_list] \in Ring /\ Ring \subseteq Entries /\ Nil \notin Entries
    BY <1>0, ListIs DEF Doubly
  <2>2. ASSUME NEW b \in Entries, next[b] # Nil PROVE next'[b] # Nil
    <3>1. b = a \/ b = alt_alarm_list \/ b \in Alarm \ {a}
      BY DEF Entries
    <3> QED
      BY <1>5, <2>1, <2>2, <3>1 DEF Entries
  <2> QED
    BY <1>0, <2>2 DEF AlarmsTypeOK
<1>7. AlarmsTypeOK'
  BY <1>0, <1>1, <1>4, <1>5, <1>6 DEF AlarmsTypeOK
<1> QED
  BY <1>5, <1>7 DEF AlarmsInv

\* The list stays one ring when an alarm is taken out, by a stop or by its callback.
LEMMA RemoveLinks ==
  ASSUME AlarmsAssumption, AlarmsInv, NEW a \in Alarm, next[a] # Nil, alt_llist_remove(a)
  PROVE  /\ next' \in Pointers /\ previous' \in Pointers /\ Doubly' /\ OneRing' /\ Alone'
         /\ \A b \in Entries : next[b] # Nil => next'[b] # Nil
<1>1. /\ next' \in Pointers /\ previous' \in Pointers /\ Doubly' /\ OneRing' /\ Alone'
      /\ next'[a] = a
      /\ \A b \in Entries \ {a} : next'[b] = IF next[b] = a THEN next[a] ELSE next[b]
  BY ListRemoves DEF AlarmsInv
<1>2. a # Nil
  BY ListIs DEF AlarmsInv, Entries
<1> QED
  BY <1>1, <1>2

\* The list stays one ring, whatever callbacks start and stop, the next alarm among them.
LEMMA AlarmsStep ==
  ASSUME AlarmsAssumption, AlarmsInv, [Next]_vars
  PROVE  AlarmsInv'
<1>0. AlarmsTypeOK /\ Doubly /\ OneRing /\ Alone
  BY DEF AlarmsInv
<1>k. ASSUME UNCHANGED list, AlarmsTypeOK' PROVE AlarmsInv'
  BY <1>0, <1>k DEF list, AlarmsInv, Doubly, OneRing, Alone, Ring, Listed
<1>1. CASE alt_sysclk_init
  <2>1. AlarmsTypeOK'
    BY <1>0, <1>1 DEF alt_sysclk_init, list, local, AlarmsTypeOK
  <2> QED
    BY <1>1, <1>k, <2>1 DEF alt_sysclk_init
<1>2. CASE TickStarts
  <2>1. next[alt_alarm_list] \in Ring /\ Ring \subseteq Entries
    BY <1>0, ListIs DEF Doubly
  <2>2. next[next[alt_alarm_list]] # Nil
    BY <1>0, <2>1, ListIs DEF Doubly
  <2>3. nticks' \in 0 .. M - 1
    BY <1>0, <1>2 DEF TickStarts, AlarmsAssumption, AlarmsTypeOK
  <2>4. AlarmsTypeOK'
    BY <1>0, <1>2, <2>1, <2>2, <2>3 DEF TickStarts, list, AlarmsTypeOK
  <2> QED
    BY <1>2, <1>k, <2>4 DEF TickStarts
<1>3. CASE Visit
  <2>1. alarm \in Alarm /\ next[alarm] \in Entries /\ next[next[alarm]] # Nil
    <3>1. alarm \in Alarm /\ next[alarm] # Nil /\ alarm \in Entries
      BY <1>0, <1>3 DEF Visit, AlarmsTypeOK, Entries
    <3>2. CASE alarm \in Ring
      BY <1>0, <3>1, <3>2, ListIs DEF Doubly
    <3>3. CASE alarm \notin Ring
      BY <1>0, <3>1, <3>3, ListIs
    <3> QED
      BY <3>2, <3>3
  <2>2. rollover' \in [Alarm -> BOOLEAN]
    BY <1>0, <1>3 DEF Visit, AlarmsTypeOK
  <2>3. saved' = next[alarm] /\ alarm' \in {alarm, next[alarm]} /\ pc' \in {"tick", "callback"}
    BY <1>3 DEF Visit
  <2>4. pc' = "callback" => alarm' \in Alarm
    BY <1>3, <2>1 DEF Visit
  <2>5. UNCHANGED <<list, next, previous, time, nticks, tick_rate>>
    BY <1>3 DEF Visit, list, clock
  <2>6. AlarmsTypeOK'
    BY <1>0, <2>1, <2>2, <2>3, <2>4, <2>5 DEF AlarmsTypeOK
  <2> QED
    BY <1>k, <2>5, <2>6
<1>4. CASE Returned
  <2>1. /\ pc = "callback" /\ pc' = "tick" /\ alarm' = saved /\ saved' = saved
        /\ UNCHANGED <<nticks, tick_rate>> /\ alarm \in Alarm
    BY <1>0, <1>4 DEF Returned, clock, AlarmsTypeOK
  <2>2. CASE alt_llist_remove(alarm) /\ UNCHANGED <<time, rollover>>
    <3>1. /\ next' \in Pointers /\ previous' \in Pointers /\ Doubly' /\ OneRing' /\ Alone'
          /\ \A b \in Entries : next[b] # Nil => next'[b] # Nil
      BY <1>0, <2>1, <2>2, RemoveLinks DEF AlarmsTypeOK
    <3>2. AlarmsTypeOK'
      BY <1>0, <2>1, <2>2, <3>1 DEF AlarmsTypeOK
    <3> QED
      BY <3>1, <3>2 DEF AlarmsInv
  <2>3. CASE \E m \in Ticks \ {0} : Sets(alarm, time[alarm] + m) /\ UNCHANGED list
    <3>1. PICK m \in Ticks \ {0} : Sets(alarm, time[alarm] + m) /\ UNCHANGED list
      BY <2>3
    <3>2. time[alarm] + m \in Nat
      BY <1>0, <2>1 DEF AlarmsAssumption, AlarmsTypeOK
    <3>3. time' \in [Alarm -> 0 .. M - 1] /\ rollover' \in [Alarm -> BOOLEAN]
      BY <1>0, <2>1, <3>1, <3>2, SetsTime
    <3>4. AlarmsTypeOK'
      BY <1>0, <2>1, <3>1, <3>3 DEF AlarmsTypeOK, list
    <3> QED
      BY <1>k, <3>1, <3>4
  <2> QED
    BY <1>4, <2>2, <2>3 DEF Returned
<1>5. CASE TickReturns
  <2>1. AlarmsTypeOK'
    BY <1>0, <1>5 DEF TickReturns, list, clock, AlarmsTypeOK
  <2> QED
    BY <1>5, <1>k, <2>1 DEF TickReturns
<1>6. CASE \E a \in Alarm : alt_alarm_start(a)
  BY <1>6, StartLinks
<1>7. CASE \E a \in Alarm : alt_alarm_stop(a)
  <2>1. PICK a \in Alarm : alt_alarm_stop(a)
    BY <1>7
  <2>2. /\ next[a] # Nil /\ alt_llist_remove(a)
        /\ UNCHANGED <<time, rollover, nticks, tick_rate, pc, alarm, saved>>
    BY <2>1 DEF alt_alarm_stop, clock, local
  <2>3. /\ next' \in Pointers /\ previous' \in Pointers /\ Doubly' /\ OneRing' /\ Alone'
        /\ \A b \in Entries : next[b] # Nil => next'[b] # Nil
    BY <2>2, RemoveLinks
  <2>4. AlarmsTypeOK'
    BY <1>0, <2>2, <2>3 DEF AlarmsTypeOK
  <2> QED
    BY <2>3, <2>4 DEF AlarmsInv
<1>8. CASE UNCHANGED vars
  <2>1. AlarmsTypeOK'
    BY <1>0, <1>8 DEF vars, AlarmsTypeOK
  <2> QED
    BY <1>8, <1>k, <2>1 DEF vars, list
<1> QED
  BY <1>1, <1>2, <1>3, <1>4, <1>5, <1>6, <1>7, <1>8 DEF Next, Tick

\* The list is empty at reset.
LEMMA AlarmsStart ==
  ASSUME AlarmsAssumption, Init
  PROVE  AlarmsInv /\ \A a \in Alarm : ~Listed(a)
<1>1. /\ next = [a \in Entries |-> IF a \in Alarm THEN Nil ELSE a] /\ previous = next
      /\ alt_alarm_list \notin Alarm /\ Nil \notin Entries /\ alt_alarm_list \in Entries
      /\ alarm = alt_alarm_list /\ saved = alt_alarm_list
  BY DEF Init, Entries, AlarmsAssumption
<1>2. next \in Pointers /\ previous \in Pointers /\ next[alt_alarm_list] = alt_alarm_list
  BY <1>1 DEF Pointers, Entries
<1>3. \A a \in Alarm : ~Listed(a)
  BY <1>1 DEF Listed, Entries
<1>4. Ring = {alt_alarm_list}
  BY <1>3 DEF Ring
<1>5. AlarmsTypeOK
  <2>1. 0 \in 0 .. M - 1
    BY DEF AlarmsAssumption
  <2>2. time \in [Alarm -> 0 .. M - 1] /\ rollover \in [Alarm -> BOOLEAN]
    BY <2>1 DEF Init
  <2>3. next[alarm] # Nil /\ next[saved] # Nil
    BY <1>1, <1>2
  <2> QED
    BY <1>1, <1>2, <2>1, <2>2, <2>3 DEF Init, AlarmsTypeOK
<1>6. Doubly /\ OneRing /\ Alone
  <2>1. Doubly /\ OneRing
    <3>1. \A a \in Ring : a = alt_alarm_list
      BY <1>4
    <3>2. /\ next[alt_alarm_list] = alt_alarm_list /\ previous[alt_alarm_list] = alt_alarm_list
          /\ alt_alarm_list \in Ring
      BY <1>1, <1>2, <1>4
    <3>3. Doubly
      BY <3>1, <3>2 DEF Doubly
    <3>4. OneRing
      BY <3>1, <3>2 DEF OneRing
    <3> QED
      BY <3>3, <3>4
  <2>2. \A a \in Alarm \ Ring : previous[a] = next[a]
    BY <1>1
  <2> QED
    BY <2>1, <2>2 DEF Alone
<1> QED
  BY <1>3, <1>5, <1>6 DEF AlarmsInv

\* The alarms that run form one ring with the head, linked both ways, for any number of
\* alarms, whatever callbacks start and stop while alt_tick walks over it.
THEOREM RingHolds == ASSUME AlarmsAssumption PROVE Spec => []WellLinked
<1>1. Init => AlarmsInv
  BY AlarmsStart
<1>2. AlarmsInv /\ [Next]_vars => AlarmsInv'
  BY AlarmsStep
<1>3. AlarmsInv => WellLinked
  BY DEF AlarmsInv, AlarmsTypeOK, Doubly, OneRing, Alone, WellLinked
<1> QED
  BY <1>1, <1>2, <1>3, PTL DEF Spec

-----------------------------------------------------------------------------
(* The alarms: every step counts the ticks as promised.                    *)

\* What holds of the list, and the ticks left of those that run.
LEMMA RingIs ==
  ASSUME AlarmsAssumption, AlarmsInv
  PROVE  /\ alt_alarm_list \in Ring /\ Ring \subseteq Entries /\ alt_alarm_list \notin Alarm
         /\ \A a \in Ring : a # alt_alarm_list => a \in Alarm /\ Listed(a)
         /\ \A a \in Alarm : Listed(a) <=> a \in Ring
         /\ \A a \in Ring : next[a] \in Ring /\ previous[next[a]] = a
<1> QED
  BY ListIs DEF AlarmsInv, Doubly, Entries

\* The ticks left depend on the entry, its time and flag, and the counter.
LEMMA LeftIs ==
  ASSUME NEW a \in Alarm
  PROVE  Left[a] = IF ~Listed(a) THEN -1
                   ELSE IF rollover[a] /\ nticks # 0 THEN time[a] + M - nticks
                   ELSE time[a] - nticks
<1> QED
  BY DEF Left

\* Whoever is not touched keeps its ticks.
LEMMA LeftStays ==
  ASSUME NEW a \in Alarm, Listed(a)' <=> Listed(a), time'[a] = time[a],
         rollover'[a] = rollover[a], nticks' = nticks
  PROVE  Left'[a] = Left[a] /\ (Dealt(a) <=> Dealt(a)')
<1>1. Left'[a] = Left[a]
  BY DEF Left
<1> QED
  BY <1>1 DEF Dealt

\* A tick takes one from every alarm, and the walk has them all before it.
LEMMA TickCounts ==
  ASSUME AlarmsAssumption, AlarmsInv, AlarmsInv', InTime, TickStarts
  PROVE  InTime' /\ Promise!Tick
<1>1. /\ pc = "run" /\ pc' = "tick" /\ alarm' = next[alt_alarm_list]
      /\ next' = next /\ previous' = previous /\ time' = time /\ rollover' = rollover
      /\ nticks' = (nticks + 1) % M
  BY DEF TickStarts, list
<1>2. /\ M \in Nat /\ M > 1 /\ nticks \in 0 .. M - 1
      /\ time \in [Alarm -> 0 .. M - 1] /\ rollover \in [Alarm -> BOOLEAN]
  BY DEF AlarmsAssumption, AlarmsInv, AlarmsTypeOK
<1>3. Ring' = Ring /\ \A a \in Alarm : Listed(a)' <=> Listed(a)
  BY <1>1 DEF Ring, Listed
<1>4. \/ nticks < M - 1 /\ nticks' = nticks + 1
      \/ nticks = M - 1 /\ nticks' = 0
  <2>1. CASE nticks < M - 1
    BY <1>1, <1>2, <2>1
  <2>2. CASE nticks = M - 1
    <3>1. nticks' = M % M
      BY <1>1, <1>2, <2>2
    <3>2. M % M = 0
      BY <1>2
    <3> QED
      BY <2>2, <3>1, <3>2
  <2> QED
    BY <1>2, <2>1, <2>2
<1>5. ASSUME NEW a \in Alarm, Listed(a)
      PROVE  Left[a] > 0 /\ Left[a] \in Int /\ Left'[a] = Left[a] - 1 /\ Left'[a] \in 0 .. M - 1
  <2>1. Left[a] > 0 /\ (nticks = 0 => ~rollover[a]) /\ Left[a] \in 0 .. M - 1
    BY <1>1, <1>5 DEF InTime, Dealt
  <2>2. Left[a] = IF rollover[a] /\ nticks # 0 THEN time[a] + M - nticks ELSE time[a] - nticks
    BY <1>5, LeftIs
  <2>3. Left'[a] = IF rollover[a] /\ nticks' # 0 THEN time[a] + M - nticks' ELSE time[a] - nticks'
    BY <1>1, <1>3, <1>5 DEF Left
  <2>4. time[a] \in 0 .. M - 1
    BY <1>2
  <2>5. Left'[a] = Left[a] - 1
    <3>1. CASE nticks < M - 1 /\ nticks' = nticks + 1
      BY <1>2, <2>1, <2>2, <2>3, <2>4, <3>1
    <3>2. CASE nticks = M - 1 /\ nticks' = 0
      BY <1>2, <2>1, <2>2, <2>3, <2>4, <3>2
    <3> QED
      BY <1>4, <3>1, <3>2
  <2> QED
    BY <1>2, <2>1, <2>5
<1>6. \E S \in SUBSET Alarm : ToCome(S, next[alt_alarm_list])'
                              /\ \A a \in Alarm \ S : ~Listed(a)'
  <2> DEFINE h == alt_alarm_list
  <2>0. PICK S \in SUBSET Entries : S = Ring \ {h}
    BY RingIs
  <2>1. /\ h \in Ring /\ S \subseteq Alarm /\ next[h] \in Ring
        /\ \A a \in Ring : next[a] \in Ring /\ previous[next[a]] = a
        /\ \A a \in Alarm : Listed(a) <=> a \in Ring
        /\ h \notin Alarm
    BY <2>0, RingIs
  <2>2. ToCome(S, next[h])'
    BY <1>1, <1>3, <2>0, <2>1 DEF ToCome
  <2>3. \A a \in Alarm \ S : ~Listed(a)'
    BY <1>3, <2>0, <2>1
  <2> QED
    BY <2>1, <2>2, <2>3
<1>7. InTime'
  <2>1. First' = next'[alt_alarm_list]
    BY <1>1 DEF First
  <2> QED
    BY <1>1, <1>3, <1>5, <1>6, <2>1 DEF InTime
<1>8. Promise!Tick
  <2>1. \A a \in Alarm : Listed(a) => Left[a] # -1 /\ Left[a] # 0 /\ Left'[a] = Left[a] - 1
    BY <1>5
  <2>2. \A a \in Alarm : ~Listed(a) => Left[a] = -1 /\ Left'[a] = -1
    BY <1>3 DEF Left
  <2>3. Left' = [a \in Alarm |-> IF Left[a] = -1 THEN -1 ELSE Left[a] - 1]
    <3>1. Left' = [a \in Alarm |-> Left'[a]]
      BY DEF Left
    <3> QED
      BY <2>1, <2>2, <3>1
  <2>4. \A a \in Alarm : Left[a] # 0
    BY <2>1, <2>2
  <2> QED
    BY <2>3, <2>4 DEF Promise!Tick, Promise!Off
<1> QED
  BY <1>7, <1>8

\* The walk goes on by one alarm; nobody's ticks change.
LEMMA VisitGoesOn ==
  ASSUME AlarmsAssumption, AlarmsInv, AlarmsInv', InTime, Visit
  PROVE  InTime' /\ Left' = Left
<1> DEFINE h == alt_alarm_list
           over == rollover[alarm] /\ nticks # 0
<1>1. /\ pc = "tick" /\ alarm # h /\ saved' = next[alarm]
      /\ rollover' = [rollover EXCEPT ![alarm] = over]
      /\ next' = next /\ previous' = previous /\ time' = time /\ nticks' = nticks
  BY DEF Visit, list, clock
<1>2. /\ M \in Nat /\ M > 1 /\ nticks \in 0 .. M - 1
      /\ time \in [Alarm -> 0 .. M - 1] /\ rollover \in [Alarm -> BOOLEAN]
  BY DEF AlarmsAssumption, AlarmsInv, AlarmsTypeOK
<1>3. Ring' = Ring /\ \A a \in Alarm : Listed(a)' <=> Listed(a)
  BY <1>1 DEF Ring, Listed
<1>4. PICK S \in SUBSET Alarm : ToCome(S, alarm) /\ \A a \in Alarm \ S : Listed(a) => Dealt(a)
  BY <1>1 DEF InTime, First
<1>5. alarm \in S /\ alarm \in Ring /\ alarm \in Alarm /\ Listed(alarm)
  BY <1>1, <1>4, RingIs DEF ToCome
<1>6. rollover'[alarm] = over /\ \A a \in Alarm \ {alarm} : rollover'[a] = rollover[a]
  BY <1>1, <1>2, <1>5
<1>7. Left' = Left
  <2>1. \A a \in Alarm : (rollover'[a] /\ nticks # 0) <=> (rollover[a] /\ nticks # 0)
    BY <1>6
  <2> QED
    BY <1>1, <1>3, <2>1 DEF Left
<1>8. \/ pc' = "callback" /\ alarm' = alarm /\ time[alarm] <= nticks /\ ~over
      \/ pc' = "tick" /\ alarm' = next[alarm] /\ (time[alarm] > nticks \/ over)
  <2>1. time[alarm] \in Int /\ nticks \in Int
    BY <1>2, <1>5
  <2> QED
    BY <1>1, <2>1 DEF Visit
<1>9. First' = next[alarm]
  BY <1>1, <1>8 DEF First
<1>10. PICK T \in SUBSET Alarm : T = S \ {alarm}
  OBVIOUS
<1>T. ToCome(T, First)'
  <2>1. h \in Ring /\ \A a \in Ring : next[a] \in Ring /\ previous[next[a]] = a
    BY RingIs
  <2>2. /\ S \subseteq Ring \ {h} /\ \A a \in S : next[a] \in S \cup {h} /\ next[a] # alarm
        /\ \A a \in Ring \ S : next[a] \in S => next[a] = alarm
    BY <1>4 DEF ToCome
  <2>3. next[alarm] \in T \cup {h}
    BY <1>5, <1>10, <2>2
  <2>4. \A a \in T : next[a] \in T \cup {h} /\ next[a] # next[alarm]
    BY <1>5, <1>10, <2>1, <2>2
  <2>5. \A a \in Ring \ T : next[a] \in T => next[a] = next[alarm]
    BY <1>5, <1>10, <2>2
  <2>6. T \subseteq Ring' \ {h} /\ First' \in T \cup {h}
    BY <1>3, <1>9, <1>10, <2>2, <2>3
  <2>7. \A a \in T : next'[a] \in T \cup {h} /\ next'[a] # First'
    BY <1>1, <1>9, <2>4
  <2>8. \A a \in Ring' \ T : next'[a] \in T => next'[a] = First'
    BY <1>1, <1>3, <1>9, <2>5
  <2> HIDE DEF h
  <2> QED
    BY <2>6, <2>7, <2>8 DEF ToCome, h
<1>11. \A a \in Alarm \ S : Listed(a) => Dealt(a)'
  BY <1>1, <1>4, <1>5, <1>6, <1>7 DEF Dealt
<1>12. pc' = "callback" => Left[alarm] = 0
  <2>1. Left[alarm] \in 0 .. M - 1
    BY <1>5 DEF InTime
  <2>2. Left[alarm] = IF over THEN time[alarm] + M - nticks ELSE time[alarm] - nticks
    BY <1>5, LeftIs
  <2>3. time[alarm] \in 0 .. M - 1
    BY <1>2, <1>5
  <2> QED
    BY <1>2, <1>8, <2>1, <2>2, <2>3
<1>13. pc' = "tick" => Left'[alarm] > 0 /\ (nticks' = 0 => ~rollover'[alarm])
  <2>1. Left[alarm] = IF over THEN time[alarm] + M - nticks ELSE time[alarm] - nticks
    BY <1>5, LeftIs
  <2>2. time[alarm] \in 0 .. M - 1
    BY <1>2, <1>5
  <2>3. pc' = "tick" => Left[alarm] > 0
    BY <1>2, <1>8, <2>1, <2>2
  <2>4. nticks' = 0 => ~rollover'[alarm]
    BY <1>1, <1>6
  <2> QED
    BY <1>7, <2>3, <2>4
<1>14. InTime'
  <2>1. \A a \in Alarm : Listed(a)' => Left'[a] \in 0 .. M - 1
    BY <1>3, <1>7 DEF InTime
  <2>2. pc' # "run" /\ (pc' = "callback" => alarm' = alarm)
    BY <1>8
  <2>3. pc' = "callback" => Left'[alarm'] = 0
    BY <1>7, <1>12, <2>2
  <2>5. pc' = "callback" => alarm' \notin T
    BY <1>10, <2>2
  <2>6. ASSUME NEW a \in Alarm \ T, Listed(a)', pc' = "callback" => a # alarm'
        PROVE  Dealt(a)'
    <3>1. CASE a = alarm
      <4>1. pc' = "tick"
        BY <1>8, <2>6, <3>1
      <4> QED
        BY <1>13, <3>1, <4>1 DEF Dealt
    <3>2. CASE a # alarm
      BY <1>3, <1>10, <1>11, <2>6, <3>2
    <3> QED
      BY <3>1, <3>2
  <2> QED
    BY <1>T, <2>1, <2>2, <2>3, <2>5, <2>6 DEF InTime
<1> QED
  BY <1>7, <1>14

\* The walk ends when it has visited every alarm.
LEMMA WalkEnds ==
  ASSUME AlarmsAssumption, AlarmsInv, AlarmsInv', InTime, TickReturns
  PROVE  InTime' /\ Left' = Left
<1>1. /\ pc = "tick" /\ alarm = alt_alarm_list /\ pc' = "run"
      /\ next' = next /\ previous' = previous /\ time' = time /\ rollover' = rollover
      /\ nticks' = nticks
  BY DEF TickReturns, list, clock
<1>2. Ring' = Ring /\ Left' = Left /\ \A a \in Alarm : Listed(a)' <=> Listed(a)
  BY <1>1 DEF Ring, Listed, Left
<1>3. PICK S \in SUBSET Alarm :
        ToCome(S, alt_alarm_list) /\ \A a \in Alarm \ S : Listed(a) => Dealt(a)
  BY <1>1 DEF InTime, First
<1>4. S = {}
  <2>1. alt_alarm_list \in Ring \ S /\ \A a \in Ring \ S : next[a] \in Ring \ S
    BY <1>3, RingIs DEF ToCome
  <2>2. Ring \ S = Ring
    BY <2>1 DEF AlarmsInv, OneRing
  <2> QED
    BY <1>3, <2>2 DEF ToCome
<1>5. \A a \in Alarm : Listed(a) => Dealt(a)'
  BY <1>1, <1>2, <1>3, <1>4 DEF Dealt
<1>6. InTime'
  BY <1>1, <1>2, <1>5 DEF InTime
<1> QED
  BY <1>2, <1>6

\* An alarm that is put into the list, or taken out of it, changes nobody else's ticks.
LEMMA OthersKeep ==
  ASSUME AlarmsAssumption, AlarmsInv, NEW a \in Alarm,
         Ring' \ {a} = Ring \ {a}, AlarmsInv', nticks' = nticks,
         \A b \in Alarm \ {a} : time'[b] = time[b] /\ rollover'[b] = rollover[b]
  PROVE  /\ \A b \in Alarm \ {a} : /\ Listed(b)' <=> Listed(b)
                                  /\ Left'[b] = Left[b] /\ (Dealt(b)' <=> Dealt(b))
         /\ Left' = [Left EXCEPT ![a] = Left'[a]]
<1>1. ASSUME NEW b \in Alarm \ {a} PROVE Listed(b)' <=> Listed(b)
  <2>1. Listed(b) <=> b \in Ring
    BY RingIs
  <2>2. Listed(b)' <=> b \in Ring'
    BY DEF Ring, AlarmsInv, AlarmsTypeOK, AlarmsAssumption
  <2> QED
    BY <2>1, <2>2
<1>2. ASSUME NEW b \in Alarm \ {a} PROVE Left'[b] = Left[b] /\ (Dealt(b)' <=> Dealt(b))
  BY <1>1, LeftStays
<1>3. Left' = [b \in Alarm |-> Left'[b]] /\ Left = [b \in Alarm |-> Left[b]]
  BY DEF Left
<1>4. Left' = [Left EXCEPT ![a] = Left'[a]]
  BY <1>2, <1>3
<1> QED
  BY <1>1, <1>2, <1>4

\* What is to come does not change for an alarm outside of it.
LEMMA StartsOnTime ==
  ASSUME AlarmsAssumption, Ticks \subseteq 0 .. M - 2, AlarmsInv, AlarmsInv', InTime,
         NEW a \in Alarm, alt_alarm_start(a)
  PROVE  InTime' /\ \E n \in 0 .. M - 1 : Promise!Start(a, n)
<1> DEFINE h == alt_alarm_list
<1>0. AlarmsTypeOK /\ Doubly /\ OneRing /\ Alone
  BY DEF AlarmsInv
<1>1. /\ pc \in {"run", "callback"} /\ ~Listed(a) /\ (pc = "callback" => a # alarm)
      /\ alt_llist_insert(a)
      /\ nticks' = nticks /\ pc' = pc /\ alarm' = alarm /\ saved' = saved
  BY DEF alt_alarm_start, clock, local
<1>2. PICK n \in Ticks : Sets(a, n + nticks + 1)
  BY DEF alt_alarm_start
<1>3. /\ M \in Nat /\ M > 1 /\ nticks \in 0 .. M - 1 /\ n \in 0 .. M - 2
      /\ n + nticks + 1 = nticks + (n + 1) /\ n + 1 \in 1 .. M - 1
      /\ n + nticks + 1 \in Nat
  BY <1>0 DEF AlarmsAssumption, AlarmsTypeOK
<1>4. /\ Ring' = Ring \cup {a} /\ a \notin Ring
      /\ next'[a] = next[h] /\ next'[h] = a
      /\ \A b \in Alarm \ {a} : next'[b] = next[b]
  BY <1>0, <1>1, ListInserts
<1>5. \A b \in Alarm \ {a} : time'[b] = time[b] /\ rollover'[b] = rollover[b]
  BY <1>0, <1>2, <1>3, SetsTime
<1>6. /\ \A b \in Alarm \ {a} : /\ Listed(b)' <=> Listed(b)
                               /\ Left'[b] = Left[b] /\ (Dealt(b)' <=> Dealt(b))
      /\ Left' = [Left EXCEPT ![a] = Left'[a]]
  BY <1>1, <1>4, <1>5, OthersKeep
<1>7. Listed(a)'
  <2>1. h \in Ring /\ next[h] \in Ring /\ Nil \notin Ring
    BY <1>0, ListIs, RingIs
  <2> QED
    BY <1>4, <2>1 DEF Listed
<1>8. Left'[a] = n + 1 /\ Dealt(a)'
  <2>1. Sets(a, nticks + (n + 1))
    BY <1>2, <1>3
  <2>2. /\ (IF rollover'[a] /\ nticks # 0 THEN time'[a] + M - nticks ELSE time'[a] - nticks) = n + 1
        /\ nticks = 0 => ~rollover'[a]
    BY <1>0, <1>3, <2>1, SetsLeft
  <2>3. Left'[a] = n + 1
    BY <1>1, <1>7, <2>2 DEF Left
  <2> QED
    BY <1>1, <1>3, <2>2, <2>3 DEF Dealt
<1>9. pc = "callback" =>
        \E S \in SUBSET Alarm :
           /\ ToCome(S, saved)' /\ alarm \notin S
           /\ \A b \in Alarm \ S : Listed(b)' /\ b # alarm => Dealt(b)'
  <2> HAVE pc = "callback"
  <2>1. PICK S \in SUBSET Alarm :
          /\ ToCome(S, saved) /\ alarm \notin S
          /\ \A b \in Alarm \ S : Listed(b) /\ b # alarm => Dealt(b)
    BY DEF InTime, First
  <2>2. /\ S \subseteq Ring \ {h} /\ saved \in S \cup {h}
        /\ \A b \in S : next[b] \in S \cup {h} /\ next[b] # saved
        /\ \A b \in Ring \ S : next[b] \in S => next[b] = saved
        /\ h \in Ring /\ h \notin Alarm
    BY <2>1, RingIs DEF ToCome
  <2>3. \A b \in S : b # a /\ next'[b] = next[b]
    BY <1>4, <2>2
  <2>4. \A b \in Ring' \ S : next'[b] \in S => next'[b] = saved
    <3>1. \A b \in Ring' : b = a \/ b = h \/ (b \in Ring /\ b \in Alarm \ {a})
      BY <1>4, RingIs
    <3> QED
      BY <1>4, <2>2, <3>1
  <2>5. ToCome(S, saved)'
    <3>1. S \subseteq Ring' \ {h} /\ saved' \in S \cup {h}
      BY <1>1, <1>4, <2>2
    <3>2. \A b \in S : next'[b] \in S \cup {h} /\ next'[b] # saved'
      BY <1>1, <2>2, <2>3
    <3> QED
      BY <1>1, <2>4, <3>1, <3>2 DEF ToCome
  <2>6. \A b \in Alarm \ S : Listed(b)' /\ b # alarm => Dealt(b)'
    <3> SUFFICES ASSUME NEW b \in Alarm \ S, Listed(b)', b # alarm PROVE Dealt(b)'
      OBVIOUS
    <3>1. CASE b = a
      BY <1>8, <3>1
    <3>2. CASE b # a
      BY <1>6, <2>1, <3>2
    <3> QED
      BY <3>1, <3>2
  <2> QED
    BY <2>1, <2>5, <2>6
<1>10. InTime'
  <2>1. \A b \in Alarm : Listed(b)' => Left'[b] \in 0 .. M - 1
    BY <1>3, <1>6, <1>8 DEF InTime
  <2>2. pc = "run" => \A b \in Alarm : Listed(b)' => Dealt(b)'
    <3> SUFFICES ASSUME pc = "run", NEW b \in Alarm, Listed(b)' PROVE Dealt(b)'
      OBVIOUS
    <3>1. CASE b = a
      BY <1>8, <3>1
    <3>2. CASE b # a
      BY <1>6, <3>2 DEF InTime
    <3> QED
      BY <3>1, <3>2
  <2>3. pc = "callback" => alarm \in Alarm \ {a}
    BY <1>0, <1>1 DEF AlarmsTypeOK
  <2>4. pc = "callback" /\ Listed(alarm)' => Left'[alarm] = 0
    <3>1. pc = "callback" => (Listed(alarm)' <=> Listed(alarm)) /\ Left'[alarm] = Left[alarm]
      BY <1>1, <1>6, <2>3
    <3> QED
      BY <3>1 DEF InTime
  <2>5. pc = "callback" => First' = saved'
    BY <1>1 DEF First
  <2> QED
    BY <1>1, <1>9, <2>1, <2>2, <2>4, <2>5 DEF InTime
<1>11. Promise!Start(a, n)
  <2>1. Left[a] = -1
    BY <1>1 DEF Left
  <2> QED
    BY <1>6, <1>8, <2>1 DEF Promise!Start, Promise!Off
<1> QED
  BY <1>3, <1>10, <1>11

\* Taking an alarm out, other than the one where the walk goes on, leaves the rest to come.
LEMMA StillToCome ==
  ASSUME AlarmsAssumption, AlarmsInv, NEW a \in Alarm, next[a] # Nil, alt_llist_remove(a),
         NEW S \in SUBSET Alarm, NEW first, first # a, ToCome(S, first)
  PROVE  /\ S \ {a} \subseteq Ring' \ {alt_alarm_list}
         /\ first \in (S \ {a}) \cup {alt_alarm_list}
         /\ \A b \in S \ {a} : next'[b] \in (S \ {a}) \cup {alt_alarm_list} /\ next'[b] # first
         /\ \A b \in Ring' \ (S \ {a}) : next'[b] \in S \ {a} => next'[b] = first
<1> DEFINE h == alt_alarm_list
<1>1. /\ Ring' = Ring \ {a} /\ next'[a] = a
      /\ \A b \in Entries \ {a} : next'[b] = IF next[b] = a THEN next[a] ELSE next[b]
  BY ListRemoves DEF AlarmsInv
<1>2. /\ S \subseteq Ring \ {h} /\ first \in S \cup {h}
      /\ \A b \in S : next[b] \in S \cup {h} /\ next[b] # first
      /\ \A b \in Ring \ S : next[b] \in S => next[b] = first
  BY DEF ToCome
<1>3. /\ h \in Ring /\ h # a /\ Ring \subseteq Entries
      /\ \A b \in Ring : next[b] \in Ring
      /\ a \in Ring => next[a] # a
  BY RingIs DEF Listed
<1>4. \A b \in Ring \ {a} : next'[b] = IF next[b] = a THEN next[a] ELSE next[b]
  BY <1>1, <1>3
<1> HIDE DEF h
<1>5. \A b \in S \ {a} : next'[b] \in (S \ {a}) \cup {h} /\ next'[b] # first
  BY <1>2, <1>3, <1>4
<1>6. \A b \in Ring' \ (S \ {a}) : next'[b] \in S \ {a} => next'[b] = first
  BY <1>1, <1>2, <1>3, <1>4
<1> QED
  BY <1>1, <1>2, <1>5, <1>6 DEF h

\* An alarm that is stopped does not run any more, and the others keep their time.
LEMMA StopsInTime ==
  ASSUME AlarmsAssumption, ~StopsNext, AlarmsInv, AlarmsInv', InTime,
         NEW a \in Alarm, alt_alarm_stop(a)
  PROVE  InTime' /\ Promise!Stop(a)
<1>0. AlarmsTypeOK /\ Doubly /\ OneRing /\ Alone
  BY DEF AlarmsInv
<1>1. /\ pc \in {"run", "callback"} /\ next[a] # Nil /\ (pc = "callback" => a # saved)
      /\ alt_llist_remove(a) /\ time' = time /\ rollover' = rollover
      /\ nticks' = nticks /\ pc' = pc /\ alarm' = alarm /\ saved' = saved
  BY DEF alt_alarm_stop, clock, local
<1>2. Ring' = Ring \ {a} /\ next'[a] = a
  BY <1>0, <1>1, ListRemoves
<1>3. /\ \A b \in Alarm \ {a} : /\ Listed(b)' <=> Listed(b)
                               /\ Left'[b] = Left[b] /\ (Dealt(b)' <=> Dealt(b))
      /\ Left' = [Left EXCEPT ![a] = Left'[a]]
  BY <1>1, <1>2, OthersKeep
<1>4. ~Listed(a)' /\ Left'[a] = -1
  BY <1>2 DEF Listed, Left
<1>5. Promise!Stop(a)
  BY <1>3, <1>4 DEF Promise!Stop, Promise!Off
<1>6. pc = "callback" =>
        \E S \in SUBSET Alarm :
           /\ ToCome(S, saved)' /\ alarm \notin S
           /\ \A b \in Alarm \ S : Listed(b)' /\ b # alarm => Dealt(b)'
  <2> HAVE pc = "callback"
  <2>1. PICK S \in SUBSET Alarm :
          /\ ToCome(S, saved) /\ alarm \notin S
          /\ \A b \in Alarm \ S : Listed(b) /\ b # alarm => Dealt(b)
    BY DEF InTime, First
  <2>2. PICK T \in SUBSET Alarm : T = S \ {a}
    OBVIOUS
  <2>3. /\ T \subseteq Ring' \ {alt_alarm_list} /\ saved \in T \cup {alt_alarm_list}
        /\ \A b \in T : next'[b] \in T \cup {alt_alarm_list} /\ next'[b] # saved
        /\ \A b \in Ring' \ T : next'[b] \in T => next'[b] = saved
    BY <1>1, <2>1, <2>2, StillToCome
  <2>4. ToCome(T, saved)'
    BY <1>1, <2>3 DEF ToCome
  <2>5. \A b \in Alarm \ T : Listed(b)' /\ b # alarm => Dealt(b)'
    BY <1>3, <1>4, <2>1, <2>2
  <2> QED
    BY <2>1, <2>2, <2>4, <2>5
<1>7. InTime'
  <2>1. \A b \in Alarm : Listed(b)' => b \in Alarm \ {a}
    BY <1>4
  <2>2. \A b \in Alarm : Listed(b)' => Left'[b] \in 0 .. M - 1
    BY <1>3, <2>1 DEF InTime
  <2>3. pc = "run" => \A b \in Alarm : Listed(b)' => Dealt(b)'
    BY <1>3, <2>1 DEF InTime
  <2>4. pc = "callback" /\ Listed(alarm)' => Left'[alarm] = 0
    <3>1. pc = "callback" => alarm \in Alarm
      BY <1>0 DEF AlarmsTypeOK
    <3>2. pc = "callback" /\ Listed(alarm)' =>
            alarm \in Alarm \ {a} /\ Listed(alarm) /\ Left'[alarm] = Left[alarm]
      <4>1. alarm = a => ~Listed(alarm)'
        BY <1>1, <1>2 DEF Listed
      <4>2. pc = "callback" /\ alarm # a => (Listed(alarm)' <=> Listed(alarm))
        BY <1>1, <1>3, <3>1 DEF Listed
      <4> QED
        BY <1>3, <3>1, <4>1, <4>2
    <3> QED
      BY <3>2 DEF InTime
  <2>5. pc = "callback" => First' = saved'
    BY <1>1 DEF First
  <2> QED
    BY <1>1, <1>6, <2>2, <2>3, <2>4, <2>5 DEF InTime
<1> QED
  BY <1>5, <1>7

\* The callback's answer sets the alarm anew, or ends it; the walk goes on.
LEMMA ReturnsInTime ==
  ASSUME AlarmsAssumption, Ticks \subseteq 0 .. M - 2, AlarmsInv, AlarmsInv', InTime, Returned
  PROVE  InTime' /\ (Left' = Left \/ \E n \in 0 .. M - 1 : Promise!Run(alarm, n))
<1>0. AlarmsTypeOK /\ Doubly /\ OneRing /\ Alone
  BY DEF AlarmsInv
<1>1. /\ pc = "callback" /\ pc' = "tick" /\ alarm' = saved /\ saved' = saved /\ nticks' = nticks
      /\ alarm \in Alarm /\ next[alarm] # Nil
  BY <1>0 DEF Returned, clock, AlarmsTypeOK
<1>a. PICK a \in Alarm : a = alarm
  BY <1>1
<1>2. PICK S \in SUBSET Alarm :
        /\ ToCome(S, saved) /\ a \notin S
        /\ \A b \in Alarm \ S : Listed(b) /\ b # a => Dealt(b)
  BY <1>1, <1>a DEF InTime, First
<1>3. Listed(a) => Left[a] = 0
  BY <1>1, <1>a DEF InTime
<1>4. /\ M \in Nat /\ M > 1 /\ nticks \in 0 .. M - 1
      /\ time \in [Alarm -> 0 .. M - 1] /\ rollover \in [Alarm -> BOOLEAN]
  BY <1>0 DEF AlarmsAssumption, AlarmsTypeOK
<1>5. ASSUME /\ \A b \in Alarm \ {a} : /\ Listed(b)' <=> Listed(b)
                                       /\ Left'[b] = Left[b] /\ (Dealt(b)' <=> Dealt(b)),
             Listed(a)' => Left'[a] \in 1 .. M - 1 /\ Dealt(a)',
             ToCome(S, saved)'
      PROVE  InTime'
  <2>1. \A b \in Alarm : Listed(b)' => Left'[b] \in 0 .. M - 1
    BY <1>4, <1>5 DEF InTime
  <2>2. \A b \in Alarm \ S : Listed(b)' => Dealt(b)'
    <3> SUFFICES ASSUME NEW b \in Alarm \ S, Listed(b)' PROVE Dealt(b)'
      OBVIOUS
    <3>1. CASE b = a
      BY <1>5, <3>1
    <3>2. CASE b # a
      BY <1>2, <1>5, <3>2
    <3> QED
      BY <3>1, <3>2
  <2>3. First' = saved'
    BY <1>1 DEF First
  <2> QED
    BY <1>1, <1>5, <2>1, <2>2, <2>3 DEF InTime
<1>6. CASE alt_llist_remove(alarm) /\ UNCHANGED <<time, rollover>>
  <2>1. alt_llist_remove(a) /\ time' = time /\ rollover' = rollover /\ next[a] # Nil
    BY <1>1, <1>a, <1>6
  <2>2. Ring' = Ring \ {a} /\ next'[a] = a
    BY <1>0, <2>1, ListRemoves
  <2>3. /\ \A b \in Alarm \ {a} : /\ Listed(b)' <=> Listed(b)
                                 /\ Left'[b] = Left[b] /\ (Dealt(b)' <=> Dealt(b))
        /\ Left' = [Left EXCEPT ![a] = Left'[a]]
    BY <1>1, <2>1, <2>2, OthersKeep
  <2>4. ~Listed(a)' /\ Left'[a] = -1
    BY <2>2 DEF Listed, Left
  <2>5. ToCome(S, saved)'
    <3>1. saved # a
      BY <1>2, RingIs DEF ToCome
    <3>2. PICK T \in SUBSET Alarm : T = S \ {a}
      OBVIOUS
    <3>5. T = S
      BY <1>2, <3>2
    <3>3. /\ T \subseteq Ring' \ {alt_alarm_list} /\ saved \in T \cup {alt_alarm_list}
          /\ \A b \in T : next'[b] \in T \cup {alt_alarm_list} /\ next'[b] # saved
          /\ \A b \in Ring' \ T : next'[b] \in T => next'[b] = saved
      <4>1. alt_llist_remove(a) /\ next[a] # Nil /\ ToCome(S, saved)
        BY <1>2, <2>1
      <4> QED
        BY <4>1, <3>1, <3>2, StillToCome, SMTT(60)
    <3>4. ToCome(T, saved)'
      BY <1>1, <3>3 DEF ToCome
    <3> QED
      BY <3>5, <3>4
  <2>6. InTime'
    BY <1>5, <2>3, <2>4, <2>5
  <2>7. CASE Listed(a)
    <3>1. Promise!Run(a, 0)
      BY <1>3, <2>3, <2>4, <2>7 DEF Promise!Run, Promise!Off
    <3> QED
      BY <1>4, <1>a, <2>6, <3>1
  <2>8. CASE ~Listed(a)
    <3>1. Left[a] = -1
      BY <2>8 DEF Left
    <3>2. \A b \in Alarm : Left'[b] = Left[b]
      BY <2>3, <2>4, <3>1
    <3>3. Left' = Left
      BY <3>2 DEF Left
    <3> QED
      BY <2>6, <3>3
  <2> QED
    BY <2>7, <2>8
<1>7. CASE \E n \in Ticks \ {0} : Sets(alarm, time[alarm] + n) /\ UNCHANGED list
  <2>1. PICK n \in Ticks \ {0} : Sets(a, time[a] + n) /\ UNCHANGED list
    BY <1>7, <1>a
  <2>2. n \in 1 .. M - 1 /\ n \in 0 .. M - 1 /\ n # 0 /\ time[a] + n \in Nat
    BY <1>4, <2>1
  <2>3. next' = next /\ previous' = previous
    BY <2>1 DEF list
  <2>4. Ring' = Ring /\ \A b \in Alarm : Listed(b)' <=> Listed(b)
    BY <2>3 DEF Ring, Listed
  <2>5. \A b \in Alarm \ {a} : time'[b] = time[b] /\ rollover'[b] = rollover[b]
    BY <1>0, <2>1, <2>2, SetsTime
  <2>6. /\ \A b \in Alarm \ {a} : /\ Listed(b)' <=> Listed(b)
                                 /\ Left'[b] = Left[b] /\ (Dealt(b)' <=> Dealt(b))
        /\ Left' = [Left EXCEPT ![a] = Left'[a]]
    BY <1>1, <2>4, <2>5, OthersKeep
  <2>7. ToCome(S, saved)'
    BY <1>1, <1>2, <2>3, <2>4 DEF ToCome
  <2>8. CASE Listed(a)
    <3>1. time[a] = nticks
      <4>1. (IF rollover[a] /\ nticks # 0 THEN time[a] + M - nticks ELSE time[a] - nticks) = 0
        BY <1>3, <2>8, LeftIs
      <4> QED
        BY <1>4, <4>1
    <3>2. Sets(a, nticks + n)
      BY <2>1, <3>1
    <3>3. /\ (IF rollover'[a] /\ nticks # 0 THEN time'[a] + M - nticks ELSE time'[a] - nticks) = n
          /\ nticks = 0 => ~rollover'[a]
      BY <1>0, <2>2, <3>2, SetsLeft
    <3>4. Left'[a] = n
      BY <1>1, <2>4, <2>8, <3>3 DEF Left
    <3>5. Dealt(a)'
      BY <1>1, <2>2, <3>3, <3>4 DEF Dealt
    <3>6. InTime'
      BY <1>5, <2>2, <2>6, <2>7, <3>4, <3>5
    <3>7. Promise!Run(a, n)
      BY <1>3, <2>2, <2>6, <2>8, <3>4 DEF Promise!Run, Promise!Off
    <3> QED
      BY <1>a, <2>2, <3>6, <3>7
  <2>9. CASE ~Listed(a)
    <3>1. Left[a] = -1 /\ Left'[a] = -1 /\ ~Listed(a)'
      BY <2>4, <2>9 DEF Left
    <3>2. \A b \in Alarm : Left'[b] = Left[b]
      BY <2>6, <3>1
    <3>3. Left' = Left
      BY <3>2 DEF Left
    <3>4. InTime'
      BY <1>5, <2>6, <2>7, <3>1
    <3> QED
      BY <3>3, <3>4
  <2> QED
    BY <2>8, <2>9
<1> QED
  BY <1>6, <1>7 DEF Returned

\* Each step counts the ticks as promised, or leaves them alone.
LEMMA EachStepInTime ==
  ASSUME AlarmsAssumption, ~StopsNext, Ticks \subseteq 0 .. M - 2,
         AlarmsInv, AlarmsInv', InTime, [Next]_vars
  PROVE  InTime' /\ [Promise!Next]_Left
<1>1. CASE TickStarts
  BY <1>1, TickCounts DEF Promise!Next
<1>2. CASE Visit
  BY <1>2, VisitGoesOn
<1>3. CASE Returned
  <2>1. alarm \in Alarm
    BY <1>3 DEF Returned, AlarmsInv, AlarmsTypeOK
  <2> QED
    BY <1>3, <2>1, ReturnsInTime DEF Promise!Next
<1>4. CASE TickReturns
  BY <1>4, WalkEnds
<1>5. CASE \E a \in Alarm : alt_alarm_start(a)
  BY <1>5, StartsOnTime DEF Promise!Next
<1>6. CASE \E a \in Alarm : alt_alarm_stop(a)
  BY <1>6, StopsInTime DEF Promise!Next
<1>7. CASE alt_sysclk_init \/ UNCHANGED vars
  <2>1. /\ next' = next /\ previous' = previous /\ time' = time /\ rollover' = rollover
        /\ nticks' = nticks /\ pc' = pc /\ alarm' = alarm /\ saved' = saved
    BY <1>7 DEF alt_sysclk_init, vars, list, local
  <2>2. Ring' = Ring /\ Left' = Left /\ First' = First
    BY <2>1 DEF Ring, Listed, Left, First
  <2>3. InTime'
    BY <2>1, <2>2 DEF InTime, ToCome, Dealt, Listed
  <2> QED
    BY <2>2, <2>3
<1> QED
  BY <1>1, <1>2, <1>3, <1>4, <1>5, <1>6, <1>7 DEF Next, Tick

\* Every alarm runs on its tick, neither sooner nor later, across the wrap of the counter, for
\* any number of alarms and any width of the counter: alt_tick and its list implement the
\* timers.  The longest time but one is the longest that may be asked for, and a callback does
\* not stop the alarm that comes next.
THEOREM AlarmsRunOnTime ==
  ASSUME AlarmsAssumption, ~StopsNext, Ticks \subseteq 0 .. M - 2
  PROVE  Spec => RunsOnTime
<1>1. Init => AlarmsInv /\ InTime /\ Promise!Init
  <2> SUFFICES ASSUME Init PROVE AlarmsInv /\ InTime /\ Promise!Init
    OBVIOUS
  <2>1. AlarmsInv /\ \A a \in Alarm : ~Listed(a)
    BY AlarmsStart
  <2>2. InTime
    BY <2>1 DEF InTime, Init
  <2>3. Promise!Init
    BY <2>1 DEF Left, Promise!Init, Promise!Off
  <2> QED
    BY <2>1, <2>2, <2>3
<1>2. AlarmsInv /\ InTime /\ [Next]_vars => AlarmsInv' /\ InTime' /\ [Promise!Next]_Left
  BY AlarmsStep, EachStepInTime
<1> QED
  BY <1>1, <1>2, PTL DEF Spec, RunsOnTime, Promise!Spec

\* An alarm that was stopped does not run any more: alt_tick calls nobody that is not in the
\* list, as long as no callback stops the alarm that comes next.
THEOREM StoppedStaysQuiet ==
  ASSUME AlarmsAssumption, ~StopsNext, Ticks \subseteq 0 .. M - 2
  PROVE  Spec => StoppedIsQuiet
<1>1. Init => AlarmsInv /\ InTime
  BY AlarmsStart DEF InTime, Init
<1>2. AlarmsInv /\ InTime /\ [Next]_vars => AlarmsInv' /\ InTime'
  BY AlarmsStep, EachStepInTime
<1>3. AlarmsInv /\ InTime /\ [Next]_vars => (pc = "tick" /\ pc' = "callback" => Listed(alarm))
  <2> SUFFICES ASSUME AlarmsInv, InTime, [Next]_vars, pc = "tick", pc' = "callback"
               PROVE  Listed(alarm)
    OBVIOUS
  <2>1. Visit
    BY DEF Next, Tick, alt_sysclk_init, TickStarts, Returned, TickReturns, alt_alarm_start,
           alt_alarm_stop, local, vars
  <2>2. \E S \in SUBSET Alarm : ToCome(S, alarm) /\ alarm # alt_alarm_list
    BY <2>1 DEF InTime, First, Visit
  <2> QED
    BY <2>2, RingIs DEF ToCome
<1> QED
  BY <1>1, <1>2, <1>3, PTL DEF Spec, StoppedIsQuiet
=============================================================================
