----------------------------- MODULE LogPrintf ------------------------------
(***************************************************************************)
(* The two formatters of the support package that do without the C         *)
(* library: alt_log_printf, for the log, and alt_printf, for the console.  *)
(* Both take the format character by character and write as they go.       *)
(* Characters are strings of length one; "t" stands for any other text.    *)
(***************************************************************************)
EXTENDS Integers, SequencesExt

CONSTANTS
    W,             \* bits in a word: 32 in the processor, a multiple of 4
    Formats,       \* bound: the formats of the log, each with one conversion at most
    AltFormats,    \* bound: the formats of alt_printf
    Texts,         \* bound: strings as arguments, and what is written to a file
    ECHO_LEN,      \* ALT_LOG_WRITE_ECHO_LEN, 15
    Levels         \* bound: ALT_LOG_FLAGS

LogPrintfAssumption ==
    W \in Nat /\ W % 4 = 0 /\ ECHO_LEN \in Nat /\ Levels \subseteq -1 .. 3

VARIABLES
    who,                      \* "log" or "alt": which of them
    message,                  \* what the log is to report, and ALT_LOG_FLAGS
    fmt,                      \* the part of the format still to do
    state,                    \* of the format, or a loop for its argument
    zero, base, signed, upper, before, after,    \* what the format asks for
    arg, v, p, vShrink, digitCount, digit_shift,
    out,                      \* what has been written
    from, seen                \* history: the conversion began behind so much of it, and
                              \* reads like this between the percent sign and its letter

flags == <<zero, base, signed, upper, before, after>>
number == <<v, p, vShrink, digitCount, digit_shift>>
history == <<from, seen>>
caller == <<who, message>>
vars == <<caller, fmt, state, flags, arg, number, out, history>>

Word == 2 ^ W
Half == 2 ^ (W - 1)
Digits == <<"0", "1", "2", "3", "4", "5", "6", "7", "8", "9">>
Lower == Digits \o <<"a", "b", "c", "d", "e", "f">>
Upper == Digits \o <<"A", "B", "C", "D", "E", "F">>
CtrlD == "^D"
IsDigit(c) == c \in ToSet(Digits)
ValueOf(c) == (CHOOSE i \in DOMAIN Lower : c \in {Lower[i], Upper[i]}) - 1

c == Head(fmt)
Take == fmt' = Tail(fmt)
Log == who = "log" /\ fmt # <<>>

Put(chars) == out' = out \o chars
alt_log_repchar(char, r) == [i \in 1 .. r |-> char]    \* nothing if r < 0

-----------------------------------------------------------------------------
(* alt_log_private_printf: the format.                                     *)

Plain ==
    /\ Log /\ state = "chars" /\ c # "%"
    /\ Put(<<c>>) /\ Take
    /\ UNCHANGED <<caller, state, flags, arg, number, history>>

Percent ==
    /\ Log /\ state = "chars" /\ c = "%"
    /\ zero' = FALSE /\ base' = 10 /\ signed' = TRUE /\ upper' = FALSE
    /\ before' = -1 /\ after' = -1
    /\ state' = "first" /\ seen' = <<>> /\ Take
    /\ UNCHANGED <<caller, arg, number, out, from>>

FirstZero ==
    /\ Log /\ state = "first" /\ c = "0"
    /\ zero' = TRUE /\ state' = "other" /\ Take /\ seen' = Append(seen, c)
    /\ UNCHANGED <<caller, base, signed, upper, before, after, arg, number, out, from>>

FirstPercent ==
    /\ Log /\ state = "first" /\ c = "%"
    /\ Put(<<c>>) /\ state' = "chars" /\ Take
    /\ UNCHANGED <<caller, flags, arg, number, history>>

InFormat == Log /\ (state = "other" \/ (state = "first" /\ c \notin {"0", "%"}))

Dot ==
    /\ InFormat /\ c = "."
    /\ after' = 0 /\ state' = "other" /\ Take /\ seen' = Append(seen, c)
    /\ UNCHANGED <<caller, zero, base, signed, upper, before, arg, number, out, from>>

\* Faulty form: the first digit of the width is lost.
WidthDigit_Forgets ==
    /\ InFormat /\ IsDigit(c)
    /\ IF after < 0 THEN before' = ValueOf(c) /\ UNCHANGED after
                    ELSE after' = (after * 10) + ValueOf(c) /\ UNCHANGED before
    /\ state' = "other" /\ Take /\ seen' = Append(seen, c)
    /\ UNCHANGED <<caller, zero, base, signed, upper, arg, number, out, from>>

WidthDigit ==
    /\ InFormat /\ IsDigit(c)
    /\ IF after < 0
         THEN /\ before' = (IF before < 0 THEN 0 ELSE before * 10) + ValueOf(c)
              /\ UNCHANGED after
         ELSE after' = (after * 10) + ValueOf(c) /\ UNCHANGED before
    /\ state' = "other" /\ Take /\ seen' = Append(seen, c)
    /\ UNCHANGED <<caller, zero, base, signed, upper, arg, number, out, from>>

\* A long is as wide as an int.
Long ==
    /\ InFormat /\ c = "l" /\ state' = "other" /\ Take /\ seen' = Append(seen, c)
    /\ UNCHANGED <<caller, flags, arg, number, out, from>>

\* %c and %s: blanks up to the width, then the text.
TextArg ==
    /\ InFormat /\ c \in {"c", "s"}
    /\ LET chars == IF c = "c" THEN <<Head(arg)>> ELSE arg
       IN Put(alt_log_repchar(" ", before - Len(chars)) \o chars)
    /\ from' = Len(out) /\ state' = "printed"
    /\ UNCHANGED <<seen, caller, fmt, flags, arg, number>>

Unknown ==
    /\ InFormat
    /\ c \notin {".", "l", "c", "s", "d", "i", "u", "o", "x", "X"} /\ ~IsDigit(c)
    /\ state' = "chars" /\ Take
    /\ UNCHANGED <<caller, flags, arg, number, out, history>>

-----------------------------------------------------------------------------
(* Numbers.                                                                *)

\* The sign is bit 31.
Negative == signed' /\ arg >= Half

doIntegerPrint ==
    /\ InFormat /\ c \in {"d", "i", "u", "o", "x", "X"}
    /\ signed' = (c \in {"d", "i"}) /\ upper' = (c = "X")
    /\ base' = IF c = "o" THEN 8 ELSE IF c \in {"x", "X"} THEN 16 ELSE 10
    /\ v' = IF Negative THEN (Word - arg) % Word ELSE arg
    /\ vShrink' = v' /\ p' = 1 /\ digitCount' = 1
    /\ from' = Len(out) /\ state' = "count"
    /\ UNCHANGED <<seen, caller, fmt, zero, before, after, arg, digit_shift, out>>

\* One turn of the loop that counts digits and finds the largest place value.
CountDigit ==
    /\ state = "count" /\ vShrink \div base > 0
    /\ vShrink' = vShrink \div base
    /\ digitCount' = digitCount + 1 /\ p' = p * base
    /\ UNCHANGED <<caller, fmt, state, flags, arg, v, digit_shift, out, history>>

\* Leading characters and sign: zeros follow the sign, blanks come before it.
Lead ==
    /\ state = "count" /\ vShrink \div base = 0
    /\ LET sign == IF signed /\ arg >= Half THEN <<"-">> ELSE <<>>
           fill == before - digitCount - Len(sign)
       IN Put(IF zero THEN sign \o alt_log_repchar("0", fill)
                      ELSE alt_log_repchar(" ", fill) \o sign)
    /\ state' = "digits"
    /\ UNCHANGED <<caller, fmt, flags, arg, number, history>>

NextDigit ==
    /\ state = "digits" /\ p # 0
    /\ Put(<<(IF upper THEN Upper ELSE Lower)[(v \div p) + 1]>>)
    /\ v' = v % p /\ p' = p \div base
    /\ UNCHANGED <<caller, fmt, state, flags, arg, vShrink, digitCount, digit_shift, history>>

Ended ==
    /\ state = "digits" /\ p = 0 /\ state' = "printed"
    /\ UNCHANGED <<caller, fmt, flags, arg, number, out, history>>

-----------------------------------------------------------------------------
(* alt_printf: no widths, only %c, %x and %s.                              *)

\* One by one, to the standard output.
alt_putchar(chars) == Put(chars)

Alt == who = "alt" /\ state = "chars" /\ fmt # <<>>
Conversion == fmt[2]
Second == Len(fmt) > 1

AltPlain ==
    /\ Alt /\ c # "%" /\ alt_putchar(<<c>>) /\ Take
    /\ UNCHANGED <<caller, state, flags, arg, number, history>>

\* A percent sign, or a letter it does not know, which prints nothing.
AltOther ==
    /\ Alt /\ c = "%" /\ (Second => Conversion \notin {"c", "s", "x"})
    /\ alt_putchar(IF Second /\ Conversion = "%" THEN <<"%">> ELSE <<>>)
    /\ fmt' = SubSeq(fmt, 3, Len(fmt))
    /\ UNCHANGED <<caller, state, flags, arg, number, history>>

AltText ==
    /\ Alt /\ c = "%" /\ Second /\ Conversion \in {"c", "s"}
    /\ alt_putchar(IF Conversion = "c" THEN <<Head(arg)>> ELSE arg)
    /\ from' = Len(out) /\ fmt' = Tail(fmt) /\ before' = -1 /\ zero' = FALSE
    /\ state' = "printed"
    /\ UNCHANGED <<seen, caller, base, signed, upper, after, arg, number>>

AltHex ==
    /\ Alt /\ c = "%" /\ Second /\ Conversion = "x"
    /\ v' = arg /\ fmt' = Tail(fmt) /\ from' = Len(out)
    /\ base' = 16 /\ signed' = FALSE /\ upper' = FALSE /\ before' = -1 /\ zero' = FALSE
    /\ IF arg = 0 THEN alt_putchar(<<"0">>) /\ state' = "printed" /\ UNCHANGED digit_shift
                  ELSE digit_shift' = W - 4 /\ state' = "find" /\ UNCHANGED out
    /\ UNCHANGED <<seen, caller, after, arg, p, vShrink, digitCount>>

Nibble == (v \div 2 ^ digit_shift) % 16

AltFind ==
    /\ state = "find"
    /\ IF Nibble = 0 THEN digit_shift' = digit_shift - 4 /\ UNCHANGED state
                     ELSE state' = "hex" /\ UNCHANGED digit_shift
    /\ UNCHANGED <<caller, fmt, flags, arg, v, p, vShrink, digitCount, out, history>>

AltDigit ==
    /\ state = "hex" /\ alt_putchar(<<Lower[Nibble + 1]>>)
    /\ digit_shift' = digit_shift - 4
    /\ state' = IF digit_shift' < 0 THEN "printed" ELSE "hex"
    /\ UNCHANGED <<caller, fmt, flags, arg, v, p, vShrink, digitCount, history>>

\* Behind the letter the format goes on.
Printed ==
    /\ state = "printed" /\ state' = "chars" /\ Take
    /\ UNCHANGED <<caller, flags, arg, number, out, history>>

-----------------------------------------------------------------------------
(* What the rest of the package reports, each kind from a level of          *)
(* ALT_LOG_FLAGS on: the system clock, the control register of the UART,    *)
(* and the beginning of what goes to a file.                               *)

Since == [boot |-> 0, sys_clk |-> 1, startup |-> 1, write |-> 2, alarm |-> 2, isr |-> 3]
On(level) == {kind \in DOMAIN Since : Since[kind] <= level}

\* Not from a report: the program's own call.
Direct == [kind |-> "direct", level |-> 0]

\* Of the register one bit is shown.
Report == [boot |-> <<"t">>, sys_clk |-> <<"t", "%", "u">>, startup |-> <<"t", "%", "d">>,
           alarm |-> <<"t", "%", "d">>, isr |-> <<"t", "%", "d">>]

alt_log_report ==
    /\ state = "call" /\ message.kind # "write"
    /\ fmt' = IF message.kind \in On(message.level) THEN Report[message.kind] ELSE <<>>
    /\ state' = "chars"
    /\ UNCHANGED <<caller, flags, arg, number, out, history>>

alt_log_write_function ==
    /\ state = "call" /\ message.kind = "write"
    /\ state' = IF "write" \in On(message.level) THEN "write" ELSE "chars"
    /\ UNCHANGED <<caller, fmt, flags, arg, number, out, history>>

\* The last character that fits is overwritten by the end of the line, and
\* Ctrl-D would end the connection.
Echo(text, length) ==
    [i \in 1 .. length - 1 |-> IF text[i] = CtrlD THEN "D" ELSE text[i]] \o <<"nl", "cr">>

alt_log_write ==
    /\ state = "write"
    /\ LET length == IF Len(arg) < ECHO_LEN THEN Len(arg) ELSE ECHO_LEN
       IN IF length < 2 THEN UNCHANGED <<arg, fmt>>
                        ELSE arg' = Echo(arg, length) /\ fmt' = <<"t", "%", "s">>
    /\ state' = "chars"
    /\ UNCHANGED <<caller, flags, number, out, history>>

-----------------------------------------------------------------------------
(* One call.                                                               *)

ArgsOf(f) == IF ToSet(f) \cap {"c", "s"} # {} THEN {t \in Texts : t # <<>> /\ CtrlD \notin ToSet(t)}
             ELSE 0 .. Word - 1

Init ==
    /\ \/ who = "log" /\ state = "chars" /\ fmt \in Formats /\ arg \in ArgsOf(fmt)
       \/ who = "alt" /\ state = "chars" /\ fmt \in AltFormats /\ arg \in ArgsOf(fmt)
       \/ who = "log" /\ state = "call" /\ fmt = <<>>
          /\ message \in [kind : DOMAIN Since, level : Levels]
          /\ arg \in IF message.kind = "write" THEN Texts ELSE {0, 1}
    /\ state = "chars" => message = Direct
    /\ zero = FALSE /\ base = 0 /\ signed = FALSE /\ upper = FALSE /\ before = 0 /\ after = 0
    /\ v = 0 /\ p = 0 /\ vShrink = 0 /\ digitCount = 0 /\ digit_shift = 0
    /\ out = <<>> /\ from = 0 /\ seen = <<>>

alt_log_private_printf ==
    \/ Plain \/ Percent \/ FirstZero \/ FirstPercent \/ Dot \/ WidthDigit \/ Long
    \/ TextArg \/ Unknown \/ doIntegerPrint \/ CountDigit \/ Lead \/ NextDigit \/ Ended

alt_printf == AltPlain \/ AltOther \/ AltText \/ AltHex \/ AltFind \/ AltDigit

Next == alt_log_private_printf \/ alt_printf \/ Printed
    \/ alt_log_report \/ alt_log_write_function \/ alt_log_write

Spec == Init /\ [][Next]_vars

-----------------------------------------------------------------------------
(* What a conversion is to print.                                          *)

Piece == SubSeq(out, from + 1, Len(out))
Repeat(char, k) == [i \in 1 .. k |-> char]
Value(digits, b) == FoldLeft(LAMBDA n, d : (n * b) + ValueOf(d), 0, digits)

\* The width asked for: the digits in front of the point, if any.
Width ==
    LET point == {i \in DOMAIN seen : seen[i] = "."}
        front == IF point = {} THEN seen
                 ELSE SubSeq(seen, 1, (CHOOSE i \in point : \A j \in point : i <= j) - 1)
    IN Value(SelectSeq(front, IsDigit), 10)

Base == IF c = "o" THEN 8 ELSE IF c \in {"x", "X"} THEN 16 ELSE 10
Minus == IF c \in {"d", "i"} /\ arg >= Half THEN <<"-">> ELSE <<>>
Magnitude == IF Minus = <<>> THEN arg ELSE Word - arg
Numerals == IF c = "X" THEN Upper ELSE Lower

IsNumber ==
    \E k \in 0 .. Len(Piece), n \in 1 .. W :
        LET digits == SubSeq(Piece, Len(Piece) - n + 1, Len(Piece))
        IN /\ n <= Len(Piece)
           /\ digits[1] # "0" \/ n = 1
           /\ ToSet(digits) \subseteq {Numerals[i] : i \in 1 .. Base}
           /\ Value(digits, Base) = Magnitude
           /\ Piece = (IF seen # <<>> /\ seen[1] = "0" THEN Minus \o Repeat("0", k)
                       ELSE Repeat(" ", k) \o Minus) \o digits
           /\ k = 0 \/ Len(Piece) = Width
           /\ Len(Piece) >= Width

IsText ==
    LET text == IF c = "c" THEN <<arg[1]>> ELSE arg
    IN \E k \in 0 .. Len(Piece) :
          /\ Piece = Repeat(" ", k) \o text
          /\ k = 0 \/ Len(Piece) = Width
          /\ Len(Piece) >= Width

\* A conversion prints its argument: a number as its shortest numeral in the
\* base asked for, with its sign, a text as it is, each filled up on the left
\* to the width and never cut; and no Ctrl-D of what is written to a file
\* gets into the log.  At level -1 "all logging output is off".  (alt_log_private_printf,
\* alt_printf, alt_log_write; alt_log_printf.h.)
Prints ==
    /\ state = "printed" => IF c \in {"c", "s"} THEN IsText ELSE IsNumber
    /\ \A i \in DOMAIN out : out[i] # CtrlD
    /\ message.level = -1 => out = <<>>
=============================================================================
