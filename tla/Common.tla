-------------------------------- MODULE Common --------------------------------
(***************************************************************************)
(* common.c, and the functions of that name in user/lib.c: memory, C       *)
(* strings and the conversions of printf().  A memory is a function from   *)
(* addresses to characters; a C string lies in it up to a NUL.             *)
(***************************************************************************)
EXTENDS Integers, Sequences, SequencesExt

CONSTANTS
  INT,   \* bits of an int (32); a long, an argument and a pointer have twice as many
  BUF    \* characters in buf[] of printint() (20)

LONG == 2 * INT

\* 2 to the power n, and x after each of n divisions by base.
two(n) == LET p[j \in 0..n] == IF j = 0 THEN 1 ELSE 2 * p[j - 1] IN p[n]
quotients(x, base, n) == LET q[j \in 0..n] == IF j = 0 THEN x ELSE q[j - 1] \div base IN q

\* buf[] has room for the largest number and for the smallest with its sign.
ASSUME CommonAssumption ==
  /\ INT \in Nat \ {0} /\ INT % 2 = 0
  /\ BUF \in Nat \ {0}
  /\ quotients(two(LONG) - 1, 10, BUF)[BUF] = 0
  /\ quotients(two(LONG) \div 2, 10, BUF)[BUF - 1] = 0

NUL == "NUL"
CR == "CR"
LF == "LF"
NULL == <<NUL>>  \* a NULL among pointers to strings

\* What the loops leave in memory (MCText has the loops).
memset(m, dst, c, n) == [a \in DOMAIN m |-> IF a - dst \in 0 .. n - 1 THEN c ELSE m[a]]

\* From the front: a destination above src gets the characters before it
\* again and again.
memcpy(m, dst, src, n) ==
  LET from(i) == src + (IF dst > src THEN i % (dst - src) ELSE i)
  IN  [a \in DOMAIN m |-> IF a - dst \in 0 .. n - 1 THEN m[from(a - dst)] ELSE m[a]]

\* From the front when src is above dst, else from the back.
memmove(m, dst, src, n) ==
  IF src > dst THEN memcpy(m, dst, src, n)
  ELSE [a \in DOMAIN m |-> IF a - dst \in 0 .. n - 1 THEN m[src + (a - dst)] ELSE m[a]]

\* The character at place i of a string that is not in memory.
At(str, i) == IF i < Len(str) THEN str[i + 1] ELSE NUL

\* Faulty variant: the end of str1 alone ends the comparison.
strcmp_prefix(str1, m, str2) ==
  IF \A j \in 0 .. Len(str1) - 1 : m[str2 + j] = At(str1, j) THEN 0 ELSE 1

\* 0 when the strings are equal, and here 1 for any difference: they differ
\* at the first place where they do not agree, or end at the same place.
strcmp(str1, m, str2) ==
  IF \A j \in 0 .. Len(str1) : m[str2 + j] = At(str1, j) THEN 0 ELSE 1

\* The kernel's putchar() sends a carriage return before a line feed.
putchar(ch) == IF ch = LF THEN <<CR, LF>> ELSE <<ch>>
put(str) == FoldLeft(LAMBDA out, ch : out \o putchar(ch), <<>>, str)

signed(a, bits) ==
  IF 2 * (a % two(bits)) < two(bits) THEN a % two(bits) ELSE (a % two(bits)) - two(bits)

digits == <<"0", "1", "2", "3", "4", "5", "6", "7", "8", "9", "a", "b", "c", "d", "e", "f">>

\* Faulty variant: the digits come out as they were found.
printint_forward(xx, base, sign) ==
  LET neg == sign /\ xx < 0
      rest == quotients((IF neg THEN -xx ELSE xx) % two(LONG), base, BUF)
      n == CHOOSE d \in 1..BUF : rest[d] = 0 /\ \A j \in 1 .. d - 1 : rest[j] # 0
  IN  [j \in 1..n |-> digits[(rest[j - 1] % base) + 1]] \o (IF neg THEN <<"-">> ELSE <<>>)

\* The digits go into buf from the last one on, and out in reverse.
printint(xx, base, sign) ==
  LET neg == sign /\ xx < 0
      rest == quotients((IF neg THEN -xx ELSE xx) % two(LONG), base, BUF)
      n == CHOOSE d \in 1..BUF : rest[d] = 0 /\ \A j \in 1 .. d - 1 : rest[j] # 0
      buf == [j \in 1..n |-> digits[(rest[j - 1] % base) + 1]]
               \o (IF neg THEN <<"-">> ELSE <<>>)
  IN  IF rest[BUF] = 0 /\ Len(buf) <= BUF THEN Reverse(buf) ELSE <<"stack smashed">>

printptr(x) ==
  LET n == LONG \div 4
  IN  <<"0", "x">> \o [j \in 1..n |-> digits[(quotients(x, 16, n)[n - j] % 16) + 1]]

\* The conversion after a '%': c0, c1, c2 are the next characters of the
\* format, NUL once it has ended.  skip: how many of them it takes beyond c0;
\* takes: it takes an argument; out: what it prints of the argument a, a
\* number a.n, a character a.c or a string a.s.
ells(c0, c1) == IF c0 # "l" THEN 0 ELSE IF c1 # "l" THEN 1 ELSE 2

number(c, bits, a) ==
  printint(IF c = "u" \/ c = "x" THEN a % two(bits) ELSE signed(a, bits),
           IF c = "x" THEN 16 ELSE 10, c = "d")

conversion(c0, c1, c2, a) ==
  LET l == ells(c0, c1)
      c == <<c0, c1, c2>>[l + 1]
  IN  CASE c \in {"d", "u", "x"} ->
             [skip |-> l, takes |-> TRUE, out |-> number(c, IF l = 0 THEN INT ELSE LONG, a.n)]
        [] c0 = "p" -> [skip |-> 0, takes |-> TRUE, out |-> printptr(a.n)]
        [] c0 = "c" -> [skip |-> 0, takes |-> TRUE, out |-> putchar(a.c)]
        [] c0 = "s" -> [skip |-> 0, takes |-> TRUE,
                        out |-> put(IF a.s = NULL THEN <<"(", "n", "u", "l", "l", ")">> ELSE a.s)]
        [] c0 = "%" -> [skip |-> 0, takes |-> FALSE, out |-> <<"%">>]
        [] OTHER -> [skip |-> 0, takes |-> FALSE, out |-> <<"%">> \o putchar(c0)]
==============================================================================
