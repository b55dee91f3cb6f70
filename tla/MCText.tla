--------------------------------- MODULE MCText ---------------------------------
(***************************************************************************)
(* Text for TLC: pages of 4 characters, ints of 4 bits and longs of 8.     *)
(* What a piece prints is said here without looking at how printf() does   *)
(* it: a numeral is the shortest sequence of digits with the right value.  *)
(***************************************************************************)
EXTENDS Text

Value(s, base) == FoldLeft(LAMBDA v, d : v * base + d, 0, s)
Shortest(base) ==
  {s \in UNION {[1..n -> 0 .. base - 1] : n \in 1 .. (IF base = 10 THEN 3 ELSE 2)} :
     Len(s) = 1 \/ s[1] # 0}
Numeral10 == [v \in {0, 1, 7, 8, 9, 10, 15, 99, 127, 128, 255} |->
                CHOOSE s \in Shortest(10) : Value(s, 10) = v]
Numeral16 == [v \in {0, 9, 10, 15, 16, 255} |-> CHOOSE s \in Shortest(16) : Value(s, 16) = v]
Digits(s) == [j \in DOMAIN s |-> digits[s[j] + 1]]
Decimal(v) == IF v < 0 THEN <<"-">> \o Digits(Numeral10[-v]) ELSE Digits(Numeral10[v])

Piece(f, args, out) == [fmt |-> f, args |-> args, out |-> out]
Number(f, a, v) == Piece(<<"%">> \o f, <<[n |-> a]>>, Decimal(v))
Hex(f, a, v) == Piece(<<"%">> \o f, <<[n |-> a]>>, Digits(Numeral16[v]))

MCPieces ==
  {Piece(<<"a">>, <<>>, <<"a">>), Piece(<<LF>>, <<>>, <<CR, LF>>), Piece(<<"d">>, <<>>, <<"d">>),
   Piece(<<"%", "c">>, <<[c |-> "l"]>>, <<"l">>), Piece(<<"%", "c">>, <<[c |-> LF]>>, <<CR, LF>>),
   Piece(<<"%", "s">>, <<[s |-> NULL]>>, <<"(", "n", "u", "l", "l", ")">>),
   Piece(<<"%", "s">>, <<[s |-> <<>>]>>, <<>>), Piece(<<"%", "s">>, <<[s |-> <<"%", LF>>]>>, <<"%", CR, LF>>),
   Piece(<<"%", "%">>, <<>>, <<"%">>), Piece(<<"%", "q">>, <<>>, <<"%", "q">>),
   Piece(<<"%", "l", "q">>, <<>>, <<"%", "l", "q">>),
   Piece(<<"%", "l", "l", "q">>, <<>>, <<"%", "l", "l", "q">>),
   Piece(<<"%", "l", "p">>, <<>>, <<"%", "l", "p">>),
   Piece(<<"%", "l", "l", "l">>, <<>>, <<"%", "l", "l", "l">>),
   Piece(<<"%">>, <<>>, <<>>),
   Piece(<<"%", "p">>, <<[n |-> 10]>>, <<"0", "x", "0", "a">>),
   Number(<<"d">>, 0, 0), Number(<<"d">>, 255, -1), Number(<<"d">>, 8, -8), Number(<<"d">>, 7, 7),
   Number(<<"u">>, 255, 15), Number(<<"l", "u">>, 255, 255), Number(<<"l", "l", "u">>, 10, 10),
   Number(<<"l", "d">>, 128, -128), Number(<<"l", "d">>, 127, 127),
   Number(<<"l", "l", "d">>, 157, -99),
   Hex(<<"x">>, 255, 15), Hex(<<"l", "x">>, 255, 255), Hex(<<"l", "l", "x">>, 16, 16)}

MCPrograms == {<<>>, <<"a", "b">>, <<"a", NUL, "b", "a">>, <<"b", "a", "b", "a">>}
MCStores == {3}
MCStrings == {<<>>, <<"a">>, <<"b", "a">>, <<"a", "b", "a">>, <<"a", "b", "b", "a">>,
              <<"b", "a", "b", "a", "a">>}
MCKeys == {"a", "b", CR, NUL}
MCCommands == {<<CR>>, <<"a", CR>>, <<"a">>, <<"a", "b">>}
MCChars == {"a", "b", "5", NUL, CR, LF}

\* The loops of common.c, a character at a time, on a memory of 8.
upto(n) == [j \in 1..n |-> j - 1]
set(m, dst, c, n) == FoldLeft(LAMBDA r, j : [r EXCEPT ![dst + j] = c], m, upto(n))
copy(m, dst, src, order) ==
  FoldLeft(LAMBDA r, j : [r EXCEPT ![dst + j] = r[src + j]], m, order)

ASSUME LoopsAgree ==
  LET m == [a \in 0..7 |-> a]
  IN  \A dst, src, n \in 0..4 :
        /\ memset(m, dst, NUL, n) = set(m, dst, NUL, n)
        /\ memcpy(m, dst, src, n) = copy(m, dst, src, upto(n))
        /\ memmove(m, dst, src, n) =
             copy(m, dst, src, IF src > dst THEN upto(n) ELSE Reverse(upto(n)))
==============================================================================
