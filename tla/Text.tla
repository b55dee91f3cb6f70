---------------------------------- MODULE Text ----------------------------------
(***************************************************************************)
(* Characters on their way.  First the kernel prints with printf() and     *)
(* copies a program to its page; then the program writes and reads through *)
(* the ipc pages, one call after the other: user/lib.c, the copies of      *)
(* ipc.c, and the loops of terminal and uinput.  System has the calls and  *)
(* the switches between them, and takes a text as one value; here a text   *)
(* is its characters and a call ends before the next begins.               *)
(***************************************************************************)
EXTENDS Common

CONSTANTS
  PGSIZE,
  Chars,     \* the characters
  Pieces,    \* formats and what they print: [fmt, args, out]
  PIECES,    \* so many of them at most, one after the other
  Programs,  \* what proc_born() finds in the archive
  Stores,    \* the places of its own page that the program stores to
  Strings,   \* the arguments of puts()
  Keys,      \* what the user types
  Commands   \* what the shell compares a line with

JUNK == "5"  \* kalloc() fills a page with 5s

\* What a number should look like: the digits d of its size, read from the left,
\* without zeros in front, and a sign if it is negative.
reads(d, base, n) == LET r[j \in 0..n] == IF j = 0 THEN 0 ELSE base * r[j - 1] + d[j] IN r[n]
Figures(d) == [j \in DOMAIN d |-> digits[d[j] + 1]]
Numeral(out, v, base) ==
  \E n \in 1 .. Len(out) : \E d \in [1..n -> 0 .. base - 1] :
    /\ d[1] # 0 \/ n = 1
    /\ reads(d, base, n) = IF v < 0 THEN -v ELSE v
    /\ out = (IF v < 0 THEN <<"-">> ELSE <<>>) \o Figures(d)

\* A pointer has all of its digits.
Pointer(out, v) ==
  \E d \in [1 .. LONG \div 4 -> 0..15] : reads(d, 16, LONG \div 4) = v /\ out = <<"0", "x">> \o Figures(d)

\* The beginning of a conversion of n characters.
lead(n) == <<<<"%">>, <<"%", "l">>, <<"%", "l", "l">>>>[n - 1]

\* A piece without an argument is a character, a "%" at the end, "%%", or a
\* conversion that printf() does not know, which it prints as it is.
Plain(p) ==
  LET n == Len(p.fmt)
      c == p.fmt[n]
  IN  /\ p.args = <<>>
      /\ \/ n = 1 /\ c \notin {NUL, "%"} /\ p.out = putchar(c)
         \/ p.fmt = <<"%">> /\ p.out = <<>>
         \/ p.fmt = <<"%", "%">> /\ p.out = <<"%">>
         \/ /\ n \in 2..4 /\ c \notin {"d", "u", "x", "%", NUL}
            /\ n = 2 => c \notin {"p", "c", "s"}
            /\ n # 4 => c # "l"
            /\ p.fmt = Append(lead(n), c)
            /\ p.out = lead(n) \o putchar(c)

\* A conversion of one argument; an l makes it a long.
Converts(p) ==
  LET n == Len(p.fmt)
      c == p.fmt[n]
      a == p.args[1]
      bits == IF n = 2 THEN INT ELSE LONG
  IN  /\ n \in 2..4 /\ p.fmt = Append(lead(n), c)
      /\ p.args = <<a>>
      /\ \/ c = "d" /\ a.n \in 0 .. two(LONG) - 1 /\ Numeral(p.out, signed(a.n, bits), 10)
         \/ c = "u" /\ a.n \in 0 .. two(LONG) - 1 /\ Numeral(p.out, a.n % two(bits), 10)
         \/ c = "x" /\ a.n \in 0 .. two(LONG) - 1 /\ Numeral(p.out, a.n % two(bits), 16)
         \/ n = 2 /\ c = "p" /\ a.n \in 0 .. two(LONG) - 1 /\ Pointer(p.out, a.n)
         \/ n = 2 /\ c = "c" /\ p.out = putchar(a.c)
         \/ n = 2 /\ c = "s" /\ p.out = put(IF a.s = NULL THEN <<"(", "n", "u", "l", "l", ")">> ELSE a.s)

\* The last conjunct holds of all literals, and the provers have to be told.
ASSUME TextAssumption ==
  /\ PGSIZE \in Nat \ {0, 1}
  /\ {NUL, CR, LF, JUNK} \cup Keys \subseteq Chars
  /\ Programs \subseteq Seq(Chars) /\ \A p \in Programs : Len(p) <= PGSIZE
  /\ Stores \subseteq 0 .. PGSIZE - 1
  /\ Strings \cup Commands \subseteq Seq(Chars \ {NUL})
  /\ \A c \in Commands : Len(c) < PGSIZE
  /\ PIECES \in Nat \ {0}
  /\ \A p \in Pieces : p.fmt \in Seq(STRING) /\ p.out \in Seq(STRING) /\ (Plain(p) \/ Converts(p))
  /\ {"%", "l", CR, LF} \subseteq STRING

\* The ipc pages of the program, terminal and uinput, the page of the
\* program at virtual address 0, and the archive.
CLIENT == 0
terminal == PGSIZE
uinput == 2 * PGSIZE
DATA == 3 * PGSIZE
ARCHIVE == 4 * PGSIZE
page(m, base) == [i \in 0 .. PGSIZE - 1 |-> m[base + i]]
Clean == [i \in 0 .. PGSIZE - 1 |-> NUL]

VARIABLES
  line,    \* who goes on: printf, proc_born, the program, terminal, uinput or nobody
  pieces, ap, i,  \* the format of printf(), its arguments that are left, its index
  ram,
  strmem,  \* terminal's pointer into its page
  sym, count, size,  \* uinput's variables
  screen,  \* what has reached the UART since the last call
  call,    \* history: the last call
  typed,   \* history: the keys typed in the last read()
  answer,  \* what strcmp() said of which command
  asked,   \* history: what the call is to put on the screen
  image    \* history: what proc_born() and the program put into its page at 0

kernelvars == <<pieces, ap, i>>
uservars == <<strmem, sym, count, size>>
textvars == <<line, kernelvars, ram, uservars, screen, call, typed, answer, asked, image>>

------------------------------------------------------------------------------
(* The kernel.                                                             *)

fmt == FlattenSeq([j \in DOMAIN pieces |-> pieces[j].fmt])

\* One round of the loop in printf().
printf ==
  LET cx == At(fmt, i)
      c0 == At(fmt, i + 1)
      c1 == IF c0 = NUL THEN NUL ELSE At(fmt, i + 2)
      c2 == IF c1 = NUL THEN NUL ELSE At(fmt, i + 3)
      conv == conversion(c0, c1, c2, IF ap = <<>> THEN [n |-> 0] ELSE Head(ap))
  IN  /\ line = "printf"
      /\ \/ /\ cx \notin {NUL, "%"}
            /\ screen' = screen \o putchar(cx)
            /\ i' = i + 1
            /\ UNCHANGED <<line, ap>>
         \/ /\ cx = "%" /\ c0 # NUL
            /\ screen' = screen \o conv.out
            /\ i' = i + 2 + conv.skip
            /\ ap' = IF conv.takes THEN Tail(ap) ELSE ap
            /\ UNCHANGED line
         \/ /\ cx = NUL \/ (cx = "%" /\ c0 = NUL)
            /\ line' = "proc_born"
            /\ UNCHANGED <<screen, i, ap>>
      /\ UNCHANGED <<pieces, ram, uservars, call, typed, answer, asked>>

\* The end of proc_born(): the program of n characters goes to its page.
proc_born ==
  /\ line = "proc_born"
  /\ \E p \in Programs :
       /\ ram' = memmove(memset([a \in DOMAIN ram |-> IF a - ARCHIVE \in 0 .. Len(p) - 1
                                                       THEN p[a - ARCHIVE + 1] ELSE ram[a]],
                                DATA, NUL, PGSIZE), DATA, ARCHIVE, Len(p))
       /\ image' = [j \in 0 .. PGSIZE - 1 |-> At(p, j)]
  /\ line' = "program"
  /\ pieces' = <<>> /\ ap' = <<>> /\ i' = 0
  /\ screen' = <<>>
  /\ UNCHANGED <<uservars, call, typed, answer, asked>>

\* Faulty variant: the page of the sender is not cleared.
ipc_buf_cpy_keeps(m, dst, src, n) == memcpy(memset(m, dst, NUL, PGSIZE), dst, src, n)

\* The copies on behalf of VFS and uinput, whose wrappers refuse a size above
\* PGSIZE (user/servers.c).
ipc_buf_cpy(m, dst, src, n) ==
  memset(memcpy(memset(m, dst, NUL, PGSIZE), dst, src, n), src, NUL, PGSIZE)

buf2ipc_cpy(m, dst, src, buf, n) ==
  memset(memcpy(memset(m, dst, NUL, PGSIZE), dst, buf, n), src, NUL, PGSIZE)

------------------------------------------------------------------------------
(* user/lib.c, as the program calls it, and VFS.                           *)

\* The characters from address a on up to a NUL, n at most.
String(m, a, n) ==
  LET len == CHOOSE l \in 0..n : /\ l = n \/ m[a + l] = NUL
                                 /\ \A j \in 0 .. l - 1 : m[a + j] # NUL
  IN  [j \in 1..len |-> m[a + j - 1]]

\* The history of a call starts anew.
begins == screen' = <<>> /\ typed' = <<>> /\ answer' = <<>>

\* A call that reaches neither terminal nor uinput.
ends(m) ==
  /\ line = "program" /\ begins
  /\ ram' = m
  /\ call' = "none"
  /\ asked' = <<>>
  /\ UNCHANGED <<line, kernelvars, uservars>>

\* write() of n characters at buf, with the memory m and text as its history.
\* A size above PGSIZE is sent as option 3, which VFS takes for option 2.
write(m, fd, buf, n, text) ==
  \/ fd # 1 /\ ends(m)
  \/ /\ fd = 1 /\ line = "program" /\ begins
     /\ ram' = IF n > PGSIZE THEN m
               ELSE IF buf = CLIENT THEN ipc_buf_cpy(m, terminal, CLIENT, n)
               ELSE buf2ipc_cpy(m, terminal, CLIENT, buf, n)
     /\ line' = "terminal"
     /\ call' = "write"
     /\ asked' = text
     /\ strmem' = 0
     /\ UNCHANGED <<kernelvars, sym, count, size>>

first(str, n) == SubSeq(str, 1, IF Len(str) < n THEN Len(str) ELSE n)

\* Faulty variant: the string may fill the page.
puts_fills(str) ==
  LET n == IF Len(str) < PGSIZE THEN Len(str) ELSE PGSIZE
      m == [a \in DOMAIN ram |-> IF a < n THEN At(str, a) ELSE IF a = n THEN NUL ELSE ram[a]]
  IN  IF n > 0 THEN write(m, 1, CLIENT, n, first(str, PGSIZE - 1)) ELSE ends(m)

\* puts(): as much of the string as leaves room for a NUL.
puts(str) ==
  LET n == IF Len(str) < PGSIZE - 1 THEN Len(str) ELSE PGSIZE - 1
      m == [a \in DOMAIN ram |-> IF a < n THEN At(str, a) ELSE IF a = n THEN NUL ELSE ram[a]]
  IN  IF n > 0 THEN write(m, 1, CLIENT, n, first(str, PGSIZE - 1)) ELSE ends(m)

putchar_user(ch) ==
  write([ram EXCEPT ![0] = ch, ![1] = NUL], 1, CLIENT, 2, IF ch = NUL THEN <<>> ELSE <<ch>>)

\* write() from the program's own page; past its end nothing is mapped.
write_data(fd, from, n) ==
  /\ n > PGSIZE \/ from + n <= PGSIZE
  /\ write(ram, fd, DATA + from, n, IF n > PGSIZE THEN <<>> ELSE String(ram, DATA + from, n))

\* read(): only option 1, a buffer at IPC_BUFF below the size of a page, goes
\* on to uinput.
read(ipc, n) ==
  \/ ~(ipc /\ n < PGSIZE) /\ ends(ram)
  \/ /\ ipc /\ n < PGSIZE
     /\ line = "program" /\ begins
     /\ line' = "uinput"
     /\ sym' = NUL /\ count' = 0 /\ size' = n
     /\ call' = "read"
     /\ asked' = <<>>
     /\ UNCHANGED <<kernelvars, ram, strmem>>

gets(ipc) == read(ipc, PGSIZE - 1)
getchar == read(TRUE, 1)

\* The program stores a character into the page at 0, where proc_born() has put
\* its variables and, with sp = PGSIZE, its stack.
store(j, c) ==
  /\ line = "program"
  /\ ram' = [ram EXCEPT ![DATA + j] = c]
  /\ image' = [image EXCEPT ![j] = c]
  /\ UNCHANGED <<line, kernelvars, uservars, screen, call, typed, answer, asked>>

\* The shell looks at the line it has read.
shell_strcmp(command) ==
  /\ line = "program"
  /\ call = "read"
  /\ answer' = <<command, strcmp(command, ram, CLIENT)>>
  /\ UNCHANGED <<line, kernelvars, ram, uservars, screen, call, typed, asked>>

------------------------------------------------------------------------------
(* The servers.                                                            *)

\* terminal writes its page to the UART up to a NUL.  The page above it is
\* the trapframe, which it may not read.
terminal_prints ==
  /\ line = "terminal"
  /\ IF strmem = PGSIZE
     THEN line' = "panic" /\ UNCHANGED <<screen, strmem>>
     ELSE /\ ram[terminal + strmem] # NUL
          /\ screen' = Append(screen, ram[terminal + strmem])
          /\ strmem' = strmem + 1
          /\ UNCHANGED line
  /\ UNCHANGED <<kernelvars, ram, sym, count, size, call, typed, answer, asked>>

terminal_clears ==
  /\ line = "terminal"
  /\ strmem < PGSIZE /\ ram[terminal + strmem] = NUL
  /\ ram' = memset(ram, terminal, NUL, PGSIZE)
  /\ line' = "program"
  /\ UNCHANGED <<kernelvars, uservars, screen, call, typed, answer, asked>>

\* Faulty variant: only the end of the line ends the loop.
uinput_more_endless == sym # CR

uinput_more == sym # CR /\ count < size

\* A key: echoed and stored.
uinput_key(key) ==
  /\ line = "uinput"
  /\ uinput_more
  /\ sym' = key
  /\ screen' = Append(screen, key)
  /\ ram' = [ram EXCEPT ![uinput + count] = key]
  /\ count' = count + 1
  /\ typed' = Append(typed, key)
  /\ asked' = Append(asked, key)
  /\ UNCHANGED <<line, kernelvars, strmem, size, call, answer>>

\* Faulty variant: the line is copied without its last place.
uinput_copies_short ==
  /\ line = "uinput"
  /\ ~uinput_more
  /\ ram' = ipc_buf_cpy([ram EXCEPT ![uinput + count] = IF count < size THEN NUL ELSE @],
                        CLIENT, uinput, count - 1)
  /\ screen' = Append(screen, LF)
  /\ asked' = Append(asked, LF)
  /\ line' = "program"
  /\ UNCHANGED <<kernelvars, uservars, call, typed, answer>>

\* The end of the line, or of the room for it.
uinput_copies ==
  /\ line = "uinput"
  /\ ~uinput_more
  /\ ram' = ipc_buf_cpy([ram EXCEPT ![uinput + count] = IF count < size THEN NUL ELSE @],
                        CLIENT, uinput, size)
  /\ screen' = Append(screen, LF)
  /\ asked' = Append(asked, LF)
  /\ line' = "program"
  /\ UNCHANGED <<kernelvars, uservars, call, typed, answer>>

\* A PANIC() goes on for ever.
spin == line = "panic" /\ UNCHANGED textvars

TextInit ==
  /\ line = "printf"
  /\ \E n \in 1..PIECES : pieces \in {p \in [1..n -> Pieces] : \A j \in 1 .. n - 1 : p[j].fmt # <<"%">>}
  /\ ap = FlattenSeq([j \in DOMAIN pieces |-> pieces[j].args])
  /\ i = 0
  /\ ram = [a \in 0 .. 5 * PGSIZE - 1 |-> IF a \in terminal .. uinput - 1 THEN NUL ELSE JUNK]
  /\ strmem = 0 /\ sym = NUL /\ count = 0 /\ size = 0
  /\ screen = <<>>
  /\ call = "none" /\ typed = <<>> /\ answer = <<>>
  /\ asked = <<>>
  /\ image = Clean

Write ==
  \/ \E str \in Strings : puts(str)
  \/ call \in {"read", "write"} /\ puts(String(ram, CLIENT, PGSIZE - 1))
  \/ \E ch \in Keys : putchar_user(ch)
  \/ \E fd \in 0..2, from \in 0 .. PGSIZE - 1, n \in 0 .. PGSIZE + 1 : write_data(fd, from, n)

Read == getchar \/ \E ipc \in BOOLEAN : gets(ipc) \/ read(ipc, PGSIZE)

\* The steps in which the program does not store.
elsewhere ==
  /\ \/ printf
     \/ Write \/ Read \/ \E c \in Commands : shell_strcmp(c)
     \/ terminal_prints \/ terminal_clears
     \/ (\E key \in Keys : uinput_key(key)) \/ uinput_copies
  /\ UNCHANGED image

TextNext ==
  \/ proc_born
  \/ \E j \in Stores, c \in Keys : store(j, c)
  \/ elsewhere
  \/ spin

TextSpec == TextInit /\ [][TextNext]_textvars

------------------------------------------------------------------------------
(* Properties.                                                             *)

TextTypeOK ==
  /\ line \in {"printf", "proc_born", "program", "terminal", "uinput", "panic"}
  /\ i \in 0 .. Len(fmt)
  /\ DOMAIN ram = 0 .. 5 * PGSIZE - 1
  /\ strmem \in 0..PGSIZE
  /\ size \in 0 .. PGSIZE - 1 /\ count \in 0..size

\* printf() prints its pieces one after the other, whatever their neighbours:
\* every conversion takes its own argument and no character more of the
\* format than is its own, and numbers read as what they are, the smallest
\* and the largest included; buf[] is long enough for them.
PrintfRenders ==
  line = "proc_born" =>
    /\ screen = FlattenSeq([j \in DOMAIN pieces |-> pieces[j].out])
    /\ ap = <<>>

\* A text reaches the screen whole up to its NUL, or up to what puts() takes,
\* and nothing else does; the only text terminal cannot end is one that fills
\* its page, which write() lets pass and puts() does not.
WritesShow ==
  /\ line = "program" => screen = asked
  /\ line = "panic" => Len(asked) = PGSIZE

\* A line that was read is in the program's page as it was typed, and ends
\* within the page, also when it stopped for want of room.
LinesArrive ==
  line = "program" /\ call = "read" =>
    /\ \A j \in DOMAIN typed : ram[CLIENT + j - 1] = typed[j]
    /\ ram[CLIENT + Len(typed)] = NUL
    /\ ram[CLIENT + PGSIZE - 1] = NUL

\* Between two calls nothing of the earlier ones is left in a page that the
\* next one copies from: in terminal's, in uinput's once it has been used, and
\* in the program's after a text.  And no copy of the kernel and no server gets
\* at the page at 0: it holds the program as proc_born() has put it there, with
\* zeros behind it, but for what the program itself has stored since.
PagesClean ==
  line = "program" =>
    /\ page(ram, terminal) = Clean
    /\ page(ram, uinput) \in {Clean, [j \in 0 .. PGSIZE - 1 |-> JUNK]}
    /\ call = "write" /\ asked # <<>> => page(ram, CLIENT) = Clean
    /\ page(ram, DATA) = image

\* The shell knows a command exactly when that is what was typed, up to the
\* first NUL.
ComparesLine ==
  answer # <<>> =>
    LET end == SelectInSeq(Append(typed, NUL), LAMBDA c : c = NUL)
    IN  answer[2] = 0 <=> answer[1] = SubSeq(typed, 1, end - 1)
==============================================================================
