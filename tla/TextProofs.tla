------------------------------ MODULE TextProofs ------------------------------
(***************************************************************************)
(* Text for every page size, every program, text and key: what is written  *)
(* is shown up to its end and nothing else is, a line that was typed is    *)
(* what the program finds, and a page is clean when the next call uses it. *)
(*                                                                         *)
(* The copies are looked at once, as pages (BufCpy, Buf2Ipc); all texts    *)
(* pass through write(), so one lemma (WriteKeeps) serves puts(),          *)
(* putchar() and write() itself.  printf() prints every piece as it should *)
(* be printed, whatever comes before and after it (PrintInv).              *)
(***************************************************************************)
EXTENDS Text, Induction, SequenceTheorems

Addrs == 0 .. 5 * PGSIZE - 1
Places == 0 .. PGSIZE - 1

\* The types, without those of printf().
Typed ==
  /\ line \in {"printf", "proc_born", "program", "terminal", "uinput", "panic"}
  /\ ram \in [Addrs -> Chars]
  /\ strmem \in 0..PGSIZE
  /\ size \in Places /\ count \in 0..size
  /\ typed \in Seq(Chars) /\ asked \in Seq(Chars)
  /\ line \notin {"printf", "proc_born"} => screen \in Seq(Chars)
  /\ call \in {"none", "read", "write"}

\* The page at 0 holds what proc_born() and the program have put there.
Loaded ==
  /\ image \in [Places -> Chars]
  /\ line \notin {"printf", "proc_born"} => \A j \in Places : ram[DATA + j] = image[j]

\* The pages that the next call copies from.
Blank ==
  /\ line \in {"printf", "proc_born"} => call = "none" /\ answer = <<>> /\ asked = <<>>
  /\ line \notin {"terminal", "panic"} => \A j \in Places : ram[terminal + j] = NUL
  /\ line # "uinput" => \/ \A j \in Places : ram[uinput + j] = NUL
                        \/ \A j \in Places : ram[uinput + j] = JUNK
  /\ call = "write" /\ asked # <<>> => \A j \in Places : ram[CLIENT + j] = NUL

\* The memory m has the n characters of text at address a, and a NUL after
\* them unless there is no more room.
Holds(m, a, text, room) ==
  /\ Len(text) <= room
  /\ \A j \in 1 .. Len(text) : m[a + j - 1] = text[j] /\ text[j] # NUL
  /\ Len(text) < room => m[a + Len(text)] = NUL

\* terminal has the text in its page and has written the first part of it.
Printing ==
  /\ line \in {"terminal", "panic"} =>
       /\ call = "write" /\ answer = <<>>
       /\ Holds(ram, terminal, asked, PGSIZE)
       /\ strmem <= Len(asked)
       /\ Len(screen) = strmem
       /\ \A j \in 1..strmem : screen[j] = asked[j]
  /\ line = "panic" => strmem = PGSIZE
  /\ line = "program" => screen = asked

\* uinput has the keys in its page; the program has them afterwards.
Typing ==
  /\ line = "uinput" =>
       /\ call = "read" /\ answer = <<>>
       /\ Len(typed) = count /\ screen = typed /\ asked = typed
       /\ \A j \in 1..count : ram[uinput + j - 1] = typed[j]
  /\ line = "program" /\ call = "read" =>
       /\ Len(typed) < PGSIZE
       /\ \A j \in 1 .. Len(typed) : ram[CLIENT + j - 1] = typed[j]
       /\ ram[CLIENT + Len(typed)] = NUL
       /\ ram[CLIENT + PGSIZE - 1] = NUL

\* The answer is about the line that is still in the page.
Compared ==
  answer # <<>> =>
    /\ line = "program" /\ call = "read"
    /\ \E c \in Commands : answer = <<c, strcmp(c, ram, CLIENT)>>

TextInv == Typed /\ Loaded /\ Blank /\ Printing /\ Typing /\ Compared

------------------------------------------------------------------------------
(* The operators.                                                          *)

\* Where the pages are.
LEMMA Layout ==
  /\ PGSIZE \in Nat /\ PGSIZE >= 2
  /\ CLIENT = 0 /\ terminal = PGSIZE /\ uinput = 2 * PGSIZE
  /\ DATA = 3 * PGSIZE /\ ARCHIVE = 4 * PGSIZE
  /\ NUL \in Chars /\ JUNK \in Chars /\ LF \in Chars /\ Keys \subseteq Chars
BY TextAssumption DEF CLIENT, terminal, uinput, DATA, ARCHIVE

\* The addresses in them.
LEMMA InPages ==
  /\ \A j \in Places : /\ j \in Int /\ 0 <= j /\ j < PGSIZE /\ j \in Nat
                       /\ CLIENT + j \in Addrs /\ terminal + j \in Addrs /\ uinput + j \in Addrs
                       /\ DATA + j \in Addrs /\ ARCHIVE + j \in Addrs
  /\ \A a \in Addrs : a \in Int /\ 0 <= a /\ a < 5 * PGSIZE
BY Layout DEF Addrs, Places

\* A remainder by something larger.
LEMMA SmallMod ==
  ASSUME NEW n \in Nat, NEW d \in Nat, n < d
  PROVE  n % d = n
OBVIOUS

\* What memset() leaves.
LEMMA Memset ==
  ASSUME NEW m \in [Addrs -> Chars], NEW c \in Chars, NEW dst \in Nat, NEW n \in Nat
  PROVE  /\ memset(m, dst, c, n) \in [Addrs -> Chars]
         /\ \A a \in Addrs :
              memset(m, dst, c, n)[a] = IF dst <= a /\ a < dst + n THEN c ELSE m[a]
BY Layout, InPages DEF memset

\* What memcpy() leaves, when the ranges do not overlap or src is above.
LEMMA Memcpy ==
  ASSUME NEW m \in [Addrs -> Chars], NEW dst \in Nat, NEW src \in Nat, NEW n \in Nat,
         dst > src => src + n <= dst, src + n <= 5 * PGSIZE
  PROVE  /\ memcpy(m, dst, src, n) \in [Addrs -> Chars]
         /\ \A a \in Addrs :
              memcpy(m, dst, src, n)[a] =
                IF dst <= a /\ a < dst + n THEN m[src + (a - dst)] ELSE m[a]
<1> DEFINE from(j) == src + (IF dst > src THEN j % (dst - src) ELSE j)
<1>1. ASSUME NEW j \in 0 .. n - 1
      PROVE  from(j) = src + j /\ src + j \in Addrs
  <2>1. CASE dst > src
    <3>1. j \in Nat /\ dst - src \in Nat /\ j < dst - src
      BY <2>1
    <3>2. j % (dst - src) = j
      BY <3>1, SmallMod
    <3> QED
      BY <2>1, <3>1, <3>2, Layout, InPages DEF Addrs
  <2>2. CASE ~ (dst > src)
    BY <2>2, Layout, InPages DEF Addrs
  <2> QED
    BY <2>1, <2>2
<1>2. memcpy(m, dst, src, n) =
        [a \in Addrs |-> IF a - dst \in 0 .. n - 1 THEN m[from(a - dst)] ELSE m[a]]
  BY DEF memcpy
<1> HIDE DEF from
<1>3. ASSUME NEW a \in Addrs
      PROVE  (IF a - dst \in 0 .. n - 1 THEN m[from(a - dst)] ELSE m[a])
               = (IF dst <= a /\ a < dst + n THEN m[src + (a - dst)] ELSE m[a])
  <2>1. a - dst \in 0 .. n - 1 <=> dst <= a /\ a < dst + n
    BY Layout, InPages
  <2> QED
    BY <1>1, <2>1
<1>4. ASSUME NEW a \in Addrs
      PROVE  (IF dst <= a /\ a < dst + n THEN m[src + (a - dst)] ELSE m[a]) \in Chars
  BY <1>1, Layout, InPages DEF Addrs
<1> QED
  BY <1>2, <1>3, <1>4

\* ipc_buf_cpy() as a move from page to page: src is blank afterwards.
LEMMA BufCpy ==
  ASSUME NEW m \in [Addrs -> Chars], NEW n \in 0..PGSIZE, NEW dst, NEW src,
         \/ dst = terminal /\ src = CLIENT
         \/ dst = CLIENT /\ src = uinput
  PROVE  /\ ipc_buf_cpy(m, dst, src, n) \in [Addrs -> Chars]
         /\ \A j \in Places : /\ ipc_buf_cpy(m, dst, src, n)[dst + j] =
                                   IF j < n THEN m[src + j] ELSE NUL
                              /\ ipc_buf_cpy(m, dst, src, n)[src + j] = NUL
         /\ \A a \in Addrs : ~ (dst <= a /\ a < dst + PGSIZE) /\ ~ (src <= a /\ a < src + PGSIZE)
              => ipc_buf_cpy(m, dst, src, n)[a] = m[a]
<1> DEFINE m1 == memset(m, dst, NUL, PGSIZE)
           m2 == memcpy(m1, dst, src, n)
           m3 == memset(m2, src, NUL, PGSIZE)
<1>0. dst \in Nat /\ src \in Nat /\ n \in Nat /\ PGSIZE \in Nat /\ NUL \in Chars
  BY Layout, InPages
<1>1. /\ m1 \in [Addrs -> Chars]
      /\ \A a \in Addrs : m1[a] = IF dst <= a /\ a < dst + PGSIZE THEN NUL ELSE m[a]
  BY <1>0, Memset, ZenonT(60)
<1>2. (dst > src => src + n <= dst) /\ src + n <= 5 * PGSIZE
  BY Layout, InPages
<1> HIDE DEF m1
<1>3. /\ m2 \in [Addrs -> Chars]
      /\ \A a \in Addrs : m2[a] = IF dst <= a /\ a < dst + n THEN m1[src + (a - dst)] ELSE m1[a]
  BY <1>0, <1>1, <1>2, Memcpy
<1> HIDE DEF m2
<1>4. /\ m3 \in [Addrs -> Chars]
      /\ \A a \in Addrs : m3[a] = IF src <= a /\ a < src + PGSIZE THEN NUL ELSE m2[a]
  BY <1>0, <1>3, Memset, ZenonT(60)
<1>5. ipc_buf_cpy(m, dst, src, n) = m3
  BY DEF ipc_buf_cpy, m1, m2
<1> HIDE DEF m3
<1>6. ASSUME NEW j \in Places
      PROVE  m3[dst + j] = (IF j < n THEN m[src + j] ELSE NUL) /\ m3[src + j] = NUL
  <2>1. dst + j \in Addrs /\ src + j \in Addrs
    BY Layout, InPages
  <2>2. m3[src + j] = NUL
    BY <1>4, <2>1, Layout, InPages
  <2>3. m3[dst + j] = m2[dst + j]
    BY <1>4, <2>1, Layout, InPages
  <2>4. m2[dst + j] = IF j < n THEN m1[src + j] ELSE m1[dst + j]
    BY <1>0, <1>3, <2>1, Layout, InPages
  <2>5. m1[src + j] = m[src + j] /\ m1[dst + j] = NUL
    BY <1>1, <2>1, Layout, InPages
  <2> QED
    BY <2>2, <2>3, <2>4, <2>5
<1>7. ASSUME NEW a \in Addrs,
             ~ (dst <= a /\ a < dst + PGSIZE), ~ (src <= a /\ a < src + PGSIZE)
      PROVE  m3[a] = m[a]
  BY <1>0, <1>1, <1>3, <1>4, <1>7, Layout, InPages
<1> QED
  BY <1>4, <1>5, <1>6, <1>7

\* buf2ipc_cpy() to terminal from the program's own page: its ipc page is
\* blank afterwards.
LEMMA Buf2Ipc ==
  ASSUME NEW m \in [Addrs -> Chars], NEW n \in 0..PGSIZE, NEW buf \in Nat,
         DATA <= buf, buf + n <= ARCHIVE
  PROVE  /\ buf2ipc_cpy(m, terminal, CLIENT, buf, n) \in [Addrs -> Chars]
         /\ \A j \in Places : /\ buf2ipc_cpy(m, terminal, CLIENT, buf, n)[terminal + j] =
                                   IF j < n THEN m[buf + j] ELSE NUL
                              /\ buf2ipc_cpy(m, terminal, CLIENT, buf, n)[CLIENT + j] = NUL
         /\ \A a \in Addrs : a >= uinput => buf2ipc_cpy(m, terminal, CLIENT, buf, n)[a] = m[a]
<1> DEFINE m1 == memset(m, terminal, NUL, PGSIZE)
           m2 == memcpy(m1, terminal, buf, n)
           m3 == memset(m2, CLIENT, NUL, PGSIZE)
<1>0. terminal \in Nat /\ CLIENT \in Nat /\ n \in Nat /\ PGSIZE \in Nat /\ NUL \in Chars
  BY Layout, InPages
<1>1. /\ m1 \in [Addrs -> Chars]
      /\ \A a \in Addrs : m1[a] = IF terminal <= a /\ a < terminal + PGSIZE THEN NUL ELSE m[a]
  BY <1>0, Memset
<1>2. ~ (terminal > buf) /\ buf + n <= 5 * PGSIZE
  BY Layout, InPages
<1> HIDE DEF m1
<1>3. /\ m2 \in [Addrs -> Chars]
      /\ \A a \in Addrs : m2[a] = IF terminal <= a /\ a < terminal + n
                                  THEN m1[buf + (a - terminal)] ELSE m1[a]
  BY <1>0, <1>1, <1>2, Memcpy
<1> HIDE DEF m2
<1>4. /\ m3 \in [Addrs -> Chars]
      /\ \A a \in Addrs : m3[a] = IF CLIENT <= a /\ a < CLIENT + PGSIZE THEN NUL ELSE m2[a]
  BY <1>0, <1>3, Memset
<1>5. buf2ipc_cpy(m, terminal, CLIENT, buf, n) = m3
  BY DEF buf2ipc_cpy, m1, m2
<1> HIDE DEF m3
<1>6. ASSUME NEW j \in Places
      PROVE  m3[terminal + j] = (IF j < n THEN m[buf + j] ELSE NUL) /\ m3[CLIENT + j] = NUL
  <2>1. terminal + j \in Addrs /\ CLIENT + j \in Addrs
    BY Layout, InPages
  <2>2. m3[CLIENT + j] = NUL
    BY <1>4, <2>1, Layout, InPages
  <2>3. m3[terminal + j] = m2[terminal + j]
    BY <1>4, <2>1, Layout, InPages
  <2>4. m2[terminal + j] = IF j < n THEN m1[buf + j] ELSE m1[terminal + j]
    BY <1>0, <1>3, <2>1, Layout, InPages
  <2>5. m1[terminal + j] = NUL
    BY <1>1, <2>1, Layout, InPages
  <2>6. j < n => m1[buf + j] = m[buf + j]
    BY <1>0, <1>1, Layout, InPages, SMTT(30) DEF Addrs
  <2> QED
    BY <2>2, <2>3, <2>4, <2>5, <2>6
<1>7. ASSUME NEW a \in Addrs, a >= uinput
      PROVE  m3[a] = m[a]
  BY <1>0, <1>1, <1>3, <1>4, <1>7, Layout, InPages
<1> QED
  BY <1>4, <1>5, <1>6, <1>7

\* String() is what there is up to the first NUL.
LEMMA StringHolds ==
  ASSUME NEW m \in [Addrs -> Chars], NEW a \in Nat, NEW n \in Nat, a + n <= 5 * PGSIZE
  PROVE  String(m, a, n) \in Seq(Chars) /\ Holds(m, a, String(m, a, n), n)
<1> DEFINE Ends(l) == /\ l = n \/ m[a + l] = NUL
                      /\ \A j \in 0 .. l - 1 : m[a + j] # NUL
           S == {l \in 0..n : l = n \/ m[a + l] = NUL}
           len == CHOOSE l \in 0..n : Ends(l)
<1>1. PICK l \in S : \A y \in S : l <= y
  <2>1. S \in SUBSET Nat /\ n \in S
    OBVIOUS
  <2> HIDE DEF S
  <2> QED
    BY <2>1, Least
<1>2. l \in 0..n /\ Ends(l)
  <2>1. ASSUME NEW j \in 0 .. l - 1
        PROVE  m[a + j] # NUL
    BY <1>1
  <2> QED
    BY <1>1, <2>1
<1>3. len \in 0..n /\ Ends(len)
  BY <1>2
<1>4. String(m, a, n) = [j \in 1..len |-> m[a + j - 1]]
  BY DEF String
<1> HIDE DEF len
<1>5. ASSUME NEW j \in 1..len
      PROVE  m[a + j - 1] \in Chars /\ m[a + j - 1] # NUL
  <2>1. j - 1 \in 0 .. len - 1 /\ a + (j - 1) = a + j - 1 /\ a + j - 1 \in Addrs
    BY <1>3, Layout, InPages DEF Addrs
  <2>2. m[a + (j - 1)] # NUL
    BY <1>3, <2>1
  <2> QED
    BY <2>1, <2>2
<1>6. String(m, a, n) \in Seq(Chars) /\ Len(String(m, a, n)) = len
  <2>0. len \in Nat
    BY <1>3
  <2>1. String(m, a, n) \in [1..len -> Chars]
    BY <1>4, <1>5
  <2>2. String(m, a, n) \in Seq(Chars)
    BY <2>0, <2>1, SeqDef
  <2>3. Len(String(m, a, n)) = len
    BY <2>0, <1>4
  <2> QED
    BY <2>2, <2>3
<1> QED
  BY <1>3, <1>4, <1>5, <1>6, SMTT(30) DEF Holds

------------------------------------------------------------------------------
(* The steps.                                                              *)

\* The invariant holds when main() starts.
LEMMA TextInitial ==
  ASSUME TextInit
  PROVE  TextInv
<1>1. /\ line = "printf" /\ strmem = 0 /\ size = 0 /\ count = 0 /\ call = "none"
      /\ typed = <<>> /\ asked = <<>> /\ answer = <<>>
      /\ image \in [Places -> Chars]
      /\ ram = [a \in Addrs |-> IF a \in terminal .. uinput - 1 THEN NUL ELSE JUNK]
  BY Layout DEF TextInit, Addrs, Clean, Places
<1>2. Typed
  BY <1>1, Layout, InPages DEF Typed, Places
<1>3. Blank
  <2>1. ASSUME NEW j \in Places
        PROVE  ram[terminal + j] = NUL /\ ram[uinput + j] = JUNK
    <3>1. /\ terminal + j \in Addrs /\ terminal + j \in terminal .. uinput - 1
          /\ uinput + j \in Addrs /\ uinput + j \notin terminal .. uinput - 1
      BY Layout, InPages
    <3> QED
      BY <1>1, <3>1
  <2> QED
    BY <1>1, <2>1 DEF Blank
<1> QED
  BY <1>1, <1>2, <1>3 DEF TextInv, Loaded, Printing, Typing, Compared

\* printf() does not touch what the programs have.
LEMMA PrintfKeeps ==
  ASSUME TextInv, printf, UNCHANGED image
  PROVE  TextInv'
<1>1. /\ line = "printf" /\ line' \in {"printf", "proc_born"}
      /\ UNCHANGED <<ram, strmem, sym, count, size, call, typed, answer, asked>>
  BY DEF printf, uservars
<1> QED
  BY <1>1 DEF TextInv, Typed, Loaded, Blank, Printing, Typing, Compared

\* proc_born() leaves a program in its page, and the ipc pages alone.
LEMMA BornKeeps ==
  ASSUME TextInv, proc_born
  PROVE  TextInv'
<1>1. PICK p \in Programs :
        /\ ram' = memmove(memset([a \in DOMAIN ram |-> IF a - ARCHIVE \in 0 .. Len(p) - 1
                                                        THEN p[a - ARCHIVE + 1] ELSE ram[a]],
                                 DATA, NUL, PGSIZE), DATA, ARCHIVE, Len(p))
        /\ image' = [j \in Places |-> At(p, j)]
  BY DEF proc_born, Places
<1>2. /\ line = "proc_born" /\ line' = "program" /\ screen' = <<>>
      /\ UNCHANGED <<strmem, sym, count, size, call, typed, answer, asked>>
  BY DEF proc_born, uservars
<1>3. p \in Seq(Chars) /\ Len(p) \in 0..PGSIZE /\ Len(p) \in Nat
  BY TextAssumption
<1> DEFINE m0 == [a \in Addrs |-> IF a - ARCHIVE \in 0 .. Len(p) - 1
                                  THEN p[a - ARCHIVE + 1] ELSE ram[a]]
           m1 == memset(m0, DATA, NUL, PGSIZE)
           m2 == memcpy(m1, DATA, ARCHIVE, Len(p))
<1>4. ram \in [Addrs -> Chars]
  BY DEF TextInv, Typed
<1>5. ram' = m2
  <2>1. DOMAIN ram = Addrs /\ ARCHIVE > DATA
    BY <1>4, Layout
  <2> QED
    BY <1>1, <2>1 DEF memmove
<1>6. /\ m0 \in [Addrs -> Chars]
      /\ \A a \in Addrs : m0[a] = IF ARCHIVE <= a /\ a < ARCHIVE + Len(p)
                                  THEN p[a - ARCHIVE + 1] ELSE ram[a]
  <2>1. ASSUME NEW a \in Addrs
        PROVE  a - ARCHIVE \in 0 .. Len(p) - 1 <=> ARCHIVE <= a /\ a < ARCHIVE + Len(p)
    BY <1>3, Layout, InPages
  <2>2. ASSUME NEW a \in Addrs, ARCHIVE <= a /\ a < ARCHIVE + Len(p)
        PROVE  p[a - ARCHIVE + 1] \in Chars
    <3>1. a - ARCHIVE + 1 \in 1 .. Len(p)
      BY <1>3, <2>2, Layout, InPages
    <3> QED
      BY <1>3, <3>1
  <2> QED
    BY <1>4, <2>1, <2>2
<1> HIDE DEF m0
<1>7. DATA \in Nat /\ ARCHIVE \in Nat /\ PGSIZE \in Nat /\ NUL \in Chars
  BY Layout
<1>8. /\ m1 \in [Addrs -> Chars]
      /\ \A a \in Addrs : m1[a] = IF DATA <= a /\ a < DATA + PGSIZE THEN NUL ELSE m0[a]
  BY <1>6, <1>7, Memset
<1> HIDE DEF m1
<1>9. ~ (DATA > ARCHIVE) /\ ARCHIVE + Len(p) <= 5 * PGSIZE
  BY <1>3, Layout
<1>10. /\ m2 \in [Addrs -> Chars]
       /\ \A a \in Addrs : m2[a] = IF DATA <= a /\ a < DATA + Len(p)
                                   THEN m1[ARCHIVE + (a - DATA)] ELSE m1[a]
  BY <1>3, <1>7, <1>8, <1>9, Memcpy, SMTT(30)
<1> HIDE DEF m2
<1>11. ASSUME NEW a \in Addrs, a < DATA
       PROVE  ram'[a] = ram[a]
  <2>1. /\ ~ (DATA <= a /\ a < DATA + Len(p)) /\ ~ (DATA <= a /\ a < DATA + PGSIZE)
        /\ ~ (ARCHIVE <= a /\ a < ARCHIVE + Len(p))
    BY <1>3, <1>11, Layout, InPages
  <2> QED
    BY <1>5, <1>6, <1>8, <1>10, <2>1
<1>12. ASSUME NEW j \in Places
       PROVE  ram'[DATA + j] = At(p, j)
  <2>1. DATA + j \in Addrs /\ ARCHIVE + j \in Addrs /\ ARCHIVE + (DATA + j - DATA) = ARCHIVE + j
    BY Layout, InPages
  <2>2. CASE j < Len(p)
    <3>1. m2[DATA + j] = m1[ARCHIVE + j]
      <4> DEFINE a == DATA + j
      <4>1. /\ a \in Addrs /\ DATA <= a /\ a < DATA + Len(p)
            /\ ARCHIVE + (a - DATA) = ARCHIVE + j
        BY <1>3, <2>1, <2>2, Layout, InPages, SMTT(30)
      <4> HIDE DEF a
      <4>2. m2[a] = m1[ARCHIVE + (a - DATA)]
        BY <1>10, <4>1
      <4> QED
        BY <4>1, <4>2 DEF a
    <3>2. m1[ARCHIVE + j] = m0[ARCHIVE + j]
      BY <1>3, <1>8, <2>1, Layout, InPages
    <3>3. m0[ARCHIVE + j] = p[j + 1]
      <4> DEFINE a == ARCHIVE + j
      <4>1. a \in Addrs
        BY <2>1
      <4>2. ARCHIVE <= a /\ a < ARCHIVE + Len(p) /\ a - ARCHIVE + 1 = j + 1
        BY <1>3, <2>2, Layout, InPages, SMTT(30)
      <4> HIDE DEF a
      <4>3. m0[a] = p[a - ARCHIVE + 1]
        BY <1>6, <4>1, <4>2
      <4> QED
        BY <4>2, <4>3 DEF a
    <3> QED
      BY <1>5, <2>2, <3>1, <3>2, <3>3 DEF At
  <2>3. CASE ~ (j < Len(p))
    <3>1. m2[DATA + j] = m1[DATA + j]
      BY <1>3, <1>10, <2>1, <2>3, Layout, InPages, SMTT(30)
    <3>2. m1[DATA + j] = NUL
      BY <1>8, <2>1, Layout, InPages
    <3> QED
      BY <1>5, <2>3, <3>1, <3>2 DEF At
  <2> QED
    BY <2>2, <2>3
<1>13. Typed'
  BY <1>2, <1>5, <1>10 DEF TextInv, Typed
<1>14. Loaded'
  <2>1. ASSUME NEW j \in Places
        PROVE  At(p, j) \in Chars
    <3>1. j < Len(p) => j + 1 \in 1 .. Len(p)
      BY <1>3, InPages
    <3> QED
      BY <1>3, <1>7, <3>1 DEF At
  <2> QED
    BY <1>1, <1>2, <1>12, <2>1 DEF Loaded
<1>15. Blank'
  <2>1. ASSUME NEW j \in Places
        PROVE  ram'[terminal + j] = ram[terminal + j] /\ ram'[uinput + j] = ram[uinput + j]
    BY <1>11, Layout, InPages
  <2> QED
    BY <1>2, <2>1 DEF TextInv, Blank
<1>16. Printing'
  <2>1. asked = <<>>
    BY <1>2 DEF TextInv, Blank
  <2> QED
    BY <1>2, <2>1 DEF Printing
<1> QED
  BY <1>2, <1>13, <1>14, <1>15, <1>16 DEF TextInv, Typing, Blank, Compared

\* write() of the text that lies at buf.
LEMMA WriteKeeps ==
  ASSUME TextInv, NEW fd,
         NEW m \in [Addrs -> Chars], \A a \in Addrs : a >= terminal => m[a] = ram[a],
         NEW n \in Nat, NEW buf \in Nat, NEW text \in Seq(Chars),
         n <= PGSIZE => buf = CLIENT \/ (DATA <= buf /\ buf + n <= ARCHIVE),
         n <= PGSIZE => Holds(m, buf, text, n),
         n > PGSIZE => text = <<>>,
         write(m, fd, buf, n, text), UNCHANGED image
  PROVE  TextInv'
<1>1. /\ line = "program" /\ screen' = <<>> /\ typed' = <<>> /\ answer' = <<>>
      /\ UNCHANGED <<sym, count, size>>
  BY DEF write, ends, begins, uservars
<1>2. CASE fd # 1
  <2>1. /\ ram' = m /\ line' = line /\ call' = "none" /\ asked' = <<>> /\ strmem' = strmem
    BY <1>2 DEF write, ends, uservars
  <2>2. Typed'
    BY <1>1, <2>1 DEF TextInv, Typed
  <2>3. \A a \in Addrs : a >= terminal => ram'[a] = ram[a]
    BY <2>1
  <2>4. ASSUME NEW j \in Places
        PROVE  /\ ram'[terminal + j] = ram[terminal + j]
               /\ ram'[uinput + j] = ram[uinput + j]
               /\ ram'[DATA + j] = ram[DATA + j]
    <3>1. /\ terminal + j \in Addrs /\ uinput + j \in Addrs /\ DATA + j \in Addrs
          /\ terminal + j >= terminal /\ uinput + j >= terminal /\ DATA + j >= terminal
      BY Layout, InPages, SMTT(30)
    <3> QED
      BY <2>3, <3>1
  <2>5. Loaded' /\ Blank'
    BY <1>1, <2>1, <2>4 DEF TextInv, Loaded, Blank
  <2> QED
    BY <1>1, <2>1, <2>2, <2>5 DEF TextInv, Printing, Typing, Compared
<1>3. CASE fd = 1
  <2>1. /\ line' = "terminal" /\ call' = "write" /\ asked' = text /\ strmem' = 0
        /\ ram' = IF n > PGSIZE THEN m
                  ELSE IF buf = CLIENT THEN ipc_buf_cpy(m, terminal, CLIENT, n)
                  ELSE buf2ipc_cpy(m, terminal, CLIENT, buf, n)
    BY <1>3 DEF write, ends
  <2>2. /\ ram' \in [Addrs -> Chars]
        /\ \A a \in Addrs : a >= uinput => ram'[a] = ram[a]
        /\ Holds(ram', terminal, text, PGSIZE)
        /\ text # <<>> => \A j \in Places : ram'[CLIENT + j] = NUL
    <3>1. CASE n > PGSIZE
      <4>1. text = <<>> /\ ram' = m
        BY <2>1, <3>1
      <4>2. m[terminal] = NUL
        <5>1. 0 \in Places
          BY Layout DEF Places
        <5>2. ram[terminal + 0] = NUL
          BY <1>1, <5>1 DEF TextInv, Blank
        <5>3. terminal + 0 \in Addrs /\ terminal + 0 = terminal /\ terminal >= terminal
          BY <5>1, Layout, InPages
        <5> QED
          BY <5>2, <5>3
      <4> QED
        <5>1. Len(text) = 0 /\ terminal + Len(text) = terminal /\ 1 .. Len(text) = {}
          BY <4>1, Layout
        <5>2. Len(text) <= PGSIZE
          BY <5>1, Layout
        <5>3. \A a \in Addrs : a >= uinput => ram'[a] = ram[a]
          BY <4>1, Layout, InPages
        <5> QED
          BY <4>1, <4>2, <5>1, <5>2, <5>3 DEF Holds
    <3>2. CASE n <= PGSIZE
      <4>1. n \in 0..PGSIZE /\ Holds(m, buf, text, n) /\ ~ (n > PGSIZE)
        BY <3>2, Layout
      <4>2. /\ ram' \in [Addrs -> Chars]
            /\ \A j \in Places : /\ ram'[terminal + j] = IF j < n THEN m[buf + j] ELSE NUL
                                 /\ ram'[CLIENT + j] = NUL
            /\ \A a \in Addrs : a >= uinput => ram'[a] = m[a]
        <5>1. CASE buf = CLIENT
          <6>1. ram' = ipc_buf_cpy(m, terminal, CLIENT, n)
            BY <2>1, <4>1, <5>1
          <6>2. ASSUME NEW a \in Addrs, a >= uinput
                PROVE  ~ (terminal <= a /\ a < terminal + PGSIZE) /\ ~ (CLIENT <= a /\ a < CLIENT + PGSIZE)
            BY <6>2, Layout, InPages
          <6> QED
            BY <4>1, <5>1, <6>1, <6>2, BufCpy
        <5>2. CASE buf # CLIENT
          <6>1. ram' = buf2ipc_cpy(m, terminal, CLIENT, buf, n)
            BY <2>1, <4>1, <5>2
          <6>2. DATA <= buf /\ buf + n <= ARCHIVE
            BY <3>2, <5>2
          <6> QED
            BY <4>1, <6>1, <6>2, Buf2Ipc
        <5> QED
          BY <5>1, <5>2
      <4>3. ASSUME NEW j \in 1 .. Len(text)
            PROVE  ram'[terminal + j - 1] = text[j] /\ text[j] # NUL
        <5>1. /\ j - 1 \in Places /\ j - 1 < n
              /\ buf + (j - 1) = buf + j - 1 /\ terminal + (j - 1) = terminal + j - 1
          BY <4>1, Layout DEF Holds, Places
        <5>2. ram'[terminal + (j - 1)] = m[buf + (j - 1)]
          BY <4>2, <5>1
        <5> QED
          BY <4>1, <5>1, <5>2 DEF Holds
      <4>4. Len(text) < PGSIZE => ram'[terminal + Len(text)] = NUL
        <5>1. Len(text) \in Nat /\ Len(text) <= n
          BY <4>1 DEF Holds
        <5>2. Len(text) < PGSIZE => Len(text) \in Places
          BY <5>1, Layout DEF Places
        <5>3. Len(text) < n => m[buf + Len(text)] = NUL
          BY <4>1 DEF Holds
        <5> QED
          BY <4>2, <5>1, <5>2, <5>3
      <4>5. Holds(ram', terminal, text, PGSIZE)
        BY <4>1, <4>3, <4>4, Layout DEF Holds
      <4>6. \A a \in Addrs : a >= uinput => ram'[a] = ram[a]
        BY <4>2, Layout, InPages
      <4> QED
        BY <4>2, <4>5, <4>6
    <3> QED
      BY <3>1, <3>2, Layout
  <2>3. Typed'
    BY <1>1, <2>1, <2>2, Layout DEF TextInv, Typed
  <2>4. Loaded'
    <3>1. ASSUME NEW j \in Places
          PROVE  ram'[DATA + j] = ram[DATA + j]
      <4>1. DATA + j \in Addrs /\ DATA + j >= uinput
        BY Layout, InPages, SMTT(30)
      <4> QED
        BY <2>2, <4>1
    <3> QED
      BY <1>1, <3>1 DEF TextInv, Loaded
  <2>5. Blank'
    <3>1. \A j \in Places : ram'[uinput + j] = ram[uinput + j]
      BY <2>2, Layout, InPages, SMTT(30)
    <3> QED
      BY <1>1, <2>1, <2>2, <3>1 DEF TextInv, Blank
  <2>6. Printing'
    BY <1>1, <2>1, <2>2 DEF Printing
  <2> QED
    BY <1>1, <2>1, <2>3, <2>4, <2>5, <2>6 DEF TextInv, Typing, Compared
<1> QED
  BY <1>2, <1>3

\* The programs write: every text at buf is one that write() can take.
LEMMA WritesKeep ==
  ASSUME TextInv, Write, UNCHANGED image
  PROVE  TextInv'
<1>1. ram \in [Addrs -> Chars]
  BY DEF TextInv, Typed
<1>2. ASSUME NEW str \in Seq(Chars), \A j \in 1 .. Len(str) : str[j] # NUL, puts(str)
      PROVE  TextInv'
  <2> DEFINE n == IF Len(str) < PGSIZE - 1 THEN Len(str) ELSE PGSIZE - 1
             m == [a \in DOMAIN ram |-> IF a < n THEN At(str, a) ELSE IF a = n THEN NUL ELSE ram[a]]
             text == first(str, PGSIZE - 1)
  <2>1. n \in Nat /\ n <= Len(str) /\ n < PGSIZE /\ Len(str) \in Nat
    BY Layout
  <2>2. text \in Seq(Chars) /\ Len(text) = n /\ \A j \in 1..n : text[j] = str[j]
    <3>1. text = SubSeq(str, 1, n)
      BY DEF first
    <3>2. \A j \in 1..n : str[j] \in Chars
      BY <2>1
    <3> QED
      BY <2>1, <3>1, <3>2, SubSeqProperties
  <2> HIDE DEF n, text
  <2>3. /\ m \in [Addrs -> Chars]
        /\ \A a \in Addrs : m[a] = IF a < n THEN str[a + 1] ELSE IF a = n THEN NUL ELSE ram[a]
    <3>1. ASSUME NEW a \in Addrs, a < n
          PROVE  At(str, a) = str[a + 1] /\ str[a + 1] \in Chars
      <4>1. a < Len(str) /\ a + 1 \in 1 .. Len(str)
        BY <2>1, <3>1, InPages
      <4> QED
        BY <4>1 DEF At
    <3> QED
      BY <1>1, <3>1, Layout
  <2> HIDE DEF m
  <2>4. \A a \in Addrs : a >= terminal => m[a] = ram[a]
    BY <2>1, <2>3, Layout, InPages
  <2>5. Holds(m, CLIENT, text, n)
    <3>1. ASSUME NEW j \in 1..n
          PROVE  m[CLIENT + j - 1] = text[j] /\ text[j] # NUL
      <4>1. CLIENT + j - 1 \in Addrs /\ CLIENT + j - 1 < n /\ CLIENT + j - 1 + 1 = j
        BY <2>1, Layout DEF Addrs
      <4>2. m[CLIENT + j - 1] = str[CLIENT + j - 1 + 1]
        BY <2>3, <4>1, Zenon
      <4> QED
        BY <1>2, <2>1, <2>2, <4>1, <4>2
    <3> QED
      BY <2>1, <2>2, <3>1 DEF Holds
  <2>6. CASE n > 0
    <3>1. write(m, 1, CLIENT, n, text)
      BY <1>2, <2>6 DEF puts, m, n, text
    <3>2. CLIENT \in Nat /\ n <= PGSIZE /\ ~ (n > PGSIZE)
      BY <2>1, Layout
    <3> QED
      BY <2>1, <2>2, <2>3, <2>4, <2>5, <3>1, <3>2, WriteKeeps
  <2>7. CASE ~ (n > 0)
    <3>1. ends(m)
      BY <1>2, <2>7 DEF puts, m, n
    <3>2. write(m, 2, CLIENT, n, text)
      BY <3>1 DEF write
    <3>3. CLIENT \in Nat /\ n <= PGSIZE /\ ~ (n > PGSIZE)
      BY <2>1, Layout
    <3> QED
      BY <2>1, <2>2, <2>3, <2>4, <2>5, <3>2, <3>3, WriteKeeps
  <2> QED
    BY <2>6, <2>7
<1>3. ASSUME NEW str \in Strings, puts(str)
      PROVE  TextInv'
  <2>1. str \in Seq(Chars) /\ \A j \in 1 .. Len(str) : str[j] # NUL
    BY TextAssumption
  <2> QED
    BY <1>2, <1>3, <2>1
<1>4. ASSUME puts(String(ram, CLIENT, PGSIZE - 1))
      PROVE  TextInv'
  <2> DEFINE str == String(ram, CLIENT, PGSIZE - 1)
  <2>1. CLIENT \in Nat /\ PGSIZE - 1 \in Nat /\ CLIENT + (PGSIZE - 1) <= 5 * PGSIZE
    BY Layout
  <2>2. str \in Seq(Chars) /\ Holds(ram, CLIENT, str, PGSIZE - 1)
    BY <1>1, <2>1, StringHolds
  <2>3. \A j \in 1 .. Len(str) : str[j] # NUL
    BY <2>2 DEF Holds
  <2> QED
    BY <1>2, <1>4, <2>2, <2>3
<1>5. ASSUME NEW ch \in Keys, putchar_user(ch)
      PROVE  TextInv'
  <2> DEFINE m == [ram EXCEPT ![0] = ch, ![1] = NUL]
             text == IF ch = NUL THEN <<>> ELSE <<ch>>
  <2>1. /\ m \in [Addrs -> Chars] /\ m[0] = ch /\ m[1] = NUL
        /\ \A a \in Addrs : a # 0 /\ a # 1 => m[a] = ram[a]
    BY <1>1, Layout DEF Addrs
  <2>2. \A a \in Addrs : a >= terminal => m[a] = ram[a]
    BY <2>1, Layout, InPages
  <2>3. text \in Seq(Chars) /\ Holds(m, CLIENT, text, 2)
    <3>1. CASE ch = NUL
      <4>1. text = <<>> /\ Len(text) = 0
        BY <3>1
      <4>2. m[CLIENT + 0] = NUL
        BY <2>1, <3>1, Layout
      <4> QED
        BY <4>1, <4>2 DEF Holds
    <3>2. CASE ch # NUL
      <4>1. text = <<ch>> /\ Len(text) = 1 /\ text[1] = ch /\ ch \in Chars
        BY <3>2, Layout
      <4>2. m[CLIENT + 1 - 1] = ch /\ m[CLIENT + 1] = NUL
        BY <2>1, Layout
      <4> QED
        BY <3>2, <4>1, <4>2 DEF Holds
    <3> QED
      BY <3>1, <3>2
  <2>4. write(m, 1, CLIENT, 2, text)
    BY <1>5 DEF putchar_user
  <2>5. CLIENT \in Nat /\ 2 \in Nat /\ ~ (2 > PGSIZE)
    BY Layout
  <2> HIDE DEF m, text
  <2> QED
    BY <2>1, <2>2, <2>3, <2>4, <2>5, WriteKeeps
<1>6. ASSUME NEW fd \in 0..2, NEW from \in 0 .. PGSIZE - 1, NEW n \in 0 .. PGSIZE + 1,
             write_data(fd, from, n)
      PROVE  TextInv'
  <2> DEFINE text == IF n > PGSIZE THEN <<>> ELSE String(ram, DATA + from, n)
  <2>1. n \in Nat /\ DATA + from \in Nat /\ DATA <= DATA + from
    BY Layout
  <2>2. write(ram, fd, DATA + from, n, text)
    BY <1>6 DEF write_data
  <2>3. n <= PGSIZE => DATA + from + n <= ARCHIVE /\ DATA + from + n <= 5 * PGSIZE
    BY <1>6, Layout DEF write_data
  <2>4. /\ text \in Seq(Chars)
        /\ n <= PGSIZE => Holds(ram, DATA + from, text, n)
        /\ n > PGSIZE => text = <<>>
    <3>1. CASE n > PGSIZE
      BY <2>1, <3>1, Layout
    <3>2. CASE ~ (n > PGSIZE)
      <4>1. DATA + from + n <= 5 * PGSIZE
        BY <2>1, <2>3, <3>2, Layout
      <4>2. text = String(ram, DATA + from, n)
        BY <3>2
      <4> HIDE DEF text
      <4> QED
        BY <1>1, <2>1, <3>2, <4>1, <4>2, StringHolds
    <3> QED
      BY <3>1, <3>2
  <2> HIDE DEF text
  <2> QED
    BY <1>1, <2>1, <2>2, <2>3, <2>4, WriteKeeps
<1> QED
  BY <1>3, <1>4, <1>5, <1>6 DEF Write

\* read() leaves the pages alone.
LEMMA ReadsKeep ==
  ASSUME TextInv, Read, UNCHANGED image
  PROVE  TextInv'
<1>1. ASSUME ends(ram)
      PROVE  TextInv'
  <2>1. /\ line = "program" /\ line' = "program" /\ ram' = ram /\ call' = "none" /\ asked' = <<>>
        /\ screen' = <<>> /\ typed' = <<>> /\ answer' = <<>>
        /\ UNCHANGED <<strmem, sym, count, size>>
    BY <1>1 DEF ends, begins, uservars
  <2> QED
    BY <2>1 DEF TextInv, Typed, Loaded, Blank, Printing, Typing, Compared
<1>2. ASSUME NEW n \in Nat, n < PGSIZE, read(TRUE, n), ~ ends(ram)
      PROVE  TextInv'
  <2>1. /\ line = "program" /\ line' = "uinput" /\ ram' = ram /\ call' = "read" /\ asked' = <<>>
        /\ screen' = <<>> /\ typed' = <<>> /\ answer' = <<>>
        /\ count' = 0 /\ size' = n /\ strmem' = strmem
    BY <1>2 DEF read, begins
  <2>2. n \in Places /\ 0 \in 0..n
    BY <1>2, Layout DEF Places
  <2>3. Typed'
    BY <2>1, <2>2 DEF TextInv, Typed
  <2>4. Len(typed') = 0 /\ 1..0 = {}
    BY <2>1
  <2> QED
    BY <2>1, <2>3, <2>4 DEF TextInv, Loaded, Blank, Printing, Typing, Compared
<1>3. ASSUME NEW ipc, NEW n \in Nat, read(ipc, n)
      PROVE  TextInv'
  <2>1. CASE ends(ram)
    BY <1>1, <2>1
  <2>2. CASE ~ ends(ram)
    <3>1. ipc /\ n < PGSIZE
      BY <1>3, <2>2 DEF read
    <3>2. read(TRUE, n)
      BY <1>3, <3>1 DEF read
    <3> QED
      BY <1>2, <2>2, <3>1, <3>2
  <2> QED
    BY <2>1, <2>2
<1>4. PGSIZE - 1 \in Nat /\ PGSIZE \in Nat /\ 1 \in Nat
  BY Layout
<1> QED
  BY <1>3, <1>4 DEF Read, gets, getchar

\* strcmp() changes nothing but the answer.
LEMMA CompareKeeps ==
  ASSUME TextInv, NEW c \in Commands, shell_strcmp(c), UNCHANGED image
  PROVE  TextInv'
<1>1. /\ line = "program" /\ call = "read"
      /\ answer' = <<c, strcmp(c, ram, CLIENT)>>
      /\ UNCHANGED <<line, ram, strmem, sym, count, size, screen, call, typed, asked>>
  BY DEF shell_strcmp, uservars
<1>2. strcmp(c, ram', CLIENT) = strcmp(c, ram, CLIENT)
  BY <1>1
<1> QED
  BY <1>1, <1>2 DEF TextInv, Typed, Loaded, Blank, Printing, Typing, Compared

\* A store goes to the program's page and to no other.
LEMMA StoreKeeps ==
  ASSUME TextInv, NEW p \in Stores, NEW c \in Keys, store(p, c)
  PROVE  TextInv'
<1>1. /\ line = "program" /\ ram' = [ram EXCEPT ![DATA + p] = c]
      /\ image' = [image EXCEPT ![p] = c]
      /\ UNCHANGED <<line, strmem, sym, count, size, screen, call, typed, answer, asked>>
  BY DEF store, uservars
<1>2. p \in Places /\ DATA + p \in Addrs /\ c \in Chars /\ ram \in [Addrs -> Chars]
  <2>1. p \in Places
    BY TextAssumption DEF Places
  <2> QED
    BY <2>1, Layout, InPages DEF TextInv, Typed
<1>3. /\ ram' \in [Addrs -> Chars]
      /\ \A a \in Addrs : ram'[a] = IF a = DATA + p THEN c ELSE ram[a]
  BY <1>1, <1>2
<1>4. \A a \in Addrs : a < DATA => ram'[a] = ram[a]
  BY <1>2, <1>3, Layout, InPages
<1>5. ASSUME NEW j \in Places
      PROVE  /\ ram'[terminal + j] = ram[terminal + j] /\ ram'[uinput + j] = ram[uinput + j]
             /\ ram'[CLIENT + j] = ram[CLIENT + j]
  <2>1. /\ terminal + j \in Addrs /\ terminal + j < DATA
        /\ uinput + j \in Addrs /\ uinput + j < DATA
        /\ CLIENT + j \in Addrs /\ CLIENT + j < DATA
    BY Layout, InPages
  <2> QED
    BY <1>4, <2>1
<1>6. Typed'
  BY <1>1, <1>3 DEF TextInv, Typed
<1>7. Loaded'
  <2>1. image' \in [Places -> Chars]
    BY <1>1, <1>2 DEF TextInv, Loaded
  <2>2. ASSUME NEW j \in Places
        PROVE  ram'[DATA + j] = image'[j]
    <3>1. DATA + j \in Addrs /\ (DATA + j = DATA + p <=> j = p)
      BY <1>2, Layout, InPages
    <3>2. ram[DATA + j] = image[j] /\ image \in [Places -> Chars]
      BY <1>1 DEF TextInv, Loaded
    <3> QED
      BY <1>1, <1>2, <1>3, <3>1, <3>2
  <2> QED
    BY <2>1, <2>2 DEF Loaded
<1>8. Blank'
  BY <1>1, <1>5 DEF TextInv, Blank
<1>9. Printing'
  BY <1>1 DEF TextInv, Printing
<1>10. Typing'
  <2>1. ASSUME call = "read"
        PROVE  /\ Len(typed) < PGSIZE
               /\ \A j \in 1 .. Len(typed) : ram'[CLIENT + j - 1] = typed[j]
               /\ ram'[CLIENT + Len(typed)] = NUL
               /\ ram'[CLIENT + PGSIZE - 1] = NUL
    <3>1. /\ Len(typed) < PGSIZE /\ Len(typed) \in Nat
          /\ \A j \in 1 .. Len(typed) : ram[CLIENT + j - 1] = typed[j]
          /\ ram[CLIENT + Len(typed)] = NUL /\ ram[CLIENT + PGSIZE - 1] = NUL
      BY <1>1, <2>1 DEF TextInv, Typed, Typing
    <3>2. \A j \in 1 .. Len(typed) : CLIENT + j - 1 \in Addrs /\ CLIENT + j - 1 < DATA
      BY <3>1, Layout DEF Addrs
    <3>3. /\ CLIENT + Len(typed) \in Addrs /\ CLIENT + Len(typed) < DATA
          /\ CLIENT + PGSIZE - 1 \in Addrs /\ CLIENT + PGSIZE - 1 < DATA
      BY <3>1, Layout DEF Addrs
    <3> QED
      BY <1>4, <3>1, <3>2, <3>3
  <2> QED
    BY <1>1, <2>1 DEF Typing
<1>11. Compared'
  <2>1. ASSUME NEW d \in Commands, call = "read"
        PROVE  strcmp(d, ram', CLIENT) = strcmp(d, ram, CLIENT)
    <3>1. Len(d) \in Nat /\ Len(d) < PGSIZE
      BY TextAssumption
    <3>2. \A j \in 0 .. Len(d) : ram'[CLIENT + j] = ram[CLIENT + j]
      BY <1>5, <3>1, Layout DEF Places
    <3> QED
      BY <3>1, <3>2 DEF strcmp
  <2> QED
    BY <1>1, <2>1 DEF TextInv, Compared
<1> QED
  BY <1>6, <1>7, <1>8, <1>9, <1>10, <1>11 DEF TextInv

\* One more character on the screen, or a panic behind the page.
LEMMA PrintKeeps ==
  ASSUME TextInv, terminal_prints, UNCHANGED image
  PROVE  TextInv'
<1>1. /\ line = "terminal" /\ line' \in {"terminal", "panic"}
      /\ UNCHANGED <<ram, sym, count, size, call, typed, answer, asked>>
  BY DEF terminal_prints
<1>2. /\ Holds(ram, terminal, asked, PGSIZE) /\ strmem <= Len(asked) /\ Len(screen) = strmem
      /\ \A j \in 1..strmem : screen[j] = asked[j]
      /\ strmem \in 0..PGSIZE /\ strmem \in Nat /\ Len(asked) \in Nat /\ Len(asked) <= PGSIZE
      /\ asked \in Seq(Chars) /\ screen \in Seq(Chars)
  BY <1>1, Layout DEF TextInv, Typed, Printing, Holds
<1>3. CASE strmem = PGSIZE
  <2>1. line' = "panic" /\ UNCHANGED <<screen, strmem>>
    BY <1>3 DEF terminal_prints
  <2> QED
    BY <1>1, <1>3, <2>1 DEF TextInv, Typed, Loaded, Blank, Printing, Typing, Compared
<1>4. CASE strmem # PGSIZE
  <2>1. /\ line' = "terminal" /\ ram[terminal + strmem] # NUL
        /\ screen' = Append(screen, ram[terminal + strmem])
        /\ strmem' = strmem + 1
    BY <1>1, <1>4 DEF terminal_prints
  <2>2. strmem < Len(asked)
    <3>1. strmem = Len(asked) => ram[terminal + Len(asked)] = NUL
      BY <1>2, <1>4, Layout DEF Holds
    <3> QED
      BY <1>2, <2>1, <3>1
  <2>3. strmem + 1 \in 1 .. Len(asked) /\ strmem + 1 \in 0..PGSIZE
        /\ terminal + (strmem + 1) - 1 = terminal + strmem
    BY <1>2, <2>2, Layout
  <2>4. ram[terminal + strmem] = asked[strmem + 1]
    <3>1. ram[terminal + (strmem + 1) - 1] = asked[strmem + 1]
      BY <1>2, <2>3 DEF Holds
    <3> QED
      BY <2>3, <3>1
  <2>5. asked[strmem + 1] \in Chars
    BY <1>2, <2>3
  <2>6. /\ screen' \in Seq(Chars) /\ Len(screen') = strmem + 1
        /\ \A j \in 1 .. strmem + 1 : screen'[j] = asked[j]
    BY <1>2, <2>1, <2>4, <2>5
  <2>7. Typed'
    BY <1>1, <2>1, <2>3, <2>6 DEF TextInv, Typed
  <2>8. Printing'
    BY <1>1, <1>2, <2>1, <2>3, <2>6 DEF TextInv, Printing
  <2> QED
    BY <1>1, <2>1, <2>7, <2>8 DEF TextInv, Loaded, Blank, Typing, Compared
<1> QED
  BY <1>3, <1>4

\* At the NUL the whole text has been written, and the page is blank again.
LEMMA ClearKeeps ==
  ASSUME TextInv, terminal_clears, UNCHANGED image
  PROVE  TextInv'
<1>1. /\ line = "terminal" /\ line' = "program" /\ strmem < PGSIZE
      /\ ram[terminal + strmem] = NUL
      /\ ram' = memset(ram, terminal, NUL, PGSIZE)
      /\ UNCHANGED <<strmem, sym, count, size, screen, call, typed, answer, asked>>
  BY DEF terminal_clears, uservars
<1>2. /\ Holds(ram, terminal, asked, PGSIZE) /\ strmem <= Len(asked) /\ Len(screen) = strmem
      /\ \A j \in 1..strmem : screen[j] = asked[j]
      /\ strmem \in Nat /\ Len(asked) \in Nat
      /\ asked \in Seq(Chars) /\ screen \in Seq(Chars)
      /\ call = "write" /\ answer = <<>> /\ ram \in [Addrs -> Chars]
  BY <1>1, Layout DEF TextInv, Typed, Printing
<1>3. strmem = Len(asked)
  <2>1. CASE strmem < Len(asked)
    <3>1. strmem + 1 \in 1 .. Len(asked) /\ terminal + (strmem + 1) - 1 = terminal + strmem
      BY <1>2, <2>1, Layout
    <3>2. ram[terminal + (strmem + 1) - 1] # NUL
      BY <1>2, <3>1 DEF Holds
    <3> QED
      BY <1>1, <3>1, <3>2
  <2> QED
    BY <1>2, <2>1
<1>4. screen = asked
  BY <1>2, <1>3, SeqEqual
<1>5. terminal \in Nat /\ PGSIZE \in Nat /\ NUL \in Chars
  BY Layout
<1>6. /\ ram' \in [Addrs -> Chars]
      /\ \A a \in Addrs : ram'[a] = IF terminal <= a /\ a < terminal + PGSIZE THEN NUL ELSE ram[a]
  <2>1. /\ memset(ram, terminal, NUL, PGSIZE) \in [Addrs -> Chars]
        /\ \A a \in Addrs : memset(ram, terminal, NUL, PGSIZE)[a] =
                              IF terminal <= a /\ a < terminal + PGSIZE THEN NUL ELSE ram[a]
    BY <1>2, <1>5, Memset
  <2> QED
    BY <1>1, <2>1
<1>7. ASSUME NEW j \in Places
      PROVE  /\ ram'[terminal + j] = NUL /\ ram'[CLIENT + j] = ram[CLIENT + j]
             /\ ram'[uinput + j] = ram[uinput + j] /\ ram'[DATA + j] = ram[DATA + j]
  <2>1. terminal + j \in Addrs /\ CLIENT + j \in Addrs /\ uinput + j \in Addrs /\ DATA + j \in Addrs
    BY InPages
  <2> QED
    BY <1>6, <2>1, Layout, InPages
<1>8. Typed'
  BY <1>1, <1>6 DEF TextInv, Typed
<1>9. Loaded' /\ Blank'
  BY <1>1, <1>7 DEF TextInv, Loaded, Blank
<1> QED
  BY <1>1, <1>2, <1>4, <1>8, <1>9 DEF TextInv, Printing, Typing, Compared

\* A key goes to uinput's page and to the screen.
LEMMA KeyKeeps ==
  ASSUME TextInv, NEW key \in Keys, uinput_key(key), UNCHANGED image
  PROVE  TextInv'
<1>1. /\ line = "uinput" /\ line' = "uinput" /\ count < size
      /\ screen' = Append(screen, key) /\ typed' = Append(typed, key)
      /\ asked' = Append(asked, key)
      /\ ram' = [ram EXCEPT ![uinput + count] = key]
      /\ count' = count + 1
      /\ UNCHANGED <<strmem, size, call, answer>>
  BY DEF uinput_key, uinput_more
<1>2. /\ count \in Nat /\ size \in Places /\ count \in 0..size /\ key \in Chars
      /\ typed \in Seq(Chars) /\ screen = typed /\ asked = typed /\ Len(typed) = count
      /\ \A j \in 1..count : ram[uinput + j - 1] = typed[j]
      /\ call = "read" /\ answer = <<>> /\ ram \in [Addrs -> Chars]
  BY <1>1, Layout DEF TextInv, Typed, Typing
<1>3. count \in Places /\ count + 1 \in 0..size /\ uinput + count \in Addrs
  BY <1>1, <1>2, Layout DEF Places, Addrs
<1>4. /\ ram' \in [Addrs -> Chars] /\ ram'[uinput + count] = key
      /\ \A a \in Addrs : a # uinput + count => ram'[a] = ram[a]
  BY <1>1, <1>2, <1>3
<1>5. ASSUME NEW j \in Places
      PROVE  /\ ram'[terminal + j] = ram[terminal + j] /\ ram'[DATA + j] = ram[DATA + j]
  <2>1. /\ terminal + j \in Addrs /\ DATA + j \in Addrs
        /\ terminal + j # uinput + count /\ DATA + j # uinput + count
    BY <1>3, Layout, InPages
  <2> QED
    BY <1>4, <2>1
<1>6. /\ typed' \in Seq(Chars) /\ Len(typed') = count + 1 /\ typed'[count + 1] = key
      /\ \A j \in 1..count : typed'[j] = typed[j]
  BY <1>1, <1>2
<1>7. ASSUME NEW j \in 1 .. count + 1
      PROVE  ram'[uinput + j - 1] = typed'[j]
  <2>1. CASE j = count + 1
    <3>1. uinput + j - 1 = uinput + count
      BY <1>2, <2>1, Layout
    <3> QED
      BY <1>4, <1>6, <2>1, <3>1
  <2>2. CASE j # count + 1
    <3>1. j \in 1..count /\ uinput + j - 1 # uinput + count /\ uinput + j - 1 \in Addrs
      BY <1>2, <1>3, <2>2, Layout DEF Addrs, Places
    <3> QED
      BY <1>2, <1>4, <1>6, <3>1
  <2> QED
    BY <2>1, <2>2
<1>8. Typed'
  BY <1>1, <1>2, <1>3, <1>4, <1>6 DEF TextInv, Typed
<1>9. Loaded' /\ Blank'
  BY <1>1, <1>2, <1>5 DEF TextInv, Loaded, Blank
<1>10. Typing'
  BY <1>1, <1>2, <1>6, <1>7 DEF Typing
<1> QED
  BY <1>1, <1>2, <1>8, <1>9, <1>10 DEF TextInv, Printing, Compared

\* The line goes to the program, closed by a NUL.
LEMMA CopyKeeps ==
  ASSUME TextInv, uinput_copies, UNCHANGED image
  PROVE  TextInv'
<1> DEFINE m == [ram EXCEPT ![uinput + count] = IF count < size THEN NUL ELSE @]
<1>1. /\ line = "uinput" /\ line' = "program"
      /\ screen' = Append(screen, LF) /\ asked' = Append(asked, LF)
      /\ ram' = ipc_buf_cpy(m, CLIENT, uinput, size)
      /\ UNCHANGED <<strmem, sym, count, size, call, typed, answer>>
  BY DEF uinput_copies, uservars
<1>2. /\ count \in Nat /\ size \in Nat /\ size < PGSIZE /\ size \in 0..PGSIZE /\ count <= size
      /\ typed \in Seq(Chars) /\ screen = typed /\ asked = typed /\ Len(typed) = count
      /\ \A j \in 1..count : ram[uinput + j - 1] = typed[j]
      /\ call = "read" /\ answer = <<>> /\ ram \in [Addrs -> Chars]
  <2>1. /\ typed \in Seq(Chars) /\ screen = typed /\ asked = typed /\ Len(typed) = count
        /\ \A j \in 1..count : ram[uinput + j - 1] = typed[j]
        /\ call = "read" /\ answer = <<>> /\ ram \in [Addrs -> Chars]
    BY <1>1 DEF TextInv, Typed, Typing
  <2>2. size \in Places /\ count \in 0..size
    BY DEF TextInv, Typed
  <2>3. count \in Nat /\ size \in Nat /\ size < PGSIZE /\ size \in 0..PGSIZE /\ count <= size
    BY <2>2, Layout DEF Places
  <2> QED
    BY <2>1, <2>3, Zenon
<1>3. count \in Places /\ uinput + count \in Addrs
  BY <1>2, Layout DEF Places, Addrs
<1>4. /\ m \in [Addrs -> Chars]
      /\ count < size => m[uinput + count] = NUL
      /\ \A a \in Addrs : a # uinput + count => m[a] = ram[a]
  BY <1>2, <1>3, Layout
<1> HIDE DEF m
<1>5. /\ ram' \in [Addrs -> Chars]
      /\ \A j \in Places : /\ ram'[CLIENT + j] = IF j < size THEN m[uinput + j] ELSE NUL
                           /\ ram'[uinput + j] = NUL
      /\ \A a \in Addrs : ~ (CLIENT <= a /\ a < CLIENT + PGSIZE) /\ ~ (uinput <= a /\ a < uinput + PGSIZE)
           => ram'[a] = m[a]
  <2> DEFINE r == ipc_buf_cpy(m, CLIENT, uinput, size)
  <2>1. /\ r \in [Addrs -> Chars]
        /\ \A j \in Places : r[CLIENT + j] = (IF j < size THEN m[uinput + j] ELSE NUL)
                             /\ r[uinput + j] = NUL
        /\ \A a \in Addrs : ~ (CLIENT <= a /\ a < CLIENT + PGSIZE) /\ ~ (uinput <= a /\ a < uinput + PGSIZE)
             => r[a] = m[a]
    BY <1>2, <1>4, BufCpy
  <2>2. ram' = r
    BY <1>1
  <2> HIDE DEF r
  <2> QED
    BY <2>1, <2>2
<1>6. ASSUME NEW j \in Places
      PROVE  /\ ram'[terminal + j] = ram[terminal + j] /\ ram'[DATA + j] = ram[DATA + j]
  <2>1. ASSUME NEW a \in Addrs, \/ terminal <= a /\ a < uinput
                                \/ DATA <= a /\ a < ARCHIVE
        PROVE  ram'[a] = ram[a]
    BY <1>3, <1>4, <1>5, <2>1, Layout, InPages
  <2>2. /\ terminal + j \in Addrs /\ terminal <= terminal + j /\ terminal + j < uinput
        /\ DATA + j \in Addrs /\ DATA <= DATA + j /\ DATA + j < ARCHIVE
    BY Layout, InPages
  <2> QED
    BY <2>1, <2>2
<1>7. ASSUME NEW j \in 1..count
      PROVE  ram'[CLIENT + j - 1] = typed[j]
  <2>1. /\ j - 1 \in Places /\ j - 1 < size /\ j - 1 # count
        /\ CLIENT + (j - 1) = CLIENT + j - 1 /\ uinput + (j - 1) = uinput + j - 1
        /\ uinput + j - 1 \in Addrs /\ uinput + j - 1 # uinput + count
    BY <1>2, Layout DEF Places, Addrs
  <2>2. ram'[CLIENT + (j - 1)] = m[uinput + (j - 1)]
    BY <1>5, <2>1
  <2>3. m[uinput + j - 1] = ram[uinput + j - 1]
    BY <1>4, <2>1
  <2> QED
    BY <1>2, <2>1, <2>2, <2>3
<1>8. ram'[CLIENT + count] = NUL
  BY <1>2, <1>3, <1>4, <1>5
<1>9. ram'[CLIENT + PGSIZE - 1] = NUL
  <2>1. PGSIZE - 1 \in Places /\ ~ (PGSIZE - 1 < size) /\ CLIENT + (PGSIZE - 1) = CLIENT + PGSIZE - 1
    BY <1>2, Layout DEF Places
  <2>2. ram'[CLIENT + (PGSIZE - 1)] = NUL
    BY <1>5, <2>1
  <2> QED
    BY <2>1, <2>2
<1>10. screen' \in Seq(Chars) /\ asked' \in Seq(Chars) /\ screen' = asked'
  BY <1>1, <1>2, Layout
<1>11. Typed'
  BY <1>1, <1>2, <1>5, <1>10 DEF TextInv, Typed
<1>12. Loaded' /\ Blank'
  BY <1>1, <1>2, <1>5, <1>6 DEF TextInv, Loaded, Blank
<1>13. Typing'
  BY <1>1, <1>2, <1>7, <1>8, <1>9, Layout DEF Typing
<1> QED
  BY <1>1, <1>2, <1>10, <1>11, <1>12, <1>13 DEF TextInv, Printing, Compared

\* Every step keeps the invariant.
LEMMA TextStep == TextInv /\ [TextNext]_textvars => TextInv'
<1> SUFFICES ASSUME TextInv, [TextNext]_textvars
             PROVE  TextInv'
  OBVIOUS
<1>1. CASE proc_born
  BY <1>1, BornKeeps
<1>2. CASE \E j \in Stores, c \in Keys : store(j, c)
  BY <1>2, StoreKeeps
<1>3. CASE elsewhere
  <2>1. CASE printf
    BY <1>3, <2>1, PrintfKeeps DEF elsewhere
  <2>2. CASE Write
    BY <1>3, <2>2, WritesKeep DEF elsewhere
  <2>3. CASE Read
    BY <1>3, <2>3, ReadsKeep DEF elsewhere
  <2>4. CASE \E c \in Commands : shell_strcmp(c)
    BY <1>3, <2>4, CompareKeeps DEF elsewhere
  <2>5. CASE terminal_prints
    BY <1>3, <2>5, PrintKeeps DEF elsewhere
  <2>6. CASE terminal_clears
    BY <1>3, <2>6, ClearKeeps DEF elsewhere
  <2>7. CASE \E key \in Keys : uinput_key(key)
    BY <1>3, <2>7, KeyKeeps DEF elsewhere
  <2>8. CASE uinput_copies
    BY <1>3, <2>8, CopyKeeps DEF elsewhere
  <2> QED
    BY <1>3, <2>1, <2>2, <2>3, <2>4, <2>5, <2>6, <2>7, <2>8 DEF elsewhere
<1>4. CASE spin \/ UNCHANGED textvars
  <2>1. UNCHANGED <<line, ram, strmem, sym, count, size, screen, call, typed, answer, asked, image>>
    BY <1>4 DEF spin, textvars, uservars
  <2> QED
    BY <2>1 DEF TextInv, Typed, Loaded, Blank, Printing, Typing, Compared
<1> QED
  BY <1>1, <1>2, <1>3, <1>4 DEF TextNext

\* The invariant of Text.
LEMMA TextInvariant == TextSpec => []TextInv
<1>1. TextInit => TextInv
  BY TextInitial
<1> QED
  BY <1>1, TextStep, PTL DEF TextSpec

------------------------------------------------------------------------------
(* The theorems.                                                           *)

\* Every text that write(), puts() or putchar() takes is on the screen when
\* the program goes on, whole up to its NUL and with nothing after it;
\* terminal reads past its page only behind a text that fills the page.
THEOREM WritesAreShown == TextSpec => []WritesShow
<1>1. TextInv => WritesShow
  BY Layout DEF TextInv, Printing, Typed, WritesShow, Holds
<1> QED
  BY <1>1, TextInvariant, PTL

\* Every line that is read is in the program's page as it was typed, with a
\* NUL after it that is within the page.
THEOREM LinesAreRead == TextSpec => []LinesArrive
<1>1. TextInv => LinesArrive
  <2> SUFFICES ASSUME TextInv, line = "program", call = "read"
               PROVE  /\ \A j \in DOMAIN typed : ram[CLIENT + j - 1] = typed[j]
                      /\ ram[CLIENT + Len(typed)] = NUL
                      /\ ram[CLIENT + PGSIZE - 1] = NUL
    BY DEF LinesArrive
  <2>1. DOMAIN typed = 1 .. Len(typed)
    BY DEF TextInv, Typed
  <2> QED
    BY <2>1 DEF TextInv, Typing
<1> QED
  BY <1>1, TextInvariant, PTL

\* Nothing of an earlier call is left in a page that the next call copies
\* from, and no call changes the page that has the program and its stack.
THEOREM PagesAreCleaned == TextSpec => []PagesClean
<1>1. TextInv => PagesClean
  <2> SUFFICES ASSUME TextInv, line = "program"
               PROVE  /\ page(ram, terminal) = Clean
                      /\ page(ram, uinput) \in {Clean, [j \in 0 .. PGSIZE - 1 |-> JUNK]}
                      /\ call = "write" /\ asked # <<>> => page(ram, CLIENT) = Clean
                      /\ page(ram, DATA) = image
    BY DEF PagesClean
  <2>1. ASSUME NEW a, NEW c, \A j \in Places : ram[a + j] = c
        PROVE  page(ram, a) = [j \in 0 .. PGSIZE - 1 |-> c]
    BY <2>1 DEF page, Places
  <2>2. Clean = [j \in 0 .. PGSIZE - 1 |-> NUL]
    BY DEF Clean
  <2>3. page(ram, terminal) = Clean
    BY <2>1, <2>2 DEF TextInv, Blank
  <2>4. page(ram, uinput) \in {Clean, [j \in 0 .. PGSIZE - 1 |-> JUNK]}
    <3>1. \/ \A j \in Places : ram[uinput + j] = NUL
          \/ \A j \in Places : ram[uinput + j] = JUNK
      BY DEF TextInv, Blank
    <3>2. \/ page(ram, uinput) = [j \in 0 .. PGSIZE - 1 |-> NUL]
          \/ page(ram, uinput) = [j \in 0 .. PGSIZE - 1 |-> JUNK]
      BY <2>1, <3>1, ZenonT(60)
    <3> QED
      BY <2>2, <3>2
  <2>5. call = "write" /\ asked # <<>> => page(ram, CLIENT) = Clean
    BY <2>1, <2>2, ZenonT(60) DEF TextInv, Blank
  <2>6. page(ram, DATA) = image
    BY DEF TextInv, Loaded, page, Places
  <2> QED
    BY <2>3, <2>4, <2>5, <2>6
<1> QED
  BY <1>1, TextInvariant, PTL

\* strcmp() tells the shell that a command was typed exactly when it was.
THEOREM CommandsAreKnown == TextSpec => []ComparesLine
<1>1. TextInv => ComparesLine
  <2> SUFFICES ASSUME TextInv, answer # <<>>
               PROVE  LET end == SelectInSeq(Append(typed, NUL), LAMBDA c : c = NUL)
                      IN  answer[2] = 0 <=> answer[1] = SubSeq(typed, 1, end - 1)
    BY DEF ComparesLine
  <2> DEFINE typed0 == Append(typed, NUL)
             I == {k \in 1 .. Len(typed0) : typed0[k] = NUL}
             end == SelectInSeq(typed0, LAMBDA c : c = NUL)
             word == SubSeq(typed, 1, end - 1)
  <2>1. /\ typed \in Seq(Chars) /\ Len(typed) \in Nat /\ Len(typed) < PGSIZE
        /\ \A j \in 1 .. Len(typed) : ram[CLIENT + j - 1] = typed[j]
        /\ ram[CLIENT + Len(typed)] = NUL
    BY DEF TextInv, Typed, Typing, Compared
  <2>2. PICK c \in Commands : answer = <<c, strcmp(c, ram, CLIENT)>>
    BY DEF TextInv, Compared
  <2>3. /\ c \in Seq(Chars) /\ Len(c) \in Nat
        /\ \A j \in 1 .. Len(c) : c[j] # NUL
    BY TextAssumption
  <2>4. /\ Len(typed0) = Len(typed) + 1 /\ typed0[Len(typed) + 1] = NUL
        /\ \A j \in 1 .. Len(typed) : typed0[j] = typed[j]
    BY <2>1, Layout
  <2> HIDE DEF typed0
  <2>5. end \in I /\ \A k \in I : end <= k
    <3>1. I \in SUBSET Nat /\ Len(typed) + 1 \in I
      BY <2>1, <2>4
    <3>2. end = Min(I)
      BY <3>1 DEF SelectInSeq
    <3> HIDE DEF I
    <3>3. \E x \in I : \A y \in I : x <= y
      BY <3>1, Least
    <3> QED
      BY <3>2, <3>3 DEF Min
  <2> HIDE DEF end
  <2>6. /\ end \in Nat /\ 1 <= end /\ end <= Len(typed) + 1
        /\ typed0[end] = NUL
        /\ \A k \in 1 .. end - 1 : typed0[k] # NUL
    <3>1. ASSUME NEW k \in 1 .. end - 1
          PROVE  typed0[k] # NUL
      BY <2>1, <2>4, <2>5
    <3> QED
      BY <2>1, <2>4, <2>5, <3>1
  <2>7. ASSUME NEW k \in 1 .. Len(typed) + 1
        PROVE  ram[k - 1] = typed0[k]
    <3>1. CASE k = Len(typed) + 1
      <4>1. k - 1 = CLIENT + Len(typed)
        BY <2>1, <3>1, Layout
      <4> QED
        BY <2>1, <2>4, <3>1, <4>1
    <3>2. CASE k # Len(typed) + 1
      <4>1. k \in 1 .. Len(typed) /\ k - 1 = CLIENT + k - 1
        BY <2>1, <3>2, Layout
      <4> QED
        BY <2>1, <2>4, <4>1
    <3> QED
      BY <3>1, <3>2
  <2>8. /\ word \in Seq(Chars) /\ Len(word) = end - 1
        /\ \A k \in 1 .. end - 1 : word[k] = typed0[k]
    <3>1. ASSUME NEW k \in 1 .. end - 1
          PROVE  typed[k] \in Chars /\ typed[k] = typed0[k]
      <4>1. k \in 1 .. Len(typed)
        BY <2>1, <2>6
      <4> QED
        BY <2>1, <2>4, <4>1
    <3> QED
      BY <2>1, <2>6, <3>1, SubSeqProperties
  <2> HIDE DEF word
  <2>9. answer[2] = 0 <=> \A j \in 0 .. Len(c) : ram[j] = At(c, j)
    BY <2>2, Layout DEF strcmp
  <2>10. ASSUME c = word
         PROVE  \A j \in 0 .. Len(c) : ram[j] = At(c, j)
    <3>1. ASSUME NEW j \in 0 .. Len(c)
          PROVE  ram[j] = At(c, j)
      <4>1. j + 1 \in 1 .. Len(typed) + 1 /\ j + 1 - 1 = j /\ j + 1 \in 1..end
        BY <2>1, <2>6, <2>8, <2>10
      <4>2. ram[j] = typed0[j + 1]
        BY <2>7, <4>1
      <4>3. CASE j < Len(c)
        BY <2>8, <2>10, <4>1, <4>2, <4>3 DEF At
      <4>4. CASE ~ (j < Len(c))
        BY <2>6, <2>8, <2>10, <4>1, <4>2, <4>4 DEF At
      <4> QED
        BY <4>3, <4>4
    <3> QED
      BY <3>1
  <2>11. ASSUME \A j \in 0 .. Len(c) : ram[j] = At(c, j)
         PROVE  c = word
    <3>1. \A j \in 0 .. Len(c) - 1 : ram[j] = c[j + 1] /\ c[j + 1] # NUL
      BY <2>3, <2>11 DEF At
    <3>2. ram[Len(c)] = NUL
      BY <2>3, <2>11 DEF At
    <3>3. ~ (Len(c) < end - 1)
      <4>1. SUFFICES ASSUME Len(c) < end - 1
                     PROVE  FALSE
        OBVIOUS
      <4>2. /\ Len(c) + 1 \in 1 .. Len(typed) + 1 /\ Len(c) + 1 \in 1 .. end - 1
            /\ Len(c) + 1 - 1 = Len(c)
        BY <2>1, <2>3, <2>6, <4>1
      <4> QED
        BY <2>6, <2>7, <3>2, <4>2
    <3>4. ~ (Len(c) > end - 1)
      <4>1. SUFFICES ASSUME Len(c) > end - 1
                     PROVE  FALSE
        OBVIOUS
      <4>2. end - 1 \in 0 .. Len(c) - 1 /\ end \in 1 .. Len(typed) + 1
        BY <2>1, <2>3, <2>6, <4>1
      <4> QED
        BY <2>6, <2>7, <3>1, <4>2
    <3>5. Len(c) = end - 1
      BY <2>3, <2>6, <3>3, <3>4
    <3>6. ASSUME NEW k \in 1 .. Len(c)
          PROVE  c[k] = word[k]
      <4>1. k - 1 \in 0 .. Len(c) - 1 /\ k \in 1 .. Len(typed) + 1 /\ k \in 1 .. end - 1
            /\ k - 1 + 1 = k
        BY <2>1, <2>3, <2>6, <3>5
      <4> QED
        BY <2>7, <2>8, <3>1, <4>1
    <3> QED
      BY <2>3, <2>8, <3>5, <3>6, SeqEqual
  <2>12. answer[1] = c
    BY <2>2
  <2> QED
    BY <2>9, <2>10, <2>11, <2>12 DEF word, end, typed0
<1> QED
  BY <1>1, TextInvariant, PTL
------------------------------------------------------------------------------
(* printf().                                                               *)

\* What FlattenSeq() is: sequences one after the other.
Adding(h, ss, n) == h[1] = ss[1] /\ \A j \in 1 .. n - 1 : h[j + 1] = h[j] \o ss[j + 1]
LEMMA Flattened ==
  ASSUME NEW S, NEW n \in Nat, n # 0, NEW ss \in [1..n -> Seq(S)]
  PROVE  \E h \in [1..n -> Seq(S)] : Adding(h, ss, n) /\ FlattenSeq(ss) = h[n]
<1> DEFINE eq(f) == f = [j \in 1..n |-> IF j = 1 THEN ss[j] ELSE f[j - 1] \o ss[j]]
           h == CHOOSE f : eq(f)
           g == [y \in Nat \X Seq(S) |-> IF y[1] \in 1 .. n - 1 THEN y[2] \o ss[y[1] + 1] ELSE y[2]]
<1>1. ss \in Seq(Seq(S)) /\ Len(ss) = n
  OBVIOUS
<1>2. FlattenSeq(ss) = h[n]
  <2>1. FlattenSeq(ss) = IF Len(ss) = 0 THEN ss ELSE h[n]
    BY <1>1 DEF FlattenSeq
  <2> QED
    BY <1>1, <2>1
<1>3. n - 1 \in Nat /\ 1 \in 1..n /\ ss[1] \in Seq(S)
  OBVIOUS
<1>4. g \in [Nat \X Seq(S) -> Seq(S)]
  <2>1. ASSUME NEW y \in Nat \X Seq(S), y[1] \in 1 .. n - 1
        PROVE  y[2] \o ss[y[1] + 1] \in Seq(S)
    <3>1. y[1] + 1 \in 1..n /\ y[2] \in Seq(S)
      BY <2>1
    <3> QED
      BY <3>1
  <2> QED
    BY <2>1
<1> DEFINE base == ss[1]
           m == n - 1
<1>5. PICK d : d \in Recursive(m, Seq(S), base, g)
  <2> HIDE DEF g, base, m
  <2>1. Recursive(m, Seq(S), base, g) # {}
    <3>1. m \in Nat /\ base \in Seq(S)
      BY <1>3 DEF m, base
    <3> QED
      BY <1>4, <3>1, Recursion
  <2> QED
    BY <2>1
<1>6. d \in [0..m -> Seq(S)] /\ d[0] = ss[1] /\ \A j \in 1..m : d[j] = g[<<j, d[j - 1]>>]
  BY <1>5 DEF Recursive
<1>7. ASSUME NEW j \in 1..m
      PROVE  d[j] = d[j - 1] \o ss[j + 1]
  <2>1. <<j, d[j - 1]>> \in Nat \X Seq(S) /\ j \in 1 .. n - 1
    BY <1>6
  <2> QED
    BY <1>6, <2>1
<1> DEFINE e == [j \in 1..n |-> d[j - 1]]
<1>8. eq(e)
  <2>1. ASSUME NEW j \in 1..n
        PROVE  d[j - 1] = IF j = 1 THEN ss[j] ELSE e[j - 1] \o ss[j]
    <3>1. CASE j = 1
      BY <1>6, <3>1
    <3>2. CASE j # 1
      <4>1. j - 1 \in 1..m /\ j - 1 \in 1..n /\ (j - 1) + 1 = j
        BY <3>2
      <4>2. e[j - 1] = d[(j - 1) - 1]
        BY <4>1
      <4> QED
        BY <1>7, <3>2, <4>1, <4>2
    <3> QED
      BY <3>1, <3>2
  <2> QED
    BY <2>1
<1>9. eq(h)
  BY <1>8
<1> HIDE DEF h
<1>10. ASSUME NEW j \in 1 .. n - 1
       PROVE  h[j + 1] = h[j] \o ss[j + 1]
  <2>1. j + 1 \in 1..n /\ j + 1 # 1 /\ (j + 1) - 1 = j
    OBVIOUS
  <2> QED
    BY <1>9, <2>1
<1> DEFINE A == {j \in 0..m : h[j + 1] \in Seq(S)}
<1>11. 0 \in A
  <2>1. h[1] = ss[1]
    BY <1>3, <1>9
  <2> QED
    BY <1>3, <2>1
<1>12. ASSUME NEW j \in 1..m, j - 1 \in A
       PROVE  j \in A
  <2>1. j \in 1 .. n - 1 /\ j + 1 \in 1..n /\ (j - 1) + 1 = j
    BY <1>3
  <2>2. h[j] \in Seq(S) /\ ss[j + 1] \in Seq(S)
    BY <1>12, <2>1
  <2>3. h[j] \o ss[j + 1] \in Seq(S)
    BY <2>2
  <2>4. h[j + 1] = h[j] \o ss[j + 1] /\ j \in 0..m
    <3>1. j \in 0..m
      OBVIOUS
    <3> HIDE DEF m
    <3> QED
      BY <1>10, <2>1, <3>1
  <2>5. h[j + 1] \in Seq(S) /\ j \in 0..m
    BY <2>3, <2>4
  <2> QED
    BY <2>5
<1> HIDE DEF A
<1>13. \A j \in 0..m : j \in A
  <2>1. m \in Nat /\ \A j \in 1..m : j - 1 \in A => j \in A
    BY <1>3, <1>12
  <2> HIDE DEF m
  <2> QED
    BY <1>11, <2>1, UpTo
<1>14. ASSUME NEW j \in 1..n
       PROVE  h[j] \in Seq(S)
  <2>1. j - 1 \in 0..m /\ (j - 1) + 1 = j
    OBVIOUS
  <2>2. j - 1 \in A
    BY <1>13, <2>1
  <2> QED
    BY <2>1, <2>2 DEF A
<1>15. h \in [1..n -> Seq(S)] /\ h[1] = ss[1]
  <2>1. h = [j \in 1..n |-> h[j]]
    BY <1>9, Zenon
  <2>2. 1 \in 1..n
    BY <1>3
  <2> QED
    BY <1>9, <1>14, <2>1, <2>2
<1>16. Adding(h, ss, n)
  BY <1>10, <1>15 DEF Adding
<1> QED
  BY <1>2, <1>15, <1>16

\* What is left of n sequences ss after each of them.
Tails(e, ss, n, S) ==
  e \in [0..n -> Seq(S)] /\ e[n] = <<>> /\ \A j \in 1..n : e[j - 1] = ss[j] \o e[j]

LEMMA TailsExist ==
  ASSUME NEW S, NEW n \in Nat, NEW ss \in [1..n -> Seq(S)]
  PROVE  \E e : Tails(e, ss, n, S)
<1> DEFINE g == [y \in Nat \X Seq(S) |-> IF y[1] \in 1..n THEN ss[(n - y[1]) + 1] \o y[2] ELSE y[2]]
<1>1. g \in [Nat \X Seq(S) -> Seq(S)]
  <2>1. ASSUME NEW y \in Nat \X Seq(S), y[1] \in 1..n
        PROVE  ss[(n - y[1]) + 1] \o y[2] \in Seq(S)
    <3>1. (n - y[1]) + 1 \in 1..n /\ y[2] \in Seq(S)
      BY <2>1
    <3> QED
      BY <3>1
  <2> QED
    BY <2>1
<1>2. ASSUME NEW k \in 1..n, NEW y \in Seq(S)
      PROVE  g[<<k, y>>] = ss[(n - k) + 1] \o y
  <2>1. <<k, y>> \in Nat \X Seq(S)
    OBVIOUS
  <2> QED
    BY <2>1
<1> HIDE DEF g
<1>3. PICK f \in [0..n -> Seq(S)] : f[0] = <<>> /\ \A k \in 1..n : f[k] = g[<<k, f[k - 1]>>]
  <2> DEFINE base == <<>>
  <2>1. base \in Seq(S)
    OBVIOUS
  <2> HIDE DEF base
  <2>2. Recursive(n, Seq(S), base, g) # {}
    BY <1>1, <2>1, Recursion
  <2> QED
    BY <2>2 DEF Recursive, base
<1> DEFINE e == [j \in 0..n |-> f[n - j]]
<1>4. e \in [0..n -> Seq(S)] /\ e[n] = <<>>
  <2>1. n - n = 0 /\ n \in 0..n /\ \A j \in 0..n : n - j \in 0..n
    OBVIOUS
  <2> QED
    BY <1>3, <2>1
<1>5. ASSUME NEW j \in 1..n
      PROVE  e[j - 1] = ss[j] \o e[j]
  <2> DEFINE k == n - (j - 1)
  <2>1. k \in 1..n /\ k - 1 = n - j /\ (n - k) + 1 = j /\ k - 1 \in 0..n /\ j - 1 \in 0..n /\ j \in 0..n
    OBVIOUS
  <2>2. e[j - 1] = f[k] /\ e[j] = f[k - 1]
    BY <2>1
  <2> HIDE DEF k, e
  <2>3. f[k] = g[<<k, f[k - 1]>>] /\ f[k - 1] \in Seq(S)
    BY <1>3, <2>1
  <2>4. g[<<k, f[k - 1]>>] = ss[(n - k) + 1] \o f[k - 1]
    BY <1>2, <2>1, <2>3
  <2> QED
    BY <2>1, <2>2, <2>3, <2>4
<1> HIDE DEF e
<1> QED
  BY <1>4, <1>5 DEF Tails

\* All that is left before the first is what FlattenSeq() makes of them.
LEMMA TailsFlat ==
  ASSUME NEW S, NEW n \in Nat, NEW ss \in [1..n -> Seq(S)], NEW e, Tails(e, ss, n, S)
  PROVE  e[0] = FlattenSeq(ss)
<1>1. /\ e \in [0..n -> Seq(S)] /\ e[n] = <<>> /\ \A j \in 1..n : e[j - 1] = ss[j] \o e[j]
  BY DEF Tails
<1>2. ss \in Seq(Seq(S)) /\ Len(ss) = n
  OBVIOUS
<1>3. CASE n = 0
  <2>1. ss = <<>> /\ e[0] = <<>>
    BY <1>1, <1>2, <1>3
  <2> QED
    BY <1>2, <1>3, <2>1 DEF FlattenSeq
<1>4. CASE n # 0
  <2>7. PICK h \in [1..n -> Seq(S)] : Adding(h, ss, n) /\ FlattenSeq(ss) = h[n]
    BY <1>4, Flattened, Zenon
  <2>1. /\ h \in [1..n -> Seq(S)] /\ h[1] = ss[1] /\ FlattenSeq(ss) = h[n]
        /\ \A j \in 1 .. n - 1 : h[j + 1] = h[j] \o ss[j + 1]
    BY <2>7 DEF Adding
  <2> DEFINE A == {k \in 0 .. n - 1 : h[n - k] \o e[n - k] = h[n]}
  <2>2. 0 \in A
    <3>1. h[n] \in Seq(S) /\ n - 0 = n /\ 0 \in 0 .. n - 1
      BY <1>4, <2>1
    <3>2. h[n] \o <<>> = h[n]
      BY <3>1, ConcatEmptySeq
    <3> QED
      BY <1>1, <3>1, <3>2
  <2>3. ASSUME NEW k \in 1 .. n - 1, k - 1 \in A
        PROVE  k \in A
    <3> DEFINE j == n - k
    <3>1. j \in 1 .. n - 1 /\ j \in 1..n /\ j + 1 \in 1..n /\ (j + 1) - 1 = j /\ n - (k - 1) = j + 1
          /\ k \in 0 .. n - 1 /\ j \in 0..n /\ j + 1 \in 0..n
      BY <1>4
    <3>2. h[j + 1] \o e[j + 1] = h[n]
      BY <2>3, <3>1
    <3> HIDE DEF j
    <3>3. h[j + 1] = h[j] \o ss[j + 1] /\ e[j] = ss[j + 1] \o e[j + 1]
      BY <1>1, <2>1, <3>1
    <3>4. h[j] \in Seq(S) /\ ss[j + 1] \in Seq(S) /\ e[j + 1] \in Seq(S)
      BY <1>1, <2>1, <3>1
    <3>5. (h[j] \o ss[j + 1]) \o e[j + 1] = h[j] \o (ss[j + 1] \o e[j + 1])
      <4> DEFINE x == h[j]
                 y == ss[j + 1]
                 z == e[j + 1]
      <4>1. x \in Seq(S) /\ y \in Seq(S) /\ z \in Seq(S)
        BY <3>4
      <4> HIDE DEF x, y, z
      <4>2. (x \o y) \o z = x \o (y \o z)
        BY <4>1, ConcatAssociative
      <4> QED
        BY <4>2 DEF x, y, z
    <3>6. h[j] \o e[j] = h[n]
      BY <3>2, <3>3, <3>5
    <3> QED
      BY <3>1, <3>6 DEF j
  <2> HIDE DEF A
  <2>4. n - 1 \in A
    <3>1. n - 1 \in Nat
      BY <1>4
    <3> DEFINE m == n - 1
    <3>2. m \in Nat /\ \A k \in 1..m : k - 1 \in A => k \in A
      BY <2>3, <3>1
    <3> HIDE DEF m
    <3>3. \A k \in 0..m : k \in A
      BY <2>2, <3>2, UpTo
    <3> QED
      BY <3>2, <3>3 DEF m
  <2>5. h[1] \o e[1] = h[n]
    <3>1. n - (n - 1) = 1
      OBVIOUS
    <3>2. h[n - (n - 1)] \o e[n - (n - 1)] = h[n]
      BY <2>4 DEF A
    <3> QED
      BY <3>1, <3>2, Zenon
  <2>6. e[0] = ss[1] \o e[1]
    <3>1. 1 \in 1..n /\ 1 - 1 = 0
      BY <1>4
    <3> QED
      BY <1>1, <3>1
  <2> QED
    BY <2>1, <2>5, <2>6
<1> QED
  BY <1>3, <1>4

\* Sequences one after the other are a sequence.
LEMMA Flat ==
  ASSUME NEW S, NEW n \in Nat, NEW ss \in [1..n -> Seq(S)]
  PROVE  FlattenSeq(ss) \in Seq(S)
<1>1. PICK e : Tails(e, ss, n, S)
  BY TailsExist
<1>2. e[0] = FlattenSeq(ss)
  BY <1>1, TailsFlat
<1>3. e[0] \in Seq(S)
  <2>1. 0 \in 0..n
    OBVIOUS
  <2> QED
    BY <1>1, <2>1 DEF Tails
<1> QED
  BY <1>2, <1>3

\* A conversion takes no character that is not there.
LEMMA ConversionFits ==
  ASSUME NEW c0, NEW c1, NEW c2, NEW a, c0 # NUL
  PROVE  LET s == conversion(c0, c1, c2, a).skip
         IN  s = 0 \/ (s = 1 /\ c1 # NUL) \/ (s = 2 /\ c2 # NUL)
<1> DEFINE l == ells(c0, c1)
           c == <<c0, c1, c2>>[l + 1]
           s == conversion(c0, c1, c2, a).skip
<1>1. l \in {0, 1, 2} /\ (l = 1 => c = c1) /\ (l = 2 => c = c2)
  BY DEF ells
<1> DEFINE one == IF l = 0 THEN INT ELSE LONG
           r(n, t, o) == [skip |-> n, takes |-> t, out |-> o]
           v1 == r(l, TRUE, number(c, one, a.n))
           v2 == r(0, TRUE, printptr(a.n))
           v3 == r(0, TRUE, putchar(a.c))
           v4 == r(0, TRUE, put(IF a.s = NULL THEN <<"(", "n", "u", "l", "l", ")">> ELSE a.s))
           v5 == r(0, FALSE, <<"%">>)
           v6 == r(0, FALSE, <<"%">> \o putchar(c0))
           v == CASE c \in {"d", "u", "x"} -> v1
                  [] c0 = "p" -> v2
                  [] c0 = "c" -> v3
                  [] c0 = "s" -> v4
                  [] c0 = "%" -> v5
                  [] OTHER -> v6
<1>2. conversion(c0, c1, c2, a) = v
  BY Zenon DEF conversion
<1>3. v1.skip = l /\ v2.skip = 0 /\ v3.skip = 0 /\ v4.skip = 0 /\ v5.skip = 0 /\ v6.skip = 0
  OBVIOUS
<1> HIDE DEF v1, v2, v3, v4, v5, v6
<1>4. \/ v = v1 /\ c \in {"d", "u", "x"}
      \/ v \in {v2, v3, v4, v5, v6}
  OBVIOUS
<1> HIDE DEF l, c, v
<1>5. s = 0 \/ (s = l /\ c \in {"d", "u", "x"})
  BY <1>2, <1>3, <1>4
<1> HIDE DEF s
<1>6. c \in {"d", "u", "x"} => c # NUL
  BY DEF NUL
<1> QED
  BY <1>1, <1>5, <1>6 DEF s

\* printf() stays within its format.
FormatOK == fmt \in Seq(STRING) /\ i \in 0 .. Len(fmt)

LEMMA FormatInitial == TextInit => FormatOK
<1> SUFFICES ASSUME TextInit
             PROVE  FormatOK
  OBVIOUS
<1>1. PICK n \in 1..PIECES : pieces \in [1..n -> Pieces]
  BY DEF TextInit
<1>2. \A j \in 1..n : pieces[j].fmt \in Seq(STRING)
  BY <1>1, TextAssumption
<1>3. [j \in DOMAIN pieces |-> pieces[j].fmt] \in [1..n -> Seq(STRING)] /\ n \in Nat
  BY <1>1, <1>2, TextAssumption
<1>4. fmt \in Seq(STRING)
  BY <1>3, Flat DEF fmt
<1> QED
  BY <1>4 DEF FormatOK, TextInit

LEMMA FormatStep == FormatOK /\ [TextNext]_textvars => FormatOK'
<1> SUFFICES ASSUME FormatOK, [TextNext]_textvars
             PROVE  FormatOK'
  OBVIOUS
<1>1. fmt \in Seq(STRING) /\ i \in 0 .. Len(fmt) /\ Len(fmt) \in Nat
  BY DEF FormatOK
<1>2. CASE printf
  <2> DEFINE cx == At(fmt, i)
             c0 == At(fmt, i + 1)
             c1 == IF c0 = NUL THEN NUL ELSE At(fmt, i + 2)
             c2 == IF c1 = NUL THEN NUL ELSE At(fmt, i + 3)
             a == IF ap = <<>> THEN [n |-> 0] ELSE Head(ap)
             s == conversion(c0, c1, c2, a).skip
  <2>1. pieces' = pieces
    BY <1>2 DEF printf
  <2>2. fmt' = fmt
    BY <2>1 DEF fmt
  <2>3. \/ cx # NUL /\ i' = i + 1
        \/ c0 # NUL /\ i' = i + 2 + s
        \/ i' = i
    BY <1>2 DEF printf
  <2>4. c0 # NUL => s = 0 \/ (s = 1 /\ c1 # NUL) \/ (s = 2 /\ c2 # NUL)
    BY ConversionFits
  <2>5. /\ cx # NUL => i < Len(fmt)
        /\ c0 # NUL => i + 1 < Len(fmt)
        /\ c1 # NUL => i + 2 < Len(fmt)
        /\ c2 # NUL => i + 3 < Len(fmt)
    BY <1>1 DEF At
  <2> HIDE DEF cx, c0, c1, c2, s
  <2>6. i' \in 0 .. Len(fmt)
    BY <1>1, <2>3, <2>4, <2>5
  <2> QED
    BY <1>1, <2>2, <2>6 DEF FormatOK
<1>3. CASE proc_born
  <2>1. pieces' = <<>> /\ i' = 0
    BY <1>3 DEF proc_born
  <2> DEFINE none == [j \in DOMAIN <<>> |-> <<>>[j].fmt]
  <2>2. FlattenSeq(none) \in Seq(STRING)
    <3>1. none \in [1..0 -> Seq(STRING)] /\ 0 \in Nat
      OBVIOUS
    <3> HIDE DEF none
    <3> QED
      BY <3>1, Flat
  <2>3. fmt' \in Seq(STRING)
    BY <2>1, <2>2 DEF fmt
  <2> QED
    BY <2>1, <2>3 DEF FormatOK
<1>4. ASSUME UNCHANGED kernelvars
      PROVE  FormatOK'
  BY <1>1, <1>4 DEF kernelvars, FormatOK, fmt
<1>5. CASE UNCHANGED textvars
  BY <1>4, <1>5 DEF textvars
<1>6. CASE Write
  BY <1>4, <1>6 DEF Write, puts, putchar_user, write_data, write, ends
<1>7. CASE Read
  BY <1>4, <1>7 DEF Read, getchar, gets, read, ends
<1>8. CASE \E c \in Commands : shell_strcmp(c)
  BY <1>4, <1>8 DEF shell_strcmp
<1>9. CASE terminal_prints \/ terminal_clears
  BY <1>4, <1>9 DEF terminal_prints, terminal_clears
<1>10. CASE (\E key \in Keys : uinput_key(key)) \/ uinput_copies
  BY <1>4, <1>10 DEF uinput_key, uinput_copies
<1>11. CASE spin
  BY <1>4, <1>11 DEF spin, textvars
<1>12. CASE \E j \in Stores, c \in Keys : store(j, c)
  BY <1>4, <1>12 DEF store
<1> QED
  BY <1>2, <1>3, <1>5, <1>6, <1>7, <1>8, <1>9, <1>10, <1>11, <1>12 DEF TextNext, elsewhere

\* printf() stays within its format, and the pointers of terminal and uinput
\* within their pages (common.c, terminal.c, uinput.c).
THEOREM TextTyping == TextSpec => []TextTypeOK
<1>1. FormatOK /\ TextInv => TextTypeOK
  BY DEF FormatOK, TextInv, Typed, TextTypeOK, Addrs, Places
<1> QED
  BY <1>1, TextInvariant, FormatInitial, FormatStep, PTL DEF TextSpec

------------------------------------------------------------------------------
(* What printf() prints.                                                   *)

------------------------------------------------------------------------------
(* Numbers as printint() and printptr() print them.                        *)

Bases == {10, 16}

\* What two() and quotients() are.
LEMMA TwoIs ==
  ASSUME NEW n \in Nat
  PROVE  \E p \in [0..n -> Nat] : /\ p[0] = 1 /\ \A j \in 1..n : p[j] = 2 * p[j - 1]
                                  /\ two(n) = p[n]
<1> DEFINE g == [x \in Nat \X Nat |-> 2 * x[2]]
<1>1. g \in [Nat \X Nat -> Nat] /\ \A i1, x \in Nat : g[<<i1, x>>] = 2 * x
  OBVIOUS
<1> HIDE DEF g
<1>2. PICK f \in [0..n -> Nat] : f[0] = 1 /\ \A j \in 1..n : f[j] = g[<<j, f[j - 1]>>]
  <2>1. Recursive(n, Nat, 1, g) # {}
    BY <1>1, Recursion
  <2> QED
    BY <2>1 DEF Recursive
<1>3. ASSUME NEW j \in 1..n
      PROVE  f[j] = 2 * f[j - 1]
  <2>1. f[j - 1] \in Nat /\ j \in Nat
    BY <1>2
  <2> QED
    BY <1>1, <1>2, <2>1
<1> DEFINE Body(h) == [j \in 0..n |-> IF j = 0 THEN 1 ELSE 2 * h[j - 1]]
           p == CHOOSE h : h = Body(h)
<1>4. f = Body(f)
  BY <1>2, <1>3
<1>5. p = Body(p)
  <2> HIDE DEF Body
  <2> QED
    BY <1>4, Zenon
<1>6. two(n) = p[n]
  BY DEF two
<1> HIDE DEF p
<1>7. p[0] = 1 /\ \A j \in 1..n : p[j] = 2 * p[j - 1]
  BY <1>5
<1>8. \A j \in 0..n : p[j] \in Nat
  <2> DEFINE A == {j \in 0..n : p[j] \in Nat}
  <2>1. 0 \in A
    BY <1>7
  <2>2. \A j \in 1..n : j - 1 \in A => j \in A
    BY <1>7
  <2> HIDE DEF A
  <2>3. \A j \in 0..n : j \in A
    BY <2>1, <2>2, UpTo
  <2> QED
    BY <2>3 DEF A
<1>9. p \in [0..n -> Nat]
  BY <1>5, <1>8
<1> QED
  BY <1>6, <1>7, <1>9

LEMMA QuotientsAre ==
  ASSUME NEW x \in Nat, NEW base \in Bases, NEW n \in Nat
  PROVE  /\ quotients(x, base, n) \in [0..n -> Nat] /\ quotients(x, base, n)[0] = x
         /\ \A j \in 1..n : quotients(x, base, n)[j] = quotients(x, base, n)[j - 1] \div base
<1> DEFINE g == [y \in Nat \X Nat |-> y[2] \div base]
<1>1. g \in [Nat \X Nat -> Nat] /\ \A i1, y \in Nat : g[<<i1, y>>] = y \div base
  BY DEF Bases
<1> HIDE DEF g
<1>2. PICK f \in [0..n -> Nat] : f[0] = x /\ \A j \in 1..n : f[j] = g[<<j, f[j - 1]>>]
  <2>1. Recursive(n, Nat, x, g) # {}
    BY <1>1, Recursion
  <2> QED
    BY <2>1 DEF Recursive
<1>3. ASSUME NEW j \in 1..n
      PROVE  f[j] = f[j - 1] \div base
  <2>1. f[j - 1] \in Nat /\ j \in Nat
    BY <1>2
  <2> QED
    BY <1>1, <1>2, <2>1
<1> DEFINE Body(h) == [j \in 0..n |-> IF j = 0 THEN x ELSE h[j - 1] \div base]
           q == CHOOSE h : h = Body(h)
<1>4. f = Body(f)
  BY <1>2, <1>3
<1>5. q = Body(q)
  <2> HIDE DEF Body
  <2> QED
    BY <1>4, Zenon
<1>6. quotients(x, base, n) = q
  BY DEF quotients
<1> HIDE DEF q
<1>7. q[0] = x /\ \A j \in 1..n : q[j] = q[j - 1] \div base
  BY <1>5
<1>8. \A j \in 0..n : q[j] \in Nat
  <2> DEFINE A == {j \in 0..n : q[j] \in Nat}
  <2>1. 0 \in A
    BY <1>7
  <2>2. \A j \in 1..n : j - 1 \in A => j \in A
    BY <1>7 DEF Bases
  <2> HIDE DEF A
  <2>3. \A j \in 0..n : j \in A
    BY <2>1, <2>2, UpTo
  <2> QED
    BY <2>3 DEF A
<1>9. q \in [0..n -> Nat]
  BY <1>5, <1>8
<1> QED
  BY <1>6, <1>7, <1>9

\* The powers of two are positive and grow.
LEMMA TwoGrows ==
  ASSUME NEW n \in Nat, NEW m \in 0..n
  PROVE  two(m) \in Nat /\ two(n) \in Nat /\ two(m) > 0 /\ two(m) <= two(n)
<1>0. m \in Nat /\ n - m \in Nat
  OBVIOUS
<1>1. PICK p \in [0..n -> Nat] : /\ p[0] = 1 /\ \A j \in 1..n : p[j] = 2 * p[j - 1]
                                 /\ two(n) = p[n]
  BY TwoIs
<1>2. PICK q \in [0..m -> Nat] : /\ q[0] = 1 /\ \A j \in 1..m : q[j] = 2 * q[j - 1]
                                 /\ two(m) = q[m]
  BY <1>0, TwoIs
<1>3. q[m] = p[m] /\ q[m] > 0
  <2> DEFINE A == {j \in 0..m : q[j] = p[j] /\ q[j] > 0}
  <2>1. 0 \in A
    BY <1>1, <1>2
  <2>2. ASSUME NEW j \in 1..m, j - 1 \in A
        PROVE  j \in A
    <3>1. q[j - 1] = p[j - 1] /\ q[j - 1] > 0 /\ q[j - 1] \in Nat /\ j \in 1..n
      BY <1>2, <2>2
    <3>2. q[j] = 2 * q[j - 1] /\ p[j] = 2 * p[j - 1]
      BY <1>1, <1>2, <3>1
    <3> QED
      BY <3>1, <3>2
  <2> HIDE DEF A
  <2>3. \A j \in 0..m : j \in A
    BY <1>0, <2>1, <2>2, UpTo
  <2> QED
    BY <2>3 DEF A
<1>4. p[m] <= p[n]
  <2> DEFINE A == {k \in 0 .. n - m : p[m] <= p[m + k]}
  <2>1. 0 \in A
    BY <1>1
  <2>2. ASSUME NEW k \in 1 .. n - m, k - 1 \in A
        PROVE  k \in A
    <3>1. m + k \in 1..n /\ (m + k) - 1 = m + (k - 1) /\ m + (k - 1) \in 0..n
      OBVIOUS
    <3>2. p[m + k] = 2 * p[m + (k - 1)] /\ p[m + (k - 1)] \in Nat /\ p[m] \in Nat
      BY <1>1, <3>1
    <3>3. p[m] <= p[m + (k - 1)]
      BY <2>2
    <3> QED
      BY <3>2, <3>3
  <2> HIDE DEF A
  <2>3. \A k \in 0 .. n - m : k \in A
    BY <1>0, <2>1, <2>2, UpTo
  <2>4. n - m \in A
    BY <2>3
  <2> QED
    BY <2>4 DEF A
<1> QED
  BY <1>1, <1>2, <1>3, <1>4

\* What reads() is.
LEMMA ReadsIs ==
  ASSUME NEW n \in Nat, NEW base \in Bases, NEW d \in [1..n -> 0 .. base - 1]
  PROVE  \E r \in [0..n -> Nat] : /\ r[0] = 0 /\ \A j \in 1..n : r[j] = base * r[j - 1] + d[j]
                                  /\ reads(d, base, n) = r[n]
<1> DEFINE g == [x \in Nat \X Nat |-> IF x[1] \in 1..n THEN base * x[2] + d[x[1]] ELSE x[2]]
<1>1. g \in [Nat \X Nat -> Nat] /\ \A i1 \in 1..n, x \in Nat : g[<<i1, x>>] = base * x + d[i1]
  <2>1. \A j \in 1..n : d[j] \in Nat
    OBVIOUS
  <2>2. \A x \in Nat : base * x \in Nat
    BY DEF Bases
  <2> QED
    BY <2>1, <2>2 DEF Bases
<1> HIDE DEF g
<1>2. PICK f \in [0..n -> Nat] : f[0] = 0 /\ \A j \in 1..n : f[j] = g[<<j, f[j - 1]>>]
  <2>1. Recursive(n, Nat, 0, g) # {}
    BY <1>1, Recursion
  <2> QED
    BY <2>1 DEF Recursive
<1>3. ASSUME NEW j \in 1..n
      PROVE  f[j] = base * f[j - 1] + d[j]
  <2>1. f[j - 1] \in Nat /\ j \in Nat
    BY <1>2
  <2> QED
    BY <1>1, <1>2, <2>1
<1> DEFINE Body(h) == [j \in 0..n |-> IF j = 0 THEN 0 ELSE base * h[j - 1] + d[j]]
           r == CHOOSE h : h = Body(h)
<1>4. f = Body(f)
  BY <1>2, <1>3
<1>5. r = Body(r)
  <2> HIDE DEF Body
  <2> QED
    BY <1>4, Zenon
<1>6. reads(d, base, n) = r[n]
  BY DEF reads
<1> HIDE DEF r
<1>7. r[0] = 0 /\ \A j \in 1..n : r[j] = base * r[j - 1] + d[j]
  BY <1>5
<1>8. \A j \in 0..n : r[j] \in Nat
  <2> DEFINE A == {j \in 0..n : r[j] \in Nat}
  <2>1. 0 \in A
    BY <1>7
  <2>2. \A j \in 1..n : j - 1 \in A => j \in A
    BY <1>7 DEF Bases
  <2> HIDE DEF A
  <2>3. \A j \in 0..n : j \in A
    BY <2>1, <2>2, UpTo
  <2> QED
    BY <2>3 DEF A
<1>9. r \in [0..n -> Nat]
  BY <1>5, <1>8
<1> QED
  BY <1>6, <1>7, <1>9

\* A digit at the end of a number.
LEMMA LastDigit ==
  ASSUME NEW x \in Nat, NEW z \in Nat, NEW c \in Nat
  PROVE  /\ c < 10 /\ z = 10 * x + c => z \div 10 = x /\ z % 10 = c
         /\ c < 16 /\ z = 16 * x + c => z \div 16 = x /\ z % 16 = c
OBVIOUS

\* The same for either base.
LEMMA DigitAtEnd ==
  ASSUME NEW base \in Bases, NEW x \in Nat, NEW z \in Nat, NEW c \in 0 .. base - 1,
         z = base * x + c
  PROVE  z \div base = x /\ z % base = c
<1>1. CASE base = 10
  <2>1. c \in Nat /\ c < 10 /\ z = 10 * x + c
    BY <1>1
  <2>2. z \div 10 = x /\ z % 10 = c
    BY <2>1, LastDigit, Zenon
  <2> QED
    BY <1>1, <2>2, Zenon
<1>2. CASE base = 16
  <2>1. c \in Nat /\ c < 16 /\ z = 16 * x + c
    BY <1>2
  <2>2. z \div 16 = x /\ z % 16 = c
    BY <2>1, LastDigit, Zenon
  <2> QED
    BY <1>2, <2>2, Zenon
<1> QED
  BY <1>1, <1>2 DEF Bases

\* A larger base leaves less.
LEMMA LessLeft ==
  ASSUME NEW x \in Nat, NEW y \in Nat, x <= y, NEW base \in Bases
  PROVE  x \div base <= y \div 10
<1> DEFINE q == x \div base
           m == x % base
           u == y \div 10
           w == y % 10
<1>1. q \in Nat /\ m \in 0 .. base - 1 /\ x = q * base + m
  BY Divide DEF Bases
<1>2. u \in Nat /\ w \in 0..9 /\ y = u * 10 + w
  BY Divide
<1> HIDE DEF q, m, u, w
<1>3. q <= u
  <2>1. CASE base = 10
    BY <1>1, <1>2, <2>1
  <2>2. CASE base = 16
    BY <1>1, <1>2, <2>2
  <2> QED
    BY <2>1, <2>2 DEF Bases
<1> QED
  BY <1>3 DEF q, u

\* Dividing a number by the base leads back through its digits, from the last on.
LEMMA DividingReads ==
  ASSUME NEW n \in Nat, NEW base \in Bases, NEW d \in [1..n -> 0 .. base - 1],
         NEW m \in Nat, NEW q \in [0..m -> Nat], q[0] = reads(d, base, n),
         \A j \in 1..m : q[j] = q[j - 1] \div base
  PROVE  \E r \in [0..n -> Nat] :
           /\ r[0] = 0 /\ \A j \in 1..n : r[j] = base * r[j - 1] + d[j]
           /\ \A k \in 0..m : k <= n => q[k] = r[n - k]
           /\ \A k \in 0..m : k < n => d[n - k] = q[k] % base
<1>1. PICK r \in [0..n -> Nat] : /\ r[0] = 0 /\ \A j \in 1..n : r[j] = base * r[j - 1] + d[j]
                                 /\ reads(d, base, n) = r[n]
  BY ReadsIs
<1>2. ASSUME NEW j \in 1..n
      PROVE  r[j] \div base = r[j - 1] /\ r[j] % base = d[j]
  <2>1. r[j] = base * r[j - 1] + d[j] /\ r[j - 1] \in Nat /\ d[j] \in 0 .. base - 1
    BY <1>1
  <2>2. r[j] \in Nat
    BY <1>1
  <2> DEFINE x == r[j - 1]
             z == r[j]
             c == d[j]
  <2>3. x \in Nat /\ z \in Nat /\ c \in 0 .. base - 1 /\ z = base * x + c
    BY <2>1, <2>2
  <2> HIDE DEF x, z, c
  <2>4. z \div base = x /\ z % base = c
    BY <2>3, DigitAtEnd, Zenon
  <2> QED
    BY <2>4 DEF x, z, c
<1>3. \A k \in 0..m : k <= n => q[k] = r[n - k]
  <2> DEFINE A == {k \in 0..m : k <= n => q[k] = r[n - k]}
  <2>1. 0 \in A
    BY <1>1
  <2>2. ASSUME NEW k \in 1..m, k - 1 \in A
        PROVE  k \in A
    <3>1. CASE k <= n
      <4>1. q[k - 1] = r[n - (k - 1)]
        BY <2>2, <3>1
      <4>2. n - (k - 1) \in 1..n /\ (n - (k - 1)) - 1 = n - k
        BY <3>1
      <4>3. r[n - (k - 1)] \div base = r[n - k]
        BY <1>2, <4>2
      <4> QED
        BY <4>1, <4>3
    <3> QED
      BY <3>1
  <2> HIDE DEF A
  <2>3. \A k \in 0..m : k \in A
    BY <2>1, <2>2, UpTo
  <2> QED
    BY <2>3 DEF A
<1>4. ASSUME NEW k \in 0..m, k < n
      PROVE  d[n - k] = q[k] % base
  <2>1. n - k \in 1..n
    BY <1>4
  <2> QED
    BY <1>2, <1>3, <1>4, <2>1
<1> QED
  BY <1>1, <1>3, <1>4

\* A number has no more digits than a larger one has in base 10.
LEMMA FewerDigits ==
  ASSUME NEW x \in Nat, NEW y \in Nat, x <= y, NEW base \in Bases, NEW n \in Nat
  PROVE  \A k \in 0..n : quotients(x, base, n)[k] <= quotients(y, 10, n)[k]
<1> DEFINE q == quotients(x, base, n)
           u == quotients(y, 10, n)
           A == {k \in 0..n : q[k] <= u[k]}
<1>1. /\ q \in [0..n -> Nat] /\ q[0] = x /\ \A j \in 1..n : q[j] = q[j - 1] \div base
      /\ u \in [0..n -> Nat] /\ u[0] = y /\ \A j \in 1..n : u[j] = u[j - 1] \div 10
  <2>1. 10 \in Bases
    BY DEF Bases
  <2>2. /\ quotients(y, 10, n) \in [0..n -> Nat] /\ quotients(y, 10, n)[0] = y
        /\ \A j \in 1..n : quotients(y, 10, n)[j] = quotients(y, 10, n)[j - 1] \div 10
    <3> DEFINE b == 10
    <3>1. b \in Bases
      BY <2>1
    <3> HIDE DEF b
    <3>2. /\ quotients(y, b, n) \in [0..n -> Nat] /\ quotients(y, b, n)[0] = y
          /\ \A j \in 1..n : quotients(y, b, n)[j] = quotients(y, b, n)[j - 1] \div b
      BY <3>1, QuotientsAre, Zenon
    <3> QED
      BY <3>2 DEF b
  <2>3. /\ quotients(x, base, n) \in [0..n -> Nat] /\ quotients(x, base, n)[0] = x
        /\ \A j \in 1..n : quotients(x, base, n)[j] = quotients(x, base, n)[j - 1] \div base
    BY QuotientsAre, Zenon
  <2> QED
    BY <2>2, <2>3, Zenon
<1> HIDE DEF q, u
<1>2. 0 \in A
  BY <1>1
<1>3. ASSUME NEW k \in 1..n, k - 1 \in A
      PROVE  k \in A
  <2>1. q[k - 1] \in Nat /\ u[k - 1] \in Nat /\ q[k - 1] <= u[k - 1]
    BY <1>1, <1>3
  <2>2. q[k] = q[k - 1] \div base /\ u[k] = u[k - 1] \div 10
    BY <1>1
  <2> QED
    BY <2>1, <2>2, LessLeft
<1> HIDE DEF A
<1>4. \A k \in 0..n : k \in A
  BY <1>2, <1>3, UpTo
<1> QED
  BY <1>4 DEF A, q, u

\* printint() prints the numeral of its argument, and buf[] is long enough.
LEMMA PrintintIs ==
  ASSUME NEW base \in Bases, NEW xx \in Int, NEW sign \in BOOLEAN, xx < 0 => sign,
         xx < two(LONG), xx < 0 => -xx <= two(LONG) \div 2,
         NEW out \in Seq(STRING), Numeral(out, xx, base)
  PROVE  printint(xx, base, sign) = out
<1> DEFINE M == two(LONG)
           v == IF xx < 0 THEN -xx ELSE xx
           neg == sign /\ xx < 0
           q == quotients(v, base, BUF)
           minus == IF xx < 0 THEN <<"-">> ELSE <<>>
<1>1. /\ M \in Nat /\ M > 0 /\ BUF \in Nat /\ BUF > 0
      /\ quotients(M - 1, 10, BUF)[BUF] = 0
      /\ quotients(M \div 2, 10, BUF)[BUF - 1] = 0
  <2>1. LONG \in Nat /\ LONG \in 0..LONG
    BY CommonAssumption DEF LONG
  <2>2. M \in Nat /\ M > 0
    BY <2>1, TwoGrows
  <2> QED
    BY <2>2, CommonAssumption
<1> HIDE DEF M
<1>2. /\ v \in Nat /\ v <= M - 1 /\ (xx < 0 => v <= M \div 2 /\ v > 0)
      /\ (IF neg THEN -xx ELSE xx) % M = v
      /\ M - 1 \in Nat /\ M \div 2 \in Nat
  <2>1. v \in Nat /\ (xx < 0 => v <= M \div 2 /\ v > 0)
    BY DEF M
  <2>2. M \div 2 <= M - 1 /\ M - 1 \in Nat /\ M \div 2 \in Nat
    BY <1>1
  <2>3. v <= M - 1
    <3>1. CASE xx < 0
      BY <2>1, <2>2, <3>1
    <3>2. CASE ~ (xx < 0)
      BY <1>1, <3>2 DEF M
    <3> QED
      BY <3>1, <3>2
  <2>4. (IF neg THEN -xx ELSE xx) = v
    OBVIOUS
  <2> HIDE DEF v
  <2>5. v % M = v
    BY <1>1, <2>1, <2>3
  <2> QED
    BY <2>1, <2>2, <2>3, <2>4, <2>5
<1>3. PICK n \in 1 .. Len(out) : \E d \in [1..n -> 0 .. base - 1] :
        /\ d[1] # 0 \/ n = 1
        /\ reads(d, base, n) = v
        /\ out = minus \o Figures(d)
  BY DEF Numeral
<1>4. PICK d \in [1..n -> 0 .. base - 1] :
        /\ d[1] # 0 \/ n = 1
        /\ reads(d, base, n) = v
        /\ out = minus \o Figures(d)
  BY <1>3
<1>5. n \in Nat /\ n > 0
  OBVIOUS
<1>23. (base = 10 \/ base = 16) /\ \A j \in 1..n : d[j] \in Nat /\ d[j] \in 0..15
  <2>1. base = 10 \/ base = 16
    BY DEF Bases
  <2>2. CASE base = 10
    BY <2>2
  <2>3. CASE base = 16
    BY <2>3
  <2> QED
    BY <2>1, <2>2, <2>3
<1>6. neg <=> xx < 0
  OBVIOUS
<1> HIDE DEF v
<1>7. /\ q \in [0..BUF -> Nat] /\ q[0] = v /\ \A j \in 1..BUF : q[j] = q[j - 1] \div base
  <2>1. v \in Nat /\ BUF \in Nat
    BY <1>1, <1>2
  <2> QED
    BY <2>1, QuotientsAre, Zenon
<1>8. q[BUF] = 0 /\ (xx < 0 => q[BUF - 1] = 0)
  <2>1. q[BUF] <= 0
    <3>1. q[BUF] <= quotients(M - 1, 10, BUF)[BUF]
      <4>1. BUF \in 0..BUF
        BY <1>1
      <4> QED
        BY <1>1, <1>2, <4>1, FewerDigits, Zenon
    <3> QED
      BY <1>1, <3>1, Zenon
  <2>2. ASSUME xx < 0
        PROVE  q[BUF - 1] <= 0
    <3>1. q[BUF - 1] <= quotients(M \div 2, 10, BUF)[BUF - 1]
      <4>1. BUF - 1 \in 0..BUF /\ v <= M \div 2
        BY <1>1, <1>2, <2>2
      <4> QED
        BY <1>1, <1>2, <4>1, FewerDigits, Zenon
    <3> QED
      BY <1>1, <3>1, Zenon
  <2>3. q[BUF] \in Nat /\ q[BUF - 1] \in Nat
    BY <1>1, <1>7
  <2> QED
    BY <2>1, <2>2, <2>3
<1> HIDE DEF q
<1>9. PICK r \in [0..n -> Nat] :
        /\ r[0] = 0 /\ \A j \in 1..n : r[j] = base * r[j - 1] + d[j]
        /\ \A k \in 0..BUF : k <= n => q[k] = r[n - k]
        /\ \A k \in 0..BUF : k < n => d[n - k] = q[k] % base
  <2>1. q[0] = reads(d, base, n)
    BY <1>4, <1>7
  <2> QED
    <3>1. /\ n \in Nat /\ BUF \in Nat /\ q \in [0..BUF -> Nat]
          /\ \A j \in 1..BUF : q[j] = q[j - 1] \div base
      BY <1>1, <1>5, <1>7
    <3> QED
      BY <2>1, <3>1, DividingReads, Zenon
<1>24. /\ \A k \in 0..BUF : k <= n => q[k] = r[n - k] /\ r[n - k] \in Nat
       /\ \A k \in 0..BUF : k < n => d[n - k] = q[k] % base
  <2>1. \A k \in 0..BUF : k <= n => n - k \in 0..n
    BY <1>1, <1>5
  <2> QED
    BY <1>9, <2>1, Zenon
<1>10. ASSUME d[1] # 0, NEW j \in 1..n
       PROVE  r[j] > 0
  <2> DEFINE A == {k \in 0 .. n - 1 : r[k + 1] > 0}
  <2>1. 0 \in A
    <3>1. r[1] = base * r[0] + d[1] /\ d[1] \in Nat
      BY <1>5, <1>9 DEF Bases
    <3> QED
      BY <1>5, <1>9, <1>10, <3>1 DEF Bases
  <2>2. ASSUME NEW k \in 1 .. n - 1, k - 1 \in A
        PROVE  k \in A
    <3>1. k + 1 \in 1..n /\ (k + 1) - 1 = k /\ k \in 0..n /\ (k - 1) + 1 = k
      BY <1>5
    <3>2. r[k + 1] = base * r[k] + d[k + 1] /\ d[k + 1] \in Nat /\ r[k] \in Nat
      BY <1>9, <1>23, <3>1, Zenon
    <3>3. r[k] > 0
      BY <2>2, <3>1
    <3>4. CASE base = 10
      BY <3>1, <3>2, <3>3, <3>4
    <3>5. CASE base = 16
      BY <3>1, <3>2, <3>3, <3>5
    <3> QED
      BY <1>23, <3>4, <3>5
  <2> HIDE DEF A
  <2>3. n - 1 \in Nat
    BY <1>5
  <2>4. \A k \in 0 .. n - 1 : k \in A
    BY <2>1, <2>2, <2>3, UpTo
  <2>5. j - 1 \in A /\ (j - 1) + 1 = j
    BY <1>5, <2>4
  <2> QED
    BY <2>5 DEF A
<1>11. n <= BUF /\ (xx < 0 => n < BUF)
  <2>1. ASSUME n > BUF
        PROVE  FALSE
    <3>1. d[1] # 0 /\ n - BUF \in 1..n /\ BUF \in 0..BUF
      BY <1>1, <1>4, <1>5, <2>1
    <3>2. r[n - BUF] > 0 /\ q[BUF] = r[n - BUF]
      BY <1>5, <1>10, <1>24, <2>1, <3>1
    <3> QED
      BY <1>8, <3>2
  <2>2. ASSUME xx < 0, n >= BUF
        PROVE  FALSE
    <3>1. d[1] # 0
      <4>1. SUFFICES ASSUME n = 1, d[1] = 0
                     PROVE  FALSE
        BY <1>4
      <4>2. r[1] = 0
        <5>1. r[1] = base * r[0] + d[1]
          BY <1>9, <4>1
        <5> QED
          BY <1>9, <4>1, <5>1 DEF Bases
      <4>3. q[0] = r[1]
        BY <1>1, <1>9, <4>1
      <4> QED
        BY <1>2, <1>7, <2>2, <4>2, <4>3
    <3>2. n - (BUF - 1) \in 1..n /\ BUF - 1 \in 0..BUF /\ BUF - 1 <= n
      BY <1>1, <1>5, <2>2
    <3>3. r[n - (BUF - 1)] > 0 /\ q[BUF - 1] = r[n - (BUF - 1)]
      BY <1>10, <1>24, <3>1, <3>2
    <3> QED
      BY <1>8, <2>2, <3>3
  <2> QED
    BY <1>1, <1>5, <2>1, <2>2
<1> DEFINE Ends(e) == q[e] = 0 /\ \A j \in 1 .. e - 1 : q[j] # 0
<1>12. n \in 1..BUF /\ Ends(n) /\ \A e \in 1..BUF : Ends(e) => e = n
  <2>1. n \in 1..BUF /\ q[n] = 0
    <3>1. n \in 0..BUF /\ n - n = 0 /\ n <= n
      BY <1>1, <1>5, <1>11
    <3>2. q[n] = r[n - n]
      BY <1>24, <3>1
    <3>3. r[0] = 0
      BY <1>9
    <3> QED
      BY <1>1, <1>5, <1>11, <3>1, <3>2, <3>3
  <2>2. ASSUME NEW j \in 1 .. n - 1
        PROVE  q[j] # 0
    <3>1. d[1] # 0 /\ n - j \in 1..n /\ j \in 0..BUF /\ j <= n
      BY <1>1, <1>4, <1>5, <1>11
    <3>2. r[n - j] > 0 /\ q[j] = r[n - j] /\ r[n - j] \in Nat
      BY <1>10, <1>24, <3>1
    <3> QED
      BY <3>2
  <2>3. ASSUME NEW e \in 1..BUF, Ends(e)
        PROVE  e = n
    <3>1. ~ (e < n)
      BY <2>1, <2>2, <2>3
    <3>2. ~ (n < e)
      BY <2>1, <2>3
    <3> QED
      BY <2>1, <3>1, <3>2
  <2> QED
    BY <2>1, <2>2, <2>3
<1>13. (CHOOSE e \in 1..BUF : Ends(e)) = n
  <2> HIDE DEF Ends
  <2> QED
    BY <1>12
<1> DEFINE found == [j \in 1..n |-> digits[(q[j - 1] % base) + 1]]
           buf == found \o minus
<1>14. printint(xx, base, sign) = IF q[BUF] = 0 /\ Len(buf) <= BUF THEN Reverse(buf) ELSE <<"stack smashed">>
  <2>1. quotients((IF neg THEN -xx ELSE xx) % two(LONG), base, BUF) = q
    BY <1>2 DEF q, M
  <2>2. minus = IF neg THEN <<"-">> ELSE <<>>
    BY <1>6
  <2> DEFINE qq == quotients((IF neg THEN -xx ELSE xx) % two(LONG), base, BUF)
             nn == CHOOSE e \in 1..BUF : qq[e] = 0 /\ \A j \in 1 .. e - 1 : qq[j] # 0
             bb == [j \in 1..nn |-> digits[(qq[j - 1] % base) + 1]] \o (IF neg THEN <<"-">> ELSE <<>>)
  <2>3. printint(xx, base, sign) = IF qq[BUF] = 0 /\ Len(bb) <= BUF THEN Reverse(bb) ELSE <<"stack smashed">>
    BY Zenon DEF printint
  <2>4. nn = n
    BY <1>13, <2>1
  <2> HIDE DEF qq, nn, minus, neg
  <2>5. bb = buf
    BY <2>1, <2>2, <2>4 DEF qq, minus, neg
  <2> QED
    BY <2>1, <2>3, <2>5 DEF qq
<1> DEFINE T == {digits[e + 1] : e \in 0..15} \cup {"-"}
<1>15. found \in Seq(T) /\ Len(found) = n /\ \A j \in 1..n : found[j] = digits[d[n - j + 1] + 1]
  <2>1. ASSUME NEW j \in 1..n
        PROVE  digits[(q[j - 1] % base) + 1] \in T /\ (q[j - 1] % base) = d[n - j + 1]
    <3>1. j - 1 \in 0..BUF /\ j - 1 < n /\ n - (j - 1) = n - j + 1 /\ n - j + 1 \in 1..n
      BY <1>1, <1>5, <1>11
    <3>2. d[n - j + 1] = q[j - 1] % base
      BY <1>24, <3>1
    <3>3. d[n - j + 1] \in 0..15
      BY <1>23, <3>1
    <3> QED
      BY <3>2, <3>3
  <2> HIDE DEF T
  <2>2. found \in [1..n -> T] /\ \A j \in 1..n : found[j] = digits[d[n - j + 1] + 1]
    BY <2>1
  <2> HIDE DEF found
  <2> QED
    BY <1>5, <2>2
<1>16. Figures(d) \in Seq(T) /\ Len(Figures(d)) = n /\ \A j \in 1..n : Figures(d)[j] = digits[d[j] + 1]
  <2>1. \A j \in 1..n : d[j] \in 0..15
    BY <1>23
  <2>2. DOMAIN d = 1..n
    OBVIOUS
  <2>3. \A j \in 1..n : digits[d[j] + 1] \in T
    BY <2>1
  <2> HIDE DEF T
  <2> DEFINE F == Figures(d)
  <2>4. F \in [1..n -> T] /\ \A j \in 1..n : F[j] = digits[d[j] + 1]
    BY <2>2, <2>3 DEF Figures
  <2> HIDE DEF F
  <2>5. F \in Seq(T) /\ Len(F) = n
    BY <1>5, <2>4
  <2> QED
    BY <2>4, <2>5 DEF F
<1>17. /\ minus \in Seq(T) /\ (xx < 0 => Len(minus) = 1 /\ minus[1] = "-") /\ (~ (xx < 0) => minus = <<>>)
  <2>1. "-" \in T
    OBVIOUS
  <2> HIDE DEF T
  <2>2. CASE xx < 0
    BY <2>1, <2>2
  <2>3. CASE ~ (xx < 0)
    BY <2>3
  <2> QED
    BY <2>2, <2>3
<1> DEFINE F == Figures(d)
           l == Len(minus)
<1> HIDE DEF T, found, minus, F
<1>18. /\ buf \in Seq(T) /\ Len(buf) = n + l /\ l \in {0, 1} /\ (l = 1 => xx < 0)
       /\ \A j \in 1..n : buf[j] = found[j]
       /\ l = 1 => buf[n + 1] = "-" /\ minus[1] = "-"
  <2>1. CASE xx < 0
    <3>1. l = 1 /\ minus \in Seq(T) /\ minus[1] = "-"
      BY <1>17, <2>1
    <3> HIDE DEF l
    <3>2. Len(minus) = 1
      BY <1>17, <2>1
    <3>3. buf \in Seq(T) /\ Len(buf) = n + 1 /\ buf[n + 1] = minus[1]
      <4>1. /\ buf \in Seq(T) /\ Len(buf) = Len(found) + Len(minus)
            /\ \A k \in 1 .. Len(found) + Len(minus) :
                 buf[k] = IF k <= Len(found) THEN found[k] ELSE minus[k - Len(found)]
        BY <1>15, <3>1, ConcatProperties
      <4>2. n + 1 \in 1 .. n + 1 /\ ~ (n + 1 <= n) /\ (n + 1) - n = 1
        BY <1>5
      <4>3. Len(found) = n
        BY <1>15
      <4> HIDE DEF buf
      <4> QED
        BY <3>2, <4>1, <4>2, <4>3
    <3>4. \A j \in 1..n : buf[j] = found[j]
      BY <1>5, <1>15, <3>1
    <3> HIDE DEF buf
    <3> QED
      BY <2>1, <3>1, <3>3, <3>4
  <2>2. CASE ~ (xx < 0)
    <3>1. minus = <<>> /\ l = 0
      BY <1>17, <2>2
    <3>2. buf = found
      BY <1>15, <3>1
    <3> QED
      BY <1>5, <1>15, <2>2, <3>1, <3>2
  <2> QED
    BY <2>1, <2>2
<1>25. Len(minus) = l
  OBVIOUS
<1> HIDE DEF buf, l
<1>19. Len(buf) <= BUF
  BY <1>1, <1>5, <1>11, <1>18
<1>20. out \in Seq(T) /\ Len(out) = l + n /\ (l = 1 => out[1] = "-") /\ \A j \in 1..n : out[l + j] = F[j]
  <2>1. out = minus \o F /\ F \in Seq(T) /\ Len(F) = n
    BY <1>4, <1>16 DEF F
  <2>2. /\ out \in Seq(T) /\ Len(out) = Len(minus) + Len(F)
        /\ \A k \in 1 .. Len(minus) + Len(F) :
             out[k] = IF k <= Len(minus) THEN minus[k] ELSE F[k - Len(minus)]
    BY <1>17, <2>1, ConcatProperties
  <2>3. Len(out) = l + n /\ \A k \in 1 .. l + n : out[k] = IF k <= l THEN minus[k] ELSE F[k - l]
    BY <1>25, <2>1, <2>2
  <2>4. /\ \A j \in 1..n : l + j \in 1 .. l + n /\ ~ (l + j <= l) /\ (l + j) - l = j
        /\ l = 1 => 1 \in 1 .. l + n
    BY <1>5, <1>18
  <2> QED
    BY <1>18, <2>2, <2>3, <2>4
<1>21. ASSUME NEW j \in 1 .. l + n
       PROVE  buf[(Len(buf) - j) + 1] = out[j]
  <2>1. CASE l = 1 /\ j = 1
    <3>1. (Len(buf) - j) + 1 = n + 1
      BY <1>5, <1>18, <2>1
    <3> QED
      BY <1>18, <1>20, <2>1, <3>1
  <2>2. CASE ~ (l = 1 /\ j = 1)
    <3> DEFINE jj == j - l
               kk == (Len(buf) - j) + 1
    <3>1. jj \in 1..n /\ j = l + jj /\ kk = n - jj + 1 /\ kk \in 1..n /\ n - kk + 1 = jj
      BY <1>5, <1>18, <2>2
    <3> HIDE DEF jj, kk
    <3>2. buf[kk] = digits[d[jj] + 1]
      BY <1>15, <1>18, <3>1
    <3>3. out[j] = digits[d[jj] + 1]
      BY <1>16, <1>20, <3>1 DEF F
    <3> QED
      BY <3>2, <3>3 DEF kk
  <2> QED
    BY <2>1, <2>2
<1>22. Reverse(buf) = out
  <2>1. Reverse(buf) = [j \in 1 .. Len(buf) |-> buf[(Len(buf) - j) + 1]]
    BY Zenon DEF Reverse
  <2>2. Len(buf) = l + n /\ l + n \in Nat
    BY <1>5, <1>18
  <2>3. [j \in 1 .. Len(buf) |-> buf[(Len(buf) - j) + 1]] = [j \in 1 .. l + n |-> out[j]]
    BY <1>21, <2>2
  <2>4. out = [j \in 1 .. l + n |-> out[j]]
    BY <1>20, <2>2
  <2> QED
    BY <2>1, <2>3, <2>4
<1> QED
  BY <1>8, <1>14, <1>19, <1>22

\* printptr() prints all digits of its argument.
LEMMA PrintptrIs ==
  ASSUME NEW v \in Nat, NEW out, Pointer(out, v)
  PROVE  printptr(v) = out
<1> DEFINE n == LONG \div 4
           q == quotients(v, 16, n)
<1>1. n \in Nat
  BY CommonAssumption DEF LONG
<1> HIDE DEF n
<1>2. PICK d \in [1..n -> 0..15] : reads(d, 16, n) = v /\ out = <<"0", "x">> \o Figures(d)
  BY DEF Pointer, n
<1>3. 16 \in Bases
  BY DEF Bases
<1>5. q \in [0..n -> Nat] /\ q[0] = v /\ \A j \in 1..n : q[j] = q[j - 1] \div 16
  <2> DEFINE b == 16
  <2>1. b \in Bases
    BY <1>3
  <2> HIDE DEF b
  <2>2. /\ quotients(v, b, n) \in [0..n -> Nat] /\ quotients(v, b, n)[0] = v
        /\ \A j \in 1..n : quotients(v, b, n)[j] = quotients(v, b, n)[j - 1] \div b
    BY <1>1, <2>1, QuotientsAre, Zenon
  <2> QED
    BY <2>2 DEF b
<1> HIDE DEF q
<1>6. \A k \in 0..n : k < n => d[n - k] = q[k] % 16
  <2> DEFINE b == 16
  <2>1. b \in Bases /\ d \in [1..n -> 0 .. b - 1] /\ q[0] = reads(d, b, n)
    BY <1>2, <1>3, <1>5
  <2>2. q \in [0..n -> Nat] /\ n \in Nat /\ \A j \in 1..n : q[j] = q[j - 1] \div b
    BY <1>1, <1>5
  <2> HIDE DEF b
  <2>3. \E r \in [0..n -> Nat] :
           /\ r[0] = 0 /\ \A j \in 1..n : r[j] = b * r[j - 1] + d[j]
           /\ \A k \in 0..n : k <= n => q[k] = r[n - k]
           /\ \A k \in 0..n : k < n => d[n - k] = q[k] % b
    BY <2>1, <2>2, DividingReads, Zenon
  <2>4. \A k \in 0..n : k < n => d[n - k] = q[k] % b
    BY <2>3, Zenon
  <2> QED
    BY <2>4 DEF b
<1>7. ASSUME NEW j \in 1..n
      PROVE  d[j] = q[n - j] % 16
  <2>1. n - j \in 0..n /\ n - j < n /\ n - (n - j) = j
    BY <1>1
  <2> QED
    BY <1>6, <2>1
<1>8. [j \in 1..n |-> digits[(q[n - j] % 16) + 1]] = Figures(d)
  <2>1. DOMAIN d = 1..n
    BY <1>2
  <2> QED
    BY <1>7, <2>1 DEF Figures
<1>9. printptr(v) = <<"0", "x">> \o [j \in 1..n |-> digits[(q[n - j] % 16) + 1]]
  BY Zenon DEF printptr, n, q
<1> QED
  BY <1>2, <1>8, <1>9

\* A conversion of a number prints its value: signed or not, an int or a long.
Value(c, bits, x) == IF c = "d" THEN signed(x, bits) ELSE x % two(bits)
LEMMA NumberIs ==
  ASSUME NEW c \in {"d", "u", "x"}, NEW bits \in {INT, LONG}, NEW x \in 0 .. two(LONG) - 1,
         NEW out \in Seq(STRING), Numeral(out, Value(c, bits, x), IF c = "x" THEN 16 ELSE 10)
  PROVE  number(c, bits, x) = out
<1> DEFINE M == two(LONG)
           m == two(bits)
           base == IF c = "x" THEN 16 ELSE 10
           xx == Value(c, bits, x)
           sign == c = "d"
<1>1. M \in Nat /\ m \in Nat /\ m > 0 /\ m <= M
  <2>1. LONG \in Nat /\ bits \in 0..LONG
    BY CommonAssumption DEF LONG
  <2> QED
    BY <2>1, TwoGrows
<1>2. x \in Nat /\ x < M /\ x % m \in 0 .. m - 1 /\ x % m <= x
  <2>1. x \in Nat /\ x < M
    BY <1>1
  <2> HIDE DEF m, M
  <2> DEFINE y == x % m
             z == x \div m
  <2>2. y \in 0 .. m - 1 /\ z \in Nat /\ x = z * m + y
    BY <1>1, <2>1, Divide
  <2> HIDE DEF y, z
  <2> DEFINE w == z * m
  <2>3. w \in Nat /\ x = w + y
    BY <1>1, <2>2
  <2> HIDE DEF w
  <2>4. y <= x
    BY <2>1, <2>2, <2>3
  <2> QED
    BY <2>1, <2>2, <2>4 DEF y
<1>3. xx = IF c = "d" /\ 2 * (x % m) >= m THEN (x % m) - m ELSE x % m
  <2>1. x % m \in Nat
    BY <1>2
  <2>2. signed(x, bits) = IF 2 * (x % m) < m THEN x % m ELSE (x % m) - m
    BY Zenon DEF signed
  <2> HIDE DEF m
  <2>3. c = "d" => xx = signed(x, bits)
    BY DEF Value
  <2>4. c # "d" => xx = x % m
    BY DEF Value, m
  <2> HIDE DEF xx
  <2> DEFINE y == x % m
  <2> HIDE DEF y
  <2>5. y \in Nat /\ signed(x, bits) = (IF 2 * y < m THEN y ELSE y - m) /\ (c # "d" => xx = y)
    BY <2>1, <2>2, <2>4 DEF y
  <2>6. xx = IF c = "d" /\ 2 * y >= m THEN y - m ELSE y
    BY <1>1, <2>3, <2>5
  <2> QED
    BY <2>6 DEF y
<1> HIDE DEF xx
<1>4. xx \in Int /\ xx < M /\ (xx < 0 => c = "d") /\ (xx < 0 => -xx <= M \div 2)
  <2> DEFINE y == x % m
  <2>1. y \in 0 .. m - 1 /\ y < M /\ xx = IF c = "d" /\ 2 * y >= m THEN y - m ELSE y
    BY <1>1, <1>2, <1>3
  <2> HIDE DEF y, m, M
  <2> QED
    BY <1>1, <2>1
<1>5. number(c, bits, x) = printint(xx, base, sign)
  <2>1. (IF c = "u" \/ c = "x" THEN x % two(bits) ELSE signed(x, bits)) = xx
    BY DEF xx, Value
  <2> QED
    BY <2>1, Zenon DEF number
<1>6. base \in Bases /\ sign \in BOOLEAN
  BY DEF Bases
<1>7. Numeral(out, xx, base)
  BY DEF xx
<1>8. (xx < 0 => sign) /\ xx \in Int /\ xx < two(LONG) /\ (xx < 0 => -xx <= two(LONG) \div 2)
  BY <1>4
<1> HIDE DEF base, sign
<1>9. printint(xx, base, sign) = out
  BY <1>6, <1>7, <1>8, PrintintIs, Zenon
<1> QED
  BY <1>5, <1>9

\* The chain of ifs in printf().
Numbers == {"d", "u", "x"}
Conv(n, t, o) == [skip |-> n, takes |-> t, out |-> o]
Converted(c0, c1, c2, a, v) ==
  /\ c0 \in Numbers => v = Conv(0, TRUE, number(c0, INT, a.n))
  /\ c0 = "l" /\ c1 \in Numbers => v = Conv(1, TRUE, number(c1, LONG, a.n))
  /\ c0 = "l" /\ c1 = "l" /\ c2 \in Numbers => v = Conv(2, TRUE, number(c2, LONG, a.n))
  /\ c0 = "p" => v = Conv(0, TRUE, printptr(a.n))
  /\ c0 = "c" => v = Conv(0, TRUE, putchar(a.c))
  /\ c0 = "s" => v = Conv(0, TRUE, put(IF a.s = NULL THEN <<"(", "n", "u", "l", "l", ")">> ELSE a.s))
  /\ c0 = "%" => v = Conv(0, FALSE, <<"%">>)
  /\ /\ c0 \notin Numbers \cup {"p", "c", "s", "%"}
     /\ c0 = "l" => c1 \notin Numbers /\ (c1 = "l" => c2 \notin Numbers)
     => v = Conv(0, FALSE, <<"%">> \o putchar(c0))

LEMMA ConversionIs ==
  ASSUME NEW c0, NEW c1, NEW c2, NEW a
  PROVE  Converted(c0, c1, c2, a, conversion(c0, c1, c2, a))
<1> DEFINE l == ells(c0, c1)
           c == <<c0, c1, c2>>[l + 1]
           v == conversion(c0, c1, c2, a)
           r(n, t, o) == [skip |-> n, takes |-> t, out |-> o]
           null == IF a.s = NULL THEN <<"(", "n", "u", "l", "l", ")">> ELSE a.s
           one == IF l = 0 THEN INT ELSE LONG
           o1 == number(c, one, a.n)
           o2 == printptr(a.n)
           o3 == putchar(a.c)
           o4 == put(null)
           o6 == <<"%">> \o putchar(c0)
           v1 == r(l, TRUE, o1)
           v2 == r(0, TRUE, o2)
           v3 == r(0, TRUE, o3)
           v4 == r(0, TRUE, o4)
           v5 == r(0, FALSE, <<"%">>)
           v6 == r(0, FALSE, o6)
<1>1. v = CASE c \in {"d", "u", "x"} -> v1
            [] c0 = "p" -> v2
            [] c0 = "c" -> v3
            [] c0 = "s" -> v4
            [] c0 = "%" -> v5
            [] OTHER -> v6
  BY Zenon DEF conversion
<1>2. /\ c0 # "l" => l = 0 /\ c = c0
      /\ c0 = "l" /\ c1 # "l" => l = 1 /\ c = c1
      /\ c0 = "l" /\ c1 = "l" => l = 2 /\ c = c2
  BY DEF ells
<1>10. v1 = Conv(l, TRUE, o1) /\ v2 = Conv(0, TRUE, o2) /\ v3 = Conv(0, TRUE, o3)
       /\ v4 = Conv(0, TRUE, o4) /\ v5 = Conv(0, FALSE, <<"%">>) /\ v6 = Conv(0, FALSE, o6)
  BY DEF Conv
<1> HIDE DEF v, v1, v2, v3, v4, v5, v6
<1>3. /\ c \in Numbers /\ c0 \notin {"p", "c", "s", "%"} => v = v1
      /\ c \notin Numbers =>
           /\ c0 = "p" => v = v2
           /\ c0 = "c" => v = v3
           /\ c0 = "s" => v = v4
           /\ c0 = "%" => v = v5
           /\ c0 \notin {"p", "c", "s", "%"} => v = v6
  <2> HIDE DEF c
  <2> QED
    BY <1>1 DEF Numbers
<1>4. c0 \in Numbers => v = Conv(0, TRUE, number(c0, INT, a.n))
  <2> SUFFICES ASSUME c0 \in Numbers
               PROVE  v = Conv(0, TRUE, number(c0, INT, a.n))
    OBVIOUS
  <2>1. c0 # "l" /\ c0 \notin {"p", "c", "s", "%"}
    BY DEF Numbers
  <2>2. l = 0 /\ c = c0 /\ one = INT
    BY <1>2, <2>1
  <2>3. v = v1
    BY <1>3, <2>1, <2>2
  <2> HIDE DEF l, c, one
  <2> QED
    BY <1>10, <2>2, <2>3
<1>5. c0 = "l" /\ c1 \in Numbers => v = Conv(1, TRUE, number(c1, LONG, a.n))
  <2> SUFFICES ASSUME c0 = "l", c1 \in Numbers
               PROVE  v = Conv(1, TRUE, number(c1, LONG, a.n))
    OBVIOUS
  <2>1. c1 # "l" /\ c0 \notin {"p", "c", "s", "%"}
    BY DEF Numbers
  <2>2. l = 1 /\ c = c1 /\ one = LONG
    BY <1>2, <2>1
  <2>3. v = v1
    BY <1>3, <2>1, <2>2
  <2> HIDE DEF l, c, one
  <2> QED
    BY <1>10, <2>2, <2>3
<1>6. c0 = "l" /\ c1 = "l" /\ c2 \in Numbers => v = Conv(2, TRUE, number(c2, LONG, a.n))
  <2> SUFFICES ASSUME c0 = "l", c1 = "l", c2 \in Numbers
               PROVE  v = Conv(2, TRUE, number(c2, LONG, a.n))
    OBVIOUS
  <2>1. c0 \notin {"p", "c", "s", "%"}
    OBVIOUS
  <2>2. l = 2 /\ c = c2 /\ one = LONG
    BY <1>2
  <2>3. v = v1
    BY <1>3, <2>1, <2>2
  <2> HIDE DEF l, c, one
  <2> QED
    BY <1>10, <2>2, <2>3
<1> HIDE DEF c, l
<1>7. c0 \in {"p", "c", "s", "%"} => c \notin Numbers
  <2>1. c0 \in {"p", "c", "s", "%"} => c0 # "l" /\ c0 \notin Numbers
    BY DEF Numbers
  <2> QED
    BY <1>2, <2>1
<1>8. /\ c0 = "p" => v = Conv(0, TRUE, printptr(a.n))
      /\ c0 = "c" => v = Conv(0, TRUE, putchar(a.c))
      /\ c0 = "s" => v = Conv(0, TRUE, put(null))
      /\ c0 = "%" => v = Conv(0, FALSE, <<"%">>)
  <2>1. /\ c0 = "p" => v = v2
        /\ c0 = "c" => v = v3
        /\ c0 = "s" => v = v4
        /\ c0 = "%" => v = v5
    BY <1>3, <1>7
  <2> QED
    BY <1>10, <2>1
<1>9. /\ c0 \notin Numbers \cup {"p", "c", "s", "%"}
      /\ c0 = "l" => c1 \notin Numbers /\ (c1 = "l" => c2 \notin Numbers)
      => v = Conv(0, FALSE, o6)
  <2> SUFFICES ASSUME c0 \notin Numbers \cup {"p", "c", "s", "%"},
                      c0 = "l" => c1 \notin Numbers /\ (c1 = "l" => c2 \notin Numbers)
               PROVE  v = Conv(0, FALSE, o6)
    OBVIOUS
  <2>1. c \notin Numbers
    BY <1>2
  <2> QED
    BY <1>3, <1>10, <2>1
<1> HIDE DEF v
<1>11. Converted(c0, c1, c2, a, v)
  BY <1>4, <1>5, <1>6, <1>8, <1>9 DEF Converted
<1> QED
  BY <1>11, Zenon DEF v

\* The characters of one string after another.
LEMMA AtConcat ==
  ASSUME NEW s \in Seq(STRING), NEW u \in Seq(STRING), NEW t \in Nat
  PROVE  /\ t < Len(s) => At(s \o u, t) = s[t + 1]
         /\ At(s \o u, Len(s) + t) = At(u, t)
         /\ At(u, t) # NUL => u[t + 1] = At(u, t)
<1> DEFINE v == s \o u
<1>1. /\ v \in Seq(STRING) /\ Len(v) = Len(s) + Len(u)
      /\ \A k \in 1 .. Len(s) + Len(u) : v[k] = IF k <= Len(s) THEN s[k] ELSE u[k - Len(s)]
  BY ConcatProperties
<1>2. Len(s) \in Nat /\ Len(u) \in Nat
  OBVIOUS
<1> HIDE DEF v
<1>3. t < Len(s) => At(v, t) = s[t + 1]
  <2> SUFFICES ASSUME t < Len(s)
               PROVE  At(v, t) = s[t + 1]
    OBVIOUS
  <2>1. t + 1 \in 1 .. Len(s) + Len(u) /\ t + 1 <= Len(s) /\ t < Len(v)
    BY <1>1, <1>2
  <2> QED
    BY <1>1, <2>1 DEF At
<1>4. At(v, Len(s) + t) = At(u, t)
  <2>1. CASE t < Len(u)
    <3>1. /\ Len(s) + t + 1 \in 1 .. Len(s) + Len(u) /\ ~ (Len(s) + t + 1 <= Len(s))
          /\ (Len(s) + t + 1) - Len(s) = t + 1 /\ Len(s) + t < Len(v)
      BY <1>1, <1>2, <2>1
    <3> QED
      BY <1>1, <2>1, <3>1 DEF At
  <2>2. CASE ~ (t < Len(u))
    BY <1>1, <1>2, <2>2 DEF At
  <2> QED
    BY <2>1, <2>2
<1> QED
  BY <1>3, <1>4 DEF v, At

\* Short sequences one after the other.
LEMMA Joined ==
  ASSUME NEW S, NEW a \in S, NEW b \in S, NEW c \in S
  PROVE  <<a>> \o <<b>> = <<a, b>> /\ <<a, b>> \o <<c>> = <<a, b, c>>
<1>1. <<a>> \o <<b>> = <<a, b>>
  <2> DEFINE s == <<a>>
             u == <<b>>
             v == s \o u
             w == <<a, b>>
  <2>1. /\ s \in Seq(S) /\ Len(s) = 1 /\ s[1] = a
        /\ u \in Seq(S) /\ Len(u) = 1 /\ u[1] = b
        /\ w \in Seq(S) /\ Len(w) = 2 /\ w[1] = a /\ w[2] = b
    OBVIOUS
  <2> HIDE DEF s, u, w
  <2>2. /\ v \in Seq(S) /\ Len(v) = Len(s) + Len(u)
        /\ \A k \in 1 .. Len(s) + Len(u) : v[k] = IF k <= Len(s) THEN s[k] ELSE u[k - Len(s)]
    BY <2>1, ConcatProperties
  <2> HIDE DEF v
  <2>3. Len(v) = 2 /\ v[1] = a /\ v[2] = b
    BY <2>1, <2>2
  <2>4. \A k \in 1..2 : v[k] = w[k]
    BY <2>1, <2>3
  <2>5. v = w
    BY <2>1, <2>2, <2>3, <2>4, SeqEqual
  <2> QED
    BY <2>5 DEF s, u, v, w
<1>2. <<a, b>> \o <<c>> = <<a, b, c>>
  <2> DEFINE s == <<a, b>>
             u == <<c>>
             v == s \o u
             w == <<a, b, c>>
  <2>1. /\ s \in Seq(S) /\ Len(s) = 2 /\ s[1] = a /\ s[2] = b
        /\ u \in Seq(S) /\ Len(u) = 1 /\ u[1] = c
        /\ w \in Seq(S) /\ Len(w) = 3 /\ w[1] = a /\ w[2] = b /\ w[3] = c
    OBVIOUS
  <2> HIDE DEF s, u, w
  <2>2. /\ v \in Seq(S) /\ Len(v) = Len(s) + Len(u)
        /\ \A k \in 1 .. Len(s) + Len(u) : v[k] = IF k <= Len(s) THEN s[k] ELSE u[k - Len(s)]
    BY <2>1, ConcatProperties
  <2> HIDE DEF v
  <2>3. Len(v) = 3 /\ v[1] = a /\ v[2] = b /\ v[3] = c
    BY <2>1, <2>2
  <2>4. \A k \in 1..3 : v[k] = w[k]
    BY <2>1, <2>3
  <2>5. v = w
    BY <2>1, <2>2, <2>3, <2>4, SeqEqual
  <2> QED
    BY <2>5 DEF s, u, v, w
<1> QED
  BY <1>1, <1>2

\* Strings are sequences of them.
LEMMA Signs ==
  /\ "%" \in STRING /\ "l" \in STRING /\ CR \in STRING /\ LF \in STRING
  /\ <<"%">> \in Seq(STRING) /\ <<"l">> \in Seq(STRING)
  /\ <<"%", "l">> \in Seq(STRING) /\ <<"%", "l", "l">> \in Seq(STRING) /\ <<CR, LF>> \in Seq(STRING)
  /\ Len(<<"%">>) = 1 /\ Len(<<"%", "l">>) = 2 /\ Len(<<"%", "l", "l">>) = 3
  /\ <<"%">>[1] = "%" /\ <<"%", "l">>[1] = "%" /\ <<"%", "l">>[2] = "l"
  /\ <<"%", "l", "l">>[1] = "%" /\ <<"%", "l", "l">>[2] = "l" /\ <<"%", "l", "l">>[3] = "l"
  /\ <<"%">> \o <<"l">> = <<"%", "l">> /\ <<"%", "l">> \o <<"l">> = <<"%", "l", "l">>
  /\ \A c \in STRING : <<c>> \in Seq(STRING)
<1> DEFINE p == "%"
           l == "l"
           S == STRING
<1>1. p \in S /\ l \in S /\ CR \in S /\ LF \in S
  BY TextAssumption, Zenon
<1> HIDE DEF p, l, S
<1>2. /\ <<p>> \in Seq(S) /\ <<l>> \in Seq(S)
      /\ <<p, l>> \in Seq(S) /\ <<p, l, l>> \in Seq(S) /\ <<CR, LF>> \in Seq(S)
      /\ \A c \in S : <<c>> \in Seq(S)
  BY <1>1
<1>3. <<p>> \o <<l>> = <<p, l>> /\ <<p, l>> \o <<l>> = <<p, l, l>>
  BY <1>1, Joined
<1>4. /\ Len(<<p>>) = 1 /\ Len(<<p, l>>) = 2 /\ Len(<<p, l, l>>) = 3
      /\ <<p>>[1] = p /\ <<p, l>>[1] = p /\ <<p, l>>[2] = l
      /\ <<p, l, l>>[1] = p /\ <<p, l, l>>[2] = l /\ <<p, l, l>>[3] = l
  OBVIOUS
<1> QED
  BY <1>1, <1>2, <1>3, <1>4 DEF p, l, S

\* The beginning and the end of a conversion.
LEMMA Leads ==
  ASSUME NEW n \in 2..4, NEW c \in STRING
  PROVE  /\ lead(n) \in Seq(STRING)
         /\ lead(2) = <<"%">> /\ lead(3) = <<"%", "l">> /\ lead(4) = <<"%", "l", "l">>
         /\ LET f == Append(lead(n), c)
            IN  /\ f \in Seq(STRING) /\ Len(f) = n /\ f[n] = c
                /\ f[1] = "%" /\ (n > 2 => f[2] = "l") /\ (n > 3 => f[3] = "l")
<1> DEFINE e == lead(n)
           f == Append(e, c)
<1>1. lead(2) = <<"%">> /\ lead(3) = <<"%", "l">> /\ lead(4) = <<"%", "l", "l">>
  BY DEF lead
<1>2. /\ e \in Seq(STRING) /\ Len(e) = n - 1
      /\ e[1] = "%" /\ (n > 2 => e[2] = "l") /\ (n > 3 => e[3] = "l")
  <2>1. CASE n = 2
    <3>1. e = <<"%">>
      BY <1>1, <2>1
    <3> HIDE DEF e
    <3>2. e \in Seq(STRING) /\ Len(e) = n - 1 /\ e[1] = "%"
      BY <2>1, <3>1, Signs
    <3> QED
      BY <2>1, <3>2
  <2>2. CASE n = 3
    <3>1. e = <<"%", "l">>
      BY <1>1, <2>2
    <3> HIDE DEF e
    <3>2. e \in Seq(STRING) /\ Len(e) = n - 1 /\ e[1] = "%" /\ e[2] = "l"
      BY <2>2, <3>1, Signs
    <3> QED
      BY <2>2, <3>2
  <2>3. CASE n = 4
    <3>1. e = <<"%", "l", "l">>
      BY <1>1, <2>3
    <3> HIDE DEF e
    <3>2. e \in Seq(STRING) /\ Len(e) = n - 1 /\ e[1] = "%" /\ e[2] = "l" /\ e[3] = "l"
      BY <2>3, <3>1, Signs
    <3> QED
      BY <2>3, <3>2
  <2> QED
    BY <2>1, <2>2, <2>3
<1> HIDE DEF e
<1>3. /\ f \in Seq(STRING) /\ Len(f) = Len(e) + 1 /\ f[Len(e) + 1] = c
      /\ \A k \in 1 .. Len(e) : f[k] = e[k]
  BY <1>2, AppendProperties
<1> HIDE DEF f
<1>4. /\ f \in Seq(STRING) /\ Len(f) = n /\ f[n] = c
      /\ f[1] = "%" /\ (n > 2 => f[2] = "l") /\ (n > 3 => f[3] = "l")
  BY <1>2, <1>3
<1> QED
  BY <1>1, <1>2, <1>4 DEF e, f

\* What a character prints, after the characters that lead to it.
LEMMA Printed ==
  ASSUME NEW c \in STRING
  PROVE  /\ putchar(c) \in Seq(STRING)
         /\ <<"%">> \o putchar("l") = <<"%", "l">>
         /\ <<"%", "l">> \o (<<"l">> \o putchar(c)) = <<"%", "l", "l">> \o putchar(c)
         /\ (<<"%">> \o putchar(c)) \in Seq(STRING)
<1>1. putchar(c) \in Seq(STRING)
  <2>1. CASE c = LF
    BY <2>1, Signs DEF putchar
  <2>2. CASE c # LF
    BY <2>2, Signs DEF putchar
  <2> QED
    BY <2>1, <2>2
<1>2. <<"%">> \o putchar("l") = <<"%", "l">>
  <2>1. putchar("l") = <<"l">>
    BY DEF putchar, LF
  <2> QED
    BY <2>1, Signs
<1> DEFINE x == putchar(c)
           l1 == <<"l">>
           l2 == <<"%", "l">>
           l3 == <<"%">>
<1>7. x \in Seq(STRING) /\ l1 \in Seq(STRING) /\ l2 \in Seq(STRING) /\ l3 \in Seq(STRING)
  BY <1>1, Signs, Zenon
<1>9. l2 \o l1 = <<"%", "l", "l">>
  BY Signs
<1> HIDE DEF x, l1, l2, l3
<1>8. (l2 \o l1) \o x = l2 \o (l1 \o x) /\ l3 \o x \in Seq(STRING)
  BY <1>7, ConcatAssociative
<1> QED
  BY <1>1, <1>2, <1>8, <1>9 DEF x, l1, l2, l3

\* The first characters of a piece and of what follows it.
LEMMA PieceAt ==
  ASSUME NEW f \in Seq(STRING), NEW E \in Seq(STRING)
  PROVE  /\ Len(f) >= 1 => At(f \o E, 0) = f[1]
         /\ Len(f) >= 2 => At(f \o E, 1) = f[2]
         /\ Len(f) >= 3 => At(f \o E, 2) = f[3]
         /\ Len(f) >= 4 => At(f \o E, 3) = f[4]
<1>1. Len(f) \in Nat
  OBVIOUS
<1>2. \A t \in 0..3 : t < Len(f) => At(f \o E, t) = f[t + 1]
  BY AtConcat
<1>3. /\ 0 < Len(f) => At(f \o E, 0) = f[0 + 1]
      /\ 1 < Len(f) => At(f \o E, 1) = f[1 + 1]
      /\ 2 < Len(f) => At(f \o E, 2) = f[2 + 1]
      /\ 3 < Len(f) => At(f \o E, 3) = f[3 + 1]
  BY <1>2
<1> QED
  BY <1>1, <1>3

\* What a round of printf() may leave of a piece: of a conversion it does not
\* know, the characters l that come after those it prints at once, which are
\* then printed one by one, as w.
Rest(l, w) ==
  \/ l = <<>> /\ w = <<>>
  \/ \E c \in STRING \ {NUL, "%"} :
       \/ l = <<c>> /\ w = putchar(c)
       \/ l = <<"l", c>> /\ w = <<"l">> \o putchar(c)

\* One round of printf() at the beginning of a piece that is a conversion.
Round(p, v, l, w) ==
  /\ Rest(l, w)
  /\ v.skip \in 0..2 /\ Len(p.fmt) = 2 + v.skip + Len(l)
  /\ \A t \in 1 .. Len(l) : p.fmt[2 + v.skip + t] = l[t]
  /\ v.out \in Seq(STRING) /\ p.out = v.out \o w
  /\ (v.takes = TRUE /\ Len(p.args) = 1) \/ (v.takes = FALSE /\ Len(p.args) = 0)

\* The whole piece at once.
LEMMA WholePiece ==
  ASSUME NEW p, p.fmt \in Seq(STRING), p.out \in Seq(STRING), NEW v,
         v.skip \in 0..2, Len(p.fmt) = 2 + v.skip, v.out = p.out,
         (v.takes = TRUE /\ Len(p.args) = 1) \/ (v.takes = FALSE /\ Len(p.args) = 0)
  PROVE  Round(p, v, <<>>, <<>>)
<1>1. p.out = v.out \o <<>>
  BY ConcatEmptySeq
<1>2. Rest(<<>>, <<>>)
  BY Zenon DEF Rest
<1>3. Len(<<>>) = 0 /\ \A t \in 1 .. Len(<<>>) : FALSE
  OBVIOUS
<1> QED
  BY <1>1, <1>2, <1>3 DEF Round

\* A conversion of a number, at the beginning of a piece.
LEMMA NumberRound ==
  ASSUME NEW p, p.fmt \in Seq(STRING), p.out \in Seq(STRING), Converts(p),
         LET n == Len(p.fmt) IN p.fmt[n] \in Numbers,
         NEW c0, NEW c1, NEW c2, NEW a,
         p.args = <<p.args[1]>>, a = p.args[1],
         LET n == Len(p.fmt)
             c == p.fmt[n]
         IN  /\ n \in 2..4
             /\ n = 2 => c0 = c
             /\ n = 3 => c0 = "l" /\ c1 = c
             /\ n = 4 => c0 = "l" /\ c1 = "l" /\ c2 = c
  PROVE  Round(p, conversion(c0, c1, c2, a), <<>>, <<>>)
<1> DEFINE n == Len(p.fmt)
           c == p.fmt[n]
           bits == IF n = 2 THEN INT ELSE LONG
           x == a.n
           base == IF c = "x" THEN 16 ELSE 10
           v == conversion(c0, c1, c2, a)
<1>1. c \in Numbers /\ c \in {"d", "u", "x"} /\ bits \in {INT, LONG} /\ n \in 2..4
  BY DEF Numbers
<1>2. x \in 0 .. two(LONG) - 1 /\ Numeral(p.out, Value(c, bits, x), base)
  <2>1. \/ c = "d" /\ x \in 0 .. two(LONG) - 1 /\ Numeral(p.out, signed(x, bits), 10)
        \/ c = "u" /\ x \in 0 .. two(LONG) - 1 /\ Numeral(p.out, x % two(bits), 10)
        \/ c = "x" /\ x \in 0 .. two(LONG) - 1 /\ Numeral(p.out, x % two(bits), 16)
    <3> HIDE DEF bits
    <3>1. c \notin {"p", "c", "s"}
      BY <1>1
    <3> QED
      BY <3>1, Zenon DEF Converts, bits
  <2> HIDE DEF bits, x, c
  <2> QED
    BY <2>1 DEF Value, base
<1>3. number(c, bits, x) = p.out
  <2> HIDE DEF bits, x, c
  <2> QED
    BY <1>1, <1>2, NumberIs, Zenon DEF base
<1>8. Converted(c0, c1, c2, a, v)
  BY ConversionIs, Zenon
<1> HIDE DEF v
<1>4. v = Conv(n - 2, TRUE, p.out)
  <2>1. CASE n = 2
    <3>1. c0 = c /\ bits = INT /\ n - 2 = 0
      BY <1>1, <2>1
    <3> HIDE DEF n, c, bits
    <3>2. c0 \in Numbers
      BY <1>1, <3>1
    <3>3. v = Conv(0, TRUE, number(c0, INT, a.n))
      BY <1>8, <3>1, <3>2 DEF Converted
    <3> HIDE DEF x
    <3> QED
      BY <1>3, <3>1, <3>3 DEF x
  <2>2. CASE n = 3
    <3>1. c1 = c /\ bits = LONG /\ n - 2 = 1 /\ c0 = "l"
      BY <1>1, <2>2
    <3> HIDE DEF n, c, bits
    <3>2. c1 \in Numbers
      BY <1>1, <3>1
    <3>3. v = Conv(1, TRUE, number(c1, LONG, a.n))
      BY <1>8, <3>1, <3>2 DEF Converted
    <3> HIDE DEF x
    <3> QED
      BY <1>3, <3>1, <3>3 DEF x
  <2>3. CASE n = 4
    <3>1. c2 = c /\ bits = LONG /\ n - 2 = 2 /\ c0 = "l" /\ c1 = "l"
      BY <1>1, <2>3
    <3> HIDE DEF n, c, bits
    <3>2. c2 \in Numbers
      BY <1>1, <3>1
    <3>3. v = Conv(2, TRUE, number(c2, LONG, a.n))
      BY <1>8, <3>1, <3>2 DEF Converted
    <3> HIDE DEF x
    <3> QED
      BY <1>3, <3>1, <3>3 DEF x
  <2>4. n = 2 \/ n = 3 \/ n = 4
    BY <1>1
  <2> HIDE DEF n
  <2> QED
    BY <2>1, <2>2, <2>3, <2>4
<1>5. v.skip = n - 2 /\ v.takes = TRUE /\ v.out = p.out
  BY <1>4 DEF Conv
<1>6. Len(p.args) = 1
  <2>1. Len(<<a>>) = 1
    OBVIOUS
  <2> QED
    BY <2>1, Zenon
<1>7. v.skip \in 0..2 /\ n = 2 + v.skip
  BY <1>1, <1>5, <1>6
<1> QED
  BY <1>5, <1>6, <1>7, WholePiece DEF v

\* A piece at the beginning of what is left of the format: a character, the
\* end, or a conversion.
LEMMA PieceRound ==
  ASSUME NEW p \in Pieces, NEW E \in Seq(STRING), p.fmt = <<"%">> => E = <<>>,
         NEW a, p.args # <<>> => a = p.args[1]
  PROVE  LET cx == At(p.fmt \o E, 0)
             c0 == At(p.fmt \o E, 1)
             c1 == IF c0 = NUL THEN NUL ELSE At(p.fmt \o E, 2)
             c2 == IF c1 = NUL THEN NUL ELSE At(p.fmt \o E, 3)
         IN  \/ cx \notin {NUL, "%"} /\ Len(p.fmt) = 1 /\ p.args = <<>> /\ p.out = putchar(cx)
             \/ cx = "%" /\ c0 = NUL /\ p.fmt = <<"%">> /\ p.args = <<>> /\ p.out = <<>>
             \/ cx = "%" /\ c0 # NUL /\ \E l, w : Round(p, conversion(c0, c1, c2, a), l, w)
<1> DEFINE f == p.fmt
           n == Len(f)
           c == f[n]
           cx == At(f \o E, 0)
           c0 == At(f \o E, 1)
           c1 == IF c0 = NUL THEN NUL ELSE At(f \o E, 2)
           c2 == IF c1 = NUL THEN NUL ELSE At(f \o E, 3)
           v == conversion(c0, c1, c2, a)
           Some == \E l, w : Round(p, v, l, w)
           Goal == \/ cx \notin {NUL, "%"} /\ n = 1 /\ p.args = <<>> /\ p.out = putchar(cx)
                   \/ cx = "%" /\ c0 = NUL /\ p.fmt = <<"%">> /\ p.args = <<>> /\ p.out = <<>>
                   \/ cx = "%" /\ c0 # NUL /\ Some
<1> SUFFICES Goal
  OBVIOUS
<1>1. f \in Seq(STRING) /\ p.out \in Seq(STRING) /\ (Plain(p) \/ Converts(p)) /\ n \in Nat
  BY TextAssumption
<1>2. /\ n >= 1 => cx = f[1]
      /\ n >= 2 => c0 = f[2]
      /\ n >= 3 /\ f[2] # NUL => c1 = f[3]
      /\ n >= 4 /\ f[2] # NUL /\ f[3] # NUL => c2 = f[4]
  <2>1. /\ n >= 1 => At(f \o E, 0) = f[1]
        /\ n >= 2 => At(f \o E, 1) = f[2]
        /\ n >= 3 => At(f \o E, 2) = f[3]
        /\ n >= 4 => At(f \o E, 3) = f[4]
    BY <1>1, PieceAt
  <2>2. n >= 4 => n >= 3 /\ n >= 2
    BY <1>1
  <2>3. n >= 3 => n >= 2
    BY <1>1
  <2> HIDE DEF f, n
  <2> QED
    BY <2>1, <2>2, <2>3, Zenon
<1>3. Converted(c0, c1, c2, a, v)
  BY ConversionIs, Zenon
<1> HIDE DEF v, c2, c1, c0
<1>4. "%" # NUL /\ "l" # NUL /\ "%" # "l"
  BY DEF NUL
<1>5. ASSUME n = 1, c \notin {NUL, "%"}, p.args = <<>>, p.out = putchar(c)
      PROVE  Goal
  BY <1>2, <1>5
<1>6. ASSUME f = <<"%">>, p.args = <<>>, p.out = <<>>
      PROVE  Goal
  <2>1. E = <<>> /\ n = 1 /\ f[1] = "%"
    BY <1>6, Signs
  <2>2. cx = "%"
    BY <1>2, <2>1
  <2>3. c0 = NUL
    <3>1. At(f \o E, n + 0) = At(E, 0)
      <4>1. 0 \in Nat
        OBVIOUS
      <4> QED
        BY <1>1, <4>1, AtConcat, Zenon
    <3>2. n + 0 = 1
      BY <2>1
    <3>3. At(<<>>, 0) = NUL
      BY DEF At
    <3> HIDE DEF n, f
    <3> QED
      BY <2>1, <3>1, <3>2, <3>3 DEF c0
  <2>4. p.fmt = <<"%">>
    BY <1>6
  <2> HIDE DEF cx, f, n
  <2> QED
    BY <1>6, <2>2, <2>3, <2>4, Zenon
<1>7. ASSUME f = <<"%", "%">>, p.args = <<>>, p.out = <<"%">>
      PROVE  Goal
  <2>1. n = 2 /\ f[1] = "%" /\ f[2] = "%"
    <3> DEFINE m == "%"
    <3>1. f = <<m, m>>
      BY <1>7
    <3> HIDE DEF m
    <3>2. n = 2 /\ f[1] = m /\ f[2] = m
      BY <3>1
    <3> QED
      BY <3>2 DEF m
  <2>2. cx = "%" /\ c0 = "%" /\ c0 # NUL
    BY <1>2, <1>4, <2>1
  <2> HIDE DEF cx, f, n
  <2>3. v = Conv(0, FALSE, <<"%">>)
    BY <1>3, <2>2 DEF Converted
  <2>4. v.skip = 0 /\ v.takes = FALSE /\ v.out = p.out
    BY <1>7, <2>3 DEF Conv
  <2>5. Len(p.args) = 0
    BY <1>7
  <2>6. v.skip \in 0..2 /\ Len(f) = 2 + v.skip
    BY <2>1, <2>4 DEF n
  <2>7. Round(p, v, <<>>, <<>>)
    BY <1>1, <2>4, <2>5, <2>6, WholePiece DEF f
  <2> QED
    BY <2>2, <2>7
<1> DEFINE Form == n \in 2..4 /\ f = Append(lead(n), c)
<1>8. ASSUME Form, c # NUL
      PROVE  /\ c \in STRING /\ cx = "%" /\ c0 # NUL
             /\ n = 2 => c0 = c
             /\ n = 3 => c0 = "l" /\ c1 = c /\ f[3] = c
             /\ n = 4 => c0 = "l" /\ c1 = "l" /\ c2 = c /\ f[3] = "l" /\ f[4] = c
  <2>1. n \in 2..4 /\ c \in STRING
    <3>1. n \in 2..4 /\ n \in 1 .. Len(f)
      BY <1>1, <1>8
    <3> QED
      BY <1>1, <1>8, <3>1
  <2>2. f[1] = "%" /\ (n > 2 => f[2] = "l") /\ (n > 3 => f[3] = "l")
    <3>1. f = Append(lead(n), c)
      BY <1>8
    <3> HIDE DEF f, n, c
    <3> QED
      BY <2>1, <3>1, Leads, Zenon
  <2>7. f[n] = c
    OBVIOUS
  <2> HIDE DEF f, n, c
  <2>3. cx = "%" /\ c0 = f[2]
    <3>1. n >= 1 /\ n >= 2
      BY <2>1
    <3> HIDE DEF cx
    <3> QED
      BY <1>2, <2>2, <3>1
  <2>4. c0 # NUL
    <3>1. CASE n = 2
      BY <1>8, <2>3, <2>7, <3>1
    <3>2. CASE n # 2
      BY <1>4, <2>1, <2>2, <2>3, <3>2
    <3> QED
      BY <3>1, <3>2
  <2>5. /\ n = 3 => c0 = "l" /\ c1 = c /\ f[3] = c
        /\ n = 4 => c0 = "l" /\ c1 = "l" /\ c2 = c /\ f[3] = "l" /\ f[4] = c
    BY <1>2, <1>4, <2>2, <2>3, <2>7
  <2> HIDE DEF cx
  <2> QED
    BY <2>1, <2>3, <2>4, <2>5, <2>7
<1>9. ASSUME Form, c \notin {"d", "u", "x", "%", NUL}, n = 2 => c \notin {"p", "c", "s"}, n # 4 => c # "l",
             p.args = <<>>, p.out = lead(n) \o putchar(c)
      PROVE  Goal
  <2>1. /\ c \in STRING \ {NUL, "%"} /\ cx = "%" /\ c0 # NUL /\ c \notin Numbers
        /\ n = 2 => c0 = c
        /\ n = 3 => c0 = "l" /\ c1 = c /\ f[3] = c
        /\ n = 4 => c0 = "l" /\ c1 = "l" /\ c2 = c /\ f[3] = "l" /\ f[4] = c
    BY <1>8, <1>9 DEF Numbers
  <2>2. /\ lead(2) = <<"%">> /\ lead(3) = <<"%", "l">> /\ lead(4) = <<"%", "l", "l">>
        /\ putchar(c) \in Seq(STRING) /\ <<"%">> \o putchar(c) \in Seq(STRING)
        /\ <<"%">> \o putchar("l") = <<"%", "l">>
        /\ <<"%", "l">> \o (<<"l">> \o putchar(c)) = <<"%", "l", "l">> \o putchar(c)
    <3>1. lead(2) = <<"%">> /\ lead(3) = <<"%", "l">> /\ lead(4) = <<"%", "l", "l">>
      BY DEF lead
    <3> QED
      BY <2>1, <3>1, Printed, Zenon
  <2>3. Len(p.args) = 0
    BY <1>9
  <2> HIDE DEF cx, f, n, c
  <2>4. v = Conv(0, FALSE, <<"%">> \o putchar(c0))
    <3>1. n = 2 \/ n = 3 \/ n = 4
      BY <1>9
    <3>2. /\ c0 \notin Numbers \cup {"p", "c", "s", "%"}
          /\ c0 = "l" => c1 \notin Numbers /\ (c1 = "l" => c2 \notin Numbers)
      <4>1. "l" \notin Numbers
        BY DEF Numbers
      <4> QED
        BY <1>9, <2>1, <3>1, <4>1
    <3> QED
      BY <1>3, <3>2 DEF Converted
  <2>5. v.skip = 0 /\ v.takes = FALSE /\ v.out = <<"%">> \o putchar(c0)
    BY <2>4 DEF Conv
  <2>6. CASE n = 2
    <3>1. v.out = p.out
      <4>1. p.out = lead(2) \o putchar(c) /\ c0 = c
        BY <1>9, <2>1, <2>6
      <4> QED
        BY <2>2, <2>5, <4>1, Zenon
    <3>2. v.skip \in 0..2 /\ n = 2 + v.skip
      BY <2>5, <2>6
    <3>3. Round(p, v, <<>>, <<>>)
      BY <1>1, <2>3, <2>5, <3>1, <3>2, WholePiece DEF f, n
    <3> QED
      BY <2>1, <3>3
  <2>7. CASE n = 3
    <3> DEFINE l == <<c>>
               w == putchar(c)
    <3>1. Rest(l, w)
      BY <2>1, Zenon DEF Rest
    <3>2. Len(l) = 1 /\ l[1] = c
      OBVIOUS
    <3> HIDE DEF l, w
    <3>3. v.out = <<"%", "l">> /\ v.out \in Seq(STRING) /\ p.out = v.out \o w
      <4>1. p.out = lead(3) \o putchar(c) /\ c0 = "l"
        BY <1>9, <2>1, <2>7
      <4> QED
        BY <2>2, <2>5, <4>1, Signs, Zenon DEF w
    <3>4. /\ v.skip \in 0..2 /\ Len(f) = 2 + v.skip + Len(l)
          /\ \A t \in 1 .. Len(l) : f[2 + v.skip + t] = l[t]
      BY <2>1, <2>5, <2>7, <3>2 DEF n
    <3>5. Round(p, v, l, w)
      BY <2>3, <2>5, <3>1, <3>3, <3>4 DEF Round, f
    <3> QED
      BY <2>1, <3>5
  <2>8. CASE n = 4
    <3> DEFINE l == <<"l", c>>
               w == <<"l">> \o putchar(c)
    <3>1. Rest(l, w)
      BY <2>1, Zenon DEF Rest
    <3>2. Len(l) = 2 /\ l[1] = "l" /\ l[2] = c
      <4> DEFINE m == "l"
      <4>1. l = <<m, c>>
        OBVIOUS
      <4> HIDE DEF m, l
      <4>2. Len(l) = 2 /\ l[1] = m /\ l[2] = c
        BY <4>1
      <4> QED
        BY <4>2 DEF m
    <3> HIDE DEF l, w
    <3>3. v.out = <<"%", "l">> /\ v.out \in Seq(STRING) /\ p.out = v.out \o w
      <4>1. p.out = lead(4) \o putchar(c) /\ c0 = "l"
        BY <1>9, <2>1, <2>8
      <4> QED
        BY <2>2, <2>5, <4>1, Signs, Zenon DEF w
    <3>4. /\ v.skip \in 0..2 /\ Len(f) = 2 + v.skip + Len(l)
          /\ \A t \in 1 .. Len(l) : f[2 + v.skip + t] = l[t]
      BY <2>1, <2>5, <2>8, <3>2 DEF n
    <3>5. Round(p, v, l, w)
      BY <2>3, <2>5, <3>1, <3>3, <3>4 DEF Round, f
    <3> QED
      BY <2>1, <3>5
  <2>9. n = 2 \/ n = 3 \/ n = 4
    BY <1>9
  <2> QED
    BY <2>6, <2>7, <2>8, <2>9
<1>10. ASSUME Plain(p)
       PROVE  Goal
  <2>1. /\ p.args = <<>>
        /\ \/ n = 1 /\ c \notin {NUL, "%"} /\ p.out = putchar(c)
           \/ f = <<"%">> /\ p.out = <<>>
           \/ f = <<"%", "%">> /\ p.out = <<"%">>
           \/ /\ Form /\ c \notin {"d", "u", "x", "%", NUL}
              /\ n = 2 => c \notin {"p", "c", "s"}
              /\ n # 4 => c # "l"
              /\ p.out = lead(n) \o putchar(c)
    BY <1>10, Zenon DEF Plain
  <2> HIDE DEF Form, Goal
  <2> QED
    BY <1>5, <1>6, <1>7, <1>9, <2>1
<1>11. ASSUME Converts(p)
       PROVE  Goal
  <2> DEFINE b == p.args[1]
             bits == IF n = 2 THEN INT ELSE LONG
  <2>1. Form /\ p.args = <<b>>
    BY <1>11, Zenon DEF Converts
  <2>2. a = b /\ Len(p.args) = 1
    <3>1. <<b>> # <<>> /\ Len(<<b>>) = 1
      OBVIOUS
    <3> HIDE DEF b
    <3>2. p.args # <<>> /\ Len(p.args) = 1
      BY <2>1, <3>1, Zenon
    <3> QED
      BY <3>2 DEF b
  <2>4. \/ c \in Numbers
        \/ n = 2 /\ c = "p" /\ b.n \in 0 .. two(LONG) - 1 /\ Pointer(p.out, b.n)
        \/ n = 2 /\ c = "c" /\ p.out = putchar(b.c)
        \/ n = 2 /\ c = "s" /\ p.out = put(IF b.s = NULL THEN <<"(", "n", "u", "l", "l", ")">> ELSE b.s)
    <3>1. \/ c = "d" \/ c = "u" \/ c = "x"
          \/ n = 2 /\ c = "p" /\ b.n \in 0 .. two(LONG) - 1 /\ Pointer(p.out, b.n)
          \/ n = 2 /\ c = "c" /\ p.out = putchar(b.c)
          \/ n = 2 /\ c = "s" /\ p.out = put(IF b.s = NULL THEN <<"(", "n", "u", "l", "l", ")">> ELSE b.s)
      BY <1>11, Zenon DEF Converts
    <3>2. (c = "d" \/ c = "u" \/ c = "x") => c \in Numbers
      BY DEF Numbers
    <3> QED
      BY <3>1, <3>2, Zenon
  <2>10. c # NUL
    <3>1. c \in {"d", "u", "x", "p", "c", "s"}
      BY <2>4 DEF Numbers
    <3> HIDE DEF c
    <3> QED
      BY <3>1 DEF NUL
  <2>3. /\ c \in STRING /\ cx = "%" /\ c0 # NUL
        /\ n = 2 => c0 = c
        /\ n = 3 => c0 = "l" /\ c1 = c
        /\ n = 4 => c0 = "l" /\ c1 = "l" /\ c2 = c
    <3>1. Form
      BY <2>1
    <3> HIDE DEF Form, c, n, f, cx
    <3> QED
      BY <1>8, <2>10, <3>1
  <2>5. CASE c \in Numbers
    <3>2. n \in 2..4
      BY <2>1
    <3>3. Round(p, v, <<>>, <<>>)
      <4> HIDE DEF b, c0, c1, c2, n, c, f, cx
      <4> QED
        BY <1>1, <1>11, <2>1, <2>2, <2>3, <2>5, <3>2, NumberRound, Zenon DEF v, b, n, c, f
    <3> QED
      BY <2>3, <3>3
  <2>6. ASSUME n = 2, NEW out, out = p.out, v = Conv(0, TRUE, out)
        PROVE  Goal
    <3>1. v.skip = 0 /\ v.takes = TRUE /\ v.out = p.out
      BY <2>6 DEF Conv
    <3>2. v.skip \in 0..2 /\ Len(f) = 2 + v.skip
      <4>1. Len(f) = 2
        BY <2>6, Zenon
      <4> HIDE DEF f
      <4> QED
        BY <3>1, <4>1
    <3>3. Round(p, v, <<>>, <<>>)
      <4>1. p.fmt \in Seq(STRING) /\ p.out \in Seq(STRING) /\ Len(p.args) = 1 /\ Len(p.fmt) = 2 + v.skip
        BY <1>1, <2>2, <3>2
      <4> HIDE DEF b, f, n, c, cx
      <4> QED
        BY <3>1, <3>2, <4>1, WholePiece, Zenon
    <3> QED
      BY <2>3, <3>3
  <2> HIDE DEF Goal, c, n, f, cx
  <2>7. CASE n = 2 /\ c = "p" /\ b.n \in 0 .. two(LONG) - 1 /\ Pointer(p.out, b.n)
    <3>1. b.n \in Nat
      BY <2>7
    <3>2. printptr(a.n) = p.out
      BY <2>2, <2>7, <3>1, PrintptrIs, Zenon
    <3>3. v = Conv(0, TRUE, printptr(a.n))
      BY <1>3, <2>3, <2>7 DEF Converted
    <3> QED
      BY <2>6, <2>7, <3>2, <3>3
  <2>8. CASE n = 2 /\ c = "c" /\ p.out = putchar(b.c)
    <3>2. putchar(a.c) = p.out
      BY <2>2, <2>8, Zenon
    <3>3. v = Conv(0, TRUE, putchar(a.c))
      BY <1>3, <2>3, <2>8 DEF Converted
    <3> QED
      BY <2>6, <2>8, <3>2, <3>3
  <2>9. CASE n = 2 /\ c = "s" /\ p.out = put(IF b.s = NULL THEN <<"(", "n", "u", "l", "l", ")">> ELSE b.s)
    <3> DEFINE s == put(IF a.s = NULL THEN <<"(", "n", "u", "l", "l", ")">> ELSE a.s)
    <3>2. s = p.out
      BY <2>2, <2>9, Zenon
    <3>3. v = Conv(0, TRUE, s)
      BY <1>3, <2>3, <2>9 DEF Converted
    <3> HIDE DEF s
    <3> QED
      BY <2>6, <2>9, <3>2, <3>3
  <2> QED
    BY <2>4, <2>5, <2>7, <2>8, <2>9
<1> HIDE DEF Goal
<1> QED
  BY <1>1, <1>10, <1>11

\* Texts one after the other.
LEMMA Joins ==
  ASSUME NEW s \in Seq(STRING), NEW y \in Seq(STRING), NEW z \in Seq(STRING)
  PROVE  (s \o y) \o z = s \o (y \o z) /\ s \o y \in Seq(STRING)
<1>1. (s \o y) \o z = s \o (y \o z)
  BY ConcatAssociative
<1> QED
  BY <1>1

\* The first of two sequences taken away.
Onward(f, k, x, r, s, y, z) ==
  /\ \A t \in Nat : At(f, (k + Len(x)) + t) = At(r, t)
  /\ s \o y \in Seq(STRING) /\ (s \o y) \o z = s \o (y \o z)

LEMMA Advance ==
  ASSUME NEW x \in Seq(STRING), NEW r \in Seq(STRING), NEW y \in Seq(STRING), NEW z \in Seq(STRING),
         NEW f, NEW k \in Nat, \A t \in Nat : At(f, k + t) = At(x \o r, t),
         NEW s \in Seq(STRING)
  PROVE  Onward(f, k, x, r, s, y, z)
<1>1. ASSUME NEW t \in Nat
      PROVE  At(f, (k + Len(x)) + t) = At(r, t)
  <2>1. Len(x) + t \in Nat /\ (k + Len(x)) + t = k + (Len(x) + t)
    OBVIOUS
  <2>2. At(f, k + (Len(x) + t)) = At(x \o r, Len(x) + t)
    BY <2>1, Zenon
  <2>3. At(x \o r, Len(x) + t) = At(r, t)
    BY AtConcat, Zenon
  <2> QED
    BY <2>1, <2>2, <2>3, Zenon
<1>2. (s \o y) \o z = s \o (y \o z) /\ s \o y \in Seq(STRING)
  BY Joins
<1> QED
  BY <1>1, <1>2, Zenon DEF Onward

\* The only argument of a piece, in front of those of the others.
LEMMA FirstArgument ==
  ASSUME NEW S, NEW s \in Seq(S), NEW u \in Seq(S)
  PROVE  /\ Len(s) = 1 => s \o u # <<>> /\ Head(s \o u) = s[1] /\ Tail(s \o u) = u
         /\ Len(s) = 0 => s = <<>> /\ s \o u = u
<1>1. ASSUME Len(s) = 1
      PROVE  s \o u # <<>> /\ Head(s \o u) = s[1] /\ Tail(s \o u) = u
  <2> DEFINE v == s \o u
  <2>1. /\ v \in Seq(S) /\ Len(v) = 1 + Len(u) /\ Len(u) \in Nat
        /\ \A k \in 1 .. 1 + Len(u) : v[k] = IF k <= 1 THEN s[k] ELSE u[k - 1]
    <3>1. /\ v \in Seq(S) /\ Len(v) = Len(s) + Len(u)
          /\ \A k \in 1 .. Len(s) + Len(u) : v[k] = IF k <= Len(s) THEN s[k] ELSE u[k - Len(s)]
      BY ConcatProperties, Zenon
    <3> HIDE DEF v
    <3> QED
      BY <1>1, <3>1
  <2> HIDE DEF v
  <2>2. v # <<>> /\ v[1] = s[1]
    BY <2>1
  <2>3. /\ Head(v) = v[1]
        /\ Tail(v) \in Seq(S) /\ Len(Tail(v)) = Len(u)
        /\ \A k \in 1 .. Len(u) : Tail(v)[k] = v[k + 1]
    <3>1. Head(v) = v[1]
      BY <2>1, <2>2
    <3>2. /\ Tail(v) \in Seq(S) /\ Len(Tail(v)) = Len(v) - 1
          /\ \A k \in 1 .. Len(Tail(v)) : Tail(v)[k] = v[k + 1]
      BY <2>1, <2>2, HeadTailProperties
    <3> QED
      BY <2>1, <3>1, <3>2
  <2>4. \A k \in 1 .. Len(u) : Tail(v)[k] = u[k]
    BY <2>1, <2>3
  <2>5. Tail(v) = u
    BY <2>3, <2>4, SeqEqual
  <2> QED
    BY <2>2, <2>3, <2>5 DEF v
<1>2. ASSUME Len(s) = 0
      PROVE  s = <<>> /\ s \o u = u
  <2>1. s = <<>>
    BY <1>2
  <2> QED
    BY <2>1, ConcatEmptySeq
<1> QED
  BY <1>1, <1>2

Opens(l, w) ==
  \E d \in STRING \ {NUL, "%"} : \E m, x :
    Rest(m, x) /\ m \in Seq(STRING) /\ x \in Seq(STRING)
    /\ l = <<d>> \o m /\ w = putchar(d) \o x /\ <<d>> \in Seq(STRING)

\* What Rest() leaves is text, and its first character is not special.
LEMMA RestIs ==
  ASSUME NEW l, NEW w, Rest(l, w)
  PROVE  /\ l \in Seq(STRING) /\ w \in Seq(STRING)
         /\ \/ l = <<>> /\ w = <<>>
            \/ Opens(l, w)
<1>1. CASE l = <<>> /\ w = <<>>
  BY <1>1
<1>2. ASSUME NEW c \in STRING \ {NUL, "%"}, l = <<c>>, w = putchar(c)
      PROVE  /\ l \in Seq(STRING) /\ w \in Seq(STRING)
             /\ Opens(l, w)
  <2>1. l \in Seq(STRING) /\ w \in Seq(STRING)
    BY <1>2, Printed, Signs
  <2>2. l = <<c>> \o <<>> /\ w = putchar(c) \o <<>>
    BY <1>2, <2>1, ConcatEmptySeq
  <2>3. Rest(<<>>, <<>>) /\ <<>> \in Seq(STRING)
    BY DEF Rest
  <2> QED
    BY <1>2, <2>1, <2>2, <2>3, Zenon DEF Opens
<1>3. ASSUME NEW c \in STRING \ {NUL, "%"}, l = <<"l", c>>, w = <<"l">> \o putchar(c)
      PROVE  /\ l \in Seq(STRING) /\ w \in Seq(STRING)
             /\ Opens(l, w)
  <2> DEFINE d == "l"
             m == <<c>>
             x == putchar(c)
  <2>1. d \in STRING \ {NUL, "%"} /\ putchar(d) = <<d>> /\ <<d>> \in Seq(STRING)
    BY Signs DEF putchar, LF, NUL
  <2>2. m \in Seq(STRING) /\ x \in Seq(STRING)
    BY Printed, Signs
  <2>3. Rest(m, x)
    BY Zenon DEF Rest
  <2>4. l = <<d>> \o m
    <3>1. d \in STRING /\ c \in STRING
      BY <2>1
    <3> HIDE DEF d
    <3>2. <<d>> \o <<c>> = <<d, c>>
      BY <3>1, Joined
    <3> QED
      BY <1>3, <3>2, Zenon DEF d
  <2>5. w = putchar(d) \o x
    BY <1>3, <2>1, Zenon
  <2> HIDE DEF d, m, x
  <2>6. l \in Seq(STRING) /\ w \in Seq(STRING)
    BY <2>1, <2>2, <2>4, <2>5
  <2> QED
    BY <2>1, <2>2, <2>3, <2>4, <2>5, <2>6, Zenon DEF Opens
<1> QED
  BY <1>1, <1>2, <1>3 DEF Rest

\* The pieces and their arguments.
Arguments == {p.args[1] : p \in Pieces}
LEMMA PieceIs ==
  ASSUME NEW p \in Pieces
  PROVE  p.fmt \in Seq(STRING) /\ p.out \in Seq(STRING) /\ p.args \in Seq(Arguments) /\ Len(p.args) \in {0, 1}
<1>1. p.fmt \in Seq(STRING) /\ p.out \in Seq(STRING) /\ (Plain(p) \/ Converts(p))
  BY TextAssumption
<1> DEFINE b == p.args[1]
<1>2. p.args = <<>> \/ p.args = <<b>>
  <2>1. Plain(p) => p.args = <<>>
    BY Zenon DEF Plain
  <2>2. Converts(p) => p.args = <<b>>
    BY Zenon DEF Converts
  <2> QED
    BY <1>1, <2>1, <2>2
<1>3. b \in Arguments
  BY DEF Arguments
<1> HIDE DEF b
<1>4. <<b>> \in Seq(Arguments) /\ Len(<<b>>) = 1 /\ <<>> \in Seq(Arguments) /\ Len(<<>>) = 0
  BY <1>3
<1> QED
  BY <1>1, <1>2, <1>4

\* What a round prints, and takes from the format.
LEMMA RoundTakes ==
  ASSUME NEW p \in Pieces, NEW v, NEW l, NEW w, Round(p, v, l, w)
  PROVE  \E x \in Seq(STRING) : p.fmt = x \o l /\ Len(x) = 2 + v.skip
<1>1. p.fmt \in Seq(STRING)
  BY PieceIs
<1>2. /\ l \in Seq(STRING) /\ v.skip \in 0..2 /\ Len(p.fmt) = 2 + v.skip + Len(l)
      /\ \A t \in 1 .. Len(l) : p.fmt[2 + v.skip + t] = l[t]
  BY RestIs, Zenon DEF Round
<1> DEFINE f == p.fmt
           k == 2 + v.skip
           x == SubSeq(f, 1, k)
           u == x \o l
<1>3. f \in Seq(STRING) /\ k \in Nat /\ Len(l) \in Nat /\ Len(f) = k + Len(l)
      /\ \A t \in 1 .. Len(l) : f[k + t] = l[t]
  BY <1>1, <1>2
<1> HIDE DEF f, k
<1>4. x \in Seq(STRING) /\ Len(x) = k /\ \A t \in 1..k : x[t] = f[t]
  <2>1. 1 \in Int /\ k \in Int /\ \A t \in 1..k : f[t] \in STRING
    BY <1>3
  <2>2. /\ x \in Seq(STRING) /\ Len(x) = (IF 1 <= k THEN k - 1 + 1 ELSE 0)
        /\ \A t \in 1 .. k - 1 + 1 : x[t] = f[1 + t - 1]
    BY <2>1, SubSeqProperties
  <2> HIDE DEF x
  <2> QED
    BY <1>3, <2>2
<1> HIDE DEF x
<1>5. /\ u \in Seq(STRING) /\ Len(u) = k + Len(l)
      /\ \A t \in 1 .. k + Len(l) : u[t] = IF t <= k THEN x[t] ELSE l[t - k]
  BY <1>2, <1>4, ConcatProperties
<1> HIDE DEF u
<1>6. ASSUME NEW t \in 1 .. k + Len(l)
      PROVE  f[t] = u[t]
  <2>1. CASE t <= k
    BY <1>3, <1>4, <1>5, <2>1
  <2>2. CASE ~ (t <= k)
    <3>1. t - k \in 1 .. Len(l) /\ k + (t - k) = t
      BY <1>3, <2>2
    <3> QED
      BY <1>3, <1>5, <2>2, <3>1
  <2> QED
    BY <2>1, <2>2
<1>7. f = u
  BY <1>3, <1>5, <1>6, SeqEqual
<1> QED
  BY <1>4, <1>7, Zenon DEF u, f, k

\* Between two rounds printf() has printed the pieces up to the j-th whole, and
\* of what a conversion it does not know left of that, all but l; the formats,
\* the arguments and the texts of the pieces after it are still to come.
Pending(n, ef, ea, eo) ==
  /\ pieces \in [1..n -> Pieces] /\ \A k \in 1 .. n - 1 : pieces[k].fmt # <<"%">>
  /\ Tails(ef, [k \in 1..n |-> pieces[k].fmt], n, STRING)
  /\ Tails(ea, [k \in 1..n |-> pieces[k].args], n, Arguments)
  /\ Tails(eo, [k \in 1..n |-> pieces[k].out], n, STRING)
  /\ ef[0] = fmt /\ eo[0] = FlattenSeq([k \in DOMAIN pieces |-> pieces[k].out])

Left(ef, ea, eo, j, l, w) ==
  /\ Rest(l, w) /\ i \in Nat /\ screen \in Seq(STRING) /\ ap = ea[j]
  /\ \A t \in Nat : At(fmt, i + t) = At(l \o ef[j], t)
  /\ screen \o (w \o eo[j]) = eo[0]

PrintInv ==
  /\ line = "printf" =>
       \E n \in Nat : \E ef, ea, eo :
         Pending(n, ef, ea, eo) /\ \E j \in 0..n : \E l, w : Left(ef, ea, eo, j, l, w)
  /\ PrintfRenders

LEMMA PrintInitial == TextInit => PrintInv
<1> SUFFICES ASSUME TextInit
             PROVE  PrintInv
  OBVIOUS
<1>1. PICK n \in 1..PIECES :
        pieces \in [1..n -> Pieces] /\ \A k \in 1 .. n - 1 : pieces[k].fmt # <<"%">>
  BY Zenon DEF TextInit
<1>2. n \in Nat /\ 0 \in 0..n
  BY TextAssumption
<1> DEFINE sf == [k \in 1..n |-> pieces[k].fmt]
           sa == [k \in 1..n |-> pieces[k].args]
           so == [k \in 1..n |-> pieces[k].out]
<1>3. /\ DOMAIN pieces = 1..n
      /\ sf \in [1..n -> Seq(STRING)] /\ sa \in [1..n -> Seq(Arguments)] /\ so \in [1..n -> Seq(STRING)]
  <2>1. \A k \in 1..n : pieces[k] \in Pieces
    BY <1>1
  <2>2. \A k \in 1..n : /\ pieces[k].fmt \in Seq(STRING) /\ pieces[k].out \in Seq(STRING)
                        /\ pieces[k].args \in Seq(Arguments)
    BY <2>1, PieceIs
  <2> QED
    BY <1>1, <2>2
<1>4. fmt = FlattenSeq(sf) /\ ap = FlattenSeq(sa) /\ i = 0 /\ screen = <<>> /\ line = "printf"
  BY <1>3 DEF TextInit, fmt
<1>5. FlattenSeq([k \in DOMAIN pieces |-> pieces[k].out]) = FlattenSeq(so)
  BY <1>3
<1> HIDE DEF sf, sa, so
<1>6. PICK ef : Tails(ef, sf, n, STRING)
  BY <1>2, <1>3, TailsExist
<1>7. PICK ea : Tails(ea, sa, n, Arguments)
  BY <1>2, <1>3, TailsExist
<1>8. PICK eo : Tails(eo, so, n, STRING)
  BY <1>2, <1>3, TailsExist
<1>9. ef[0] = fmt /\ ea[0] = ap /\ eo[0] = FlattenSeq(so)
  BY <1>2, <1>3, <1>4, <1>6, <1>7, <1>8, TailsFlat, Zenon
<1>10. Pending(n, ef, ea, eo)
  BY <1>1, <1>5, <1>6, <1>7, <1>8, <1>9 DEF Pending, sf, sa, so
<1>11. Left(ef, ea, eo, 0, <<>>, <<>>)
  <2>1. ef[0] \in Seq(STRING) /\ eo[0] \in Seq(STRING) /\ <<>> \in Seq(STRING)
    BY <1>2, <1>6, <1>8 DEF Tails
  <2>2. <<>> \o ef[0] = ef[0] /\ <<>> \o eo[0] = eo[0]
    BY <2>1, ConcatEmptySeq
  <2>3. \A t \in Nat : At(fmt, i + t) = At(<<>> \o ef[0], t)
    <3>1. \A t \in Nat : i + t = t
      BY <1>4
    <3> QED
      BY <1>9, <2>2, <3>1, Zenon
  <2>4. Rest(<<>>, <<>>)
    BY Zenon DEF Rest
  <2>5. screen \o (<<>> \o eo[0]) = eo[0]
    BY <1>4, <2>2, Zenon
  <2>6. i \in Nat /\ screen \in Seq(STRING)
    BY <1>4, <2>1
  <2> QED
    BY <1>9, <2>3, <2>4, <2>5, <2>6 DEF Left
<1>12. PrintfRenders
  BY <1>4 DEF PrintfRenders
<1> QED
  BY <1>2, <1>10, <1>11, <1>12 DEF PrintInv

\* What the next piece adds to what is left.
Follows(n, ef, ea, eo, j) ==
  /\ ef[j] \in Seq(STRING) /\ ea[j] \in Seq(Arguments) /\ eo[j] \in Seq(STRING)
  /\ j = n => ef[j] = <<>> /\ ea[j] = <<>> /\ eo[j] = <<>>
  /\ j # n => /\ j + 1 \in 1..n /\ j + 1 \in 0..n /\ pieces[j + 1] \in Pieces
              /\ pieces[j + 1].fmt = <<"%">> => j + 1 = n
              /\ ef[j] = pieces[j + 1].fmt \o ef[j + 1]
              /\ ea[j] = pieces[j + 1].args \o ea[j + 1]
              /\ eo[j] = pieces[j + 1].out \o eo[j + 1]
              /\ ef[j + 1] \in Seq(STRING) /\ ea[j + 1] \in Seq(Arguments)
              /\ eo[j + 1] \in Seq(STRING)

LEMMA NextPiece ==
  ASSUME NEW n \in Nat, NEW ef, NEW ea, NEW eo, Pending(n, ef, ea, eo), NEW j \in 0..n
  PROVE  Follows(n, ef, ea, eo, j)
<1> DEFINE sf == [k \in 1..n |-> pieces[k].fmt]
           sa == [k \in 1..n |-> pieces[k].args]
           so == [k \in 1..n |-> pieces[k].out]
<1>1. /\ pieces \in [1..n -> Pieces] /\ \A k \in 1 .. n - 1 : pieces[k].fmt # <<"%">>
      /\ Tails(ef, sf, n, STRING) /\ Tails(ea, sa, n, Arguments) /\ Tails(eo, so, n, STRING)
  BY DEF Pending
<1>2. \A k \in 1..n : sf[k] = pieces[k].fmt /\ sa[k] = pieces[k].args /\ so[k] = pieces[k].out
  OBVIOUS
<1> HIDE DEF sf, sa, so
<1>3. /\ \A k \in 0..n : ef[k] \in Seq(STRING) /\ ea[k] \in Seq(Arguments) /\ eo[k] \in Seq(STRING)
      /\ ef[n] = <<>> /\ ea[n] = <<>> /\ eo[n] = <<>>
      /\ \A k \in 1..n : /\ ef[k - 1] = sf[k] \o ef[k] /\ ea[k - 1] = sa[k] \o ea[k]
                         /\ eo[k - 1] = so[k] \o eo[k]
  BY <1>1 DEF Tails
<1>4. ASSUME j # n
      PROVE  /\ j + 1 \in 1..n /\ j + 1 \in 0..n /\ (j + 1) - 1 = j
             /\ j + 1 # n => j + 1 \in 1 .. n - 1
  BY <1>4
<1>5. ASSUME j # n
      PROVE  /\ ef[j] = pieces[j + 1].fmt \o ef[j + 1]
             /\ ea[j] = pieces[j + 1].args \o ea[j + 1]
             /\ eo[j] = pieces[j + 1].out \o eo[j + 1]
  <2> DEFINE k == j + 1
  <2>1. k \in 1..n /\ k - 1 = j
    BY <1>4, <1>5
  <2> HIDE DEF k
  <2>2. ef[k - 1] = sf[k] \o ef[k] /\ ea[k - 1] = sa[k] \o ea[k] /\ eo[k - 1] = so[k] \o eo[k]
    BY <1>3, <2>1, Zenon
  <2> QED
    BY <1>2, <2>1, <2>2, Zenon DEF k
<1>6. ASSUME j # n
      PROVE  pieces[j + 1] \in Pieces /\ (pieces[j + 1].fmt = <<"%">> => j + 1 = n)
  BY <1>1, <1>4, <1>6
<1> QED
  BY <1>3, <1>4, <1>5, <1>6, Zenon DEF Follows

\* PieceRound, with names for the characters.
Begins(p, cx, c0, v) ==
  \/ cx \notin {NUL, "%"} /\ Len(p.fmt) = 1 /\ p.args = <<>> /\ p.out = putchar(cx)
  \/ cx = "%" /\ c0 = NUL /\ p.fmt = <<"%">> /\ p.args = <<>> /\ p.out = <<>>
  \/ cx = "%" /\ c0 # NUL /\ \E l, w : Round(p, v, l, w)

LEMMA PieceBegins ==
  ASSUME NEW p \in Pieces, NEW E \in Seq(STRING), p.fmt = <<"%">> => E = <<>>,
         NEW a, p.args # <<>> => a = p.args[1],
         NEW cx, NEW c0, NEW c1, NEW c2,
         cx = At(p.fmt \o E, 0), c0 = At(p.fmt \o E, 1),
         c1 = IF c0 = NUL THEN NUL ELSE At(p.fmt \o E, 2),
         c2 = IF c1 = NUL THEN NUL ELSE At(p.fmt \o E, 3)
  PROVE  Begins(p, cx, c0, conversion(c0, c1, c2, a))
<1>1. LET dx == At(p.fmt \o E, 0)
          d0 == At(p.fmt \o E, 1)
          d1 == IF d0 = NUL THEN NUL ELSE At(p.fmt \o E, 2)
          d2 == IF d1 = NUL THEN NUL ELSE At(p.fmt \o E, 3)
      IN  \/ dx \notin {NUL, "%"} /\ Len(p.fmt) = 1 /\ p.args = <<>> /\ p.out = putchar(dx)
          \/ dx = "%" /\ d0 = NUL /\ p.fmt = <<"%">> /\ p.args = <<>> /\ p.out = <<>>
          \/ dx = "%" /\ d0 # NUL /\ \E l, w : Round(p, conversion(d0, d1, d2, a), l, w)
  BY PieceRound
<1> QED
  BY <1>1, Zenon DEF Begins

\* What follows a piece when it is done.
LEMMA ArgumentsLeft ==
  ASSUME NEW p \in Pieces, NEW A \in Seq(Arguments), NEW b, b = p.args \o A
  PROVE  /\ p.args # <<>> => b # <<>> /\ Head(b) = p.args[1]
         /\ Len(p.args) = 1 => Tail(b) = A
         /\ Len(p.args) = 0 => b = A
<1> DEFINE s == p.args
<1>1. s \in Seq(Arguments) /\ Len(s) \in {0, 1}
  BY PieceIs
<1> HIDE DEF s
<1>2. /\ Len(s) = 1 => s \o A # <<>> /\ Head(s \o A) = s[1] /\ Tail(s \o A) = A
      /\ Len(s) = 0 => s = <<>> /\ s \o A = A
  BY <1>1, FirstArgument
<1> QED
  BY <1>1, <1>2, Zenon DEF s

\* Nothing left to read is nothing left to print.
LEMMA RestEmpty ==
  ASSUME NEW l, NEW w, Rest(l, w), l = <<>>
  PROVE  w = <<>>
<1>1. \A c \in STRING : <<c>> # <<>> /\ <<"l", c>> # <<>>
  OBVIOUS
<1> QED
  BY <1>1 DEF Rest

\* Joins, with a name for what it says of three texts.
Joined3(s1, s2, s3) ==
  (s1 \o s2) \o s3 = s1 \o (s2 \o s3) /\ s1 \o s2 \in Seq(STRING) /\ s2 \o s3 \in Seq(STRING)

LEMMA Join3 == \A s1, s2, s3 \in Seq(STRING) : Joined3(s1, s2, s3)
<1>1. ASSUME NEW s1 \in Seq(STRING), NEW s2 \in Seq(STRING), NEW s3 \in Seq(STRING)
      PROVE  Joined3(s1, s2, s3)
  BY Joins DEF Joined3
<1> QED
  BY <1>1, Zenon

LEMMA PrintRound == PrintInv /\ printf => PrintInv'
<1> SUFFICES ASSUME PrintInv, printf
             PROVE  PrintInv'
  OBVIOUS
<1> DEFINE cx == At(fmt, i)
           c0 == At(fmt, i + 1)
           c1 == IF c0 = NUL THEN NUL ELSE At(fmt, i + 2)
           c2 == IF c1 = NUL THEN NUL ELSE At(fmt, i + 3)
           a == IF ap = <<>> THEN [n |-> 0] ELSE Head(ap)
           v == conversion(c0, c1, c2, a)
<1>1. /\ line = "printf"
      /\ \/ /\ cx \notin {NUL, "%"} /\ screen' = screen \o putchar(cx)
            /\ i' = i + 1 /\ line' = line /\ ap' = ap
         \/ /\ cx = "%" /\ c0 # NUL /\ screen' = screen \o v.out
            /\ i' = i + 2 + v.skip /\ line' = line /\ ap' = IF v.takes THEN Tail(ap) ELSE ap
         \/ /\ cx = NUL \/ (cx = "%" /\ c0 = NUL)
            /\ line' = "proc_born" /\ screen' = screen /\ i' = i /\ ap' = ap
      /\ pieces' = pieces
  BY Zenon DEF printf
<1>2. PICK n \in Nat : \E ef, ea, eo :
        Pending(n, ef, ea, eo) /\ \E j \in 0..n : \E l, w : Left(ef, ea, eo, j, l, w)
  BY <1>1, Zenon DEF PrintInv
<1>3. PICK ef, ea, eo :
        Pending(n, ef, ea, eo) /\ \E j \in 0..n : \E l, w : Left(ef, ea, eo, j, l, w)
  BY <1>2, Zenon
<1>4. PICK j \in 0..n : \E l, w : Left(ef, ea, eo, j, l, w)
  BY <1>3, Zenon
<1>5. PICK l, w : Left(ef, ea, eo, j, l, w)
  BY <1>4, Zenon
<1>6. /\ Rest(l, w) /\ i \in Nat /\ screen \in Seq(STRING) /\ ap = ea[j]
      /\ \A t \in Nat : At(fmt, i + t) = At(l \o ef[j], t)
      /\ screen \o (w \o eo[j]) = eo[0]
  BY <1>5, Zenon DEF Left
<1>7. fmt' = fmt /\ Pending(n, ef, ea, eo)'
  <2>1. fmt' = fmt
    BY <1>1 DEF fmt
  <2> QED
    BY <1>1, <1>3, <2>1 DEF Pending
<1>8. /\ ef[j] \in Seq(STRING) /\ ea[j] \in Seq(Arguments) /\ eo[j] \in Seq(STRING)
      /\ j = n => ef[j] = <<>> /\ ea[j] = <<>> /\ eo[j] = <<>>
  <2>1. Follows(n, ef, ea, eo, j)
    BY <1>3, NextPiece, Zenon
  <2> QED
    BY <2>1, Zenon DEF Follows
<1>9. ASSUME line' = line, NEW k \in 0..n, NEW m, NEW x, Rest(m, x), i' \in Nat, screen' \in Seq(STRING),
             ap' = ea[k], \A t \in Nat : At(fmt, i' + t) = At(m \o ef[k], t),
             screen' \o (x \o eo[k]) = eo[0]
      PROVE  PrintInv'
  <2>1. Left(ef, ea, eo, k, m, x)'
    BY <1>7, <1>9, Zenon DEF Left
  <2>2. line' # "proc_born"
    BY <1>1, <1>9
  <2>3. PrintfRenders'
    BY <2>2 DEF PrintfRenders
  <2> QED
    BY <1>7, <2>1, <2>3 DEF PrintInv
<1>10. ASSUME line' = "proc_born", ap' = <<>>, screen' = eo[0]
       PROVE  PrintInv'
  <2>1. eo[0] = FlattenSeq([k \in DOMAIN pieces |-> pieces[k].out])
    BY <1>3, Zenon DEF Pending
  <2>2. PrintfRenders'
    BY <1>1, <1>10, <2>1 DEF PrintfRenders
  <2> QED
    BY <1>10, <2>2 DEF PrintInv
<1> DEFINE R == l \o ef[j]
<1>11. /\ cx = At(R, 0) /\ c0 = At(R, 1)
       /\ At(fmt, i + 2) = At(R, 2) /\ At(fmt, i + 3) = At(R, 3)
  <2>1. i + 0 = i /\ 0 \in Nat /\ 1 \in Nat /\ 2 \in Nat /\ 3 \in Nat
    BY <1>6
  <2> QED
    BY <1>6, <2>1, Zenon
<1> HIDE DEF cx
<1>12. ASSUME NEW k \in 0..n, NEW g, NEW h, NEW x \in Seq(STRING), NEW m \in Seq(STRING),
              NEW y \in Seq(STRING), NEW u \in Seq(STRING), Rest(m, u), g = x \o m, h = y \o u,
              \A t \in Nat : At(fmt, i + t) = At(g \o ef[k], t), screen \o (h \o eo[k]) = eo[0],
              line' = line, i' = i + Len(x), screen' = screen \o y, ap' = ea[k]
       PROVE  PrintInv'
  <2> DEFINE F == ef[k]
             O == eo[k]
             r == m \o F
             z == u \o O
             len == Len(x)
             s == screen
  <2>1. F \in Seq(STRING) /\ O \in Seq(STRING) /\ s \in Seq(STRING) /\ i \in Nat /\ len \in Nat
    <3>1. Follows(n, ef, ea, eo, k)
      BY <1>3, NextPiece, Zenon
    <3>2. len \in Nat
      OBVIOUS
    <3> QED
      BY <1>6, <3>1, <3>2, Zenon DEF Follows
  <2> HIDE DEF F, O, s
  <2>2. g \o F = x \o r /\ r \in Seq(STRING)
    <3>1. (x \o m) \o F = x \o (m \o F) /\ m \o F \in Seq(STRING)
      <4>1. x \in Seq(STRING) /\ m \in Seq(STRING) /\ F \in Seq(STRING)
        BY <2>1, Zenon
      <4>2. Joined3(x, m, F)
        BY <4>1, Join3, Zenon
      <4> QED
        BY <4>2, Zenon DEF Joined3
    <3> QED
      BY <1>12, <3>1, Zenon
  <2>3. h \o O = y \o z /\ z \in Seq(STRING)
    <3>1. (y \o u) \o O = y \o (u \o O) /\ u \o O \in Seq(STRING)
      <4>1. y \in Seq(STRING) /\ u \in Seq(STRING) /\ O \in Seq(STRING)
        BY <2>1, Zenon
      <4>2. Joined3(y, u, O)
        BY <4>1, Join3, Zenon
      <4> QED
        BY <4>2, Zenon DEF Joined3
    <3> QED
      BY <1>12, <3>1, Zenon
  <2> HIDE DEF r, z
  <2>4. \A t \in Nat : At(fmt, i + t) = At(x \o r, t)
    BY <1>12, <2>2, Zenon DEF F
  <2>5. Onward(fmt, i, x, r, s, y, z)
    BY <2>1, <2>2, <2>3, <2>4, Advance, Zenon
  <2>6. /\ \A t \in Nat : At(fmt, (i + len) + t) = At(r, t)
        /\ s \o y \in Seq(STRING) /\ (s \o y) \o z = s \o (y \o z)
    BY <2>5, Zenon DEF Onward, len
  <2>7. i' = i + len /\ screen' = s \o y
    BY <1>12, Zenon DEF len, s
  <2>8. i' \in Nat
    BY <2>1, <2>7
  <2>9. \A t \in Nat : At(fmt, i' + t) = At(m \o ef[k], t)
    BY <2>6, <2>7, Zenon DEF r, F
  <2>10. screen' \o (u \o eo[k]) = eo[0]
    BY <1>12, <2>3, <2>6, <2>7, Zenon DEF z, O, s
  <2>11. line' = line /\ screen' \in Seq(STRING) /\ ap' = ea[k] /\ Rest(m, u)
    BY <1>12, <2>6, <2>7, Zenon
  <2> QED
    BY <1>9, <2>8, <2>9, <2>10, <2>11, Zenon
<1>13. CASE l # <<>>
  <2>1. Opens(l, w)
    BY <1>6, <1>13, RestIs, Zenon
  <2>2. PICK d \in STRING \ {NUL, "%"} : \E m, x :
          Rest(m, x) /\ m \in Seq(STRING) /\ x \in Seq(STRING)
          /\ l = <<d>> \o m /\ w = putchar(d) \o x /\ <<d>> \in Seq(STRING)
    BY <2>1, Zenon DEF Opens
  <2>3. PICK m, x :
          Rest(m, x) /\ m \in Seq(STRING) /\ x \in Seq(STRING)
          /\ l = <<d>> \o m /\ w = putchar(d) \o x /\ <<d>> \in Seq(STRING)
    BY <2>2, Zenon
  <2> DEFINE y == putchar(d)
             dd == <<d>>
             r == m \o ef[j]
  <2>4. y \in Seq(STRING) /\ dd \in Seq(STRING) /\ Len(dd) = 1 /\ dd[1] = d
    BY <2>3, Printed
  <2>5. cx = d
    <3> HIDE DEF dd
    <3>1. m \in Seq(STRING) /\ ef[j] \in Seq(STRING) /\ r \in Seq(STRING) /\ Len(dd) >= 1
      BY <1>8, <2>3, <2>4
    <3>2. (dd \o m) \o ef[j] = dd \o r
      <4> DEFINE F == ef[j]
      <4> HIDE DEF F
      <4>1. F \in Seq(STRING)
        BY <1>8 DEF F
      <4>2. Joined3(dd, m, F)
        BY <2>3, <2>4, <4>1, Join3, Zenon
      <4> QED
        BY <4>2, Zenon DEF F, Joined3
    <3> HIDE DEF r
    <3>3. At(dd \o r, 0) = dd[1]
      BY <2>4, <3>1, PieceAt, Zenon
    <3> QED
      BY <1>11, <2>3, <2>4, <3>2, <3>3, Zenon DEF dd
  <2>6. screen' = screen \o y /\ i' = i + Len(dd) /\ line' = line /\ ap' = ap
    BY <1>1, <2>3, <2>4, <2>5 DEF y
  <2>7. ap' = ea[j]
    BY <1>6, <2>6
  <2> HIDE DEF y, dd
  <2>8. l = dd \o m /\ w = y \o x
    BY <2>3, Zenon DEF y, dd
  <2> QED
    BY <1>6, <1>12, <2>3, <2>4, <2>6, <2>7, <2>8, Zenon
<1>14. CASE l = <<>> /\ j = n
  <2>1. R = <<>> /\ w = <<>>
    <3>1. w = <<>>
      BY <1>6, <1>14, RestEmpty
    <3>2. <<>> \o <<>> = <<>>
      OBVIOUS
    <3> QED
      BY <1>8, <1>14, <3>1, <3>2, Zenon
  <2>2. cx = NUL
    <3>1. At(<<>>, 0) = NUL
      BY DEF At
    <3> QED
      BY <1>11, <2>1, <3>1, Zenon
  <2>3. line' = "proc_born" /\ screen' = screen /\ ap' = ap
    BY <1>1, <2>2 DEF NUL
  <2>4. screen = eo[0]
    <3>1. <<>> \o <<>> = <<>> /\ screen \o <<>> = screen
      BY <1>6, ConcatEmptySeq
    <3> QED
      BY <1>6, <1>8, <1>14, <2>1, <3>1, Zenon
  <2> QED
    BY <1>6, <1>8, <1>10, <1>14, <2>3, <2>4, Zenon
<1>15. CASE l = <<>> /\ j # n
  <2> DEFINE k == j + 1
             p == pieces[k]
             f == p.fmt
             F == ef[k]
             A == ea[k]
             O == eo[k]
  <2>1. /\ k \in 0..n /\ p \in Pieces /\ (f = <<"%">> => k = n)
        /\ ef[j] = f \o F /\ ea[j] = p.args \o A /\ eo[j] = p.out \o O
        /\ F \in Seq(STRING) /\ A \in Seq(Arguments) /\ O \in Seq(STRING)
    <3>1. Follows(n, ef, ea, eo, j)
      BY <1>3, NextPiece, Zenon
    <3> QED
      BY <1>15, <3>1, Zenon DEF Follows
  <2> HIDE DEF k, p, F, A, O
  <2>2. k = n => F = <<>> /\ A = <<>> /\ O = <<>>
    <3>1. Follows(n, ef, ea, eo, k)
      BY <1>3, <2>1, NextPiece, Zenon
    <3> QED
      BY <3>1, Zenon DEF Follows, F, A, O
  <2>3. f \in Seq(STRING) /\ p.out \in Seq(STRING) /\ Len(p.args) \in {0, 1}
    BY <2>1, PieceIs
  <2>4. R = f \o F /\ ap = p.args \o A /\ screen \o (p.out \o O) = eo[0]
    <3>1. w = <<>>
      BY <1>6, <1>15, RestEmpty
    <3>2. f \o F \in Seq(STRING) /\ p.out \o O \in Seq(STRING)
      BY <2>1, <2>3
    <3>3. <<>> \o (f \o F) = f \o F /\ <<>> \o (p.out \o O) = p.out \o O
      BY <3>2, ConcatEmptySeq
    <3> QED
      BY <1>6, <1>15, <2>1, <3>1, <3>3, Zenon DEF R
  <2>5. /\ p.args # <<>> => a = p.args[1]
        /\ Len(p.args) = 1 => Tail(ap) = A
        /\ Len(p.args) = 0 => ap = A
    <3>1. /\ p.args # <<>> => ap # <<>> /\ Head(ap) = p.args[1]
          /\ Len(p.args) = 1 => Tail(ap) = A
          /\ Len(p.args) = 0 => ap = A
      BY <2>1, <2>4, ArgumentsLeft, Zenon
    <3> QED
      BY <3>1, Zenon DEF a
  <2>6. Begins(p, cx, c0, v)
    <3>1. f = <<"%">> => F = <<>>
      BY <2>1, <2>2
    <3>2. /\ cx = At(p.fmt \o F, 0) /\ c0 = At(p.fmt \o F, 1)
          /\ c1 = IF c0 = NUL THEN NUL ELSE At(p.fmt \o F, 2)
          /\ c2 = IF c1 = NUL THEN NUL ELSE At(p.fmt \o F, 3)
      BY <1>11, <2>4, Zenon DEF c1, c2
    <3> HIDE DEF c0, c1, c2, a
    <3> QED
      BY <2>1, <2>5, <3>1, <3>2, PieceBegins, Zenon DEF v
  <2>7. /\ \A t \in Nat : At(fmt, i + t) = At(f \o ef[k], t)
        /\ screen \o (p.out \o eo[k]) = eo[0]
    BY <1>6, <2>4, Zenon DEF F, O, R
  <2> HIDE DEF v, c0, c1, c2, a
  <2>8. CASE cx \notin {NUL, "%"} /\ Len(p.fmt) = 1 /\ p.args = <<>> /\ p.out = putchar(cx)
    <3> DEFINE y == p.out
    <3>1. screen' = screen \o y /\ i' = i + Len(f) /\ line' = line /\ ap' = ap
      BY <1>1, <2>8
    <3>2. ap' = ea[k]
      <4>1. Len(p.args) = 0
        BY <2>8
      <4> QED
        BY <2>5, <3>1, <4>1 DEF A
    <3>3. f = f \o <<>> /\ y = y \o <<>> /\ <<>> \in Seq(STRING) /\ f \in Seq(STRING) /\ y \in Seq(STRING)
      BY <2>3, ConcatEmptySeq
    <3>4. Rest(<<>>, <<>>)
      BY Zenon DEF Rest
    <3> HIDE DEF y, f
    <3> QED
      BY <1>12, <2>1, <2>7, <3>1, <3>2, <3>3, <3>4, Zenon DEF y
  <2>9. CASE cx = "%" /\ c0 = NUL /\ p.fmt = <<"%">> /\ p.args = <<>> /\ p.out = <<>>
    <3>1. k = n /\ A = <<>> /\ O = <<>>
      BY <2>1, <2>2, <2>9
    <3>2. line' = "proc_born" /\ screen' = screen /\ ap' = ap
      BY <1>1, <2>9 DEF NUL
    <3>3. ap' = <<>>
      <4>1. Len(p.args) = 0
        BY <2>9
      <4> QED
        BY <2>5, <3>1, <3>2, <4>1
    <3>4. screen' = eo[0]
      <4>1. <<>> \o <<>> = <<>> /\ screen \o <<>> = screen
        BY <1>6, ConcatEmptySeq
      <4> QED
        BY <2>4, <2>9, <3>1, <3>2, <4>1, Zenon
    <3> QED
      BY <1>10, <3>2, <3>3, <3>4, Zenon
  <2>10. CASE cx = "%" /\ c0 # NUL /\ \E l2, w2 : Round(p, v, l2, w2)
    <3>1. PICK l2, w2 : Round(p, v, l2, w2)
      BY <2>10, Zenon
    <3>2. /\ Rest(l2, w2) /\ v.skip \in 0..2 /\ v.out \in Seq(STRING) /\ p.out = v.out \o w2
          /\ (v.takes = TRUE /\ Len(p.args) = 1) \/ (v.takes = FALSE /\ Len(p.args) = 0)
      BY <3>1, Zenon DEF Round
    <3>3. l2 \in Seq(STRING) /\ w2 \in Seq(STRING)
      BY <3>2, RestIs, Zenon
    <3>4. PICK x \in Seq(STRING) : f = x \o l2 /\ Len(x) = 2 + v.skip
      BY <2>1, <3>1, RoundTakes, Zenon
    <3>5. screen' = screen \o v.out /\ i' = i + Len(x) /\ line' = line
      <4>1. screen' = screen \o v.out /\ i' = i + 2 + v.skip /\ line' = line
        BY <1>1, <2>10 DEF NUL
      <4> DEFINE sk == v.skip
      <4>2. i \in Nat /\ sk \in 0..2 /\ Len(x) = 2 + sk /\ i' = i + 2 + sk
        BY <1>6, <3>2, <3>4, <4>1, Zenon
      <4> HIDE DEF sk
      <4>3. i' = i + Len(x)
        BY <4>2
      <4> QED
        BY <4>1, <4>3, Zenon
    <3>6. ap' = ea[k]
      <4>1. ap' = IF v.takes THEN Tail(ap) ELSE ap
        BY <1>1, <2>10 DEF NUL
      <4> QED
        BY <2>5, <3>2, <4>1, Zenon DEF A
    <3> DEFINE y == v.out
               g == p.out
    <3>7. y \in Seq(STRING) /\ g = y \o w2 /\ screen' = screen \o y
          /\ screen \o (g \o eo[k]) = eo[0]
      BY <2>7, <3>2, <3>5
    <3> HIDE DEF y, g, f
    <3>8. k \in 0..n /\ Rest(l2, w2) /\ f = x \o l2 /\ \A t \in Nat : At(fmt, i + t) = At(f \o ef[k], t)
      BY <2>1, <2>7, <3>2, <3>4, Zenon
    <3>9. line' = line /\ i' = i + Len(x)
      BY <3>5, Zenon
    <3> QED
      BY <1>12, <3>3, <3>6, <3>7, <3>8, <3>9, Zenon
  <2> QED
    BY <2>6, <2>8, <2>9, <2>10, Zenon DEF Begins
<1> QED
  BY <1>13, <1>14, <1>15

\* Only printf() and proc_born() run while the kernel prints.
LEMMA PrintStep == PrintInv /\ [TextNext]_textvars => PrintInv'
<1> SUFFICES ASSUME PrintInv, [TextNext]_textvars
             PROVE  PrintInv'
  OBVIOUS
<1>1. CASE printf
  BY <1>1, PrintRound
<1>2. ASSUME line' \notin {"printf", "proc_born"}
      PROVE  PrintInv'
  BY <1>2 DEF PrintInv, PrintfRenders
<1>3. CASE proc_born
  BY <1>2, <1>3 DEF proc_born
<1>4. ASSUME UNCHANGED <<line, kernelvars, screen>>
      PROVE  PrintInv'
  <2>1. line' = line /\ pieces' = pieces /\ ap' = ap /\ i' = i /\ screen' = screen
    BY <1>4 DEF kernelvars
  <2>2. fmt' = fmt
    BY <2>1 DEF fmt
  <2>3. \A n, ef, ea, eo : Pending(n, ef, ea, eo) => Pending(n, ef, ea, eo)'
    BY <2>1, <2>2 DEF Pending
  <2>4. \A ef, ea, eo, j, l, w : Left(ef, ea, eo, j, l, w) => Left(ef, ea, eo, j, l, w)'
    BY <2>1, <2>2, Zenon DEF Left
  <2>5. PrintfRenders'
    BY <2>1 DEF PrintInv, PrintfRenders
  <2>6. ASSUME line = "printf"
        PROVE  \E n \in Nat : \E ef, ea, eo :
                 Pending(n, ef, ea, eo)' /\ \E j \in 0..n : \E l, w : Left(ef, ea, eo, j, l, w)'
    <3>1. PICK n \in Nat : \E ef, ea, eo :
            Pending(n, ef, ea, eo) /\ \E j \in 0..n : \E l, w : Left(ef, ea, eo, j, l, w)
      BY <2>6, Zenon DEF PrintInv
    <3>2. PICK ef, ea, eo :
            Pending(n, ef, ea, eo) /\ \E j \in 0..n : \E l, w : Left(ef, ea, eo, j, l, w)
      BY <3>1, Zenon
    <3>3. PICK j \in 0..n : \E l, w : Left(ef, ea, eo, j, l, w)
      BY <3>2, Zenon
    <3>4. PICK l, w : Left(ef, ea, eo, j, l, w)
      BY <3>3, Zenon
    <3>5. Pending(n, ef, ea, eo)' /\ Left(ef, ea, eo, j, l, w)'
      BY <2>3, <2>4, <3>2, <3>4, Zenon
    <3> QED
      BY <3>5, Zenon
  <2> QED
    BY <2>1, <2>5, <2>6, Zenon DEF PrintInv
<1>5. CASE UNCHANGED textvars
  BY <1>4, <1>5 DEF textvars
<1>6. CASE Write
  BY <1>2, <1>6 DEF Write, puts, putchar_user, write_data, write, ends
<1>7. CASE Read
  BY <1>2, <1>7 DEF Read, getchar, gets, read, ends
<1>8. CASE \E c \in Commands : shell_strcmp(c)
  BY <1>2, <1>8 DEF shell_strcmp
<1>9. CASE terminal_prints \/ terminal_clears
  BY <1>2, <1>9 DEF terminal_prints, terminal_clears
<1>10. CASE (\E key \in Keys : uinput_key(key)) \/ uinput_copies
  BY <1>2, <1>10 DEF uinput_key, uinput_copies
<1>11. CASE spin
  BY <1>5, <1>11 DEF spin
<1>12. CASE \E j \in Stores, c \in Keys : store(j, c)
  BY <1>4, <1>12 DEF store
<1> QED
  BY <1>1, <1>3, <1>5, <1>6, <1>7, <1>8, <1>9, <1>10, <1>11, <1>12 DEF TextNext, elsewhere

\* printf() prints its pieces one after the other, whatever their neighbours:
\* every conversion takes its own argument and its own part of the format, and
\* what it prints reads as the number it was given (common.c: printf(),
\* printint(), printptr()).
THEOREM PrintfIsRendered == TextSpec => []PrintfRenders
<1>1. PrintInv => PrintfRenders
  BY DEF PrintInv
<1> QED
  BY <1>1, PrintInitial, PrintStep, PTL DEF TextSpec
===============================================================================
