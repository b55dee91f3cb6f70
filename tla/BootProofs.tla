------------------------------ MODULE BootProofs ------------------------------
(***************************************************************************)
(* Boot for every archive, every table of servers and every amount of      *)
(* memory: the search for a server ends at the first plain file of its     *)
(* name, whatever lies between the headers, and main() yields with the     *)
(* servers in the first slots of the process table.  As long as the kernel *)
(* runs, every page of RAM has one use: it is free, a table, or held by a  *)
(* process for one of its fields; so the kernel's table and those of the   *)
(* processes map what they should, whenever kalloc() fails.                *)
(***************************************************************************)
EXTENDS Boot, Induction, SequenceTheorems, FiniteSetTheorems

\* proc_born() is at work on the process in slot.
Born == {"trapframe", "ipc_page", "pagetable", "trampoline", "map_trapframe", "map_ipc",
         "map_uart", "ipc_data", "kstack", "binary"}

Fields == {"state", "server", "trapframe", "ipc_page", "pagetable", "ipc_data", "kstack"}

\* The archive and the servers, as the assumptions have them.
Linked ==
  /\ archive \in Seq(Range(archive))
  /\ \A i \in 1 .. Len(archive) : /\ archive[i].name # "" /\ archive[i].size \in Nat
                                  /\ rest(archive[i].size)[DIGITS - 1] = 0

\* The slots before that of the next server have the servers before it.
Placed ==
  /\ DOMAIN proc = Procs
  /\ line \in {"kvminit", "init_servers"} \cup Born
  /\ server \in 1 .. Len(servers) + 1
  /\ \A p \in Procs : p < server - 1 => proc[p].state = "RUNABBLE" /\ proc[p].server = p + 1
  /\ \A p \in Procs : p > server - 1 => proc[p] = Unused
  /\ line \notin Born => \A p \in Procs : p = server - 1 => proc[p] = Unused
  /\ line \in Born => /\ slot = server - 1 /\ slot \in Procs /\ server <= Len(servers)
                      /\ DOMAIN proc[slot] = Fields /\ proc[slot].server = server

\* The search is at a header, and the headers before it are of other files.
IsWanted(i) == archive[i].type \in Regular /\ archive[i].name = servers[server].namebin
Searched ==
  /\ result = <<>> =>
       \E i \in 1 .. Len(archive) + 1 :
         /\ header = Start(i)
         /\ server <= Len(servers) => \A j \in 1 .. i - 1 : ~ IsWanted(j)
  /\ result # <<>> => server <= Len(servers)
  /\ line \in Born => result # <<>>
  /\ FindsFirst

BootInv == Linked /\ Placed /\ Searched

------------------------------------------------------------------------------
(* The archive.                                                            *)

\* What rest() is.
LEMMA RestOf ==
  ASSUME NEW n \in Nat
  PROVE  /\ rest(n) \in [0..DIGITS -> Nat] /\ rest(n)[0] = n
         /\ \A d \in 1..DIGITS : rest(n)[d] = rest(n)[d - 1] \div 8
<1> DEFINE g == [x \in Nat \X Nat |-> x[2] \div 8]
<1>1. g \in [Nat \X Nat -> Nat] /\ DIGITS \in Nat
  BY TarAssumption
<1>2. \A i, x \in Nat : g[<<i, x>>] = x \div 8
  OBVIOUS
<1> HIDE DEF g
<1>3. PICK f \in [0..DIGITS -> Nat] : f[0] = n /\ \A i \in 1..DIGITS : f[i] = g[<<i, f[i - 1]>>]
  <2>1. Recursive(DIGITS, Nat, n, g) # {}
    BY <1>1, Recursion
  <2> QED
    BY <2>1 DEF Recursive
<1>4. ASSUME NEW i \in 1..DIGITS
      PROVE  f[i] = f[i - 1] \div 8
  <2>1. f[i - 1] \in Nat /\ i \in Nat
    BY <1>1, <1>3
  <2> QED
    BY <1>2, <1>3, <2>1
<1>5. f = [d \in 0..DIGITS |-> IF d = 0 THEN n ELSE f[d - 1] \div 8]
  BY <1>1, <1>3, <1>4
<1> DEFINE r == CHOOSE h : h = [d \in 0..DIGITS |-> IF d = 0 THEN n ELSE h[d - 1] \div 8]
<1>6. rest(n) = r
  BY DEF rest
<1>7. r = [d \in 0..DIGITS |-> IF d = 0 THEN n ELSE r[d - 1] \div 8]
  BY <1>5, Zenon
<1> HIDE DEF r
<1>8. /\ r[0] = n
      /\ \A d \in 1..DIGITS : r[d] = r[d - 1] \div 8
  BY <1>1, <1>7
<1>9. \A d \in 0..DIGITS : r[d] \in Nat
  <2> DEFINE A == {d \in 0..DIGITS : r[d] \in Nat}
  <2>1. 0 \in A
    BY <1>1, <1>8
  <2>2. \A d \in 1..DIGITS : d - 1 \in A => d \in A
    BY <1>1, <1>8
  <2> HIDE DEF A
  <2>3. \A d \in 0..DIGITS : d \in A
    BY <1>1, <2>1, <2>2, UpTo
  <2> QED
    BY <2>3 DEF A
<1> QED
  BY <1>6, <1>7, <1>8, <1>9

\* oct2int() reads what tar writes.
LEMMA OctalReads ==
  ASSUME NEW n \in Nat, rest(n)[DIGITS - 1] = 0
  PROVE  oct2int(octal(n), DIGITS) = n
<1> DEFINE o == octal(n)
           Num(i) == \A j \in 1..i : o[j] \in 0..7
           g == [x \in Nat \X Nat |->
                   IF x[1] \in 1..DIGITS /\ Num(x[1]) THEN x[2] * 8 + o[x[1]] ELSE x[2]]
<1>1. DIGITS \in Nat /\ DIGITS >= 1
  BY TarAssumption
<1>2. /\ \A i \in 1 .. DIGITS - 1 : o[i] = rest(n)[DIGITS - 1 - i] % 8 /\ o[i] \in 0..7
      /\ o[DIGITS] = 8
  <2>1. ASSUME NEW i \in 1 .. DIGITS - 1
        PROVE  o[i] = rest(n)[DIGITS - 1 - i] % 8 /\ o[i] \in 0..7
    <3>1. DIGITS - 1 - i \in 0..DIGITS
      BY <1>1
    <3>2. rest(n)[DIGITS - 1 - i] \in Nat
      BY <3>1, RestOf
    <3>3. o[i] = rest(n)[DIGITS - 1 - i] % 8
      BY <1>1 DEF octal
    <3> QED
      BY <3>2, <3>3
  <2>2. o[DIGITS] = 8
    BY <1>1 DEF octal, NUL
  <2> QED
    BY <2>1, <2>2
<1> HIDE DEF o
<1>3. /\ \A i \in 1 .. DIGITS - 1 : Num(i)
      /\ ~ Num(DIGITS)
  BY <1>1, <1>2
<1>4. \A i \in 1..DIGITS : Num(i) => o[i] \in Nat
  OBVIOUS
<1>5. g \in [Nat \X Nat -> Nat]
  BY <1>4
<1>6. \A i \in 1..DIGITS, x \in Nat : g[<<i, x>>] = IF Num(i) THEN x * 8 + o[i] ELSE x
  OBVIOUS
<1> HIDE DEF g, Num
<1>7. PICK f \in [0..DIGITS -> Nat] : f[0] = 0 /\ \A i \in 1..DIGITS : f[i] = g[<<i, f[i - 1]>>]
  <2>1. Recursive(DIGITS, Nat, 0, g) # {}
    BY <1>1, <1>5, Recursion
  <2> QED
    BY <2>1 DEF Recursive
<1>8. ASSUME NEW i \in 1..DIGITS
      PROVE  f[i] = IF Num(i) THEN f[i - 1] * 8 + o[i] ELSE f[i - 1]
  <2>1. f[i - 1] \in Nat
    BY <1>1, <1>7
  <2> QED
    BY <1>6, <1>7, <2>1
<1> DEFINE Body(h) == [i \in 0..DIGITS |-> IF i = 0 THEN 0
                                           ELSE IF Num(i) THEN h[i - 1] * 8 + o[i]
                                           ELSE h[i - 1]]
           dec == CHOOSE h : h = Body(h)
<1>9. f = Body(f)
  BY <1>1, <1>7, <1>8
<1>10. oct2int(o, DIGITS) = dec[DIGITS]
  BY DEF oct2int, Num
<1>11. dec = Body(dec)
  <2> HIDE DEF Body
  <2> QED
    BY <1>9, Zenon
<1> HIDE DEF dec
<1>12. /\ dec[0] = 0
       /\ \A i \in 1..DIGITS : dec[i] = IF Num(i) THEN dec[i - 1] * 8 + o[i] ELSE dec[i - 1]
  BY <1>1, <1>11
<1>13. \A d \in 0 .. DIGITS - 1 : dec[d] = rest(n)[DIGITS - 1 - d]
  <2> DEFINE A == {d \in 0 .. DIGITS - 1 : dec[d] = rest(n)[DIGITS - 1 - d]}
  <2>1. 0 \in A
    BY <1>1, <1>12
  <2>2. ASSUME NEW d \in 1 .. DIGITS - 1, d - 1 \in A
        PROVE  d \in A
    <3> DEFINE x == rest(n)[DIGITS - 1 - d]
    <3>1. dec[d] = dec[d - 1] * 8 + o[d]
      BY <1>1, <1>3, <1>12
    <3>2. dec[d - 1] = rest(n)[DIGITS - 1 - (d - 1)]
      BY <2>2
    <3>3. DIGITS - 1 - (d - 1) \in 1..DIGITS /\ DIGITS - 1 - (d - 1) - 1 = DIGITS - 1 - d
          /\ DIGITS - 1 - d \in 0..DIGITS
      BY <1>1
    <3>4. rest(n)[DIGITS - 1 - (d - 1)] = rest(n)[DIGITS - 1 - (d - 1) - 1] \div 8 /\ x \in Nat
      BY <3>3, RestOf
    <3>5. rest(n)[DIGITS - 1 - (d - 1)] = x \div 8
      BY <3>3, <3>4
    <3>6. o[d] = x % 8
      BY <1>2
    <3> HIDE DEF x
    <3>7. dec[d] = x
      BY <3>1, <3>2, <3>4, <3>5, <3>6
    <3> QED
      BY <3>7 DEF x
  <2> HIDE DEF A
  <2>3. DIGITS - 1 \in Nat
    BY <1>1
  <2>4. \A d \in 0 .. DIGITS - 1 : d \in A
    BY <2>1, <2>2, <2>3, UpTo
  <2> QED
    BY <2>4 DEF A
<1>14. dec[DIGITS - 1] = n
  <2>1. DIGITS - 1 \in 0 .. DIGITS - 1 /\ DIGITS - 1 - (DIGITS - 1) = 0
    BY <1>1
  <2> QED
    BY <1>13, <2>1, RestOf
<1>15. dec[DIGITS] = dec[DIGITS - 1]
  BY <1>1, <1>3, <1>12
<1> QED
  BY <1>10, <1>14, <1>15 DEF o

\* The headers follow each other, each behind the contents of the last.
LEMMA StartOf ==
  ASSUME Linked
  PROVE  /\ Len(archive) \in Nat
         /\ Start(1) = 0
         /\ \A i \in 1 .. Len(archive) + 1 : Start(i) \in Nat
         /\ \A i \in 1 .. Len(archive) :
              Start(i + 1) = Start(i) + 1 + Blocks(archive[i].size)
         /\ \A i \in 1 .. Len(archive) : Blocks(archive[i].size) \in Nat
<1> DEFINE n == Len(archive)
           b == [i \in 1..n |-> Blocks(archive[i].size)]
           g == [x \in Nat \X Nat |-> IF x[1] \in 1..n THEN x[2] + 1 + b[x[1]] ELSE x[2]]
<1>1. n \in Nat
  BY LenProperties DEF Linked
<1>2. \A i \in 1..n : Blocks(archive[i].size) \in Nat
  <2>1. ASSUME NEW sz \in Nat
        PROVE  Blocks(sz) \in Nat
    <3>1. BLOCK \in Nat /\ BLOCK > 0 /\ sz + BLOCK - 1 \in Nat
      BY TarAssumption
    <3>2. (sz + BLOCK - 1) \div BLOCK \in Nat
      BY <3>1, Quotient
    <3> QED
      BY <3>2 DEF Blocks
  <2> QED
    BY <2>1 DEF Linked
<1>3. b \in [1..n -> Nat] /\ \A i \in 1..n : b[i] = Blocks(archive[i].size)
  BY <1>2
<1> HIDE DEF b
<1>4. g \in [Nat \X Nat -> Nat]
  BY <1>3
<1>5. \A i \in 1..n, x \in Nat : g[<<i, x>>] = x + 1 + b[i]
  OBVIOUS
<1> HIDE DEF g
<1>6. PICK f \in [0..n -> Nat] : f[0] = 0 /\ \A i \in 1..n : f[i] = g[<<i, f[i - 1]>>]
  <2>1. Recursive(n, Nat, 0, g) # {}
    BY <1>1, <1>4, Recursion
  <2> QED
    BY <2>1 DEF Recursive
<1>7. ASSUME NEW i \in 1..n
      PROVE  f[i] = f[i - 1] + 1 + b[i]
  <2>1. f[i - 1] \in Nat
    BY <1>1, <1>6
  <2> QED
    BY <1>5, <1>6, <2>1
<1> DEFINE Body(h) == [j \in 0 .. Len(archive) |->
                         IF j = 0 THEN 0 ELSE h[j - 1] + 1 + Blocks(archive[j].size)]
           start == CHOOSE h : h = Body(h)
<1>8. f = Body(f)
  BY <1>1, <1>3, <1>6, <1>7
<1>9. \A i : Start(i) = start[i - 1]
  BY DEF Start
<1>10. start = Body(start)
  <2> HIDE DEF Body
  <2> QED
    BY <1>8, Zenon
<1> HIDE DEF start
<1>11. /\ start[0] = 0
       /\ \A i \in 1..n : start[i] = start[i - 1] + 1 + b[i]
  <2>1. start = [j \in 0..n |-> IF j = 0 THEN 0 ELSE start[j - 1] + 1 + Blocks(archive[j].size)]
    BY <1>10
  <2>2. start[0] = 0
    BY <1>1, <2>1
  <2>3. ASSUME NEW i \in 1..n
        PROVE  start[i] = start[i - 1] + 1 + b[i]
    <3>1. i \in 0..n /\ i # 0
      BY <1>1
    <3> QED
      BY <1>3, <2>1, <3>1
  <2> QED
    BY <2>2, <2>3
<1>12. \A i \in 0..n : start[i] \in Nat
  <2> DEFINE A == {d \in 0..n : start[d] \in Nat}
  <2>1. 0 \in A
    BY <1>1, <1>11
  <2>2. \A d \in 1..n : d - 1 \in A => d \in A
    BY <1>1, <1>3, <1>11
  <2> HIDE DEF A
  <2>3. \A d \in 0..n : d \in A
    BY <1>1, <2>1, <2>2, UpTo
  <2> QED
    BY <2>3 DEF A
<1>13. ASSUME NEW i \in 1 .. n + 1
       PROVE  Start(i) \in Nat
  <2>1. i - 1 \in 0..n
    BY <1>1
  <2> QED
    BY <1>9, <1>12, <2>1
<1>14. ASSUME NEW i \in 1..n
       PROVE  Start(i + 1) = Start(i) + 1 + Blocks(archive[i].size)
  <2>1. i + 1 - 1 = i
    BY <1>1
  <2> QED
    BY <1>3, <1>9, <1>11, <2>1
<1>15. Start(1) = 0
  BY <1>9, <1>11
<1> QED
  BY <1>1, <1>2, <1>13, <1>14, <1>15

\* No two headers are in the same block.
LEMMA StartsGrow ==
  ASSUME Linked, NEW i \in 1 .. Len(archive) + 1, NEW j \in 1 .. Len(archive) + 1, i < j
  PROVE  Start(i) < Start(j)
<1> DEFINE n == Len(archive)
           A == {d \in 0..n : i < d + 1 => Start(i) < Start(d + 1)}
<1>1. n \in Nat
  BY StartOf
<1>2. 0 \in A
  BY <1>1
<1>3. ASSUME NEW d \in 1..n, d - 1 \in A
      PROVE  d \in A
  <2>1. i < d => Start(i) < Start(d)
    BY <1>1, <1>3
  <2>2. /\ Start(d) \in Nat /\ Start(d + 1) \in Nat /\ Start(i) \in Nat
        /\ Start(d) < Start(d + 1)
    <3>1. /\ d \in 1 .. Len(archive) + 1 /\ d + 1 \in 1 .. Len(archive) + 1
      BY <1>1
    <3> QED
      BY <3>1, StartOf
  <2>3. i < d + 1 => i = d \/ i < d
    BY <1>1
  <2>4. i < d + 1 => Start(i) < Start(d + 1)
    BY <2>1, <2>2, <2>3
  <2> QED
    BY <1>1, <2>4
<1> HIDE DEF A
<1>4. \A d \in 0..n : d \in A
  BY <1>1, <1>2, <1>3, UpTo
<1>5. j - 1 \in 0..n /\ j - 1 + 1 = j
  BY <1>1
<1> QED
  BY <1>4, <1>5 DEF A

\* The least of some numbers.
LEMMA MinIs ==
  ASSUME NEW S \in SUBSET Nat, NEW m \in S, \A y \in S : m <= y
  PROVE  Min(S) = m
<1>1. \A x \in S : (\A y \in S : x <= y) => x = m
  OBVIOUS
<1>2. Min(S) \in S /\ \A y \in S : Min(S) <= y
  BY DEF Min
<1> QED
  BY <1>1, <1>2

\* A header is found at its block, and none at the end of the archive.
LEMMA AtStart ==
  ASSUME Linked
  PROVE  /\ \A i \in 1 .. Len(archive) : At(Start(i)) = i
         /\ At(Start(Len(archive) + 1)) = 0
<1> DEFINE n == Len(archive)
           I(b) == {j \in 1..n : Start(j) = b}
<1>1. n \in Nat
  BY StartOf
<1>2. ASSUME NEW b
      PROVE  At(b) = IF I(b) # {} THEN Min(I(b)) ELSE 0
  <2> DEFINE s == [j \in 1..n |-> Start(j)]
             T == {j \in 1 .. Len(s) : s[j] = b}
  <2>1. At(b) = IF T # {} THEN Min(T) ELSE 0
    BY DEF At, SelectInSeq
  <2>2. Len(s) = n
    BY <1>1
  <2>3. \A j \in 1..n : s[j] = Start(j)
    OBVIOUS
  <2> HIDE DEF s
  <2>4. T = I(b)
    BY <2>2, <2>3
  <2> QED
    BY <2>1, <2>4
<1>3. \A i \in 1 .. n + 1, j \in 1 .. n + 1 : i # j => Start(i) # Start(j)
  <2> TAKE i \in 1 .. n + 1, j \in 1 .. n + 1
  <2>1. Start(i) \in Nat /\ Start(j) \in Nat
    BY StartOf
  <2>2. CASE i < j
    BY <2>1, <2>2, StartsGrow
  <2>3. CASE j < i
    BY <2>1, <2>3, StartsGrow
  <2> QED
    BY <1>1, <2>2, <2>3
<1>4. ASSUME NEW i \in 1..n
      PROVE  At(Start(i)) = i
  <2>1. I(Start(i)) = {i}
    BY <1>1, <1>3
  <2>2. Min({i}) = i
    BY MinIs
  <2> QED
    BY <1>2, <2>1, <2>2
<1>5. At(Start(n + 1)) = 0
  <2>1. I(Start(n + 1)) = {}
    BY <1>1, <1>3
  <2> QED
    BY <1>2, <2>1
<1> QED
  BY <1>4, <1>5

\* What find_binary() reads at a header, and at the end.
LEMMA HeaderOf ==
  ASSUME Linked, NEW i \in 1 .. Len(archive) + 1, NEW nm
  PROVE  /\ i <= Len(archive) =>
              /\ Header(Start(i), nm).name = archive[i].name
              /\ Header(Start(i), nm).type = archive[i].type
              /\ Header(Start(i), nm).size = octal(archive[i].size)
         /\ i = Len(archive) + 1 => Header(Start(i), nm).name = ""
<1>1. Len(archive) \in Nat /\ i \in Nat
  BY StartOf
<1>4. ASSUME NEW h, NEW a, NEW b, NEW c, h = [name |-> a, type |-> b, size |-> c]
      PROVE  h.name = a /\ h.type = b /\ h.size = c
  BY <1>4
<1>2. CASE i <= Len(archive)
  <2>1. At(Start(i)) = i /\ i # 0
    BY <1>1, <1>2, AtStart
  <2>2. Header(Start(i), nm) = [name |-> archive[i].name, type |-> archive[i].type,
                                  size |-> octal(archive[i].size)]
    BY <2>1, Zenon DEF Header
  <2>3. i # Len(archive) + 1
    BY <1>1, <1>2
  <2>4. /\ Header(Start(i), nm).name = archive[i].name
        /\ Header(Start(i), nm).type = archive[i].type
        /\ Header(Start(i), nm).size = octal(archive[i].size)
    BY <2>2
  <2> QED
    BY <2>3, <2>4, Zenon
<1>3. CASE i = Len(archive) + 1
  <2>1. At(Start(i)) = 0
    BY <1>3, AtStart
  <2>2. Start(Len(archive) + 1) \in Nat
    BY <1>3, StartOf
  <2>3. ~ (Start(i) < Start(Len(archive) + 1))
    BY <1>3, <2>2
  <2>4. Header(Start(i), nm) = [name |-> "", type |-> "0", size |-> octal(0)]
    BY <2>1, <2>3, Zenon DEF Header
  <2>5. ~ (i <= Len(archive))
    BY <1>1, <1>3
  <2> QED
    BY <1>4, <2>4, <2>5, Zenon
<1> QED
  BY <1>1, <1>2, <1>3

\* The first plain file of the server's name.
LEMMA FirstIs ==
  ASSUME Linked, NEW i \in 1 .. Len(archive) + 1, \A j \in 1 .. i - 1 : ~ IsWanted(j)
  PROVE  /\ i <= Len(archive) /\ IsWanted(i) =>
              FirstNamed(archive, servers[server].namebin) = i
         /\ i = Len(archive) + 1 => FirstNamed(archive, servers[server].namebin) = 0
<1> DEFINE n == Len(archive)
           I == {j \in 1..n : IsWanted(j)}
<1>1. n \in Nat /\ i \in Nat
  BY StartOf
<1>2. FirstNamed(archive, servers[server].namebin) = IF I # {} THEN Min(I) ELSE 0
  BY DEF FirstNamed, SelectInSeq, IsWanted
<1>3. CASE i <= n /\ IsWanted(i)
  <2>1. i \in I /\ I \in SUBSET Nat
    BY <1>1, <1>3
  <2>2. \A j \in I : i <= j
    BY <1>1
  <2> HIDE DEF I
  <2>3. Min(I) = i
    BY <2>1, <2>2, MinIs
  <2> QED
    BY <1>1, <1>2, <1>3, <2>1, <2>3
<1>4. CASE i = n + 1
  <2>1. I = {}
    BY <1>1, <1>4
  <2> QED
    BY <1>1, <1>2, <1>4, <2>1
<1> QED
  BY <1>1, <1>3, <1>4

------------------------------------------------------------------------------
(* The search.                                                             *)

\* What there is to find: the first plain file of the server's name.
Found ==
  LET f == FirstNamed(archive, servers[server].namebin)
  IN  IF f = 0 THEN <<0, 0>> ELSE <<Start(f) + 1, archive[f].size>>

\* A round ends the search with it, or is on to the next header.
LEMMA Round ==
  ASSUME Linked, server \in 1 .. Len(servers), NEW i \in 1 .. Len(archive) + 1,
         header = Start(i), \A j \in 1 .. i - 1 : ~ IsWanted(j),
         find_binary(servers[server].namebin)
  PROVE  /\ archive' = archive
         /\ \/ result' = Found
            \/ /\ result' = <<>>
               /\ \E d \in 1 .. Len(archive) + 1 :
                    header' = Start(d) /\ \A j \in 1 .. d - 1 : ~ IsWanted(j)
<1> DEFINE n == Len(archive)
           nm == servers[server].namebin
           h == Header(Start(i), nm)
           end == h.name = ""
<1>1. n \in Nat /\ i \in Nat
  BY StartOf
<1>2. nm # ""
  <2>1. servers \in Seq(Range(servers)) /\ \A d \in DOMAIN servers : servers[d].namebin # ""
    BY BootAssumption, Zenon
  <2>2. DOMAIN servers = 1 .. Len(servers)
    BY <2>1, LenProperties
  <2> QED
    BY <2>1, <2>2, Zenon
<1>3. /\ archive' = archive /\ result = <<>>
      /\ \/ wanted(h, nm) /\ result' = <<Start(i) + 1, oct2int(h.size, DIGITS)>>
         \/ ~ end /\ ~ wanted(h, nm) /\ header' = next_header(h) /\ result' = result
         \/ end /\ result' = <<0, 0>>
  BY Zenon DEF find_binary
<1>4. CASE i <= n
  <2>1. h.name = archive[i].name /\ h.type = archive[i].type /\ h.size = octal(archive[i].size)
    BY <1>4, HeaderOf, Zenon
  <2>2. i \in 1..n
    BY <1>1, <1>4
  <2>3. archive[i].name # "" /\ archive[i].size \in Nat /\ rest(archive[i].size)[DIGITS - 1] = 0
    BY <2>2, Zenon DEF Linked
  <2>4. ~ end
    BY <2>1, <2>3, Zenon
  <2>5. wanted(h, nm) <=> IsWanted(i)
    BY <2>1, Zenon DEF wanted, IsWanted
  <2>6. oct2int(h.size, DIGITS) = archive[i].size
    BY <2>1, <2>3, OctalReads
  <2> HIDE DEF h, end
  <2>7. CASE wanted(h, nm)
    <3>1. FirstNamed(archive, nm) = i
      BY <1>4, <2>5, <2>7, FirstIs
    <3>2. result' = <<Start(i) + 1, archive[i].size>>
      BY <1>3, <2>4, <2>6, <2>7
    <3> QED
      BY <1>1, <1>3, <3>1, <3>2 DEF Found
  <2>8. CASE ~ wanted(h, nm)
    <3>1. result' = <<>> /\ header' = next_header(h)
      BY <1>3, <2>4, <2>8
    <3>2. header' = Start(i + 1)
      <4>1. Start(i + 1) = Start(i) + 1 + Blocks(archive[i].size)
        BY <2>2, StartOf
      <4> QED
        BY <2>6, <3>1, <4>1 DEF next_header
    <3>3. i + 1 \in 1 .. n + 1 /\ \A j \in 1 .. i + 1 - 1 : ~ IsWanted(j)
      <4>1. \A j \in 1 .. i + 1 - 1 : j = i \/ j \in 1 .. i - 1
        BY <1>1
      <4>2. i + 1 \in 1 .. n + 1
        BY <1>1, <2>2
      <4> QED
        BY <2>5, <2>8, <4>1, <4>2
    <3> QED
      BY <1>3, <3>1, <3>2, <3>3
  <2> QED
    BY <2>7, <2>8
<1>5. CASE i = n + 1
  <2>1. end
    BY <1>5, HeaderOf, Zenon
  <2>2. ~ wanted(h, nm)
    BY <1>2, <2>1, Zenon DEF wanted
  <2> HIDE DEF h, end
  <2>3. FirstNamed(archive, nm) = 0
    BY <1>5, FirstIs
  <2> QED
    BY <1>3, <2>1, <2>2, <2>3 DEF Found
<1> QED
  BY <1>1, <1>4, <1>5

\* The headers stay where they are.
LEMMA SameStart ==
  ASSUME archive' = archive, NEW i
  PROVE  Start(i)' = Start(i)
<1> DEFINE S(a) == LET start[j \in 0 .. Len(a)] ==
                         IF j = 0 THEN 0 ELSE start[j - 1] + 1 + Blocks(a[j].size)
                   IN  start
<1>1. Start(i) = S(archive)[i - 1] /\ Start(i)' = S(archive')[i - 1]
  BY Zenon DEF Start
<1> HIDE DEF S
<1> QED
  BY <1>1

\* The search goes on.
LEMMA FindKeeps ==
  ASSUME BootInv, find
  PROVE  BootInv'
<1>1. /\ line = "init_servers" /\ server \in DOMAIN servers
      /\ find_binary(servers[server].namebin)
      /\ UNCHANGED <<proc, line, server, slot>>
  BY Zenon DEF find, at
<1>2. result = <<>>
  BY <1>1, Zenon DEF find_binary
<1>3. server \in 1 .. Len(servers) /\ server <= Len(servers)
  <2>1. servers \in Seq(Range(servers))
    BY BootAssumption, Zenon
  <2>2. DOMAIN servers = 1 .. Len(servers) /\ Len(servers) \in Nat
    BY <2>1, LenProperties
  <2> QED
    BY <1>1, <2>2
<1>4. Linked
  BY DEF BootInv
<1>5. PICK i \in 1 .. Len(archive) + 1 :
        header = Start(i) /\ \A j \in 1 .. i - 1 : ~ IsWanted(j)
  BY <1>2, <1>3, Zenon DEF BootInv, Searched
<1>6. /\ archive' = archive
      /\ \/ result' = Found
         \/ /\ result' = <<>>
            /\ \E d \in 1 .. Len(archive) + 1 :
                 header' = Start(d) /\ \A j \in 1 .. d - 1 : ~ IsWanted(j)
  BY <1>1, <1>3, <1>4, <1>5, Round, Zenon
<1>7. Linked'
  BY <1>4, <1>6 DEF Linked
<1>8. Placed'
  BY <1>1 DEF BootInv, Placed
<1>9. line' \notin Born
  BY <1>1 DEF Born
<1>10. \A j : IsWanted(j)' <=> IsWanted(j)
  BY <1>1, <1>6 DEF IsWanted
<1>11. \A j : Start(j)' = Start(j)
  BY <1>6, SameStart
<1>12. CASE result' = Found
  <2>1. result' # <<>>
    BY <1>12 DEF Found
  <2>2. FindsFirst'
    BY <1>1, <1>6, <1>11, <1>12 DEF FindsFirst, Found
  <2> QED
    BY <1>1, <1>3, <1>7, <1>8, <1>9, <2>1, <2>2 DEF BootInv, Searched
<1>13. CASE /\ result' = <<>>
            /\ \E d \in 1 .. Len(archive) + 1 :
                 header' = Start(d) /\ \A j \in 1 .. d - 1 : ~ IsWanted(j)
  <2>1. \E d \in 1 .. Len(archive') + 1 :
          header' = Start(d)' /\ \A j \in 1 .. d - 1 : ~ IsWanted(j)'
    BY <1>6, <1>10, <1>11, <1>13
  <2>2. FindsFirst'
    BY <1>13 DEF FindsFirst
  <2> QED
    BY <1>7, <1>8, <1>9, <1>13, <2>1, <2>2 DEF BootInv, Searched
<1> QED
  BY <1>6, <1>12, <1>13

------------------------------------------------------------------------------
(* The processes.                                                          *)

\* A step that leaves the search and the process table alone.
LEMMA Same ==
  ASSUME BootInv, UNCHANGED <<proc, server, slot, tarvars>>,
         line' = line \/ (line \notin Born /\ line' = "init_servers")
  PROVE  BootInv'
<1>1. archive' = archive /\ header' = header /\ result' = result
  BY DEF tarvars
<1>2. "init_servers" \notin Born
  BY DEF Born
<1>3. \A j : Start(j)' = Start(j)
  BY <1>1, SameStart
<1>4. \A j : IsWanted(j)' <=> IsWanted(j)
  BY <1>1 DEF IsWanted
<1>5. Linked'
  BY <1>1 DEF BootInv, Linked
<1>6. Placed'
  BY <1>2 DEF BootInv, Placed
<1>7. FindsFirst'
  BY <1>1, <1>3 DEF BootInv, Searched, FindsFirst
<1>8. Searched'
  <2>1. result = <<>> =>
          \E i \in 1 .. Len(archive) + 1 :
            /\ header = Start(i)
            /\ server <= Len(servers) => \A j \in 1 .. i - 1 : ~ IsWanted(j)
    BY Zenon DEF BootInv, Searched
  <2>2. result' = <<>> =>
          \E i \in 1 .. Len(archive') + 1 :
            /\ header' = Start(i)'
            /\ server' <= Len(servers) => \A j \in 1 .. i - 1 : ~ IsWanted(j)'
    BY <1>1, <1>3, <1>4, <2>1
  <2> QED
    BY <1>1, <1>2, <1>7, <2>2 DEF BootInv, Searched
<1> QED
  BY <1>5, <1>6, <1>8 DEF BootInv

\* Nothing but the memory and its page table changes, or another field of the
\* process that is born.
LEMMA BornKeeps ==
  ASSUME BootInv, line \in Born, line' \in Born, UNCHANGED <<server, slot, tarvars>>,
         \/ proc' = proc
         \/ \E f \in Fields \ {"state", "server"} : \E v :
              proc' = [proc EXCEPT ![slot][f] = v]
  PROVE  BootInv'
<1>1. Linked' /\ Searched'
  <2>1. archive' = archive /\ header' = header /\ result' = result /\ server' = server
    BY DEF tarvars
  <2>2. \A j : IsWanted(j)' <=> IsWanted(j)
    BY <2>1 DEF IsWanted
  <2>3. \A j : Start(j)' = Start(j)
    BY <2>1, SameStart
  <2>4. FindsFirst'
    BY <2>1, <2>3 DEF BootInv, Searched, FindsFirst
  <2>5. Linked'
    BY <2>1 DEF BootInv, Linked
  <2>6. result' # <<>> /\ server' <= Len(servers)
    BY <2>1 DEF BootInv, Searched
  <2> QED
    BY <2>4, <2>5, <2>6 DEF Searched
<1>2. Placed'
  <2>1. Placed /\ server' = server /\ slot' = slot
    BY DEF BootInv
  <2>2. CASE proc' = proc
    BY <2>1, <2>2 DEF Placed
  <2>3. CASE \E f \in Fields \ {"state", "server"} : \E v :
               proc' = [proc EXCEPT ![slot][f] = v]
    <3>7. PICK f \in Fields \ {"state", "server"} : \E v :
                 proc' = [proc EXCEPT ![slot][f] = v]
      BY <2>3
    <3>1. PICK v : proc' = [proc EXCEPT ![slot][f] = v]
      BY <3>7
    <3>2. DOMAIN proc = Procs /\ slot \in Procs /\ slot = server - 1
          /\ DOMAIN proc[slot] = Fields /\ proc[slot].server = server
      BY <2>1 DEF Placed
    <3>3. DOMAIN proc' = Procs /\ \A p \in Procs : p # slot => proc'[p] = proc[p]
      BY <3>1, <3>2
    <3>4. proc'[slot] = [proc[slot] EXCEPT ![f] = v]
      BY <3>1, <3>2
    <3>5. DOMAIN proc'[slot] = Fields /\ proc'[slot].server = server
      BY <3>2, <3>4
    <3>6. \A p \in Procs : p < server - 1 \/ p > server - 1 => p # slot
      BY <3>2 DEF Procs
    <3> QED
      BY <2>1, <3>2, <3>3, <3>5, <3>6 DEF Placed
  <2> QED
    BY <2>2, <2>3
<1> QED
  BY <1>1, <1>2 DEF BootInv

\* What proc_born() does with its calls of kalloc() and uvmcreate().
LEMMA KeepKeeps ==
  ASSUME BootInv, NEW f \in Fields \ {"state", "server"}, NEW a, NEW next \in Born,
         line \in Born, keep(f, a, next)
  PROVE  BootInv'
<1>1. /\ proc' = [proc EXCEPT ![slot][f] = a.ret]
      /\ line' = line \/ line' = next
      /\ UNCHANGED <<server, slot, tarvars>>
  BY Zenon DEF keep
<1>2. line' \in Born
  BY <1>1
<1> QED
  BY <1>1, <1>2, BornKeeps, Zenon

\* What it does with those of mappages().
LEMMA MapKeeps ==
  ASSUME BootInv, NEW va, NEW pa, NEW perm, NEW undone, NEW next \in Born,
         line \in Born, map_page(va, pa, perm, undone, next)
  PROVE  BootInv'
<1>1. proc' = proc /\ line' = next /\ UNCHANGED <<server, slot, tarvars>>
  BY Zenon DEF map_page
<1> QED
  BY <1>1, BornKeeps, Zenon

\* The server gets the first free slot, which is the next one.
LEMMA InitServersKeeps ==
  ASSUME BootInv, init_servers
  PROVE  BootInv'
<1> DEFINE free == {p \in Procs : proc[p].state = "UNUSED"}
<1>1. /\ line = "init_servers" /\ result # <<>> /\ UNCHANGED <<server, tarvars>>
      /\ \/ UNCHANGED <<proc, line, slot>>
         \/ /\ free # {}
            /\ slot' = first_slot(free)
            /\ proc' = [proc EXCEPT ![first_slot(free)].state = "RUN",
                                    ![first_slot(free)].server = server]
            /\ line' = "trapframe"
  BY Zenon DEF init_servers, at
<1>2. Placed /\ Linked /\ Searched
  BY DEF BootInv
<1>3. archive' = archive /\ header' = header /\ result' = result /\ server' = server
  BY <1>1 DEF tarvars
<1>4. server <= Len(servers)
  BY <1>1, <1>2 DEF Searched
<1>5. Linked' /\ Searched'
  <2>1. \A j : Start(j)' = Start(j)
    BY <1>3, SameStart
  <2>2. FindsFirst'
    BY <1>2, <1>3, <2>1 DEF Searched, FindsFirst
  <2>3. Linked'
    BY <1>2, <1>3 DEF Linked
  <2> QED
    BY <1>1, <1>3, <1>4, <2>2, <2>3 DEF Searched
<1>6. CASE UNCHANGED <<proc, line, slot>>
  BY <1>2, <1>3, <1>5, <1>6 DEF Placed, BootInv
<1>7. CASE /\ free # {}
           /\ slot' = first_slot(free)
           /\ proc' = [proc EXCEPT ![first_slot(free)].state = "RUN",
                                   ![first_slot(free)].server = server]
           /\ line' = "trapframe"
  <2>1. /\ DOMAIN proc = Procs /\ server \in Int /\ server >= 1
        /\ \A p \in Procs : p < server - 1 => proc[p].state = "RUNABBLE" /\ proc[p].server = p + 1
        /\ \A p \in Procs : p >= server - 1 => proc[p] = Unused
    <3>1. line \notin Born
      BY <1>1 DEF Born
    <3>2. \A p \in Procs : p >= server - 1 => p = server - 1 \/ p > server - 1
      BY <1>2 DEF Procs, Placed
    <3> QED
      BY <1>2, <3>1, <3>2 DEF Placed
  <2>2. Unused.state = "UNUSED" /\ DOMAIN Unused = Fields
    BY DEF Unused, Fields
  <2>3. \A p \in Procs : p \in free <=> p >= server - 1
    BY <2>1, <2>2 DEF Procs
  <2>4. server - 1 \in free
    <3>1. PICK p \in Procs : p >= server - 1
      BY <1>7, <2>3
    <3>2. MAX_PROS \in Nat
      <4>1. MAX_PROS \in Nat \ {0}
        BY BootAssumption, Zenon
      <4> QED
        BY <4>1
    <3> QED
      BY <2>1, <2>3, <3>1, <3>2 DEF Procs
  <2>5. first_slot(free) = server - 1
    <3>1. \A p \in free : server - 1 <= p
      BY <2>3
    <3>2. \A p \in free : (\A q \in free : p <= q) => p = server - 1
      BY <2>1, <2>4, <3>1 DEF Procs
    <3> HIDE DEF free
    <3>3. first_slot(free) \in free /\ \A q \in free : first_slot(free) <= q
      BY <2>4, <3>1 DEF first_slot
    <3> QED
      BY <3>2, <3>3
  <2> HIDE DEF free
  <2> DEFINE i == server - 1
  <2>6. i \in Procs /\ proc[i] = Unused /\ slot' = i
    <3>1. server - 1 \in Procs
      BY <2>4 DEF free
    <3> QED
      BY <1>7, <2>1, <2>5, <3>1
  <2>7. proc' = [proc EXCEPT ![i].state = "RUN", ![i].server = server]
    BY <1>7, <2>5
  <2> HIDE DEF i
  <2>8. /\ DOMAIN proc' = Procs
        /\ \A p \in Procs : p # i => proc'[p] = proc[p]
        /\ DOMAIN proc'[i] = Fields /\ proc'[i].server = server
    <3>1. /\ DOMAIN proc' = Procs
          /\ \A p \in Procs : p # i => proc'[p] = proc[p]
          /\ proc'[i] = [[proc[i] EXCEPT !.state = "RUN"] EXCEPT !.server = server]
      BY <2>1, <2>6, <2>7
    <3> QED
      BY <2>2, <2>6, <3>1 DEF Fields
  <2>9. \A p \in Procs : p < server - 1 \/ p > server - 1 => p # i
    BY <2>1 DEF Procs, i
  <2>10. line' \in Born
    BY <1>7 DEF Born
  <2>11. Placed'
    BY <1>2, <1>3, <1>4, <2>1, <2>6, <2>8, <2>9, <2>10 DEF Placed, i
  <2> QED
    BY <1>5, <2>11 DEF BootInv
<1> QED
  BY <1>1, <1>6, <1>7

\* The process is ready to run, and the next server is looked for.
LEMMA BinaryKeeps ==
  ASSUME BootInv, born_binary
  PROVE  BootInv'
<1>1. /\ line = "binary" /\ archive' = archive /\ slot' = slot
      /\ UNCHANGED <<proc, line, server, header, result>> \/ next_server
  BY Zenon DEF born_binary, at
<1>2. line \in Born /\ Placed /\ Linked /\ Searched
  BY <1>1 DEF Born, BootInv
<1>3. CASE UNCHANGED <<proc, line, server, header, result>>
  BY <1>1, <1>2, <1>3, BornKeeps DEF tarvars
<1>4. CASE next_server
  <2>1. /\ proc' = [proc EXCEPT ![slot].state = "RUNABBLE"]
        /\ line' = "init_servers" /\ server' = server + 1 /\ header' = 0 /\ result' = <<>>
    BY <1>4 DEF next_server
  <2>2. /\ DOMAIN proc = Procs /\ slot \in Procs /\ slot = server - 1
        /\ server \in 1 .. Len(servers) + 1 /\ server <= Len(servers)
        /\ DOMAIN proc[slot] = Fields /\ proc[slot].server = server
    BY <1>2 DEF Placed
  <2>3. DOMAIN proc' = Procs /\ \A p \in Procs : p # slot => proc'[p] = proc[p]
    BY <2>1, <2>2
  <2>4. proc'[slot].state = "RUNABBLE" /\ proc'[slot].server = slot + 1
    BY <2>1, <2>2 DEF Fields
  <2>5. line' \notin Born /\ line' \in {"kvminit", "init_servers"} \cup Born
    BY <2>1 DEF Born
  <2>6. ASSUME NEW p \in Procs
        PROVE  /\ p < server' - 1 => proc'[p].state = "RUNABBLE" /\ proc'[p].server = p + 1
               /\ p >= server' - 1 => proc'[p] = Unused
    <3>1. p \in Int /\ server \in Int
      BY <2>2 DEF Procs
    <3>2. CASE p = slot
      BY <2>1, <2>2, <2>4, <3>1, <3>2
    <3>3. CASE p < slot
      BY <1>2, <2>1, <2>2, <2>3, <3>1, <3>3 DEF Placed
    <3>4. CASE p > slot
      BY <1>2, <2>1, <2>2, <2>3, <3>1, <3>4 DEF Placed
    <3> QED
      BY <2>2, <3>1, <3>2, <3>3, <3>4
  <2>7. server' \in 1 .. Len(servers) + 1
    BY <2>1, <2>2
  <2>8. Placed'
    <3>1. \A p \in Procs : p > server' - 1 \/ p = server' - 1 => p >= server' - 1
      <4>1. server' - 1 \in Int
        BY <2>7
      <4> HIDE <2>7
      <4> QED
        BY <4>1 DEF Procs
    <3> QED
      BY <2>3, <2>5, <2>6, <2>7, <3>1 DEF Placed
  <2>9. Linked'
    BY <1>1, <1>2 DEF Linked
  <2>10. header' = Start(1)' /\ 1 \in 1 .. Len(archive') + 1
    BY <1>1, <1>2, <2>1, StartOf, SameStart
  <2>11. Searched'
    <3>1. \E i \in 1 .. Len(archive') + 1 :
            /\ header' = Start(i)'
            /\ server' <= Len(servers) => \A j \in 1 .. i - 1 : ~ IsWanted(j)'
      BY <2>10
    <3> QED
      BY <2>1, <2>5, <3>1 DEF Searched, FindsFirst
  <2> QED
    BY <2>8, <2>9, <2>11 DEF BootInv
<1> QED
  BY <1>1, <1>3, <1>4

\* Every step keeps BootInv.
LEMMA StepKeeps ==
  ASSUME BootInv, [BootNext]_bootvars
  PROVE  BootInv'
<1>1. CASE kvminit
  <2>1. /\ line = "kvminit" /\ line' = "init_servers"
        /\ UNCHANGED <<proc, server, slot, tarvars>>
    BY <1>1, Zenon DEF kvminit, at
  <2>2. line \notin Born
    BY <2>1 DEF Born
  <2> QED
    BY <2>1, <2>2, Same
<1>2. CASE find
  BY <1>2, FindKeeps
<1>3. CASE init_servers
  BY <1>3, InitServersKeeps
<1>4. ASSUME proc_born_step
      PROVE  BootInv'
  <2>1. CASE born_trapframe
    <3>1. line = "trapframe" /\ keep("trapframe", kalloc(k), "ipc_page")
      BY <2>1, Zenon DEF born_trapframe, at
    <3>2. line \in Born /\ "ipc_page" \in Born /\ "trapframe" \in Fields \ {"state", "server"}
      BY <3>1 DEF Born, Fields
    <3> QED
      BY <3>1, <3>2, KeepKeeps, Zenon
  <2>2. CASE born_ipc_page
    <3>1. line = "ipc_page" /\ keep("ipc_page", kalloc(k), "pagetable")
      BY <2>2, Zenon DEF born_ipc_page, at
    <3>2. line \in Born /\ "pagetable" \in Born /\ "ipc_page" \in Fields \ {"state", "server"}
      BY <3>1 DEF Born, Fields
    <3> QED
      BY <3>1, <3>2, KeepKeeps, Zenon
  <2>3. CASE born_pagetable
    <3>1. line = "pagetable" /\ keep("pagetable", uvmcreate(k), "trampoline")
      BY <2>3, Zenon DEF born_pagetable, at
    <3>2. line \in Born /\ "trampoline" \in Born /\ "pagetable" \in Fields \ {"state", "server"}
      BY <3>1 DEF Born, Fields
    <3> QED
      BY <3>1, <3>2, KeepKeeps, Zenon
  <2>4. CASE born_ipc_data
    <3>1. line = "ipc_data" /\ keep("ipc_data", kalloc(k), "kstack")
      BY <2>4, Zenon DEF born_ipc_data, at
    <3>2. line \in Born /\ "kstack" \in Born /\ "ipc_data" \in Fields \ {"state", "server"}
      BY <3>1 DEF Born, Fields
    <3> QED
      BY <3>1, <3>2, KeepKeeps, Zenon
  <2>5. CASE born_kstack
    <3>1. line = "kstack" /\ keep("kstack", kalloc(k), "binary")
      BY <2>5, Zenon DEF born_kstack, at
    <3>2. line \in Born /\ "binary" \in Born /\ "kstack" \in Fields \ {"state", "server"}
      BY <3>1 DEF Born, Fields
    <3> QED
      BY <3>1, <3>2, KeepKeeps, Zenon
  <2>6. CASE born_trampoline
    <3>1. /\ line = "trampoline"
          /\ map_page(TRAMPOLINE, trampoline, {"R", "X"}, NULL, "map_trapframe")
      BY <2>6, Zenon DEF born_trampoline, at
    <3>2. line \in Born /\ "map_trapframe" \in Born
      BY <3>1 DEF Born
    <3> QED
      BY <3>1, <3>2, MapKeeps, Zenon
  <2>7. CASE born_map_trapframe
    <3>1. /\ line = "map_trapframe"
          /\ map_page(TRAPFRAME, proc[slot].trapframe, {"R", "W"}, TRAMPOLINE, "map_ipc")
      BY <2>7, Zenon DEF born_map_trapframe, at
    <3>2. line \in Born /\ "map_ipc" \in Born
      BY <3>1 DEF Born
    <3> QED
      BY <3>1, <3>2, MapKeeps, Zenon
  <2>8. CASE born_map_ipc
    <3> DEFINE next == IF servers[server].param = 1 THEN "map_uart" ELSE "ipc_data"
    <3>1. /\ line = "map_ipc"
          /\ map_page(IPC, proc[slot].ipc_page, {"R", "W", "U"}, IPC, next)
      BY <2>8, Zenon DEF born_map_ipc, at
    <3>2. line \in Born /\ next \in Born
      BY <3>1 DEF Born
    <3> HIDE DEF next
    <3> QED
      BY <3>1, <3>2, MapKeeps, Zenon
  <2>9. CASE born_map_uart
    <3>1. /\ line = "map_uart"
          /\ map_page(VUART, UART0, {"R", "W", "U"}, VUART, "ipc_data")
      BY <2>9, Zenon DEF born_map_uart, at
    <3>2. line \in Born /\ "ipc_data" \in Born
      BY <3>1 DEF Born
    <3> QED
      BY <3>1, <3>2, MapKeeps, Zenon
  <2>10. CASE born_binary
    BY <2>10, BinaryKeeps
  <2> QED
    BY <1>4, <2>1, <2>2, <2>3, <2>4, <2>5, <2>6, <2>7, <2>8, <2>9, <2>10, Zenon
       DEF proc_born_step
<1>5. CASE UNCHANGED bootvars
  <2>1. UNCHANGED <<proc, line, server, slot, tarvars>>
    BY <1>5 DEF bootvars
  <2> QED
    BY <2>1, Same
<1> QED
  BY <1>1, <1>2, <1>3, <1>4, <1>5, Zenon DEF BootNext

\* The process table starts out free, and the search at the first header.
LEMMA StartsOut == BootInit => BootInv
<1> SUFFICES ASSUME BootInit PROVE BootInv
  OBVIOUS
<1>1. PICK s \in Starts : archive = s.archive
  BY Zenon DEF BootInit
<1>2. /\ header = 0 /\ result = <<>> /\ proc = [p \in Procs |-> Unused]
      /\ line = "kvminit" /\ server = 1
  BY Zenon DEF BootInit
<1>3. /\ servers \in Seq(Range(servers)) /\ archive \in Seq(Range(archive))
      /\ \A i \in DOMAIN archive : /\ archive[i].name # "" /\ archive[i].size \in Nat
                                   /\ rest(archive[i].size)[DIGITS - 1] = 0
  BY <1>1, BootAssumption, Zenon
<1>4. Len(servers) \in Nat /\ DOMAIN archive = 1 .. Len(archive)
  BY <1>3, LenProperties
<1>5. Linked
  BY <1>3, <1>4, Zenon DEF Linked
<1>6. Placed
  BY <1>2, <1>4 DEF Placed, Procs, Born
<1>7. Searched
  <2>1. header = Start(1) /\ 1 \in 1 .. Len(archive) + 1
    BY <1>2, <1>5, StartOf
  <2> QED
    BY <1>2, <2>1 DEF Searched, FindsFirst, Born
<1> QED
  BY <1>5, <1>6, <1>7 DEF BootInv

\* The search never takes the contents of a file for a header, whatever they
\* are: it ends at the first plain file of the name, with its size.
THEOREM FirstIsFound == BootSpec => []FindsFirst
<1>1. BootInv => FindsFirst
  BY DEF BootInv, Searched
<1> QED
  BY <1>1, StartsOut, StepKeeps, PTL DEF BootSpec

\* main() yields with the servers in the first slots, in the order of the table.
THEOREM ServersAreHandedOver == BootSpec => []HandsOver
<1>1. BootInv => HandsOver
  <2> SUFFICES ASSUME BootInv, line = "init_servers", server > Len(servers), NEW p \in Procs
               PROVE  IF p < Len(servers)
                      THEN proc[p].state = "RUNABBLE" /\ proc[p].server = p + 1
                      ELSE proc[p] = Unused
    BY Zenon DEF HandsOver, at
  <2>1. Placed /\ line \notin Born
    BY DEF BootInv, Born
  <2>2. Len(servers) \in Nat
    <3>1. servers \in Seq(Range(servers))
      BY BootAssumption, Zenon
    <3> QED
      BY <3>1, LenProperties
  <2>3. server \in 1 .. Len(servers) + 1
    BY <2>1 DEF Placed
  <2>4. server - 1 = Len(servers) /\ p \in Int
    BY <2>2, <2>3 DEF Procs
  <2>5. p < server - 1 \/ p = server - 1 \/ p > server - 1
    BY <2>2, <2>4
  <2> QED
    BY <2>1, <2>2, <2>4, <2>5 DEF Placed
<1> QED
  BY <1>1, StartsOut, StepKeeps, PTL DEF BootSpec

------------------------------------------------------------------------------
(* Page tables.                                                            *)

\* What a word and a page may be.
Word == [pa : Int, flags : SUBSET Flags]
Content == [Words -> Word]

\* What a page is used for.  lev is 0 for a page that somebody holds, 1 to 3 for
\* page tables (3 for a root), and 4 for free pages.  Of one that is held and of
\* a root the tag says what it is, and of which process.
Tags == {"none", "kernel", "pagetable", "trapframe", "ipc_page", "ipc_data", "kstack",
         "program"} \X Int
Use == [lev : 0..4,
        tab : Pages \cup {NULL},   \* the table with the entry for this table
        idx : Words,               \* and the place of that entry
        rank : Nat,                \* how many free pages come after it
        tag : Tags]

NoTag == <<"none", 0>>
Held(g) == [lev |-> 0, tab |-> NULL, idx |-> 0, rank |-> 0, tag |-> g]
Root(g) == [lev |-> 3, tab |-> NULL, idx |-> 0, rank |-> 0, tag |-> g]
TableUse(l, p, i) == [lev |-> l, tab |-> p, idx |-> i, rank |-> 0, tag |-> NoTag]

\* f is the head of the free list, m the pages, o the uses.
Typed(f, m, o) == f \in Pages \cup {NULL} /\ m \in [Pages -> Content] /\ o \in [Pages -> Use]

\* The free list: each page leads to the one of the next lower rank.
FreeOK(f, m, o) ==
  /\ f # NULL => o[f].lev = 4
  /\ \A p \in Pages : o[p].lev = 4 =>
       /\ f # NULL /\ o[p].rank <= o[f].rank
       /\ o[p].rank = 0 => m[p][0].pa = NULL
       /\ o[p].rank > 0 => /\ m[p][0].pa \in Pages
                           /\ o[m[p][0].pa].lev = 4
                           /\ o[m[p][0].pa].rank = o[p].rank - 1
  /\ \A p, q \in Pages : o[p].lev = 4 /\ o[q].lev = 4 /\ o[p].rank = o[q].rank => p = q

\* What the valid entries of the upper tables lead to.
Leads(m, o, p, i) ==
  LET c == m[p][i].pa
  IN  /\ c \in Pages /\ o[c].lev = o[p].lev - 1 /\ o[c].tab = p /\ o[c].idx = i
      /\ ~ leaf(m[p][i])
Down(m, o) ==
  \A p \in Pages, i \in Words : o[p].lev \in 2..3 /\ valid(m[p][i]) => Leads(m, o, p, i)

Forest(f, m, o) == Typed(f, m, o) /\ FreeOK(f, m, o) /\ Down(m, o)

\* The indices of page n, the table that p's entry i leads to, and the last table
\* and the entry that the root r leads to for n.
D0(n) == n % WORDS
D1(n) == (n \div WORDS) % WORDS
D2(n) == ((n \div WORDS) \div WORDS) % WORDS
Child(m, p, i) == IF p # NULL /\ valid(m[p][i]) THEN m[p][i].pa ELSE NULL
MidTable(m, r, n) == Child(m, r, D2(n))
LastTable(m, r, n) == Child(m, MidTable(m, r, n), D1(n))
Pt(m, r, n) == LET t == LastTable(m, r, n) IN IF t = NULL THEN word(NULL, {}) ELSE m[t][D0(n)]

\* From m to m1 the tables lead to the same entries, held pages and roots are left
\* alone, and so are the entries that lead to tables.
SameMap(m, m1, r) == \A n \in Vpns : Pt(m1, r, n) = Pt(m, r, n)
SameMaps(m, m1, o) == \A r \in Pages : o[r].lev = 3 => SameMap(m, m1, r)
Keeps(m, m1, o, o1) ==
  /\ \A q \in Pages : o[q].lev = 0 => o1[q] = o[q] /\ m1[q] = m[q]
  /\ \A q \in Pages : o[q].lev = 3 => o1[q] = o[q]
Links(m, m1, o, o1) ==
  \A q \in Pages : o[q].lev \in 2..3 =>
    /\ o1[q].lev = o[q].lev
    /\ \A i \in Words : valid(m[q][i]) => m1[q][i] = m[q][i]

------------------------------------------------------------------------------

\* Pages and indices are numbers, and no page is NULL.
LEMMA Numbers ==
  /\ NULL \notin Pages /\ Pages \subseteq Nat /\ 0 \in Words /\ Words \subseteq Nat
  /\ WORDS \in Nat /\ WORDS > 1 /\ PGSIZE \in Nat /\ PGSIZE > 0
<1>1. NULL \notin Pages /\ Pages \subseteq Nat /\ 0 \in Words /\ Words \subseteq Nat
  BY MemoryAssumption DEF Pages, Words, NULL
<1>2. WORDS \in Nat /\ WORDS > 1
  BY MemoryAssumption
<1>3. PGSIZE \in Nat /\ PGSIZE > 0
  BY PageAssumption
<1> QED
  BY <1>1, <1>2, <1>3

\* What a link, a root or an entry holds is an address.
LEMMA Addresses == \A p \in Pages \cup {NULL} : p \in Int
  BY MemoryAssumption DEF Pages, NULL

\* What memset() leaves in a page are words, and zeros are no valid entries.
LEMMA PageTypes ==
  /\ NULL \in Int /\ Wild \in Int /\ Zeros \in Content /\ Fives \in Content /\ Ones \in Content
  /\ \A i \in Words : Zeros[i] = word(NULL, {}) /\ ~ valid(Zeros[i])
  /\ ~ valid(word(NULL, {})) /\ word(NULL, {}) \in Word
<1>1. NULL \in Int /\ Wild \in Int
  BY MemoryAssumption DEF NULL, Wild
<1>2. word(NULL, {}) \in Word /\ word(Wild, {"V"}) \in Word /\ word(Wild, {"V", "W"}) \in Word
  BY <1>1 DEF word, Word, Flags
<1>3. Zeros \in Content /\ Fives \in Content /\ Ones \in Content
  BY <1>2 DEF Zeros, Ones, Fives, Page, Content
<1>4. ~ valid(word(NULL, {}))
  BY DEF valid, word
<1>5. \A i \in Words : Zeros[i] = word(NULL, {}) /\ ~ valid(Zeros[i])
  BY <1>4 DEF Zeros, Page
<1> QED
  BY <1>1, <1>2, <1>3, <1>4, <1>5

\* A page that is held or a root has a use.
LEMMA Uses ==
  /\ NoTag \in Tags
  /\ \A g \in Tags : Held(g) \in Use /\ Root(g) \in Use
  /\ \A g : /\ Held(g).lev = 0 /\ Held(g).tag = g
            /\ Root(g).lev = 3 /\ Root(g).tag = g
  /\ \A l \in 1..2, p \in Pages, i \in Words :
       /\ TableUse(l, p, i) \in Use /\ TableUse(l, p, i).lev = l
       /\ TableUse(l, p, i).tab = p /\ TableUse(l, p, i).idx = i
<1>1. NoTag \in Tags
  BY DEF NoTag, Tags
<1> QED
  BY <1>1, Numbers DEF Held, Root, TableUse, Use

\* The indices of a page, and its address.
LEMMA Indices ==
  ASSUME NEW n \in Nat
  PROVE  /\ D0(n) \in Words /\ D1(n) \in Words /\ D2(n) \in Words
         /\ n \div WORDS \in Nat /\ (n \div WORDS) \div WORDS \in Nat
         /\ n = (n \div WORDS) * WORDS + D0(n)
         /\ n \div WORDS = ((n \div WORDS) \div WORDS) * WORDS + D1(n)
<1> DEFINE x == n \div WORDS
           y == x \div WORDS
<1>1. WORDS \in Nat /\ WORDS > 0 /\ Words = 0 .. WORDS - 1
  BY Numbers DEF Words
<1>2. x \in Nat /\ D0(n) \in Words /\ n = x * WORDS + D0(n)
  BY <1>1, Divide DEF D0
<1> HIDE DEF x
<1>3. y \in Nat /\ x % WORDS \in Words /\ x = y * WORDS + (x % WORDS)
  BY <1>1, <1>2, Divide
<1> HIDE DEF y
<1>4. y % WORDS \in Words
  BY <1>1, <1>3, Divide
<1> QED
  BY <1>2, <1>3, <1>4 DEF D1, D2, x, y

\* MAXVA is the end of a last table's pages: of table half of the tables of the
\* middle level, counted through.
Half == WORDS \div 2
Top == (Half * WORDS) * WORDS

\* An address space ends at a page number Top, well above the last page of RAM.
LEMMA TopIs ==
  /\ Half \in Nat /\ Half >= 2 /\ WORDS = 2 * Half /\ WORDS >= 4
  /\ Half * WORDS \in Nat /\ Top \in Nat
  /\ MAXVA = Top * PGSIZE /\ MAXVA \in Nat /\ MAXVA \div PGSIZE = Top
  /\ PHYSTOP < Top - 4
<1>1. /\ WORDS % 2 = 0 /\ PHYSTOP * PGSIZE < MAXVA - 4 * PGSIZE
  BY BootAssumption, Zenon
<1>2. WORDS \in Nat /\ WORDS > 1 /\ PGSIZE \in Nat /\ PGSIZE > 0 /\ PHYSTOP \in Nat
  BY Numbers, MemoryAssumption
<1>3. Half \in Nat /\ WORDS = 2 * Half
  BY <1>1, <1>2 DEF Half
<1> HIDE DEF Half
<1>4. Half * WORDS \in Nat
  BY <1>2, <1>3
<1>5. Top \in Nat
  <2> DEFINE h == Half * WORDS
  <2>1. h \in Nat
    BY <1>4
  <2> HIDE DEF h
  <2>2. h * WORDS \in Nat
    BY <1>2, <2>1
  <2> QED
    BY <2>2 DEF Top, h
<1>6. WORDS * WORDS * WORDS * PGSIZE = 2 * (Top * PGSIZE)
  <2>1. WORDS * WORDS = 2 * (Half * WORDS)
    BY <1>2, <1>3
  <2> DEFINE h == Half * WORDS
  <2>2. h \in Nat /\ WORDS * WORDS = 2 * h
    BY <1>4, <2>1
  <2> HIDE DEF h
  <2>3. WORDS * WORDS * WORDS = 2 * (h * WORDS)
    BY <1>2, <2>2
  <2>4. WORDS * WORDS * WORDS = 2 * Top
    BY <2>3 DEF Top, h
  <2> HIDE DEF Top
  <2> DEFINE w3 == WORDS * WORDS * WORDS
  <2>5. w3 = 2 * Top
    BY <2>4
  <2> HIDE DEF w3
  <2>6. w3 * PGSIZE = 2 * (Top * PGSIZE)
    BY <1>2, <1>5, <2>5
  <2> QED
    BY <2>6 DEF w3
<1> HIDE DEF Top
<1> DEFINE t == Top * PGSIZE
<1>7. t \in Nat /\ t \div PGSIZE = Top
  BY <1>2, <1>5
<1>8. MAXVA = t
  <2>1. WORDS * WORDS * WORDS * PGSIZE = 2 * t
    BY <1>6
  <2> HIDE DEF t
  <2>2. (2 * t) \div 2 = t
    BY <1>7
  <2> QED
    BY <2>1, <2>2 DEF MAXVA
<1>9. PHYSTOP < Top - 4
  BY <1>1, <1>2, <1>5, <1>8
<1>10. Half >= 2
  <2>1. SUFFICES ASSUME ~ (Half >= 2)
                 PROVE  FALSE
    OBVIOUS
  <2>2. Half = 1 /\ WORDS = 2
    BY <1>2, <1>3, <2>1
  <2>3. Top = 4
    BY <2>2 DEF Top
  <2> QED
    BY <1>2, <1>9, <2>3
<1> QED
  BY <1>2, <1>3, <1>4, <1>5, <1>7, <1>8, <1>9, <1>10

\* The pages of virtual addresses, and their indices as walk() reads them.
LEMMA VpnsAre ==
  ASSUME NEW n \in Vpns
  PROVE  /\ n \in Nat /\ n < Top
         /\ n * PGSIZE \in Nat /\ n * PGSIZE < MAXVA /\ (n * PGSIZE) \div PGSIZE = n
         /\ (n * PGSIZE) % PGSIZE = 0
         /\ PX(0, n * PGSIZE) = D0(n) /\ PX(1, n * PGSIZE) = D1(n) /\ PX(2, n * PGSIZE) = D2(n)
<1>1. Top \in Nat /\ MAXVA \div PGSIZE = Top /\ MAXVA = Top * PGSIZE
  BY TopIs
<1>2. n \in Nat /\ n < Top
  <2> HIDE DEF MAXVA, Top
  <2> QED
    BY <1>1 DEF Vpns
<1>3. PGSIZE \in Nat /\ PGSIZE > 0
  BY Numbers
<1> HIDE DEF Top, MAXVA
<1>4. /\ n * PGSIZE \in Nat /\ (n * PGSIZE) \div PGSIZE = n /\ (n * PGSIZE) % PGSIZE = 0
  BY <1>2, <1>3
<1>5. n * PGSIZE < Top * PGSIZE
  BY <1>1, <1>2, <1>3
<1>6. PX(0, n * PGSIZE) = D0(n) /\ PX(1, n * PGSIZE) = D1(n) /\ PX(2, n * PGSIZE) = D2(n)
  BY <1>4 DEF PX, D0, D1, D2
<1> QED
  BY <1>1, <1>2, <1>4, <1>5, <1>6

\* Two pages with the same indices are the same.
LEMMA SameIndices ==
  ASSUME NEW n \in Vpns, NEW j \in Vpns, D0(n) = D0(j), D1(n) = D1(j), D2(n) = D2(j)
  PROVE  n = j
<1> DEFINE z(x) == (x \div WORDS) \div WORDS
<1>1. WORDS \in Nat /\ WORDS > 0
  BY Numbers
<1>2. ASSUME NEW x \in Vpns
      PROVE  z(x) = D2(x)
  <2>1. x \in Nat /\ x < Top
    BY VpnsAre
  <2>2. x \div WORDS \in Nat /\ z(x) \in Nat
    BY <2>1, Indices
  <2>3. x \div WORDS < Half * WORDS /\ Half * WORDS \in Nat
    <3> DEFINE h == Half * WORDS
    <3>1. h \in Nat /\ x < h * WORDS
      BY <2>1, TopIs DEF Top
    <3> HIDE DEF h
    <3>2. x \div WORDS < h
      BY <1>1, <2>1, <3>1
    <3> QED
      BY <3>1, <3>2 DEF h
  <2>4. z(x) < Half
    <3> DEFINE y == x \div WORDS
    <3>1. y \in Nat /\ y < Half * WORDS /\ Half \in Nat
      BY <2>2, <2>3, TopIs
    <3> HIDE DEF y, Half
    <3>2. y \div WORDS < Half
      BY <1>1, <3>1
    <3> QED
      BY <3>2 DEF y
  <2>5. z(x) < WORDS
    <3> HIDE DEF z
    <3> QED
      BY <2>2, <2>4, TopIs
  <2> HIDE DEF z
  <2>6. z(x) % WORDS = z(x)
    BY <1>1, <2>2, <2>5
  <2> QED
    BY <2>6 DEF D2, z
<1>3. z(n) = z(j)
  BY <1>2
<1>4. n \in Nat /\ j \in Nat
  BY VpnsAre
<1>5. n \div WORDS = j \div WORDS
  <2>1. n \div WORDS = z(n) * WORDS + D1(n) /\ j \div WORDS = z(j) * WORDS + D1(j)
    BY <1>4, Indices
  <2> HIDE DEF z
  <2> QED
    BY <1>3, <2>1
<1>6. n = (n \div WORDS) * WORDS + D0(n) /\ j = (j \div WORDS) * WORDS + D0(j)
  BY <1>4, Indices
<1> QED
  BY <1>5, <1>6

\* The pages below MAXVA share the last table of the addresses, and no index of
\* that is 0.
Apart(i) == Top - i

\* The four pages below Top are no RAM and share their tables: only their last index differs.
LEMMA TopPages ==
  /\ TRAMPOLINE = Apart(1) * PGSIZE /\ TRAMPOLINE \div PGSIZE = Apart(1)
  /\ TRAPFRAME = Apart(2) * PGSIZE /\ TRAPFRAME \div PGSIZE = Apart(2)
  /\ IPC = Apart(3) * PGSIZE /\ IPC \div PGSIZE = Apart(3)
  /\ VUART = Apart(4) * PGSIZE /\ VUART \div PGSIZE = Apart(4)
  /\ \A i \in 1..4 : /\ Apart(i) \in Vpns /\ Apart(i) > PHYSTOP
                     /\ D1(Apart(i)) = D1(Apart(1)) /\ D2(Apart(i)) = D2(Apart(1))
                     /\ D2(Apart(i)) # 0
<1>1. /\ Half \in Nat /\ Half >= 2 /\ WORDS = 2 * Half /\ WORDS >= 4 /\ WORDS \in Nat
      /\ Half * WORDS \in Nat /\ Top \in Nat /\ PHYSTOP < Top - 4 /\ PHYSTOP \in Nat
      /\ MAXVA = Top * PGSIZE /\ MAXVA \in Nat /\ MAXVA \div PGSIZE = Top
      /\ PGSIZE \in Nat /\ PGSIZE > 0
  BY TopIs, Numbers, MemoryAssumption
<1> HIDE DEF MAXVA
<1>2. Top = (Half * WORDS) * WORDS
  BY DEF Top
<1> HIDE DEF Top, Half
<1>3. \A i \in 1..4 : (Top - i) * PGSIZE = Top * PGSIZE - i * PGSIZE
  BY <1>1
<1>4. \A i \in 1..4 : ((Top - i) * PGSIZE) \div PGSIZE = Top - i
  <2>1. \A x \in Nat : (x * PGSIZE) \div PGSIZE = x
    BY <1>1
  <2> QED
    BY <1>1, <2>1
<1>5. /\ TRAMPOLINE = Apart(1) * PGSIZE /\ TRAPFRAME = Apart(2) * PGSIZE
      /\ IPC = Apart(3) * PGSIZE /\ VUART = Apart(4) * PGSIZE
  <2>1. /\ (Top - 1) * PGSIZE = MAXVA - PGSIZE /\ (Top - 2) * PGSIZE = MAXVA - PGSIZE - PGSIZE
        /\ (Top - 3) * PGSIZE = MAXVA - PGSIZE - PGSIZE - PGSIZE
        /\ (Top - 4) * PGSIZE = MAXVA - PGSIZE - PGSIZE - PGSIZE - PGSIZE
    BY <1>1
  <2> QED
    BY <2>1 DEF TRAMPOLINE, TRAPFRAME, IPC, VUART, Apart
<1>6. ASSUME NEW i \in 1..4
      PROVE  /\ Apart(i) \in Vpns /\ Apart(i) > PHYSTOP
             /\ D1(Apart(i)) = WORDS - 1 /\ D2(Apart(i)) = Half - 1
  <2> DEFINE n == Apart(i)
             h == Half * WORDS
  <2>1. n \in Vpns /\ n > PHYSTOP /\ n \in Nat
    BY <1>1 DEF Vpns, Apart
  <2>2. n \div WORDS = h - 1
    <3>1. h \in Nat /\ n = h * WORDS - i /\ i <= WORDS /\ i >= 1 /\ h >= 1
      <4>1. h \in Nat /\ n = h * WORDS - i /\ i <= WORDS /\ i >= 1
        BY <1>1, <1>2 DEF Apart
      <4>2. h >= 1
        BY <1>1
      <4> QED
        BY <4>1, <4>2
    <3> HIDE DEF h, n
    <3>2. n = (h - 1) * WORDS + (WORDS - i) /\ WORDS - i \in 0 .. WORDS - 1
      BY <1>1, <3>1
    <3>3. \A x \in Nat, y \in 0 .. WORDS - 1 : (x * WORDS + y) \div WORDS = x
      BY <1>1
    <3>4. h - 1 \in Nat
      BY <3>1
    <3> QED
      BY <3>2, <3>3, <3>4
  <2>3. h - 1 = (Half - 1) * WORDS + (WORDS - 1)
    BY <1>1
  <2>4. (h - 1) \div WORDS = Half - 1 /\ (h - 1) % WORDS = WORDS - 1
    <3>1. \A x \in Nat, y \in 0 .. WORDS - 1 :
            (x * WORDS + y) \div WORDS = x /\ (x * WORDS + y) % WORDS = y
      BY <1>1
    <3>2. Half - 1 \in Nat /\ WORDS - 1 \in 0 .. WORDS - 1
      BY <1>1
    <3> HIDE DEF h
    <3> QED
      BY <2>3, <3>1, <3>2
  <2>5. (Half - 1) % WORDS = Half - 1
    BY <1>1
  <2> HIDE DEF h, n
  <2>6. D1(n) = WORDS - 1 /\ D2(n) = Half - 1
    BY <2>2, <2>4, <2>5 DEF D1, D2
  <2> QED
    BY <2>1, <2>6 DEF n
<1>7. Half - 1 # 0
  BY <1>1
<1>8. 1 \in 1..4 /\ 2 \in 1..4 /\ 3 \in 1..4 /\ 4 \in 1..4
  OBVIOUS
<1> QED
  BY <1>4, <1>5, <1>6, <1>7, <1>8, Zenon DEF Apart

(* What a walk from a root finds.                                          *)

\* The tables on the way.
LEMMA Way ==
  ASSUME NEW f, NEW m, NEW o, Forest(f, m, o), NEW r \in Pages, o[r].lev = 3, NEW n \in Vpns
  PROVE  /\ MidTable(m, r, n) \in Pages \cup {NULL} /\ LastTable(m, r, n) \in Pages \cup {NULL}
         /\ MidTable(m, r, n) # NULL =>
              LET u == MidTable(m, r, n)
              IN  valid(m[r][D2(n)]) /\ u = m[r][D2(n)].pa
                  /\ o[u].lev = 2 /\ o[u].tab = r /\ o[u].idx = D2(n)
         /\ LastTable(m, r, n) # NULL =>
              LET u == MidTable(m, r, n)
                  t == LastTable(m, r, n)
              IN  u # NULL /\ valid(m[u][D1(n)]) /\ t = m[u][D1(n)].pa
                  /\ o[t].lev = 1 /\ o[t].tab = u /\ o[t].idx = D1(n)
<1> DEFINE u == MidTable(m, r, n)
           t == LastTable(m, r, n)
<1>1. D0(n) \in Words /\ D1(n) \in Words /\ D2(n) \in Words
  BY VpnsAre, Indices
<1>2. Down(m, o)
  BY DEF Forest
<1>3. u # NULL => /\ valid(m[r][D2(n)]) /\ u = m[r][D2(n)].pa
                  /\ u \in Pages /\ o[u].lev = 2 /\ o[u].tab = r /\ o[u].idx = D2(n)
  <2>1. SUFFICES ASSUME u # NULL
                 PROVE  /\ valid(m[r][D2(n)]) /\ u = m[r][D2(n)].pa
                        /\ u \in Pages /\ o[u].lev = 2 /\ o[u].tab = r /\ o[u].idx = D2(n)
    OBVIOUS
  <2>2. valid(m[r][D2(n)]) /\ u = m[r][D2(n)].pa
    BY <2>1 DEF MidTable, Child
  <2>3. Leads(m, o, r, D2(n))
    BY <1>1, <1>2, <2>2 DEF Down
  <2> HIDE DEF u
  <2> QED
    BY <2>2, <2>3 DEF Leads
<1>4. t # NULL => /\ u # NULL /\ valid(m[u][D1(n)]) /\ t = m[u][D1(n)].pa
                  /\ t \in Pages /\ o[t].lev = 1 /\ o[t].tab = u /\ o[t].idx = D1(n)
  <2>1. SUFFICES ASSUME t # NULL
                 PROVE  /\ u # NULL /\ valid(m[u][D1(n)]) /\ t = m[u][D1(n)].pa
                        /\ t \in Pages /\ o[t].lev = 1 /\ o[t].tab = u /\ o[t].idx = D1(n)
    OBVIOUS
  <2>2. u # NULL /\ valid(m[u][D1(n)]) /\ t = m[u][D1(n)].pa
    BY <2>1 DEF LastTable, Child
  <2> HIDE DEF u, t
  <2>3. u \in Pages /\ o[u].lev = 2
    BY <1>3, <2>2
  <2>4. Leads(m, o, u, D1(n))
    BY <1>1, <1>2, <2>2, <2>3 DEF Down
  <2> QED
    BY <2>2, <2>3, <2>4 DEF Leads
<1>5. u \in Pages \cup {NULL} /\ t \in Pages \cup {NULL}
  BY <1>3, <1>4
<1> HIDE DEF u, t
<1> QED
  BY <1>3, <1>4, <1>5, Zenon DEF u, t

\* As long as the tables are the same, so is what the roots lead to.
LEMMA Untouched ==
  ASSUME NEW f, NEW m, NEW o, Forest(f, m, o), NEW m1,
         \A q \in Pages : o[q].lev \in 1..3 => m1[q] = m[q]
  PROVE  SameMaps(m, m1, o)
<1> SUFFICES ASSUME NEW r \in Pages, o[r].lev = 3, NEW n \in Vpns
             PROVE  Pt(m1, r, n) = Pt(m, r, n)
  BY DEF SameMaps, SameMap
<1> DEFINE u == MidTable(m, r, n)
           t == LastTable(m, r, n)
<1>1. /\ u \in Pages \cup {NULL} /\ t \in Pages \cup {NULL}
      /\ u # NULL => o[u].lev = 2
      /\ t # NULL => o[t].lev = 1
  BY Way
<1>2. MidTable(m1, r, n) = u
  BY DEF MidTable, Child
<1> HIDE DEF u
<1>3. LastTable(m1, r, n) = t
  <2>1. t = Child(m, u, D1(n)) /\ LastTable(m1, r, n) = Child(m1, u, D1(n))
    BY <1>2 DEF LastTable, u
  <2>2. u # NULL => m1[u] = m[u]
    BY <1>1
  <2> QED
    BY <2>1, <2>2 DEF Child
<1> HIDE DEF t
<1>4. t # NULL => m1[t] = m[t]
  BY <1>1
<1> QED
  BY <1>3, <1>4 DEF Pt, t

\* kalloc() takes the first page of the list.
LEMMA Pop ==
  ASSUME NEW f, NEW m, NEW o, Forest(f, m, o), f # NULL, NEW c \in Content, NEW g \in Tags
  PROVE  /\ Forest(m[f][0].pa, [m EXCEPT ![f] = c], [o EXCEPT ![f] = Held(g)])
         /\ f \in Pages /\ o[f].lev = 4
<1> DEFINE f1 == m[f][0].pa
           m1 == [m EXCEPT ![f] = c]
           o1 == [o EXCEPT ![f] = Held(g)]
<1>1. Typed(f, m, o) /\ FreeOK(f, m, o) /\ Down(m, o)
  BY DEF Forest
<1>2. /\ f \in Pages /\ o[f].lev = 4
      /\ \A p \in Pages : o[p].lev \in 0..4 /\ o[p].rank \in Nat
  BY <1>1 DEF Typed, FreeOK, Use
<1>3. /\ m1[f] = c /\ o1[f] = Held(g)
      /\ \A p \in Pages : p # f => m1[p] = m[p] /\ o1[p] = o[p]
  BY <1>1, <1>2 DEF Typed
<1>4. o1[f].lev = 0
  BY <1>3, Uses
<1>5. f1 \in Pages \cup {NULL}
  BY <1>1, <1>2, Numbers DEF FreeOK
<1>6. Typed(f1, m1, o1)
  BY <1>1, <1>5, Uses DEF Typed
<1> HIDE DEF f1, m1, o1
<1>7. f1 = m[f][0].pa
  BY DEF f1
<1>8. FreeOK(f1, m1, o1)
  <2>1. f1 # NULL => f1 \in Pages /\ f1 # f /\ o1[f1].lev = 4 /\ o1[f1].rank = o[f].rank - 1
    BY <1>1, <1>2, <1>3, <1>7 DEF FreeOK
  <2>2. ASSUME NEW p \in Pages, o1[p].lev = 4
        PROVE  /\ f1 # NULL /\ o1[p].rank <= o1[f1].rank
               /\ o1[p].rank = 0 => m1[p][0].pa = NULL
               /\ o1[p].rank > 0 => /\ m1[p][0].pa \in Pages
                                    /\ o1[m1[p][0].pa].lev = 4
                                    /\ o1[m1[p][0].pa].rank = o1[p].rank - 1
    <3>1. p # f /\ o1[p] = o[p] /\ m1[p] = m[p] /\ o[p].lev = 4
      BY <1>3, <1>4, <2>2
    <3>2. o[p].rank # o[f].rank /\ o[p].rank <= o[f].rank
      BY <1>1, <1>2, <3>1 DEF FreeOK
    <3>3. o[f].rank > 0 /\ f1 # NULL
      BY <1>1, <1>2, <1>7, <3>2, Numbers DEF FreeOK
    <3>4. o1[p].rank <= o1[f1].rank
      BY <1>2, <2>1, <3>1, <3>2, <3>3
    <3>5. o[p].rank = 0 => m[p][0].pa = NULL
      BY <1>1, <3>1 DEF FreeOK
    <3>6. o[p].rank > 0 =>
            m[p][0].pa \in Pages /\ o[m[p][0].pa].lev = 4 /\ o[m[p][0].pa].rank = o[p].rank - 1
      BY <1>1, <3>1 DEF FreeOK
    <3>7. o[p].rank > 0 => m[p][0].pa # f
      BY <1>2, <3>2, <3>6
    <3> QED
      BY <1>3, <3>1, <3>3, <3>4, <3>5, <3>6, <3>7
  <2>3. \A p, q \in Pages : o1[p].lev = 4 /\ o1[q].lev = 4 /\ o1[p].rank = o1[q].rank => p = q
    BY <1>1, <1>3, <1>4 DEF FreeOK
  <2> QED
    BY <2>1, <2>2, <2>3 DEF FreeOK
<1>9. Down(m1, o1)
  BY <1>1, <1>2, <1>3, <1>4 DEF Down, Leads
<1> QED
  BY <1>2, <1>6, <1>8, <1>9 DEF Forest, f1, m1, o1

\* A page that kfree() has put on the list before f.
Freed(f, o) == [lev |-> 4, tab |-> NULL, idx |-> 0,
                rank |-> IF f = NULL THEN 0 ELSE o[f].rank + 1, tag |-> NoTag]

\* kfree() puts a held page on the list.
LEMMA Push ==
  ASSUME NEW f, NEW m, NEW o, Forest(f, m, o), NEW t \in Pages, o[t].lev = 0,
         NEW c \in Content, c[0].pa = f
  PROVE  Forest(t, [m EXCEPT ![t] = c], [o EXCEPT ![t] = Freed(f, o)])
<1> DEFINE m1 == [m EXCEPT ![t] = c]
           o1 == [o EXCEPT ![t] = Freed(f, o)]
<1>1. Typed(f, m, o) /\ FreeOK(f, m, o) /\ Down(m, o)
  BY DEF Forest
<1>2. \A p \in Pages : o[p].lev \in 0..4 /\ o[p].rank \in Nat
  BY <1>1 DEF Typed, Use
<1>3. /\ m1[t] = c /\ o1[t] = Freed(f, o)
      /\ \A p \in Pages : p # t => m1[p] = m[p] /\ o1[p] = o[p]
  BY <1>1, <1>2 DEF Typed
<1>4. /\ f # NULL => f \in Pages /\ o[f].rank \in Nat
      /\ o1[t].lev = 4
      /\ f # NULL => o1[t].rank = o[f].rank + 1
      /\ f = NULL => o1[t].rank = 0
  BY <1>1, <1>2, <1>3 DEF Freed, Typed
<1>5. Freed(f, o) \in Use
  <2>1. (IF f = NULL THEN 0 ELSE o[f].rank + 1) \in Nat
    BY <1>4
  <2> QED
    BY <2>1, Numbers, Uses DEF Freed, Use
<1>6. Typed(t, m1, o1)
  BY <1>1, <1>2, <1>5 DEF Typed
<1> HIDE DEF m1, o1
<1>7. FreeOK(t, m1, o1)
  <2>1. ASSUME NEW p \in Pages, o1[p].lev = 4
        PROVE  /\ t # NULL /\ o1[p].rank <= o1[t].rank
               /\ o1[p].rank = 0 => m1[p][0].pa = NULL
               /\ o1[p].rank > 0 => /\ m1[p][0].pa \in Pages
                                    /\ o1[m1[p][0].pa].lev = 4
                                    /\ o1[m1[p][0].pa].rank = o1[p].rank - 1
    <3>1. t # NULL
      BY <1>2, Numbers
    <3>2. CASE p = t
      <4>1. m1[p][0].pa = f
        BY <1>3, <3>2
      <4>2. f # NULL => f \in Pages /\ f # t /\ o1[f].lev = 4 /\ o1[f].rank = o1[t].rank - 1
        BY <1>1, <1>2, <1>3, <1>4 DEF FreeOK
      <4> QED
        BY <1>2, <1>4, <3>1, <3>2, <4>1, <4>2
    <3>3. CASE p # t
      <4>1. o1[p] = o[p] /\ m1[p] = m[p] /\ o[p].lev = 4
        BY <1>3, <2>1, <3>3
      <4>2. f # NULL /\ o[p].rank <= o[f].rank
        BY <1>1, <4>1 DEF FreeOK
      <4>3. o[p].rank > 0 =>
              /\ m[p][0].pa \in Pages /\ m[p][0].pa # t /\ o[m[p][0].pa].lev = 4
              /\ o[m[p][0].pa].rank = o[p].rank - 1
        BY <1>1, <1>2, <4>1 DEF FreeOK
      <4>4. o[p].rank = 0 => m[p][0].pa = NULL
        BY <1>1, <4>1 DEF FreeOK
      <4> QED
        BY <1>2, <1>3, <1>4, <3>1, <4>1, <4>2, <4>3, <4>4
    <3> QED
      BY <3>2, <3>3
  <2>2. ASSUME NEW p \in Pages, NEW q \in Pages,
               o1[p].lev = 4, o1[q].lev = 4, o1[p].rank = o1[q].rank
        PROVE  p = q
    <3>1. \A r \in Pages : r # t /\ o1[r].lev = 4 =>
            o1[r] = o[r] /\ o[r].lev = 4 /\ o[r].rank \in Nat /\ o[r].rank < o1[t].rank
      BY <1>1, <1>2, <1>3, <1>4 DEF FreeOK
    <3>2. CASE p # t /\ q # t
      BY <1>1, <2>2, <3>1, <3>2 DEF FreeOK
    <3>3. CASE p = t \/ q = t
      BY <2>2, <3>1, <3>3
    <3> QED
      BY <3>2, <3>3
  <2> QED
    BY <1>4, <2>1, <2>2 DEF FreeOK
<1>8. Down(m1, o1)
  BY <1>1, <1>2, <1>3, <1>4 DEF Down, Leads
<1> QED
  BY <1>6, <1>7, <1>8 DEF Forest, m1, o1

\* An entry of an upper table gets a new table.
LEMMA Link ==
  ASSUME NEW f, NEW m, NEW o, Forest(f, m, o),
         NEW p \in Pages, NEW i \in Words, o[p].lev \in 2..3, ~ valid(m[p][i]),
         NEW c \in Pages, o[c].lev = 0, m[c] = Zeros,
         NEW w \in Word, w.pa = c, valid(w), ~ leaf(w)
  PROVE  LET m1 == [m EXCEPT ![p][i] = w]
             o1 == [o EXCEPT ![c] = TableUse(o[p].lev - 1, p, i)]
         IN  Forest(f, m1, o1) /\ SameMaps(m, m1, o) /\ Links(m, m1, o, o1)
<1> DEFINE m1 == [m EXCEPT ![p][i] = w]
           u1 == TableUse(o[p].lev - 1, p, i)
           o1 == [o EXCEPT ![c] = u1]
<1>1. Typed(f, m, o) /\ FreeOK(f, m, o) /\ Down(m, o)
  BY DEF Forest
<1>2. /\ m1 \in [Pages -> Content] /\ m1[p][i] = w /\ p # c
      /\ \A q \in Pages : q # p => m1[q] = m[q]
      /\ \A q \in Pages, j \in Words : <<q, j>> # <<p, i>> => m1[q][j] = m[q][j]
  BY <1>1 DEF Typed, Content
<1>3. u1 \in Use /\ u1.lev = o[p].lev - 1 /\ u1.lev \in 1..2 /\ u1.tab = p /\ u1.idx = i
  <2>1. o[p].lev - 1 \in 1..2
    OBVIOUS
  <2> QED
    BY <2>1, Uses
<1>4. o1 \in [Pages -> Use] /\ o1[c] = u1 /\ \A q \in Pages : q # c => o1[q] = o[q]
  BY <1>1, <1>3 DEF Typed
<1> HIDE DEF m1, o1, u1
<1>5. Typed(f, m1, o1)
  BY <1>1, <1>2, <1>4 DEF Typed
<1>6. FreeOK(f, m1, o1)
  <2>1. \A q \in Pages : o1[q].lev = 4 => q # c /\ o1[q] = o[q] /\ m1[q] = m[q]
    BY <1>2, <1>3, <1>4
  <2>2. f # NULL => f \in Pages /\ o1[f] = o[f]
    BY <1>1, <1>4 DEF Typed, FreeOK
  <2>3. \A q \in Pages : o[q].lev = 4 => o1[q] = o[q]
    BY <1>4
  <2> QED
    BY <1>1, <2>1, <2>2, <2>3 DEF FreeOK
<1>7. Down(m1, o1)
  <2> SUFFICES ASSUME NEW q \in Pages, NEW j \in Words, o1[q].lev \in 2..3, valid(m1[q][j])
               PROVE  Leads(m1, o1, q, j)
    BY DEF Down
  <2>1. CASE q = c
    <3>1. m1[q][j] = Zeros[j]
      BY <1>2, <2>1
    <3> QED
      BY <3>1, PageTypes
  <2>2. CASE <<q, j>> = <<p, i>>
    BY <1>2, <1>3, <1>4, <2>2 DEF Leads
  <2>3. CASE q # c /\ <<q, j>> # <<p, i>>
    <3>1. m1[q][j] = m[q][j] /\ o1[q] = o[q]
      BY <1>2, <1>4, <2>3
    <3>2. Leads(m, o, q, j)
      BY <1>1, <3>1 DEF Down
    <3>3. m[q][j].pa # c
      BY <3>1, <3>2 DEF Leads
    <3> QED
      BY <1>4, <3>1, <3>2, <3>3 DEF Leads
  <2> QED
    BY <2>1, <2>2, <2>3
<1>8. Links(m, m1, o, o1)
  BY <1>2, <1>4 DEF Links
<1>9. SameMaps(m, m1, o)
  <2> SUFFICES ASSUME NEW r \in Pages, o[r].lev = 3, NEW n \in Vpns
               PROVE  Pt(m1, r, n) = Pt(m, r, n)
    BY DEF SameMaps, SameMap
  <2> DEFINE u == MidTable(m, r, n)
             t == LastTable(m, r, n)
             v == MidTable(m1, r, n)
  <2>1. /\ u \in Pages \cup {NULL} /\ t \in Pages \cup {NULL}
        /\ u # NULL => o[u].lev = 2
        /\ t # NULL => o[t].lev = 1
    BY Way
  <2>6. D0(n) \in Words /\ D1(n) \in Words /\ D2(n) \in Words /\ c # NULL
    BY VpnsAre, Indices, Numbers
  <2>2. /\ u = Child(m, r, D2(n)) /\ t = Child(m, u, D1(n))
        /\ v = Child(m1, r, D2(n)) /\ LastTable(m1, r, n) = Child(m1, v, D1(n))
        /\ r # NULL
    BY Numbers DEF MidTable, LastTable
  <2> HIDE DEF u, t, v
  <2>3. \A j \in Words : ~ valid(m1[c][j]) /\ m1[c][j] = word(NULL, {})
    BY <1>2, PageTypes
  <2>4. CASE <<r, D2(n)>> = <<p, i>>
    <3>1. u = NULL /\ t = NULL
      BY <2>2, <2>4 DEF Child
    <3>2. v = c
      BY <1>2, <2>2, <2>4 DEF Child
    <3>3. LastTable(m1, r, n) = NULL
      BY <2>2, <2>3, <2>6, <3>2 DEF Child
    <3> QED
      BY <3>1, <3>3 DEF Pt, t
  <2>5. CASE <<r, D2(n)>> # <<p, i>>
    <3>1. v = u
      <4>1. m1[r][D2(n)] = m[r][D2(n)]
        BY <1>2, <2>5, <2>6
      <4> QED
        BY <2>2, <4>1 DEF Child
    <3>2. CASE u # NULL /\ <<u, D1(n)>> = <<p, i>>
      <4>1. t = NULL
        BY <2>2, <3>2 DEF Child
      <4>2. LastTable(m1, r, n) = c
        BY <1>2, <2>2, <3>1, <3>2 DEF Child
      <4>3. Pt(m1, r, n) = m1[c][D0(n)]
        BY <2>6, <4>2 DEF Pt
      <4>4. Pt(m, r, n) = word(NULL, {})
        BY <4>1 DEF Pt, t
      <4> QED
        BY <2>3, <2>6, <4>3, <4>4
    <3>3. CASE ~ (u # NULL /\ <<u, D1(n)>> = <<p, i>>)
      <4>1. u # NULL => m1[u][D1(n)] = m[u][D1(n)]
        BY <1>2, <2>1, <2>6, <3>3
      <4>2. LastTable(m1, r, n) = t
        BY <2>2, <3>1, <4>1 DEF Child
      <4>3. t # NULL => m1[t] = m[t]
        BY <1>2, <2>1
      <4> QED
        BY <4>2, <4>3 DEF Pt, t
    <3> QED
      BY <3>2, <3>3
  <2> QED
    BY <2>4, <2>5
<1> QED
  BY <1>5, <1>6, <1>7, <1>8, <1>9 DEF Forest, m1, o1, u1

\* From m to m1 one entry of the root r becomes w.
OneMap(m, m1, o, r, n, w) ==
  /\ \A q \in Pages : o[q].lev = 3 /\ q # r => SameMap(m, m1, q)
  /\ \A j \in Vpns : Pt(m1, r, j) = IF j = n THEN w ELSE Pt(m, r, j)

\* An entry of a last table is written.
LEMMA SetLeaf ==
  ASSUME NEW f, NEW m, NEW o, Forest(f, m, o), NEW r \in Pages, o[r].lev = 3, NEW n \in Vpns,
         NEW t, t = LastTable(m, r, n), t # NULL, NEW i, i = D0(n), NEW w \in Word
  PROVE  LET m1 == [m EXCEPT ![t][i] = w]
         IN  /\ Forest(f, m1, o) /\ OneMap(m, m1, o, r, n, w) /\ Links(m, m1, o, o)
             /\ Keeps(m, m1, o, o)
<1> DEFINE m1 == [m EXCEPT ![t][i] = w]
<1>1. Typed(f, m, o) /\ FreeOK(f, m, o) /\ Down(m, o)
  BY DEF Forest
<1>2. t \in Pages /\ o[t].lev = 1 /\ i \in Words
  BY Way, VpnsAre, Indices
<1>3. /\ m1 \in [Pages -> Content] /\ m1[t][i] = w
      /\ \A q \in Pages : q # t => m1[q] = m[q]
      /\ \A j \in Words : j # i => m1[t][j] = m[t][j]
  BY <1>1, <1>2 DEF Typed, Content
<1> HIDE DEF m1
<1>4. Forest(f, m1, o)
  <2>1. Typed(f, m1, o)
    BY <1>1, <1>3 DEF Typed
  <2>2. FreeOK(f, m1, o)
    BY <1>1, <1>2, <1>3 DEF FreeOK
  <2>3. Down(m1, o)
    BY <1>1, <1>2, <1>3 DEF Down, Leads
  <2> QED
    BY <2>1, <2>2, <2>3 DEF Forest
<1>5. Links(m, m1, o, o) /\ Keeps(m, m1, o, o)
  BY <1>2, <1>3 DEF Links, Keeps
<1>6. ASSUME NEW q \in Pages, o[q].lev = 3, NEW j \in Vpns
      PROVE  /\ LastTable(m1, q, j) = LastTable(m, q, j)
             /\ q = r /\ j = n => Pt(m1, q, j) = w
             /\ ~ (q = r /\ j = n) => Pt(m1, q, j) = Pt(m, q, j)
  <2> DEFINE u == MidTable(m, q, j)
             v == LastTable(m, q, j)
  <2>1. /\ u \in Pages \cup {NULL} /\ v \in Pages \cup {NULL}
        /\ u # NULL => o[u].lev = 2 /\ o[u].tab = q /\ o[u].idx = D2(j)
        /\ v # NULL => u # NULL /\ o[v].lev = 1 /\ o[v].tab = u /\ o[v].idx = D1(j)
        /\ D0(j) \in Words /\ D1(j) \in Words /\ D2(j) \in Words
    <3> HIDE DEF Child
    <3> QED
      BY <1>6, Way, VpnsAre, Indices
  <2>2. /\ MidTable(m, r, n) # NULL
        /\ o[MidTable(m, r, n)].tab = r /\ o[MidTable(m, r, n)].idx = D2(n)
        /\ o[t].tab = MidTable(m, r, n) /\ o[t].idx = D1(n)
    BY Way
  <2>3. /\ u = Child(m, q, D2(j)) /\ v = Child(m, u, D1(j))
        /\ MidTable(m1, q, j) = Child(m1, q, D2(j))
        /\ LastTable(m1, q, j) = Child(m1, MidTable(m1, q, j), D1(j))
    BY DEF MidTable, LastTable
  <2> HIDE DEF u, v
  <2>4. MidTable(m1, q, j) = u
    <3>1. m1[q] = m[q]
      BY <1>2, <1>3, <1>6
    <3> QED
      BY <2>3, <3>1 DEF Child
  <2>5. LastTable(m1, q, j) = v
    <3>1. u # NULL => m1[u] = m[u]
      BY <1>2, <1>3, <2>1
    <3> QED
      BY <2>3, <2>4, <3>1 DEF Child
  <2>6. ASSUME q = r, j = n
        PROVE  Pt(m1, q, j) = w
    <3>1. v = t
      BY <2>6 DEF v
    <3> QED
      BY <1>3, <2>5, <2>6, <3>1 DEF Pt
  <2>7. ASSUME ~ (q = r /\ j = n)
        PROVE  Pt(m1, q, j) = Pt(m, q, j)
    <3>1. CASE v = t /\ D0(j) = i
      <4>1. D1(j) = D1(n) /\ u = MidTable(m, r, n) /\ q = r /\ D2(j) = D2(n)
        BY <2>1, <2>2, <3>1
      <4>2. j = n
        BY <3>1, <4>1, SameIndices
      <4> QED
        BY <2>7, <4>1, <4>2
    <3>2. CASE ~ (v = t /\ D0(j) = i)
      <4>1. v # NULL => m1[v][D0(j)] = m[v][D0(j)]
        BY <1>2, <1>3, <2>1, <3>2
      <4> QED
        BY <2>5, <4>1 DEF Pt, v
    <3> QED
      BY <3>1, <3>2
  <2> QED
    BY <2>5, <2>6, <2>7 DEF v
<1>7. OneMap(m, m1, o, r, n, w)
  <2>1. \A q \in Pages : o[q].lev = 3 /\ q # r => SameMap(m, m1, q)
    BY <1>6 DEF SameMap
  <2>2. \A j \in Vpns : Pt(m1, r, j) = IF j = n THEN w ELSE Pt(m, r, j)
    BY <1>6
  <2> QED
    BY <2>1, <2>2 DEF OneMap
<1> QED
  BY <1>4, <1>5, <1>7 DEF m1

\* A held page of zeros becomes a root, which leads nowhere.
LEMMA Plant ==
  ASSUME NEW f, NEW m, NEW o, Forest(f, m, o), NEW c \in Pages, o[c].lev = 0, m[c] = Zeros,
         NEW g \in Tags
  PROVE  /\ Forest(f, m, [o EXCEPT ![c] = Root(g)])
         /\ \A n \in Vpns : Pt(m, c, n) = word(NULL, {})
<1> DEFINE o1 == [o EXCEPT ![c] = Root(g)]
<1>1. Typed(f, m, o) /\ FreeOK(f, m, o) /\ Down(m, o)
  BY DEF Forest
<1>2. /\ o1 \in [Pages -> Use] /\ o1[c] = Root(g) /\ o1[c].lev = 3
      /\ \A q \in Pages : q # c => o1[q] = o[q]
  BY <1>1, Uses DEF Typed
<1> HIDE DEF o1
<1>3. \A i \in Words : ~ valid(m[c][i])
  BY PageTypes
<1>4. Typed(f, m, o1)
  BY <1>1, <1>2 DEF Typed
<1>5. FreeOK(f, m, o1)
  <2>1. \A q \in Pages : o1[q].lev = 4 \/ o[q].lev = 4 => o1[q] = o[q]
    BY <1>2
  <2>2. f # NULL => f \in Pages
    BY <1>1 DEF Typed
  <2> QED
    BY <1>1, <2>1, <2>2 DEF FreeOK
<1>6. Down(m, o1)
  <2> SUFFICES ASSUME NEW q \in Pages, NEW j \in Words, o1[q].lev \in 2..3, valid(m[q][j])
               PROVE  Leads(m, o1, q, j)
    BY DEF Down
  <2>1. q # c /\ o1[q] = o[q]
    BY <1>2, <1>3
  <2>2. Leads(m, o, q, j)
    BY <1>1, <2>1 DEF Down
  <2>3. m[q][j].pa # c
    BY <2>1, <2>2 DEF Leads
  <2> QED
    BY <1>2, <2>1, <2>2, <2>3 DEF Leads
<1>7. ASSUME NEW n \in Vpns
      PROVE  Pt(m, c, n) = word(NULL, {})
  <2>1. D2(n) \in Words
    BY VpnsAre, Indices
  <2>2. MidTable(m, c, n) = NULL
    BY <1>3, <2>1 DEF MidTable, Child
  <2>3. LastTable(m, c, n) = NULL
    BY <2>2 DEF LastTable, Child
  <2> QED
    BY <2>3 DEF Pt
<1> QED
  BY <1>4, <1>5, <1>6, <1>7 DEF Forest, o1

------------------------------------------------------------------------------
(* Memories.                                                               *)

Shape(a) == a = [freelist |-> a.freelist, ram |-> a.ram, ret |-> a.ret, panic |-> a.panic]
Holds(a, o) == Shape(a) /\ Forest(a.freelist, a.ram, o)

\* From a to b, and from o to o1, nothing has changed for those who hold pages and
\* for those who use the tables.
Stay(a, b, o, o1) ==
  /\ b.panic = a.panic
  /\ Keeps(a.ram, b.ram, o, o1) /\ SameMaps(a.ram, b.ram, o) /\ Links(a.ram, b.ram, o, o1)

\* b is a after a call that hands out a page, which gets tag g, or NULL.
Fresh(a, b, o, g) ==
  \/ /\ a.freelist = NULL /\ b.ret = NULL /\ b.freelist = NULL /\ b.ram = a.ram
     /\ b.panic = a.panic /\ Holds(b, o)
  \/ /\ b.ret \in Pages /\ o[b.ret].lev = 4
     /\ Holds(b, [o EXCEPT ![b.ret] = Held(g)])
     /\ \A q \in Pages \ {b.ret} : b.ram[q] = a.ram[q]
     /\ Stay(a, b, o, [o EXCEPT ![b.ret] = Held(g)])

\* Two calls that leave the given pages and the other tables alone do so together.
LEMMA StayTwice ==
  ASSUME NEW a, NEW b, NEW c, NEW o, NEW o1, NEW o2, Stay(a, b, o, o1), Stay(b, c, o1, o2)
  PROVE  Stay(a, c, o, o2)
<1>1. Keeps(a.ram, c.ram, o, o2)
  <2>1. ASSUME NEW q \in Pages, o[q].lev = 0
        PROVE  o2[q] = o[q] /\ c.ram[q] = a.ram[q]
    <3>1. o1[q] = o[q] /\ b.ram[q] = a.ram[q]
      BY <2>1 DEF Stay, Keeps
    <3> QED
      BY <2>1, <3>1 DEF Stay, Keeps
  <2>2. ASSUME NEW q \in Pages, o[q].lev = 3
        PROVE  o2[q] = o[q]
    <3>1. o1[q] = o[q]
      BY <2>2 DEF Stay, Keeps
    <3> QED
      BY <2>2, <3>1 DEF Stay, Keeps
  <2> QED
    BY <2>1, <2>2 DEF Keeps
<1>2. SameMaps(a.ram, c.ram, o)
  <2> SUFFICES ASSUME NEW r \in Pages, o[r].lev = 3, NEW n \in Vpns
               PROVE  Pt(c.ram, r, n) = Pt(a.ram, r, n)
    BY DEF SameMaps, SameMap
  <2>1. o1[r] = o[r]
    BY DEF Stay, Keeps
  <2>2. Pt(b.ram, r, n) = Pt(a.ram, r, n)
    BY DEF Stay, SameMaps, SameMap
  <2>3. Pt(c.ram, r, n) = Pt(b.ram, r, n)
    BY <2>1 DEF Stay, SameMaps, SameMap
  <2> QED
    BY <2>2, <2>3
<1>3. Links(a.ram, c.ram, o, o2)
  <2> SUFFICES ASSUME NEW q \in Pages, o[q].lev \in 2..3
               PROVE  /\ o2[q].lev = o[q].lev
                      /\ \A i \in Words : valid(a.ram[q][i]) => c.ram[q][i] = a.ram[q][i]
    BY DEF Links
  <2>1. /\ o1[q].lev = o[q].lev
        /\ \A i \in Words : valid(a.ram[q][i]) => b.ram[q][i] = a.ram[q][i]
    BY DEF Stay, Links
  <2>2. /\ o2[q].lev = o1[q].lev
        /\ \A i \in Words : valid(b.ram[q][i]) => c.ram[q][i] = b.ram[q][i]
    BY <2>1 DEF Stay, Links
  <2> QED
    BY <2>1, <2>2
<1> QED
  BY <1>1, <1>2, <1>3 DEF Stay

\* A call that writes no page leaves them alone.
LEMMA StaySame ==
  ASSUME NEW a, NEW b, NEW o, b.ram = a.ram, b.panic = a.panic
  PROVE  Stay(a, b, o, o)
BY DEF Stay, Keeps, SameMaps, SameMap, Links

\* A return value changes nothing else.
LEMMA Returns ==
  ASSUME NEW a, Shape(a), NEW r
  PROVE  LET b == return(a, r)
         IN  /\ Shape(b) /\ b.ret = r /\ b.ram = a.ram /\ b.freelist = a.freelist
             /\ b.panic = a.panic
             /\ \A o : Holds(a, o) => Holds(b, o) /\ Stay(a, b, o, o)
<1> DEFINE b == return(a, r)
<1>1. Shape(b) /\ b.ret = r /\ b.ram = a.ram /\ b.freelist = a.freelist /\ b.panic = a.panic
  BY DEF return, Shape
<1> HIDE DEF b
<1>2. \A o : Holds(a, o) => Holds(b, o)
  BY <1>1 DEF Holds
<1>3. \A o : Stay(a, b, o, o)
  BY <1>1, StaySame
<1> QED
  BY <1>1, <1>2, <1>3 DEF b

\* kalloc() hands out a free page or NULL.
LEMMA Kalloc ==
  ASSUME NEW a, NEW o, Holds(a, o), NEW g \in Tags
  PROVE  Fresh(a, kalloc(a), o, g)
<1>1. CASE a.freelist = NULL
  <2>1. kalloc(a) = return(a, NULL)
    BY <1>1 DEF kalloc
  <2>2. Shape(a)
    BY DEF Holds
  <2> QED
    BY <1>1, <2>1, <2>2, Returns DEF Fresh
<1>2. CASE a.freelist # NULL
  <2> DEFINE f == a.freelist
             b == kalloc(a)
             o1 == [o EXCEPT ![f] = Held(g)]
  <2>1. Shape(a) /\ Forest(f, a.ram, o)
    BY DEF Holds
  <2>2. /\ Forest(a.ram[f][0].pa, [a.ram EXCEPT ![f] = Fives], o1)
        /\ f \in Pages /\ o[f].lev = 4
    <3>1. Fives \in Content
      BY PageTypes
    <3> HIDE DEF f
    <3> QED
      BY <1>2, <2>1, <3>1, Pop DEF f
  <2>3. a.ram \in [Pages -> Content]
    BY <2>1 DEF Forest, Typed
  <2>4. /\ b.ret = f /\ b.freelist = a.ram[f][0].pa /\ b.panic = a.panic
        /\ b.ram = [a.ram EXCEPT ![f] = Fives] /\ Shape(b)
    BY <1>2, <2>1 DEF kalloc, Shape
  <2>5. Holds(b, o1)
    <3> HIDE DEF b, o1, f
    <3> QED
      BY <2>2, <2>4 DEF Holds
  <2>6. \A q \in Pages \ {f} : b.ram[q] = a.ram[q]
    BY <2>3, <2>4
  <2>7. o1 \in [Pages -> Use] /\ \A q \in Pages \ {f} : o1[q] = o[q]
    <3>1. o \in [Pages -> Use]
      BY <2>1 DEF Forest, Typed
    <3> QED
      BY <3>1, Uses
  <2> HIDE DEF b, o1, f
  <2>8. Stay(a, b, o, o1)
    <3>1. \A q \in Pages : o[q].lev # 4 => o1[q] = o[q] /\ b.ram[q] = a.ram[q]
      BY <2>2, <2>6, <2>7
    <3>2. Keeps(a.ram, b.ram, o, o1)
      BY <3>1 DEF Keeps
    <3>3. SameMaps(a.ram, b.ram, o)
      <4>1. \A q \in Pages : o[q].lev \in 1..3 => b.ram[q] = a.ram[q]
        BY <3>1
      <4> QED
        BY <2>1, <4>1, Untouched
    <3>4. Links(a.ram, b.ram, o, o1)
      BY <3>1 DEF Links
    <3> QED
      BY <2>4, <3>2, <3>3, <3>4 DEF Stay
  <2> QED
    BY <2>2, <2>4, <2>5, <2>6, <2>8 DEF Fresh, b, o1
<1> QED
  BY <1>1, <1>2

\* b is a after c was written to page p.
Filled(a, b, o, p, c) ==
  /\ Holds(b, o) /\ b.ret = a.ret /\ b.panic = a.panic /\ b.freelist = a.freelist
  /\ b.ram = [a.ram EXCEPT ![p] = c]
  /\ SameMaps(a.ram, b.ram, o) /\ Links(a.ram, b.ram, o, o)

\* A held page is filled.
LEMMA Fill ==
  ASSUME NEW a, NEW o, Holds(a, o), NEW p \in Pages, o[p].lev = 0, NEW c \in Content
  PROVE  Filled(a, [a EXCEPT !.ram[p] = c], o, p, c)
<1> DEFINE b == [a EXCEPT !.ram[p] = c]
<1>1. Shape(a) /\ Typed(a.freelist, a.ram, o) /\ FreeOK(a.freelist, a.ram, o) /\ Down(a.ram, o)
      /\ Forest(a.freelist, a.ram, o)
  BY DEF Holds, Forest
<1>2. /\ b.ret = a.ret /\ b.panic = a.panic /\ b.freelist = a.freelist
      /\ b.ram = [a.ram EXCEPT ![p] = c] /\ Shape(b)
  BY <1>1 DEF Shape
<1> HIDE DEF b
<1>3. b.ram \in [Pages -> Content] /\ \A q \in Pages : o[q].lev # 0 => b.ram[q] = a.ram[q]
  BY <1>1, <1>2 DEF Typed
<1>4. Typed(b.freelist, b.ram, o)
  BY <1>1, <1>2, <1>3 DEF Typed
<1>5. FreeOK(b.freelist, b.ram, o)
  BY <1>1, <1>2, <1>3 DEF FreeOK
<1>6. Down(b.ram, o)
  BY <1>1, <1>3 DEF Down, Leads
<1>7. SameMaps(a.ram, b.ram, o)
  BY <1>1, <1>3, Untouched
<1>8. Links(a.ram, b.ram, o, o)
  BY <1>3 DEF Links
<1> QED
  BY <1>2, <1>4, <1>5, <1>6, <1>7, <1>8 DEF Holds, Forest, Filled, b

\* kalloc() and memset().
LEMMA KallocZeroed ==
  ASSUME NEW a, NEW o, Holds(a, o), NEW g \in Tags
  PROVE  LET b == kalloc_zeroed(a)
         IN  Fresh(a, b, o, g) /\ (b.ret # NULL => b.ram[b.ret] = Zeros)
<1> DEFINE b == kalloc(a)
           c == kalloc_zeroed(a)
           p == b.ret
           o1 == [o EXCEPT ![p] = Held(g)]
<1>1. Fresh(a, b, o, g)
  BY Kalloc
<1>2. c = IF p = NULL THEN b ELSE [b EXCEPT !.ram[p] = Zeros]
  BY DEF kalloc_zeroed, zeroed
<1> HIDE DEF b, c
<1>3. CASE p = NULL
  BY <1>1, <1>2, <1>3 DEF c
<1>4. CASE p # NULL
  <2>1. /\ p \in Pages /\ o[p].lev = 4 /\ Holds(b, o1)
        /\ \A q \in Pages \ {p} : b.ram[q] = a.ram[q]
        /\ Stay(a, b, o, o1)
    BY <1>1, <1>4 DEF Fresh
  <2>2. o1[p].lev = 0 /\ \A q \in Pages : q # p => o1[q] = o[q]
    <3>1. o \in [Pages -> Use]
      BY DEF Holds, Forest, Typed
    <3>2. o1[p] = Held(g) /\ \A q \in Pages : q # p => o1[q] = o[q]
      BY <2>1, <3>1
    <3> QED
      BY <3>2, Uses
  <2>3. Zeros \in Content
    BY PageTypes
  <2> HIDE DEF o1, p
  <2>4. /\ Holds(c, o1) /\ c.ret = b.ret /\ c.panic = b.panic /\ c.freelist = b.freelist
        /\ c.ram = [b.ram EXCEPT ![p] = Zeros]
        /\ SameMaps(b.ram, c.ram, o1) /\ Links(b.ram, c.ram, o1, o1)
    <3>1. c = [b EXCEPT !.ram[p] = Zeros]
      BY <1>2, <1>4 DEF p
    <3>2. Filled(b, c, o1, p, Zeros)
      BY <2>1, <2>2, <2>3, <3>1, Fill
    <3> QED
      BY <3>2 DEF Filled
  <2>5. b.ram \in [Pages -> Content]
    BY <2>1 DEF Holds, Forest, Typed
  <2>6. c.ram[p] = Zeros /\ \A q \in Pages \ {p} : c.ram[q] = b.ram[q]
    BY <2>1, <2>4, <2>5
  <2>7. Keeps(a.ram, c.ram, o, o1)
    <3>1. Keeps(a.ram, b.ram, o, o1)
      BY <2>1 DEF Stay
    <3> QED
      BY <2>1, <2>2, <2>6, <3>1 DEF Keeps
  <2>8. SameMaps(a.ram, c.ram, o) /\ Links(a.ram, c.ram, o, o1)
    <3>1. \A q \in Pages : o[q].lev \in 1..3 => o1[q] = o[q] /\ c.ram[q] = a.ram[q]
      BY <2>1, <2>2, <2>6
    <3>2. Links(a.ram, c.ram, o, o1)
      BY <3>1 DEF Links
    <3>3. Forest(a.freelist, a.ram, o)
      BY DEF Holds
    <3> QED
      BY <3>1, <3>2, <3>3, Untouched
  <2>9. Stay(a, c, o, o1)
    BY <2>1, <2>4, <2>7, <2>8 DEF Stay
  <2> QED
    BY <2>1, <2>4, <2>6, <2>9 DEF Fresh, p, o1, c
<1> QED
  BY <1>3, <1>4

\* b is a after kfree() of page t.
Given(a, b, o, o1, t) ==
  /\ Holds(b, o1) /\ o1[t].lev = 4 /\ \A q \in Pages \ {t} : o1[q] = o[q]
  /\ b.ret = a.ret /\ b.panic = a.panic /\ b.freelist = t
  /\ b.ram = [a.ram EXCEPT ![t] = [Ones EXCEPT ![0] = word(a.freelist, {})]]

\* kfree() of a held page.
LEMMA Kfree ==
  ASSUME NEW a, NEW o, Holds(a, o), NEW t \in Pages, o[t].lev = 0
  PROVE  \E o1 : Given(a, kfree(a, t), o, o1, t)
<1> DEFINE b == kfree(a, t)
           c == [Ones EXCEPT ![0] = word(a.freelist, {})]
           o1 == [o EXCEPT ![t] = Freed(a.freelist, o)]
<1>1. /\ Shape(a) /\ Forest(a.freelist, a.ram, o) /\ a.freelist \in Pages \cup {NULL}
      /\ o \in [Pages -> Use]
  BY DEF Holds, Forest, Typed
<1>2. a.freelist \in Int
  BY <1>1, Addresses
<1>3. c \in Content /\ c[0].pa = a.freelist
  BY <1>2, Numbers, PageTypes DEF Content, Word, word
<1>4. /\ b.ret = a.ret /\ b.freelist = t /\ b.panic = a.panic
      /\ b.ram = [a.ram EXCEPT ![t] = c] /\ Shape(b)
  BY <1>1 DEF kfree, Shape
<1> HIDE DEF b, c
<1>5. Forest(t, [a.ram EXCEPT ![t] = c], o1)
  BY <1>1, <1>3, Push
<1>6. o1[t].lev = 4 /\ \A q \in Pages \ {t} : o1[q] = o[q]
  BY <1>1 DEF Freed
<1> HIDE DEF o1
<1>7. Holds(b, o1)
  BY <1>4, <1>5 DEF Holds
<1>8. Given(a, b, o, o1, t)
  BY <1>4, <1>6, <1>7 DEF Given, c
<1> QED
  BY <1>8 DEF b

------------------------------------------------------------------------------
(* walk()                                                                  *)

\* The entry that walk() makes leads to a table.
LEMMA TableWord ==
  ASSUME NEW c \in Pages
  PROVE  LET w == word(c, {"V"})
         IN  w \in Word /\ valid(w) /\ w.pa = c /\ ~ leaf(w)
<1> DEFINE w == word(c, {"V"})
<1>1. w.pa = c /\ w.flags = {"V"} /\ w = [pa |-> w.pa, flags |-> w.flags]
  BY DEF word
<1> HIDE DEF w
<1>2. w \in Word
  BY <1>1, Numbers DEF Word, Flags
<1>3. valid(w)
  BY <1>1 DEF valid
<1>4. ~ leaf(w)
  BY <1>1 DEF leaf
<1> QED
  BY <1>1, <1>2, <1>3, <1>4 DEF w

\* b is a after a new table was linked to entry i, or there was no page for it.
NewTable(a, b, i) ==
  \/ b.ret = NULL /\ b.ram = a.ram
  \/ /\ b.ret \in Pages /\ b.ret # a.ret /\ b.ram[b.ret] = Zeros
     /\ b.ram[a.ret] = [a.ram[a.ret] EXCEPT ![i] = word(b.ret, {"V"})]

\* One level of a walk that may allocate.
LEMMA Descend ==
  ASSUME NEW a, NEW o, Holds(a, o), a.ret \in Pages, o[a.ret].lev \in 2..3, NEW i \in Words
  PROVE  LET b == descend(a, i, TRUE)
         IN  \E o1 : /\ Holds(b, o1) /\ Stay(a, b, o, o1)
                     /\ b.ret = Child(b.ram, a.ret, i)
                     /\ b.ret = NULL => b.freelist = NULL
                     /\ b.ret # NULL => b.ret \in Pages /\ o1[b.ret].lev = o[a.ret].lev - 1
                     /\ ~ valid(a.ram[a.ret][i]) => NewTable(a, b, i)
<1> DEFINE p == a.ret
           w == a.ram[p][i]
           b == descend(a, i, TRUE)
<1>1. /\ Shape(a) /\ Forest(a.freelist, a.ram, o)
      /\ Typed(a.freelist, a.ram, o) /\ Down(a.ram, o) /\ p # NULL
  BY Numbers DEF Holds, Forest
<1>2. CASE valid(w)
  <2>1. b = return(a, w.pa)
    BY <1>1, <1>2, Numbers DEF descend, PTE2PA
  <2>2. Leads(a.ram, o, p, i)
    BY <1>1, <1>2 DEF Down
  <2>3. w.pa \in Pages /\ o[w.pa].lev = o[p].lev - 1 /\ w.pa # NULL
    BY <2>2, Numbers DEF Leads
  <2>4. Child(a.ram, p, i) = w.pa
    BY <1>1, <1>2 DEF Child
  <2>5. Holds(b, o) /\ b.ret = w.pa /\ b.ram = a.ram /\ Stay(a, b, o, o)
    <3> HIDE DEF b, w
    <3> QED
      BY <1>1, <2>1, Returns
  <2> QED
    BY <1>2, <2>3, <2>4, <2>5
<1>3. CASE ~ valid(w)
  <2> DEFINE d == kalloc_zeroed(a)
             c == d.ret
             o1 == [o EXCEPT ![c] = Held(NoTag)]
             v == word(c, {"V"})
             o2 == [o1 EXCEPT ![c] = TableUse(o1[p].lev - 1, p, i)]
  <2>1. b = IF c = NULL THEN d ELSE [d EXCEPT !.ram[p][i] = v]
    BY <1>1, <1>3 DEF descend, link
  <2>2. Fresh(a, d, o, NoTag) /\ (c # NULL => d.ram[c] = Zeros)
    BY Uses, KallocZeroed
  <2> HIDE DEF d, b
  <2>3. CASE c = NULL
    <3>1. b = d /\ Holds(d, o) /\ d.freelist = NULL /\ d.ram = a.ram /\ d.panic = a.panic
      BY <2>1, <2>2, <2>3, Numbers DEF Fresh
    <3>2. Child(d.ram, p, i) = NULL
      BY <1>3, <3>1 DEF Child
    <3>3. Stay(a, d, o, o)
      BY <3>1, StaySame
    <3>4. NewTable(a, d, i)
      BY <2>3, <3>1 DEF NewTable
    <3> QED
      BY <2>3, <3>1, <3>2, <3>3, <3>4 DEF b
  <2>4. CASE c # NULL
    <3>1. /\ c \in Pages /\ o[c].lev = 4 /\ Holds(d, o1) /\ Stay(a, d, o, o1)
          /\ \A q \in Pages \ {c} : d.ram[q] = a.ram[q]
      BY <2>2, <2>4 DEF Fresh
    <3>2. /\ o1[c].lev = 0 /\ p # c /\ o1[p] = o[p] /\ o1 \in [Pages -> Use]
          /\ \A q \in Pages \ {c} : o1[q] = o[q]
      <4>1. o \in [Pages -> Use] /\ Held(NoTag) \in Use /\ Held(NoTag).lev = 0
        BY <1>1, Uses DEF Typed
      <4> QED
        BY <3>1, <4>1
    <3>3. v \in Word /\ v.pa = c /\ valid(v) /\ ~ leaf(v)
      BY <3>1, TableWord
    <3>4. d.ram[c] = Zeros /\ ~ valid(d.ram[p][i])
      BY <1>3, <2>2, <2>4, <3>1, <3>2
    <3> HIDE DEF v, o1, c, p
    <3>5. Shape(d) /\ Forest(d.freelist, d.ram, o1)
      BY <3>1 DEF Holds
    <3>6. p \in Pages /\ o1[p].lev \in 2..3
      BY <3>2 DEF p
    <3> DEFINE m1 == [d.ram EXCEPT ![p][i] = v]
    <3>7. Forest(d.freelist, m1, o2) /\ SameMaps(d.ram, m1, o1) /\ Links(d.ram, m1, o1, o2)
      BY <3>1, <3>2, <3>3, <3>4, <3>5, <3>6, Link
    <3>8. /\ b.ret = c /\ b.freelist = d.freelist /\ b.panic = d.panic
          /\ b.ram = m1 /\ Shape(b)
      BY <2>1, <2>4, <3>5 DEF Shape, c
    <3>9. m1[p][i] = v /\ \A q \in Pages \ {p} : m1[q] = d.ram[q]
      <4>1. d.ram \in [Pages -> Content]
        BY <3>5 DEF Forest, Typed
      <4> QED
        BY <3>6, <4>1 DEF Content
    <3>10. /\ o2[c].lev = o[p].lev - 1 /\ \A q \in Pages \ {c} : o2[q] = o1[q]
      <4>1. TableUse(o1[p].lev - 1, p, i).lev = o1[p].lev - 1
        <5>1. o1[p].lev - 1 \in 1..2
          BY <3>6
        <5> QED
          BY <3>6, <5>1, Uses
      <4> QED
        BY <3>1, <3>2, <4>1
    <3> HIDE DEF o2, m1
    <3>11. /\ Keeps(a.ram, d.ram, o, o1) /\ SameMaps(a.ram, d.ram, o)
           /\ Links(a.ram, d.ram, o, o1) /\ d.panic = a.panic
      BY <3>1 DEF Stay
    <3>12. Keeps(a.ram, m1, o, o2)
      <4>1. \A q \in Pages : o[q].lev = 0 \/ o[q].lev = 3 => q # c /\ o2[q] = o[q]
        BY <3>1, <3>2, <3>10
      <4>2. \A q \in Pages : o[q].lev = 0 => q # p /\ m1[q] = a.ram[q]
        BY <3>1, <3>2, <3>6, <3>9
      <4> QED
        BY <4>1, <4>2 DEF Keeps
    <3>13. SameMaps(a.ram, m1, o)
      <4>1. \A r \in Pages : o[r].lev = 3 => o1[r].lev = 3
        BY <3>1, <3>2
      <4> HIDE DEF Pt
      <4> QED
        BY <3>7, <3>11, <4>1 DEF SameMaps, SameMap
    <3>14. Links(a.ram, m1, o, o2)
      <4> SUFFICES ASSUME NEW q \in Pages, o[q].lev \in 2..3
                   PROVE  /\ o2[q].lev = o[q].lev
                          /\ \A j \in Words : valid(a.ram[q][j]) => m1[q][j] = a.ram[q][j]
        BY DEF Links
      <4>1. q # c /\ o1[q] = o[q] /\ o2[q] = o[q]
        BY <3>1, <3>2, <3>10
      <4>2. \A j \in Words : valid(a.ram[q][j]) => d.ram[q][j] = a.ram[q][j]
        BY <3>11 DEF Links
      <4>3. \A j \in Words : valid(d.ram[q][j]) => m1[q][j] = d.ram[q][j]
        BY <3>7, <4>1 DEF Links
      <4> QED
        BY <4>1, <4>2, <4>3
    <3>15. Stay(a, b, o, o2)
      BY <3>8, <3>11, <3>12, <3>13, <3>14 DEF Stay
    <3>16. Holds(b, o2)
      BY <3>7, <3>8 DEF Holds
    <3>17. b.ret = Child(b.ram, p, i)
      BY <1>1, <3>3, <3>8, <3>9 DEF Child, p
    <3>18. NewTable(a, b, i)
      <4>1. d.ram \in [Pages -> Content] /\ d.ram[p] = a.ram[p]
        BY <3>1, <3>2, <3>5, <3>6 DEF Forest, Typed
      <4>2. m1[p] = [d.ram[p] EXCEPT ![i] = v]
        BY <3>6, <4>1 DEF m1
      <4>3. m1[c] = Zeros
        BY <3>1, <3>2, <3>4, <3>9
      <4> QED
        BY <3>1, <3>2, <3>8, <4>1, <4>2, <4>3 DEF NewTable, p, v
    <3> QED
      BY <2>4, <3>1, <3>8, <3>10, <3>15, <3>16, <3>17, <3>18 DEF b, p
  <2> QED
    BY <2>3, <2>4
<1> QED
  BY <1>2, <1>3

\* The two kinds of walk.
Walked(a, r, va) == walk(a, r, va, TRUE)
Looked(a, r, va) == walk(a, r, va, FALSE)

\* What a walk finds stays where it is.
LEMMA ChildStays ==
  ASSUME NEW m, NEW m1, NEW o, NEW o1, Links(m, m1, o, o1), NEW p \in Pages, o[p].lev \in 2..3,
         NEW i \in Words, Child(m, p, i) # NULL
  PROVE  Child(m1, p, i) = Child(m, p, i)
BY DEF Links, Child

\* A walk that may allocate tables.
LEMMA WalkAlloc ==
  ASSUME NEW a, NEW o, Holds(a, o), NEW r \in Pages, o[r].lev = 3, NEW n \in Vpns
  PROVE  LET b == Walked(a, r, n * PGSIZE)
         IN  \E o1 : /\ Holds(b, o1) /\ Stay(a, b, o, o1)
                     /\ b.ret = LastTable(b.ram, r, n)
                     /\ b.ret = NULL => b.freelist = NULL
                     /\ b.ret # NULL => b.ret \in Pages /\ o1[b.ret].lev = 1
<1> DEFINE va == n * PGSIZE
           b == Walked(a, r, va)
           b0 == return(a, r)
           b1 == descend(b0, D2(n), TRUE)
           b2 == descend(b1, D1(n), TRUE)
<1>1. b = in_ram(b2)
  <2>1. ~ (va >= MAXVA) /\ PX(1, va) = D1(n) /\ PX(2, va) = D2(n)
    BY VpnsAre, TopIs
  <2> HIDE DEF va
  <2> QED
    BY <2>1 DEF walk, Walked
<1>2. Holds(b0, o) /\ b0.ret = r /\ Stay(a, b0, o, o)
  BY Returns DEF Holds
<1>3. D1(n) \in Words /\ D2(n) \in Words
  BY VpnsAre, Indices
<1> HIDE DEF b0
<1>4. PICK o1 : /\ Holds(b1, o1) /\ Stay(b0, b1, o, o1)
                /\ b1.ret = Child(b1.ram, r, D2(n))
                /\ b1.ret = NULL => b1.freelist = NULL
                /\ b1.ret # NULL => b1.ret \in Pages /\ o1[b1.ret].lev = 2
  <2>1. b0.ret \in Pages /\ o[b0.ret].lev \in 2..3 /\ o[b0.ret].lev - 1 = 2
    BY <1>2
  <2> QED
    BY <1>2, <1>3, <2>1, Descend
<1> HIDE DEF b1
<1>5. PICK o2 : /\ Holds(b2, o2) /\ Stay(b1, b2, o1, o2)
                /\ b2.ret = LastTable(b2.ram, r, n)
                /\ b2.ret = NULL => b2.freelist = NULL
                /\ b2.ret # NULL => b2.ret \in Pages /\ o2[b2.ret].lev = 1
  <2>1. CASE b1.ret = NULL
    <3>1. b2 = b1
      BY <2>1 DEF descend
    <3>2. Stay(b1, b1, o1, o1)
      BY StaySame
    <3>3. LastTable(b1.ram, r, n) = NULL
      BY <1>4, <2>1 DEF LastTable, MidTable, Child
    <3> QED
      BY <1>4, <2>1, <3>1, <3>2, <3>3
  <2>2. CASE b1.ret # NULL
    <3>1. b1.ret \in Pages /\ o1[b1.ret].lev \in 2..3 /\ o1[b1.ret].lev - 1 = 1
      BY <1>4, <2>2
    <3>2. PICK o2 : /\ Holds(b2, o2) /\ Stay(b1, b2, o1, o2)
                    /\ b2.ret = Child(b2.ram, b1.ret, D1(n))
                    /\ b2.ret = NULL => b2.freelist = NULL
                    /\ b2.ret # NULL => b2.ret \in Pages /\ o2[b2.ret].lev = 1
      BY <1>3, <1>4, <3>1, Descend
    <3>3. Child(b2.ram, r, D2(n)) = b1.ret
      <4>1. o1[r].lev = 3 /\ Links(b1.ram, b2.ram, o1, o2)
        BY <1>4, <3>2 DEF Stay, Keeps
      <4>2. o1[r].lev \in 2..3
        BY <4>1
      <4>3. Child(b2.ram, r, D2(n)) = Child(b1.ram, r, D2(n))
        <5>1. Child(b1.ram, r, D2(n)) # NULL
          BY <1>4, <2>2
        <5> HIDE DEF Child
        <5> QED
          BY <1>3, <4>1, <4>2, <5>1, ChildStays
      <4> QED
        BY <1>4, <4>3
    <3>4. b2.ret = LastTable(b2.ram, r, n)
      BY <3>2, <3>3 DEF LastTable, MidTable
    <3> QED
      BY <3>2, <3>4
  <2> QED
    BY <2>1, <2>2
<1> HIDE DEF b2
<1>6. b = b2
  BY <1>1, <1>5 DEF in_ram
<1>7. Stay(a, b2, o, o2)
  BY <1>2, <1>4, <1>5, StayTwice
<1> QED
  BY <1>5, <1>6, <1>7

\* A walk that only looks.
LEMMA Look ==
  ASSUME NEW a, NEW o, Holds(a, o), NEW r \in Pages, o[r].lev = 3, NEW n \in Vpns
  PROVE  Looked(a, r, n * PGSIZE) = return(a, LastTable(a.ram, r, n))
<1> DEFINE va == n * PGSIZE
           m == a.ram
           u == MidTable(m, r, n)
           t == LastTable(m, r, n)
           b0 == return(a, r)
           b1 == descend(b0, D2(n), FALSE)
           b2 == descend(b1, D1(n), FALSE)
<1>1. Looked(a, r, va) = in_ram(b2)
  <2>1. ~ (va >= MAXVA) /\ PX(1, va) = D1(n) /\ PX(2, va) = D2(n)
    BY VpnsAre, TopIs
  <2> HIDE DEF va
  <2> QED
    BY <2>1 DEF walk, Looked
<1>2. Shape(a) /\ Forest(a.freelist, m, o)
  BY DEF Holds
<1>3. u \in Pages \cup {NULL} /\ t \in Pages \cup {NULL} /\ r # NULL
  BY <1>2, Way, Numbers
<1>4. u = Child(m, r, D2(n)) /\ t = Child(m, u, D1(n))
  BY DEF MidTable, LastTable
<1> HIDE DEF u, t
<1>5. \A x, y : return(return(a, x), y) = return(a, y)
  BY <1>2 DEF return, Shape
<1>6. \A x : return(a, x).ret = x /\ return(a, x).ram = m
  BY <1>2, Returns
<1>7. b1 = return(a, u)
  <2>1. b0.ret = r /\ b0.ram = m
    BY <1>6
  <2>2. b1 = return(b0, u)
    BY <1>3, <1>4, <2>1 DEF descend, PTE2PA, Child
  <2> QED
    BY <1>5, <2>2
<1>8. b2 = return(a, t)
  <2>1. b1.ret = u /\ b1.ram = m
    BY <1>6, <1>7
  <2> HIDE DEF b1
  <2>2. CASE u = NULL
    <3>1. t = NULL
      BY <1>4, <2>2 DEF Child
    <3> QED
      BY <1>7, <2>1, <2>2, <3>1 DEF descend
  <2>3. CASE u # NULL
    <3>1. b2 = return(b1, t)
      BY <1>3, <1>4, <2>1, <2>3 DEF descend, PTE2PA, Child
    <3> QED
      BY <1>5, <1>7, <3>1
  <2> QED
    BY <2>2, <2>3
<1>9. in_ram(b2) = b2
  <2>1. b2.ret = t
    BY <1>6, <1>8
  <2> HIDE DEF b2, t
  <2> QED
    BY <1>3, <2>1 DEF in_ram
<1> HIDE DEF b2
<1> QED
  BY <1>1, <1>8, <1>9 DEF t

\* The entry of the specification's Maps is what the tables lead to.
LEMMA PteIs ==
  ASSUME NEW a, NEW o, Holds(a, o), NEW r \in Pages, o[r].lev = 3, NEW n \in Vpns
  PROVE  entry(Looked(a, r, n * PGSIZE), n * PGSIZE) = Pt(a.ram, r, n)
<1> DEFINE t == LastTable(a.ram, r, n)
           b == Looked(a, r, n * PGSIZE)
<1>1. b = return(a, t)
  BY Look
<1>2. b.ret = t /\ b.ram = a.ram
  BY <1>1, Returns DEF Holds
<1>3. PX(0, n * PGSIZE) = D0(n)
  BY VpnsAre
<1> HIDE DEF b, t
<1>4. entry(b, n * PGSIZE) = IF t = NULL THEN word(NULL, {}) ELSE a.ram[t][D0(n)]
  BY <1>2, <1>3 DEF entry
<1> QED
  BY <1>4 DEF Pt, t, b

------------------------------------------------------------------------------
(* mappages()                                                              *)

\* The entry that it makes.
Made(c, perm) == word(c, perm \cup {"V"})

\* What mappages() writes into an entry is valid, and has the address and the permissions given.
LEMMA MadeWord ==
  ASSUME NEW c \in Int, NEW perm \in SUBSET (Flags \ {"V"})
  PROVE  LET w == Made(c, perm)
         IN  w \in Word /\ valid(w) /\ w.pa = c /\ w.flags \ {"V"} = perm
<1> DEFINE w == Made(c, perm)
<1>1. w.pa = c /\ w.flags = perm \cup {"V"} /\ w = [pa |-> w.pa, flags |-> w.flags]
  BY DEF word, Made
<1> HIDE DEF w
<1>2. w \in Word
  BY <1>1 DEF Word, Flags
<1>3. valid(w)
  BY <1>1 DEF valid
<1>4. w.flags \ {"V"} = perm
  BY <1>1
<1> QED
  BY <1>1, <1>2, <1>3, <1>4 DEF w

\* One round of its loop, at a page that is not mapped yet: the entry of r for n
\* becomes w, unless there is no page for a table.
Mapped(a, r, n, w) == map_entry(Walked(a, r, n * PGSIZE), n * PGSIZE, w)
Done(a, b, o, o1, r, n, w) ==
  /\ Holds(b, o1) /\ Keeps(a.ram, b.ram, o, o1) /\ b.panic = a.panic
  /\ \/ b.ret = 0 /\ OneMap(a.ram, b.ram, o, r, n, w)
     \/ /\ b.ret = -1 /\ b.freelist = NULL /\ SameMaps(a.ram, b.ram, o)
        /\ LastTable(a.ram, r, n) = NULL

\* A round of mappages() at a place without an entry: it is mapped, or no page is free.
LEMMA MapRound ==
  ASSUME NEW a, NEW o, Holds(a, o), NEW r \in Pages, o[r].lev = 3, NEW n \in Vpns,
         NEW w \in Word, ~ valid(Pt(a.ram, r, n))
  PROVE  \E o1 : Done(a, Mapped(a, r, n, w), o, o1, r, n, w)
<1> DEFINE va == n * PGSIZE
           d == Walked(a, r, va)
           b == Mapped(a, r, n, w)
           t == d.ret
           i == D0(n)
<1>1. PICK o1 : /\ Holds(d, o1) /\ Stay(a, d, o, o1)
                /\ t = LastTable(d.ram, r, n)
                /\ t = NULL => d.freelist = NULL
                /\ t # NULL => t \in Pages /\ o1[t].lev = 1
  BY WalkAlloc
<1>2. b = map_entry(d, va, w) /\ PX(0, va) = i
  BY VpnsAre DEF Mapped
<1> HIDE DEF d, b, va
<1>3. /\ Keeps(a.ram, d.ram, o, o1) /\ SameMaps(a.ram, d.ram, o) /\ Links(a.ram, d.ram, o, o1)
      /\ d.panic = a.panic
  BY <1>1 DEF Stay
<1>4. o1[r].lev = 3 /\ Pt(d.ram, r, n) = Pt(a.ram, r, n)
  BY <1>3 DEF Keeps, SameMaps, SameMap
<1>5. Shape(d) /\ Forest(d.freelist, d.ram, o1) /\ d.ram \in [Pages -> Content]
  BY <1>1 DEF Holds, Forest, Typed
<1>6. CASE t = NULL
  <2>1. b = return(d, -1)
    BY <1>2, <1>6 DEF map_entry
  <2>2. Holds(b, o1) /\ b.ret = -1 /\ b.ram = d.ram /\ b.freelist = NULL /\ b.panic = a.panic
    BY <1>1, <1>3, <1>5, <1>6, <2>1, Returns
  <2>3. LastTable(a.ram, r, n) = NULL
    <3>1. SUFFICES ASSUME LastTable(a.ram, r, n) # NULL
                   PROVE  FALSE
      OBVIOUS
    <3> DEFINE u == MidTable(a.ram, r, n)
    <3>2. u \in Pages /\ u # NULL /\ o[u].lev = 2 /\ Child(a.ram, u, D1(n)) # NULL
          /\ Child(a.ram, r, D2(n)) = u
      <4>1. Forest(a.freelist, a.ram, o)
        BY DEF Holds
      <4>2. u # NULL /\ u \in Pages \cup {NULL} /\ (u # NULL => o[u].lev = 2)
        BY <3>1, <4>1, Way
      <4>3. LastTable(a.ram, r, n) = Child(a.ram, u, D1(n)) /\ Child(a.ram, r, D2(n)) = u
        BY DEF LastTable, MidTable
      <4> QED
        BY <3>1, <4>2, <4>3
    <3> HIDE DEF u
    <3>3. D1(n) \in Words /\ D2(n) \in Words
      BY VpnsAre, Indices
    <3>4. Child(d.ram, r, D2(n)) = u /\ Child(d.ram, u, D1(n)) = Child(a.ram, u, D1(n))
      <4>1. o[r].lev \in 2..3 /\ o[u].lev \in 2..3
        BY <3>2
      <4> HIDE DEF Child
      <4> QED
        BY <1>3, <3>2, <3>3, <4>1, ChildStays
    <3> QED
      BY <1>1, <1>6, <3>2, <3>4 DEF LastTable, MidTable
  <2>4. Done(a, b, o, o1, r, n, w)
    BY <1>3, <2>2, <2>3 DEF Done
  <2> QED
    BY <2>4 DEF b
<1>7. CASE t # NULL
  <2> DEFINE m1 == [d.ram EXCEPT ![t][i] = w]
  <2>1. t \in Pages /\ t = LastTable(d.ram, r, n)
    BY <1>1, <1>7
  <2>2. entry(d, va) = d.ram[t][i]
    BY <1>2, <1>7 DEF entry
  <2>3. ~ valid(d.ram[t][i])
    BY <1>4, <1>7, <2>1 DEF Pt
  <2>4. b = [d EXCEPT !.ram[t][i] = w, !.ret = 0]
    BY <1>2, <1>7, <2>2, <2>3 DEF map_entry
  <2>5. /\ b.ret = 0 /\ b.freelist = d.freelist /\ b.panic = d.panic /\ b.ram = m1 /\ Shape(b)
    BY <1>5, <2>4 DEF Shape
  <2>6. /\ Forest(d.freelist, m1, o1) /\ OneMap(d.ram, m1, o1, r, n, w)
        /\ Keeps(d.ram, m1, o1, o1)
    <3> HIDE DEF t, i
    <3> QED
      BY <1>4, <1>5, <1>7, <2>1, SetLeaf DEF i
  <2> HIDE DEF m1, t, i
  <2>7. Holds(b, o1)
    BY <2>5, <2>6 DEF Holds
  <2>8. Keeps(a.ram, b.ram, o, o1)
    BY <1>3, <2>5, <2>6 DEF Keeps
  <2>9. OneMap(a.ram, b.ram, o, r, n, w)
    <3>1. \A q \in Pages : o[q].lev = 3 => o1[q].lev = 3 /\ SameMap(a.ram, d.ram, q)
      BY <1>3 DEF Keeps, SameMaps
    <3>2. \A j \in Vpns : Pt(d.ram, r, j) = Pt(a.ram, r, j)
      BY <3>1 DEF SameMap
    <3>3. \A j \in Vpns : Pt(b.ram, r, j) = IF j = n THEN w ELSE Pt(a.ram, r, j)
      BY <2>5, <2>6, <3>2 DEF OneMap
    <3>4. ASSUME NEW q \in Pages, o[q].lev = 3, q # r
          PROVE  SameMap(a.ram, b.ram, q)
      <4>1. SameMap(d.ram, b.ram, q) /\ SameMap(a.ram, d.ram, q)
        BY <2>5, <2>6, <3>1, <3>4 DEF OneMap
      <4> QED
        BY <4>1 DEF SameMap
    <3> QED
      BY <3>3, <3>4 DEF OneMap
  <2>10. Done(a, b, o, o1, r, n, w)
    BY <1>3, <2>5, <2>7, <2>8, <2>9 DEF Done
  <2> QED
    BY <2>10 DEF b
<1> QED
  BY <1>6, <1>7

\* How often it goes round for n pages.
LEMMA RoundsAre ==
  ASSUME NEW v \in Nat, NEW n \in Nat
  PROVE  rounds(v * PGSIZE, v * PGSIZE + n * PGSIZE) = n
<1> DEFINE x == v * PGSIZE
           y == n * PGSIZE
<1>1. PGSIZE \in Nat /\ PGSIZE > 0
  BY Numbers
<1>2. x \in Nat /\ y \in Nat
  BY <1>1
<1>3. (y + PGSIZE - 1) \div PGSIZE = n
  <2>1. \A z \in 0 .. PGSIZE - 1 : (n * PGSIZE + z) \div PGSIZE = n
    BY <1>1
  <2>2. y + PGSIZE - 1 = n * PGSIZE + (PGSIZE - 1) /\ PGSIZE - 1 \in 0 .. PGSIZE - 1
    BY <1>1, <1>2
  <2> QED
    BY <2>1, <2>2
<1>4. PGROUNDUP(y) = n * PGSIZE /\ PGROUNDUP(y) \div PGSIZE = n
  <2>1. PGROUNDUP(y) = n * PGSIZE
    BY <1>3 DEF PGROUNDUP
  <2> QED
    BY <1>1, <2>1
<1>5. y = 0 => n = 0
  BY <1>1
<1> HIDE DEF x, y
<1>6. x + y - x = y /\ (x < x + y <=> y # 0)
  BY <1>2
<1>7. n = 0 => y = 0
  BY <1>1 DEF y
<1>8. rounds(x, x + y) = IF x < x + y THEN PGROUNDUP((x + y) - x) \div PGSIZE ELSE 0
  BY DEF rounds
<1>9. (x + y) - x = y
  BY <1>2
<1>10. rounds(x, x + y) = n
  BY <1>4, <1>5, <1>6, <1>7, <1>8, <1>9
<1> QED
  BY <1>10 DEF x, y

\* b is a after a call that maps n pages from v on to those from c on, or some of them.
Laid(a, b, o, o1, r, v, n, c, perm) ==
  /\ Holds(b, o1) /\ Keeps(a.ram, b.ram, o, o1) /\ b.panic = a.panic /\ b.ret \in {0, -1}
  /\ \A q \in Pages : o[q].lev = 3 /\ q # r => SameMap(a.ram, b.ram, q)
  /\ \A j \in Vpns : j \notin v .. (v + n) - 1 => Pt(b.ram, r, j) = Pt(a.ram, r, j)
  /\ b.ret = 0 => \A j \in v .. (v + n) - 1 : Pt(b.ram, r, j) = Made(c + (j - v), perm)

\* One more page.
LEMMA LaidMore ==
  ASSUME NEW a, NEW o, NEW b, NEW o1, NEW d, NEW o2, NEW r \in Pages, o[r].lev = 3,
         NEW v \in Nat, NEW n \in Nat, NEW c \in Int, NEW perm,
         Laid(a, b, o, o1, r, v, n, c, perm), b.ret = 0, v + n \in Vpns,
         Done(b, d, o1, o2, r, v + n, Made(c + n, perm))
  PROVE  Laid(a, d, o, o2, r, v, n + 1, c, perm)
<1>1. /\ Holds(b, o1) /\ Keeps(a.ram, b.ram, o, o1) /\ b.panic = a.panic
      /\ \A q \in Pages : o[q].lev = 3 /\ q # r => SameMap(a.ram, b.ram, q)
      /\ \A j \in Vpns : j \notin v .. (v + n) - 1 => Pt(b.ram, r, j) = Pt(a.ram, r, j)
      /\ \A j \in v .. (v + n) - 1 : Pt(b.ram, r, j) = Made(c + (j - v), perm)
  BY DEF Laid
<1>2. /\ Holds(d, o2) /\ Keeps(b.ram, d.ram, o1, o2) /\ d.panic = b.panic /\ d.ret \in {0, -1}
      /\ d.ret = 0 => OneMap(b.ram, d.ram, o1, r, v + n, Made(c + n, perm))
      /\ d.ret = -1 => SameMaps(b.ram, d.ram, o1)
  BY DEF Done
<1>3. Keeps(a.ram, d.ram, o, o2)
  BY <1>1, <1>2 DEF Keeps
<1>4. \A q \in Pages : o[q].lev = 3 => o1[q].lev = 3
  BY <1>1 DEF Keeps
<1>5. ASSUME NEW q \in Pages, o[q].lev = 3, q # r
      PROVE  SameMap(a.ram, d.ram, q)
  <2>1. SameMap(b.ram, d.ram, q)
    BY <1>2, <1>4, <1>5 DEF OneMap, SameMaps
  <2>2. SameMap(a.ram, b.ram, q)
    BY <1>1, <1>5
  <2> QED
    BY <2>1, <2>2 DEF SameMap
<1>6. \A j \in Vpns : j # v + n => Pt(d.ram, r, j) = Pt(b.ram, r, j)
  <2>1. CASE d.ret = 0
    BY <1>2, <2>1 DEF OneMap
  <2>2. CASE d.ret = -1
    <3>1. SameMap(b.ram, d.ram, r)
      BY <1>2, <1>4, <2>2 DEF SameMaps
    <3> QED
      BY <3>1 DEF SameMap
  <2> QED
    BY <1>2, <2>1, <2>2
<1>7. \A j \in Vpns : j \notin v .. (v + (n + 1)) - 1 => Pt(d.ram, r, j) = Pt(a.ram, r, j)
  <2>1. \A j \in Vpns : j \in Int
    BY VpnsAre
  <2>2. \A j \in Int : j \notin v .. (v + (n + 1)) - 1 => j \notin v .. (v + n) - 1 /\ j # v + n
    OBVIOUS
  <2> QED
    BY <1>1, <1>6, <2>1, <2>2
<1>8. ASSUME d.ret = 0, NEW j \in v .. (v + (n + 1)) - 1, j \in Vpns
      PROVE  Pt(d.ram, r, j) = Made(c + (j - v), perm)
  <2>1. CASE j = v + n
    <3>1. c + (j - v) = c + n
      BY <2>1
    <3> QED
      BY <1>2, <1>8, <2>1, <3>1 DEF OneMap
  <2>2. CASE j # v + n
    <3>1. j \in v .. (v + n) - 1
      BY <2>2
    <3> QED
      BY <1>1, <1>6, <1>8, <2>2, <3>1
  <2> QED
    BY <2>1, <2>2
<1>9. \A j \in v .. (v + (n + 1)) - 1 : j \in Vpns
  <2>1. Vpns = 0 .. Top - 1 /\ Top \in Nat
    BY TopIs DEF Vpns
  <2> HIDE DEF Top
  <2> QED
    BY <2>1
<1> QED
  BY <1>1, <1>2, <1>3, <1>5, <1>7, <1>8, <1>9 DEF Laid

\* The call maps each page of its range, and leaves the others alone.
LEMMA MapPages ==
  ASSUME NEW a, NEW o, Holds(a, o), NEW r \in Pages, o[r].lev = 3,
         NEW v \in Nat, NEW n \in Nat, n # 0, NEW c \in Int, NEW perm \in SUBSET (Flags \ {"V"}),
         \A j \in v .. (v + n) - 1 : j \in Vpns /\ ~ valid(Pt(a.ram, r, j))
  PROVE  \E o1 : Laid(a, mappages(a, r, v * PGSIZE, n * PGSIZE, c, perm), o, o1, r, v, n, c, perm)
<1> DEFINE va == v * PGSIZE
           size == n * PGSIZE
           base == return(a, 0)
           Inv(x, j) == \E o1 : Laid(a, x, o, o1, r, v, j, c, perm)
           Set == [freelist : Pages \cup {NULL}, ram : [Pages -> Content], ret : {0, -1},
                   panic : {a.panic}]
           T == [j \in 0..n |-> {x \in Set : Inv(x, j)}]
           step(x, j) == IF x.ret = -1 THEN x ELSE Mapped(x, r, v + j, Made(c + j, perm))
           R == [y \in (1..n) \X Set |-> step(y[2], y[1] - 1)]
           page(s, x, to) ==
             IF s.ret = -1 THEN s
             ELSE map_entry(walk(s, r, x, TRUE), x, word(to, perm \cup {"V"}))
           round(s, i) == page(s, va + (i - 1) * PGSIZE, c + i - 1)
           eq(f) == f = [i \in 0..n |-> IF i = 0 THEN base ELSE round(f[i - 1], i)]
           h == CHOOSE f : eq(f)
<1>1. /\ PGSIZE \in Nat /\ PGSIZE > 0 /\ va \in Nat /\ va % PGSIZE = 0
      /\ size \in Nat /\ size % PGSIZE = 0 /\ size # 0
  <2>1. PGSIZE \in Nat /\ PGSIZE > 0
    BY Numbers
  <2>2. \A x \in Nat : x * PGSIZE \in Nat /\ (x * PGSIZE) % PGSIZE = 0
    BY <2>1
  <2>3. n * PGSIZE >= PGSIZE
    BY <2>1
  <2> QED
    BY <2>1, <2>2, <2>3
<1>2. mappages(a, r, va, size, c, perm) = Loop(round, base, n)
  <2>1. rounds(va, va + size) = n
    BY RoundsAre
  <2> HIDE DEF va, size
  <2> QED
    BY <1>1, <2>1, Zenon DEF mappages
<1>3. Loop(round, base, n) = h[n]
  BY DEF Loop
<1>4. ASSUME NEW i \in 1..n, NEW x
      PROVE  round(x, i) = step(x, i - 1)
  <2>1. va + (i - 1) * PGSIZE = (v + (i - 1)) * PGSIZE /\ c + i - 1 = c + (i - 1)
    BY <1>1
  <2>2. round(x, i) = IF x.ret = -1 THEN x
                      ELSE map_entry(Walked(x, r, va + (i - 1) * PGSIZE), va + (i - 1) * PGSIZE,
                                     Made(c + i - 1, perm))
    BY Zenon DEF Made, Walked
  <2> HIDE DEF round, va
  <2> QED
    BY <2>1, <2>2, Zenon DEF Mapped
<1>5. ASSUME NEW i \in 1..n, NEW x \in T[i - 1]
      PROVE  step(x, i - 1) \in T[i]
  <2> DEFINE j == i - 1
             y == step(x, j)
             z == Mapped(x, r, v + j, Made(c + j, perm))
  <2>1. j \in 0 .. n - 1 /\ j \in 0..n /\ i \in 0..n /\ j + 1 = i /\ j \in Nat
        /\ v + j \in v .. (v + n) - 1 /\ v + j \notin v .. (v + j) - 1 /\ c + j \in Int
    OBVIOUS
  <2>2. Inv(x, j) /\ x \in Set
    BY <2>1
  <2> HIDE DEF j, T, Set
  <2>3. PICK o1 : Laid(a, x, o, o1, r, v, j, c, perm)
    BY <2>2
  <2>4. CASE x.ret = -1
    <3>1. v .. (v + j) - 1 \subseteq v .. (v + i) - 1
      BY <2>1
    <3>2. Laid(a, x, o, o1, r, v, i, c, perm)
      <4>1. ~ (x.ret = 0)
        BY <2>4
      <4> QED
        BY <2>3, <2>4, <3>1, <4>1 DEF Laid
    <3>3. y = x
      BY <2>4
    <3> HIDE DEF y
    <3>4. Inv(y, i) /\ y \in Set
      BY <2>2, <3>2, <3>3
    <3> HIDE DEF Inv
    <3> QED
      BY <2>1, <3>4 DEF T, y, j
  <2>5. CASE x.ret # -1
    <3>1. x.ret = 0 /\ y = z
      BY <2>3, <2>5 DEF Laid
    <3>2. Holds(x, o1) /\ o1[r].lev = 3
      BY <2>3 DEF Laid, Keeps
    <3>3. v + j \in Vpns /\ Made(c + j, perm) \in Word
      BY <2>1, MadeWord
    <3>4. ~ valid(Pt(x.ram, r, v + j))
      <4>1. Pt(x.ram, r, v + j) = Pt(a.ram, r, v + j)
        BY <2>1, <2>3, <3>3 DEF Laid
      <4> QED
        BY <2>1, <4>1
    <3> HIDE DEF y, z
    <3>5. PICK o2 : Done(x, z, o1, o2, r, v + j, Made(c + j, perm))
      BY <3>2, <3>3, <3>4, MapRound DEF z
    <3>6. Laid(a, z, o, o2, r, v, i, c, perm)
      <4>1. Laid(a, z, o, o2, r, v, j + 1, c, perm)
        BY <2>1, <2>3, <3>1, <3>3, <3>5, LaidMore
      <4> QED
        BY <2>1, <4>1
    <3>7. z \in Set
      BY <3>6 DEF Laid, Holds, Shape, Forest, Typed, Set
    <3>8. Inv(y, i) /\ y \in Set
      BY <3>1, <3>6, <3>7
    <3> HIDE DEF Inv
    <3> QED
      BY <2>1, <3>8 DEF T, y, j
  <2> QED
    BY <2>4, <2>5
<1>6. base \in T[0]
  <2>1. /\ Holds(base, o) /\ base.ret = 0 /\ base.ram = a.ram /\ base.panic = a.panic
    BY Returns DEF Holds
  <2> HIDE DEF base
  <2>2. Laid(a, base, o, o, r, v, 0, c, perm)
    <3>1. \A j : j \notin v .. (v + 0) - 1
      OBVIOUS
    <3> QED
      BY <2>1, <3>1 DEF Laid, Keeps, SameMap
  <2>3. Inv(base, 0) /\ base \in Set
    BY <2>1, <2>2 DEF Holds, Shape, Forest, Typed
  <2> HIDE DEF Inv, Set
  <2> QED
    BY <2>3
<1>7. \A i \in 0..n : T[i] \subseteq Set
  OBVIOUS
<1>8. \A x \in T[n] : Inv(x, n)
  OBVIOUS
<1> HIDE DEF T, Inv, step, round, Set, base, va, size
<1>9. \A i \in 1..n : \A x \in T[i - 1] : R[<<i, x>>] = step(x, i - 1)
  BY <1>7
<1> HIDE DEF R, h, eq
<1>10. PICK f : Path(n, T, base, R, f)
  <2>1. Leading(n, T, R)
    BY <1>5, <1>9 DEF Leading
  <2> QED
    BY <1>6, <2>1, LoopExists
<1>11. eq(f)
  <2>1. ASSUME NEW i \in 1..n
        PROVE  R[<<i, f[i - 1]>>] = round(f[i - 1], i)
    BY <1>4, <1>9, <1>10, SMTT(30) DEF Path
  <2>2. f = [i \in 0..n |-> IF i = 0 THEN base ELSE round(f[i - 1], i)]
    <3>1. f = [i \in 0..n |-> IF i = 0 THEN base ELSE R[<<i, f[i - 1]>>]]
      BY <1>10 DEF Path
    <3>2. \A i \in 0..n : i = 0 \/ R[<<i, f[i - 1]>>] = round(f[i - 1], i)
      BY <2>1
    <3> QED
      BY <3>1, <3>2
  <2> QED
    BY <2>2 DEF eq
<1>12. eq(h)
  BY <1>11 DEF h
<1>13. h[n] \in T[n]
  <2>1. h[0] = base /\ \A i \in 1..n : h[i] = round(h[i - 1], i)
    BY <1>12 DEF eq
  <2>2. \A i \in 1..n : h[i - 1] \in T[i - 1] => h[i] \in T[i]
    BY <1>4, <1>5, <2>1
  <2> QED
    BY <1>6, <2>1, <2>2, LoopStays
<1>14. Inv(mappages(a, r, va, size, c, perm), n)
  BY <1>2, <1>3, <1>8, <1>13
<1> QED
  BY <1>14 DEF Inv, va, size

\* A call for one page is one round.
LEMMA MapIs ==
  ASSUME NEW a, Shape(a), NEW r, NEW v \in Vpns, NEW c \in Int, NEW perm
  PROVE  mappages(a, r, v * PGSIZE, PGSIZE, c, perm) = Mapped(return(a, 0), r, v, Made(c, perm))
<1> DEFINE va == v * PGSIZE
           base == return(a, 0)
           page(s, x, to) ==
             IF s.ret = -1 THEN s
             ELSE map_entry(walk(s, r, x, TRUE), x, word(to, perm \cup {"V"}))
           round(s, i) == page(s, va + (i - 1) * PGSIZE, c + i - 1)
           eq(s) == s = [i \in 0..1 |-> IF i = 0 THEN base ELSE round(s[i - 1], i)]
           f == CHOOSE s : eq(s)
<1>1. PGSIZE \in Nat /\ PGSIZE > 0 /\ PGSIZE % PGSIZE = 0 /\ PGSIZE # 0
  BY Numbers
<1>2. va \in Nat /\ va % PGSIZE = 0 /\ v \in Nat
  BY VpnsAre
<1>3. rounds(va, va + PGSIZE) = 1
  <2>1. 1 * PGSIZE = PGSIZE
    BY <1>1
  <2> QED
    BY <1>2, <2>1, RoundsAre
<1>4. mappages(a, r, va, PGSIZE, c, perm) = Loop(round, base, 1)
  <2> HIDE DEF va
  <2> QED
    BY <1>1, <1>2, <1>3, Zenon DEF mappages
<1>5. Loop(round, base, 1) = f[1]
  BY DEF Loop
<1>6. ~ (base.ret = -1)
  BY Returns
<1>7. va + (1 - 1) * PGSIZE = va /\ c + 1 - 1 = c
  BY <1>1, <1>2
<1>8. round(base, 1) = Mapped(base, r, v, Made(c, perm))
  <2> HIDE DEF base
  <2>1. round(base, 1) = map_entry(Walked(base, r, va + (1 - 1) * PGSIZE),
                                   va + (1 - 1) * PGSIZE, Made(c + 1 - 1, perm))
    BY <1>6, Zenon DEF Made, Walked
  <2> HIDE DEF round
  <2> QED
    BY <1>7, <2>1, Zenon DEF Mapped
<1> HIDE DEF round, base, va
<1>9. eq([i \in 0..1 |-> IF i = 0 THEN base ELSE round(base, 1)])
  OBVIOUS
<1>10. eq(f)
  <2> HIDE DEF eq
  <2> QED
    BY <1>9
<1> HIDE DEF f
<1>11. f[1] = round(base, 1)
  BY <1>10
<1> QED
  BY <1>4, <1>5, <1>8, <1>11 DEF base, va

\* mappages() of one page: it is mapped and nothing else is, or it returns -1 and no page is free.
LEMMA MapOne ==
  ASSUME NEW a, NEW o, Holds(a, o), NEW r \in Pages, o[r].lev = 3, NEW v \in Vpns,
         NEW c \in Int, NEW perm \in SUBSET (Flags \ {"V"}), ~ valid(Pt(a.ram, r, v))
  PROVE  \E o1 : Done(a, mappages(a, r, v * PGSIZE, PGSIZE, c, perm), o, o1, r, v, Made(c, perm))
<1> DEFINE b == return(a, 0)
           d == mappages(a, r, v * PGSIZE, PGSIZE, c, perm)
           w == Made(c, perm)
<1>1. d = Mapped(b, r, v, w)
  BY MapIs DEF Holds
<1>2. Holds(b, o) /\ b.ram = a.ram /\ b.panic = a.panic
  BY Returns DEF Holds
<1>3. w \in Word
  BY MadeWord
<1> HIDE DEF b, d, w
<1>4. PICK o1 : Done(b, d, o, o1, r, v, w)
  BY <1>1, <1>2, <1>3, MapRound
<1>5. Done(a, d, o, o1, r, v, w)
  BY <1>2, <1>4 DEF Done
<1> QED
  BY <1>5 DEF d, w

------------------------------------------------------------------------------
(* kinit()                                                                 *)

\* freerange() puts the pages of RAM on the list, one after the other.
LEMMA Kinit ==
  ASSUME NEW n \in 0 .. PHYSTOP - END
  PROVE  \E o : Holds(kinit(n), o) /\ kinit(n).panic = "none"
<1> DEFINE Inv(x, j) == \E o : /\ Holds(x, o) /\ x.panic = "none"
                               /\ \A p \in Pages : p >= END + j => o[p].lev = 0
           Set == [freelist : Pages \cup {NULL}, ram : [Pages -> Content], ret : {NULL},
                   panic : {"none"}]
           T == [j \in 0..n |-> {x \in Set : Inv(x, j)}]
           round(s, i) == kfree(s, END + i - 1)
           R == [y \in (1..n) \X Set |-> round(y[2], y[1])]
           eq(f) == f = [i \in 0..n |-> IF i = 0 THEN Off ELSE round(f[i - 1], i)]
           h == CHOOSE f : eq(f)
<1>1. n \in Nat /\ END \in Nat /\ PHYSTOP \in Nat /\ n <= PHYSTOP - END
      /\ Pages = END .. PHYSTOP - 1
  BY MemoryAssumption DEF Pages
<1>2. kinit(n) = Loop(round, Off, n)
  BY Zenon DEF kinit, freerange
<1>3. Loop(round, Off, n) = h[n]
  BY DEF Loop
<1>4. ASSUME NEW i \in 1..n, NEW x \in T[i - 1]
      PROVE  round(x, i) \in T[i]
  <2> DEFINE j == i - 1
             t == END + i - 1
             y == kfree(x, t)
  <2>1. j \in 0..n /\ i \in 0..n /\ j + 1 = i /\ t = END + j /\ t \in Pages /\ i \in Nat
    BY <1>1
  <2>2. Inv(x, j) /\ x \in Set
    BY <2>1
  <2> HIDE DEF j, t, T
  <2>3. PICK o : /\ Holds(x, o) /\ x.panic = "none"
                 /\ \A p \in Pages : p >= END + j => o[p].lev = 0
    BY <2>2
  <2>4. o[t].lev = 0
    BY <1>1, <2>1, <2>3
  <2> HIDE DEF Set, Inv
  <2>5. PICK o1 : Given(x, y, o, o1, t)
    BY <2>1, <2>3, <2>4, Kfree
  <2> HIDE DEF y
  <2>6. /\ Holds(y, o1) /\ y.ret = x.ret /\ y.panic = x.panic
        /\ \A p \in Pages \ {t} : o1[p] = o[p]
    BY <2>5 DEF Given
  <2>7. \A p \in Pages : p >= END + i => o1[p].lev = 0
    <3>1. \A p \in Pages : p >= END + i => p # t /\ p >= END + j
      BY <1>1, <2>1
    <3> QED
      BY <2>3, <2>6, <3>1
  <2>8. Inv(y, i)
    BY <2>3, <2>6, <2>7 DEF Inv
  <2>9. y \in Set
    <3>1. y = [freelist |-> y.freelist, ram |-> y.ram, ret |-> x.ret, panic |-> x.panic]
          /\ y.freelist \in Pages \cup {NULL} /\ y.ram \in [Pages -> Content]
      BY <2>6 DEF Holds, Shape, Forest, Typed
    <3>2. x.ret = NULL /\ x.panic = "none"
      BY <2>2 DEF Set
    <3> QED
      BY <3>1, <3>2 DEF Set
  <2> QED
    BY <2>1, <2>8, <2>9 DEF T, y, t
<1>5. Off \in T[0]
  <2> DEFINE o == [p \in Pages |-> Held(NoTag)]
  <2>1. Held(NoTag) \in Use /\ Held(NoTag).lev = 0
    BY Uses
  <2>2. /\ Off.freelist = NULL /\ Off.ram \in [Pages -> Content] /\ Shape(Off)
        /\ Off.panic = "none" /\ Off.ret = NULL
    BY PageTypes DEF Off, Shape
  <2>3. o \in [Pages -> Use] /\ \A p \in Pages : o[p].lev = 0
    BY <2>1
  <2> HIDE DEF o
  <2>4. Holds(Off, o)
    BY <2>2, <2>3 DEF Holds, Forest, Typed, FreeOK, Down
  <2>5. Inv(Off, 0)
    BY <2>2, <2>3, <2>4
  <2>6. Off \in Set
    BY <2>2 DEF Shape
  <2> HIDE DEF Inv, Set
  <2> QED
    BY <1>1, <2>5, <2>6
<1>6. \A i \in 0..n : T[i] \subseteq Set
  OBVIOUS
<1>7. \A x \in T[n] : Inv(x, n)
  BY <1>1
<1> HIDE DEF T, Inv, round, Set
<1>8. \A i \in 1..n : \A x \in T[i - 1] : R[<<i, x>>] = round(x, i)
  BY <1>1, <1>6
<1> HIDE DEF R, h, eq
<1>9. PICK f : Path(n, T, Off, R, f)
  <2>1. Leading(n, T, R)
    BY <1>4, <1>8 DEF Leading
  <2> QED
    BY <1>1, <1>5, <2>1, LoopExists
<1>10. eq(f)
  <2>1. ASSUME NEW i \in 1..n
        PROVE  R[<<i, f[i - 1]>>] = round(f[i - 1], i)
    BY <1>1, <1>8, <1>9, SMTT(30) DEF Path
  <2>2. f = [i \in 0..n |-> IF i = 0 THEN Off ELSE round(f[i - 1], i)]
    <3>1. f = [i \in 0..n |-> IF i = 0 THEN Off ELSE R[<<i, f[i - 1]>>]]
      BY <1>9 DEF Path
    <3>2. \A i \in 0..n : i = 0 \/ R[<<i, f[i - 1]>>] = round(f[i - 1], i)
      BY <1>1, <2>1
    <3> QED
      BY <3>1, <3>2
  <2> QED
    BY <2>2 DEF eq
<1>11. eq(h)
  BY <1>10 DEF h
<1>12. h[n] \in T[n]
  <2>1. h[0] = Off /\ \A i \in 1..n : h[i] = round(h[i - 1], i)
    BY <1>1, <1>11 DEF eq
  <2>2. \A i \in 1..n : h[i - 1] \in T[i - 1] => h[i] \in T[i]
    BY <1>4, <2>1
  <2> QED
    BY <1>1, <1>5, <2>1, <2>2, LoopStays
<1>13. Inv(kinit(n), n)
  BY <1>2, <1>3, <1>7, <1>12
<1> QED
  BY <1>13 DEF Inv

------------------------------------------------------------------------------
(* kvmmake()                                                               *)

\* A panic changes nothing else.
LEMMA Stops ==
  ASSUME NEW a, Shape(a), NEW why, why # "none"
  PROVE  LET b == stop(a, why)
         IN  /\ Shape(b) /\ b.ret = a.ret /\ b.ram = a.ram /\ b.freelist = a.freelist
             /\ b.panic # "none"
             /\ \A o : Holds(a, o) => Holds(b, o)
<1> DEFINE b == stop(a, why)
<1>1. /\ Shape(b) /\ b.ret = a.ret /\ b.ram = a.ram /\ b.freelist = a.freelist
      /\ b.panic # "none"
  BY DEF stop, Shape
<1> HIDE DEF b
<1>2. \A o : Holds(a, o) => Holds(b, o)
  BY <1>1 DEF Holds
<1> QED
  BY <1>1, <1>2 DEF b

\* kvmmap() maps all of its range, or the kernel stops.
Kept(a, b, o, o1, r, v, n, c, perm) ==
  /\ Holds(b, o1) /\ Keeps(a.ram, b.ram, o, o1)
  /\ \A j \in Vpns : j \notin v .. (v + n) - 1 => Pt(b.ram, r, j) = Pt(a.ram, r, j)
  /\ b.panic = "none" => /\ a.panic = "none"
                         /\ \A j \in v .. (v + n) - 1 : Pt(b.ram, r, j) = Made(c + (j - v), perm)

\* kvmmap() of n pages: they are mapped and nothing else is, or the kernel has stopped.
LEMMA Kvmmap ==
  ASSUME NEW a, NEW o, Holds(a, o), NEW r \in Pages, o[r].lev = 3,
         NEW v \in Nat, NEW n \in Nat, n # 0, NEW c \in Int, NEW perm \in SUBSET (Flags \ {"V"}),
         \A j \in v .. (v + n) - 1 : j \in Vpns /\ ~ valid(Pt(a.ram, r, j))
  PROVE  \E o1 : Kept(a, kvmmap(a, r, v * PGSIZE, c, n * PGSIZE, perm), o, o1, r, v, n, c, perm)
<1> DEFINE d == mappages(a, r, v * PGSIZE, n * PGSIZE, c, perm)
           b == kvmmap(a, r, v * PGSIZE, c, n * PGSIZE, perm)
<1>1. PICK o1 : Laid(a, d, o, o1, r, v, n, c, perm)
  BY MapPages
<1>2. b = IF d.ret = 0 THEN d ELSE stop(d, "kvmmap")
  BY Zenon DEF kvmmap, checked
<1> HIDE DEF d, b
<1>3. /\ Holds(d, o1) /\ Keeps(a.ram, d.ram, o, o1) /\ d.panic = a.panic /\ Shape(d)
      /\ \A j \in Vpns : j \notin v .. (v + n) - 1 => Pt(d.ram, r, j) = Pt(a.ram, r, j)
      /\ d.ret = 0 => \A j \in v .. (v + n) - 1 : Pt(d.ram, r, j) = Made(c + (j - v), perm)
  BY <1>1 DEF Laid, Holds
<1>4. CASE d.ret = 0
  <2>1. Kept(a, d, o, o1, r, v, n, c, perm)
    BY <1>3, <1>4 DEF Kept
  <2> QED
    BY <1>2, <1>4, <2>1 DEF b
<1>5. CASE d.ret # 0
  <2>1. Holds(b, o1) /\ b.ram = d.ram /\ b.panic # "none"
    <3>1. "kvmmap" # "none"
      OBVIOUS
    <3> QED
      BY <1>2, <1>3, <1>5, <3>1, Stops
  <2>2. Kept(a, b, o, o1, r, v, n, c, perm)
    BY <1>3, <2>1 DEF Kept
  <2> QED
    BY <2>2 DEF b
<1> QED
  BY <1>4, <1>5

\* The entries of the kernel's table.
KernelPte(n) ==
  IF n \in KERNBASE .. ETEXT - 1 THEN Made(n, {"R", "X"})
  ELSE IF n \in ETEXT .. PHYSTOP - 1 THEN Made(n, {"R", "W"})
  ELSE IF n = Apart(1) THEN Made(trampoline, {"R", "X"})
  ELSE word(NULL, {})

\* The three ranges lie apart from each other.
LEMMA Ranges ==
  /\ KERNBASE \in Nat /\ ETEXT \in Nat /\ PHYSTOP \in Nat /\ trampoline \in Int
  /\ ETEXT - KERNBASE \in Nat /\ ETEXT - KERNBASE # 0 /\ KERNBASE + (ETEXT - KERNBASE) = ETEXT
  /\ PHYSTOP - ETEXT \in Nat /\ PHYSTOP - ETEXT # 0 /\ ETEXT + (PHYSTOP - ETEXT) = PHYSTOP
  /\ KERNBASE .. ETEXT - 1 \subseteq Vpns /\ ETEXT .. PHYSTOP - 1 \subseteq Vpns
  /\ Apart(1) \in Nat /\ Apart(1) .. (Apart(1) + 1) - 1 = {Apart(1)} /\ Apart(1) \in Vpns
  /\ \A j \in KERNBASE .. ETEXT - 1 : j \notin ETEXT .. PHYSTOP - 1 /\ j # Apart(1)
  /\ \A j \in ETEXT .. PHYSTOP - 1 : j # Apart(1)
<1>1. /\ KERNBASE \in Nat /\ ETEXT \in Nat /\ PHYSTOP \in Nat /\ KERNBASE < ETEXT
      /\ ETEXT < PHYSTOP
  BY MemoryAssumption
<1>2. Apart(1) \in Nat /\ Apart(1) > PHYSTOP /\ Apart(1) \in Vpns
  <2>1. Apart(1) \in Vpns /\ Apart(1) > PHYSTOP
    BY TopPages
  <2> QED
    BY <2>1, VpnsAre
<1>3. Vpns = 0 .. Top - 1 /\ Top \in Nat /\ PHYSTOP < Top
  <2>1. Vpns = 0 .. Top - 1 /\ Top \in Nat /\ PHYSTOP < Top - 4
    BY TopIs DEF Vpns
  <2> HIDE DEF Top
  <2> QED
    BY <1>1, <2>1
<1> HIDE DEF Top, Apart, Vpns
<1> QED
  BY <1>1, <1>2, <1>3 DEF trampoline

\* The kernel's table is made as it should be, or the kernel stops.
LEMMA Kvmmake ==
  ASSUME NEW a, NEW o, Holds(a, o)
  PROVE  LET b == kvmmake(a)
         IN  \E o1 : /\ Holds(b, o1) /\ b.ret \in Pages \cup {NULL}
                     /\ b.panic = "none" =>
                          /\ b.ret \in Pages /\ o1[b.ret] = Root(<<"kernel", 0>>)
                          /\ \A n \in Vpns : Pt(b.ram, b.ret, n) = KernelPte(n)
<1> DEFINE g == <<"kernel", 0>>
           m == kalloc_zeroed(a)
           r == m.ret
           text == kvmmap(m, r, KERNBASE * PGSIZE, KERNBASE,
                          (ETEXT - KERNBASE) * PGSIZE, {"R", "X"})
           data == kvmmap(text, r, ETEXT * PGSIZE, ETEXT, (PHYSTOP - ETEXT) * PGSIZE, {"R", "W"})
           tram == kvmmap(data, r, Apart(1) * PGSIZE, trampoline, 1 * PGSIZE, {"R", "X"})
           b == kvmmake(a)
<1>1. Fresh(a, m, o, g) /\ (r # NULL => m.ram[r] = Zeros)
  <2>1. g \in Tags
    BY DEF Tags
  <2> QED
    BY <2>1, KallocZeroed
<1>2. b = IF r = NULL THEN stop(m, "access_fault") ELSE return(tram, r)
  <2>1. TRAMPOLINE = Apart(1) * PGSIZE /\ 1 * PGSIZE = PGSIZE
    BY TopPages, Numbers
  <2> QED
    BY <2>1, Zenon DEF kvmmake, root_filled, map_kernel
<1> HIDE DEF m
<1>3. CASE r = NULL
  <2>1. Holds(m, o)
    BY <1>1, <1>3, Numbers DEF Fresh
  <2>2. Shape(m) /\ "access_fault" # "none"
    BY <2>1 DEF Holds
  <2> HIDE DEF b
  <2>3. Holds(b, o) /\ b.ret = NULL /\ b.panic # "none"
    BY <1>2, <1>3, <2>1, <2>2, Stops
  <2> QED
    BY <2>3 DEF b
<1>4. CASE r # NULL
  <2> DEFINE o1 == [o EXCEPT ![r] = Held(g)]
             o2 == [o1 EXCEPT ![r] = Root(g)]
  <2>1. r \in Pages /\ Holds(m, o1) /\ m.ram[r] = Zeros
    BY <1>1, <1>4 DEF Fresh
  <2>2. o1[r].lev = 0 /\ g \in Tags /\ o2[r] = Root(g) /\ Root(g).lev = 3
    <3>1. o1 \in [Pages -> Use]
      BY <2>1 DEF Holds, Forest, Typed
    <3>2. Held(g).lev = 0 /\ g \in Tags
      BY DEF Tags, Held
    <3>3. o \in [Pages -> Use]
      BY DEF Holds, Forest, Typed
    <3>4. o1[r] = Held(g)
      BY <2>1, <3>3
    <3> HIDE DEF o1
    <3> QED
      BY <2>1, <3>1, <3>2, <3>4 DEF Root
  <2> HIDE DEF o1
  <2>3. Holds(m, o2) /\ \A n \in Vpns : Pt(m.ram, r, n) = word(NULL, {})
    <3>1. Forest(m.freelist, m.ram, o1) /\ Shape(m)
      BY <2>1 DEF Holds
    <3>2. Forest(m.freelist, m.ram, o2) /\ \A n \in Vpns : Pt(m.ram, r, n) = word(NULL, {})
      BY <2>1, <2>2, <3>1, Plant
    <3> QED
      BY <3>1, <3>2 DEF Holds
  <2> HIDE DEF o2, text, data, tram
  <2> DEFINE X == {"R", "X"}
             W == {"R", "W"}
  <2>4. X \in SUBSET (Flags \ {"V"}) /\ W \in SUBSET (Flags \ {"V"})
    BY DEF Flags
  <2> HIDE DEF X, W
  <2>5. PICK o3 : Kept(m, text, o2, o3, r, KERNBASE, ETEXT - KERNBASE, KERNBASE, X)
    <3>1. \A j \in KERNBASE .. (KERNBASE + (ETEXT - KERNBASE)) - 1 :
            j \in Vpns /\ ~ valid(Pt(m.ram, r, j))
      BY <2>3, Ranges, PageTypes
    <3>2. o2[r].lev = 3
      BY <2>2
    <3> QED
      BY <2>1, <2>3, <2>4, <3>1, <3>2, Ranges, Kvmmap DEF text, X
  <2>6. /\ Holds(text, o3) /\ o3[r] = Root(g)
        /\ \A j \in Vpns : j \notin KERNBASE .. ETEXT - 1 => Pt(text.ram, r, j) = word(NULL, {})
        /\ text.panic = "none" => \A j \in KERNBASE .. ETEXT - 1 : Pt(text.ram, r, j) = Made(j, X)
    <3>1. \A j \in KERNBASE .. ETEXT - 1 : KERNBASE + (j - KERNBASE) = j
      BY Ranges
    <3> QED
      BY <2>1, <2>2, <2>3, <2>5, <3>1, Ranges DEF Kept, Keeps
  <2>7. PICK o4 : Kept(text, data, o3, o4, r, ETEXT, PHYSTOP - ETEXT, ETEXT, W)
    <3>1. \A j \in ETEXT .. (ETEXT + (PHYSTOP - ETEXT)) - 1 :
            j \in Vpns /\ ~ valid(Pt(text.ram, r, j))
      BY <2>6, Ranges, PageTypes
    <3>2. o3[r].lev = 3
      BY <2>2, <2>6
    <3> QED
      BY <2>1, <2>4, <2>6, <3>1, <3>2, Ranges, Kvmmap DEF data, W
  <2>8. /\ Holds(data, o4) /\ o4[r] = Root(g)
        /\ \A j \in Vpns : j \notin ETEXT .. PHYSTOP - 1 => Pt(data.ram, r, j) = Pt(text.ram, r, j)
        /\ data.panic = "none" =>
             text.panic = "none" /\ \A j \in ETEXT .. PHYSTOP - 1 : Pt(data.ram, r, j) = Made(j, W)
    <3>1. \A j \in ETEXT .. PHYSTOP - 1 : ETEXT + (j - ETEXT) = j
      BY Ranges
    <3> QED
      BY <2>1, <2>2, <2>6, <2>7, <3>1, Ranges DEF Kept, Keeps
  <2>9. PICK o5 : Kept(data, tram, o4, o5, r, Apart(1), 1, trampoline, X)
    <3>1. \A j \in Apart(1) .. (Apart(1) + 1) - 1 : j \in Vpns /\ ~ valid(Pt(data.ram, r, j))
      BY <2>6, <2>8, Ranges, PageTypes
    <3>2. o4[r].lev = 3 /\ 1 \in Nat /\ 1 # 0
      BY <2>2, <2>8
    <3> QED
      BY <2>1, <2>4, <2>8, <3>1, <3>2, Ranges, Kvmmap DEF tram, X
  <2>10. /\ Holds(tram, o5) /\ o5[r] = Root(g)
         /\ \A j \in Vpns : j # Apart(1) => Pt(tram.ram, r, j) = Pt(data.ram, r, j)
         /\ tram.panic = "none" =>
              data.panic = "none" /\ Pt(tram.ram, r, Apart(1)) = Made(trampoline, X)
    <3>1. trampoline + (Apart(1) - Apart(1)) = trampoline
      BY Ranges
    <3> QED
      BY <2>1, <2>2, <2>8, <2>9, <3>1, Ranges DEF Kept, Keeps
  <2>11. ASSUME tram.panic = "none", NEW n \in Vpns
         PROVE  Pt(tram.ram, r, n) = KernelPte(n)
    <3>1. data.panic = "none" /\ text.panic = "none"
      BY <2>8, <2>10, <2>11
    <3>2. CASE n \in KERNBASE .. ETEXT - 1
      BY <2>6, <2>8, <2>10, <3>1, <3>2, Ranges DEF KernelPte, X
    <3>3. CASE n \in ETEXT .. PHYSTOP - 1
      <4>1. n \notin KERNBASE .. ETEXT - 1
        BY <3>3, Ranges
      <4> QED
        BY <2>8, <2>10, <3>1, <3>3, <4>1, Ranges DEF KernelPte, W
    <3>4. CASE n = Apart(1)
      BY <2>10, <2>11, <3>4, Ranges DEF KernelPte, X
    <3>5. CASE n \notin KERNBASE .. ETEXT - 1 /\ n \notin ETEXT .. PHYSTOP - 1 /\ n # Apart(1)
      BY <2>6, <2>8, <2>10, <3>5 DEF KernelPte
    <3> QED
      BY <3>2, <3>3, <3>4, <3>5
  <2>12. Shape(tram)
    BY <2>10 DEF Holds
  <2> HIDE DEF b
  <2>13. Holds(b, o5) /\ b.ret = r /\ b.ram = tram.ram /\ b.panic = tram.panic
    BY <1>2, <1>4, <2>10, <2>12, Returns
  <2>14. \A n \in Vpns : b.panic = "none" => Pt(b.ram, b.ret, n) = KernelPte(n)
    BY <2>11, <2>13
  <2> QED
    BY <2>1, <2>10, <2>13, <2>14 DEF b
<1> QED
  BY <1>3, <1>4

------------------------------------------------------------------------------
(* freewalk() of the table of a process that cannot be born                *)

\* What a walk from an empty root leaves when there is no page for its last table.
Bare(m, o, r, i) ==
  \/ m[r] = Zeros
  \/ \E c \in Pages : /\ c # r /\ m[c] = Zeros /\ o[c].lev = 2
                      /\ m[r] = [Zeros EXCEPT ![i] = word(c, {"V"})]

\* When the first mapping in an empty table fails, the table has at most one branch, without leaves.
LEMMA NotMapped ==
  ASSUME NEW a, NEW o, Holds(a, o), NEW r \in Pages, o[r].lev = 3, a.ram[r] = Zeros,
         NEW n \in Vpns, NEW w \in Word, Mapped(a, r, n, w).ret = -1
  PROVE  LET b == Mapped(a, r, n, w)
         IN  \E o1 : /\ Holds(b, o1) /\ Keeps(a.ram, b.ram, o, o1) /\ SameMaps(a.ram, b.ram, o)
                     /\ b.panic = a.panic /\ Bare(b.ram, o1, r, D2(n))
<1> DEFINE va == n * PGSIZE
           b == Mapped(a, r, n, w)
           b0 == return(a, r)
           b1 == descend(b0, D2(n), TRUE)
           b2 == descend(b1, D1(n), TRUE)
<1>1. b = map_entry(in_ram(b2), va, w) /\ PX(0, va) = D0(n)
  <2>1. /\ ~ (va >= MAXVA) /\ PX(1, va) = D1(n) /\ PX(2, va) = D2(n)
        /\ PX(0, va) = D0(n)
    BY VpnsAre, TopIs
  <2> HIDE DEF va
  <2>2. Walked(a, r, va) = in_ram(b2)
    BY <2>1 DEF walk, Walked
  <2> QED
    BY <2>1, <2>2 DEF Mapped, va
<1>2. Holds(b0, o) /\ b0.ret = r /\ Stay(a, b0, o, o) /\ b0.ram = a.ram
  BY Returns DEF Holds
<1>3. D0(n) \in Words /\ D1(n) \in Words /\ D2(n) \in Words
  BY VpnsAre, Indices
<1>4. \A i \in Words : Zeros[i] = word(NULL, {}) /\ ~ valid(Zeros[i])
  BY PageTypes
<1> HIDE DEF b0, b
<1>5. PICK o1 : /\ Holds(b1, o1) /\ Stay(b0, b1, o, o1)
                /\ b1.ret # NULL => b1.ret \in Pages /\ o1[b1.ret].lev = 2
                /\ NewTable(b0, b1, D2(n))
  <2>1. b0.ret \in Pages /\ o[b0.ret].lev \in 2..3 /\ o[b0.ret].lev - 1 = 2
    BY <1>2
  <2>2. ~ valid(b0.ram[b0.ret][D2(n)])
    BY <1>2, <1>3, <1>4
  <2> QED
    BY <1>2, <1>3, <2>1, <2>2, Descend
<1> HIDE DEF b1
<1>6. Stay(a, b1, o, o1)
  BY <1>2, <1>5, StayTwice
<1>7. Shape(b1) /\ b1.panic = a.panic /\ Keeps(a.ram, b1.ram, o, o1) /\ SameMaps(a.ram, b1.ram, o)
  BY <1>5, <1>6 DEF Holds, Stay
<1>8. CASE b1.ret = NULL
  <2>1. b2 = b1 /\ in_ram(b1) = b1
    BY <1>8 DEF descend, in_ram
  <2>2. b = return(b1, -1)
    BY <1>1, <1>8, <2>1 DEF map_entry
  <2>3. Holds(b, o1) /\ b.ram = b1.ram /\ b.panic = b1.panic
    BY <1>5, <1>7, <2>2, Returns
  <2>4. b1.ram[r] = Zeros
    BY <1>2, <1>5, <1>8, Numbers DEF NewTable
  <2> QED
    BY <1>7, <2>3, <2>4 DEF Bare, b
<1>9. CASE b1.ret # NULL
  <2> DEFINE c == b1.ret
  <2>1. /\ c \in Pages /\ c # r /\ b1.ram[c] = Zeros /\ o1[c].lev = 2
        /\ b1.ram[r] = [Zeros EXCEPT ![D2(n)] = word(c, {"V"})]
    BY <1>2, <1>5, <1>9 DEF NewTable
  <2>2. PICK o2 : /\ Holds(b2, o2) /\ Stay(b1, b2, o1, o2)
                  /\ b2.ret # NULL => b2.ret \in Pages
                  /\ NewTable(b1, b2, D1(n))
    <3>1. b1.ret \in Pages /\ o1[b1.ret].lev \in 2..3 /\ ~ valid(b1.ram[b1.ret][D1(n)])
      BY <1>3, <1>4, <2>1
    <3> QED
      BY <1>3, <1>5, <3>1, Descend
  <2> HIDE DEF b2
  <2>3. Shape(b2) /\ b2.panic = b1.panic
    BY <2>2 DEF Holds, Stay
  <2>4. in_ram(b2) = b2
    BY <2>2 DEF in_ram
  <2>5. b2.ret = NULL
    <3>1. SUFFICES ASSUME b2.ret # NULL
                   PROVE  FALSE
      OBVIOUS
    <3>2. entry(b2, va) = b2.ram[b2.ret][D0(n)]
      BY <1>1, <3>1 DEF entry
    <3>3. ~ valid(entry(b2, va))
      BY <1>3, <1>4, <2>2, <3>1, <3>2 DEF NewTable
    <3>4. b = [b2 EXCEPT !.ram[b2.ret][D0(n)] = w, !.ret = 0]
      BY <1>1, <2>4, <3>1, <3>3 DEF map_entry
    <3>5. b.ret = 0
      BY <2>3, <3>4 DEF Shape
    <3>6. b.ret = -1
      BY DEF b
    <3> QED
      BY <3>5, <3>6
  <2>6. b = return(b2, -1)
    BY <1>1, <2>4, <2>5 DEF map_entry
  <2>7. Holds(b, o2) /\ b.ram = b2.ram /\ b.panic = b1.panic
    BY <2>2, <2>3, <2>6, Returns
  <2>8. b2.ram = b1.ram
    BY <2>2, <2>5, Numbers DEF NewTable
  <2>9. o2[c].lev = 2
    <3>1. o1[c].lev \in 2..3
      BY <2>1
    <3> HIDE DEF c
    <3> QED
      BY <2>1, <2>2, <3>1 DEF Stay, Links
  <2>10. Stay(a, b2, o, o2)
    BY <1>6, <2>2, StayTwice
  <2>11. Bare(b.ram, o2, r, D2(n))
    <3> HIDE DEF c
    <3> QED
      BY <2>1, <2>7, <2>8, <2>9 DEF Bare
  <2>12. Keeps(a.ram, b.ram, o, o2) /\ SameMaps(a.ram, b.ram, o)
    BY <2>7, <2>10 DEF Stay
  <2> QED
    BY <1>7, <2>7, <2>11, <2>12 DEF b
<1> QED
  BY <1>8, <1>9

\* freewalk() of a last table, of one of the middle level and of a root.
FreeLast(a, t) == freetable(a, t, LAMBDA u, w : stop(u, "access_fault"))
FreeMid(a, t) == freetable(a, t, FreeLast)
FreeRoot(a, t) == freetable(a, t, FreeMid)

Empty(m, t) == \A i \in Words : ~ valid(m[t][i])

\* An empty table is just given back.
LEMMA MidEmpty ==
  ASSUME NEW a, NEW t \in Pages, Empty(a.ram, t)
  PROVE  FreeMid(a, t) = kfree(a, t)
<1> DEFINE n == WORDS
           entry_of(x, i, pte) ==
             IF valid(pte) /\ ~leaf(pte)
             THEN [FreeLast(x, pte.pa) EXCEPT !.ram[t][i] = word(NULL, {})]
             ELSE IF valid(pte) THEN stop(x, "freewalk") ELSE x
           round(x, i) == entry_of(x, i - 1, x.ram[t][i - 1])
           eq(f) == f = [i \in 0..n |-> IF i = 0 THEN a ELSE round(f[i - 1], i)]
           h == CHOOSE f : eq(f)
           T == [j \in 0..n |-> {a}]
<1>0. n \in Nat
  BY Numbers
<1>1. FreeMid(a, t) = kfree(Loop(round, a, WORDS), t)
  BY Zenon DEF FreeMid, freetable, PTE2PA
<1>2. Loop(round, a, WORDS) = h[n]
  BY DEF Loop
<1> HIDE DEF n
<1>3. ASSUME NEW i \in 1..n
      PROVE  round(a, i) = a
  <2>1. i - 1 \in Words
    BY <1>0 DEF Words, n
  <2> QED
    BY <2>1 DEF Empty
<1> HIDE DEF round
<1>4. eq([i \in 0..n |-> a])
  BY <1>0, <1>3
<1> HIDE DEF eq, h
<1>5. eq(h)
  BY <1>4 DEF h
<1>6. h[n] \in T[n]
  <2>1. h[0] = a /\ \A i \in 1..n : h[i] = round(h[i - 1], i)
    BY <1>0, <1>5 DEF eq
  <2>2. h[0] \in T[0] /\ \A i \in 1..n : h[i - 1] \in T[i - 1] => h[i] \in T[i]
    BY <1>0, <1>3, <2>1
  <2> HIDE DEF T
  <2> QED
    BY <1>0, <2>2, LoopStays
<1>7. h[n] = a
  BY <1>0, <1>6
<1> QED
  BY <1>1, <1>2, <1>7 DEF n

\* The root has no entry, or only entry i, which leads to c.
LEMMA RootEmpty ==
  ASSUME NEW a, NEW t \in Pages, Empty(a.ram, t)
  PROVE  FreeRoot(a, t) = kfree(a, t)
<1> DEFINE n == WORDS
           entry_of(x, i, pte) ==
             IF valid(pte) /\ ~leaf(pte)
             THEN [FreeMid(x, pte.pa) EXCEPT !.ram[t][i] = word(NULL, {})]
             ELSE IF valid(pte) THEN stop(x, "freewalk") ELSE x
           round(x, i) == entry_of(x, i - 1, x.ram[t][i - 1])
           eq(f) == f = [i \in 0..n |-> IF i = 0 THEN a ELSE round(f[i - 1], i)]
           h == CHOOSE f : eq(f)
           T == [j \in 0..n |-> {a}]
<1>0. n \in Nat
  BY Numbers
<1>1. FreeRoot(a, t) = kfree(Loop(round, a, WORDS), t)
  BY Zenon DEF FreeRoot, freetable, PTE2PA
<1>2. Loop(round, a, WORDS) = h[n]
  BY DEF Loop
<1> HIDE DEF n
<1>3. ASSUME NEW i \in 1..n
      PROVE  round(a, i) = a
  <2>1. i - 1 \in Words
    BY <1>0 DEF Words, n
  <2> QED
    BY <2>1 DEF Empty
<1> HIDE DEF round
<1>4. eq([i \in 0..n |-> a])
  BY <1>0, <1>3
<1> HIDE DEF eq, h
<1>5. eq(h)
  BY <1>4 DEF h
<1>6. h[n] \in T[n]
  <2>1. h[0] = a /\ \A i \in 1..n : h[i] = round(h[i - 1], i)
    BY <1>0, <1>5 DEF eq
  <2>2. h[0] \in T[0] /\ \A i \in 1..n : h[i - 1] \in T[i - 1] => h[i] \in T[i]
    BY <1>0, <1>3, <2>1
  <2> HIDE DEF T
  <2> QED
    BY <1>0, <2>2, LoopStays
<1>7. h[n] = a
  BY <1>0, <1>6
<1> QED
  BY <1>1, <1>2, <1>7 DEF n

\* The memory after the visit of the only entry.
Visited(a, t, i) == [FreeMid(a, a.ram[t][i].pa) EXCEPT !.ram[t][i] = word(NULL, {})]

\* freewalk() of a root with one branch frees the branch and then the root.
LEMMA RootOne ==
  ASSUME NEW a, NEW t \in Pages, NEW e \in Words, valid(a.ram[t][e]), ~ leaf(a.ram[t][e]),
         \A i \in Words : i # e => ~ valid(a.ram[t][i]),
         Empty(Visited(a, t, e).ram, t)
  PROVE  FreeRoot(a, t) = kfree(Visited(a, t, e), t)
<1> DEFINE n == WORDS
           b == Visited(a, t, e)
           entry_of(x, i, pte) ==
             IF valid(pte) /\ ~leaf(pte)
             THEN [FreeMid(x, pte.pa) EXCEPT !.ram[t][i] = word(NULL, {})]
             ELSE IF valid(pte) THEN stop(x, "freewalk") ELSE x
           round(x, i) == entry_of(x, i - 1, x.ram[t][i - 1])
           eq(f) == f = [i \in 0..n |-> IF i = 0 THEN a ELSE round(f[i - 1], i)]
           h == CHOOSE f : eq(f)
           g == [i \in 0..n |-> IF i <= e THEN a ELSE b]
           T == [j \in 0..n |-> {g[j]}]
<1>0. n \in Nat /\ e \in 0 .. n - 1
  BY Numbers DEF Words
<1>1. FreeRoot(a, t) = kfree(Loop(round, a, WORDS), t)
  BY Zenon DEF FreeRoot, freetable, PTE2PA
<1>2. Loop(round, a, WORDS) = h[n]
  BY DEF Loop
<1>3. ASSUME NEW i \in 1..n
      PROVE  round(g[i - 1], i) = g[i]
  <2>1. i - 1 \in Words /\ i - 1 \in 0..n /\ i \in 0..n
    BY <1>0 DEF Words
  <2> HIDE DEF n
  <2>2. CASE i - 1 < e
    <3>1. i - 1 # e /\ g[i - 1] = a /\ g[i] = a
      BY <1>0, <2>1, <2>2
    <3>2. ~ valid(a.ram[t][i - 1])
      BY <2>1, <3>1
    <3> HIDE DEF g
    <3> QED
      BY <3>1, <3>2
  <2>3. CASE i - 1 = e
    <3>1. g[i - 1] = a /\ g[i] = b
      BY <1>0, <2>1, <2>3
    <3>2. valid(a.ram[t][i - 1]) /\ ~ leaf(a.ram[t][i - 1])
      BY <2>3
    <3>3. b = [FreeMid(a, a.ram[t][i - 1].pa) EXCEPT !.ram[t][i - 1] = word(NULL, {})]
      BY <2>3 DEF Visited
    <3> HIDE DEF g, b
    <3> QED
      BY <3>1, <3>2, <3>3
  <2>4. CASE i - 1 > e
    <3>1. g[i - 1] = b /\ g[i] = b
      BY <1>0, <2>1, <2>4
    <3>2. ~ valid(b.ram[t][i - 1])
      BY <2>1 DEF Empty
    <3> HIDE DEF g, b
    <3> QED
      BY <3>1, <3>2
  <2>5. i - 1 < e \/ i - 1 = e \/ i - 1 > e
    BY <1>0
  <2> HIDE DEF round, g
  <2> QED
    BY <2>2, <2>3, <2>4, <2>5
<1> HIDE DEF n, b
<1>4. g = [i \in 0..n |-> IF i = 0 THEN a ELSE round(g[i - 1], i)]
  <2>1. g[0] = a
    BY <1>0
  <2>2. \A i \in 0..n : i = 0 \/ i \in 1..n
    BY <1>0
  <2> DEFINE s == [i \in 0..n |-> IF i = 0 THEN a ELSE round(g[i - 1], i)]
  <2>3. \A i \in 0..n : g[i] = s[i]
    <3> HIDE DEF g, round
    <3> QED
      BY <1>3, <2>1, <2>2
  <2> HIDE DEF round
  <2> QED
    BY <2>3
<1>5. g[n] = b /\ g[0] = a
  BY <1>0
<1> HIDE DEF round, g
<1>6. eq(h)
  <2>1. eq(g)
    BY <1>4
  <2> HIDE DEF eq
  <2> QED
    BY <2>1 DEF h
<1> HIDE DEF h
<1>7. h[n] \in T[n]
  <2>1. h[0] = a /\ \A i \in 1..n : h[i] = round(h[i - 1], i)
    BY <1>0, <1>6 DEF eq
  <2>2. h[0] \in T[0] /\ \A i \in 1..n : h[i - 1] \in T[i - 1] => h[i] \in T[i]
    BY <1>0, <1>3, <1>5, <2>1
  <2> HIDE DEF T
  <2> QED
    BY <1>0, <2>2, LoopStays
<1>8. h[n] = b
  BY <1>0, <1>5, <1>7
<1> QED
  BY <1>1, <1>2, <1>8 DEF n, b

\* Tables that no other table leads to are pages that somebody holds.
LEMMA Cut ==
  ASSUME NEW f, NEW m, NEW o, Forest(f, m, o), NEW C \in SUBSET Pages,
         \A q \in C : o[q].lev \in 1..3,
         \A q \in Pages \ C, j \in Words :
           o[q].lev \in 2..3 /\ valid(m[q][j]) => m[q][j].pa \notin C
  PROVE  \E o1 : /\ Forest(f, m, o1)
                 /\ \A q \in Pages : IF q \in C THEN o1[q] = Held(NoTag) ELSE o1[q] = o[q]
<1> DEFINE o1 == [q \in Pages |-> IF q \in C THEN Held(NoTag) ELSE o[q]]
<1>1. Typed(f, m, o) /\ FreeOK(f, m, o) /\ Down(m, o)
  BY DEF Forest
<1>2. Held(NoTag) \in Use /\ Held(NoTag).lev = 0
  BY Uses
<1>3. /\ o1 \in [Pages -> Use]
      /\ \A q \in Pages : IF q \in C THEN o1[q] = Held(NoTag) ELSE o1[q] = o[q]
  BY <1>1, <1>2 DEF Typed
<1> HIDE DEF o1
<1>4. Typed(f, m, o1)
  BY <1>1, <1>3 DEF Typed
<1>5. FreeOK(f, m, o1)
  <2>1. \A q \in Pages : o1[q].lev = 4 \/ o[q].lev = 4 => o1[q] = o[q]
    BY <1>2, <1>3
  <2>2. f # NULL => f \in Pages
    BY <1>1 DEF Typed
  <2> QED
    BY <1>1, <2>1, <2>2 DEF FreeOK
<1>6. Down(m, o1)
  <2> SUFFICES ASSUME NEW q \in Pages, NEW j \in Words, o1[q].lev \in 2..3, valid(m[q][j])
               PROVE  Leads(m, o1, q, j)
    BY DEF Down
  <2>1. q \notin C /\ o1[q] = o[q]
    BY <1>2, <1>3
  <2>2. Leads(m, o, q, j) /\ m[q][j].pa \notin C
    BY <1>1, <2>1 DEF Down
  <2> QED
    BY <1>3, <2>1, <2>2 DEF Leads
<1>7. Forest(f, m, o1)
  BY <1>4, <1>5, <1>6 DEF Forest
<1> QED
  BY <1>3, <1>7

\* The table and its page of the middle level go back to the list; what is left of
\* the table are the bytes of kfree().
Buried(a, b, o, o1, r) ==
  /\ Holds(b, o1) /\ b.panic = a.panic
  /\ \A q \in Pages : o[q].lev = 0 => o1[q] = o[q] /\ b.ram[q] = a.ram[q]
  /\ \A q \in Pages \ {r} : o[q].lev = 3 => o1[q] = o[q] /\ SameMap(a.ram, b.ram, q)
  /\ \A j \in Words : j # 0 => b.ram[r][j] = word(Wild, {"V"})

\* What kfree() leaves in the page: entries that look valid and lead out of RAM.
LEMMA KfreeLeaves ==
  ASSUME NEW a, NEW b, NEW o, NEW o1, NEW t \in Pages, Holds(a, o), Given(a, b, o, o1, t)
  PROVE  /\ \A q \in Pages \ {t} : b.ram[q] = a.ram[q]
         /\ \A j \in Words : j # 0 => b.ram[t][j] = word(Wild, {"V"})
<1>1. a.ram \in [Pages -> Content]
  BY DEF Holds, Forest, Typed
<1>2. Ones = [j \in Words |-> word(Wild, {"V"})]
  BY DEF Ones, Page
<1> QED
  BY <1>1, <1>2 DEF Given

\* freewalk() of such a table gives all of its pages back, and the root is filled with wild entries.
LEMMA BareFreed ==
  ASSUME NEW a, NEW o, Holds(a, o), NEW r \in Pages, o[r].lev = 3, NEW e \in Words,
         Bare(a.ram, o, r, e)
  PROVE  \E o1 : Buried(a, FreeRoot(a, r), o, o1, r)
<1> DEFINE b == FreeRoot(a, r)
<1>1. Shape(a) /\ Forest(a.freelist, a.ram, o) /\ Down(a.ram, o) /\ Typed(a.freelist, a.ram, o)
  BY DEF Holds, Forest
<1>2. \A i \in Words : Zeros[i] = word(NULL, {}) /\ ~ valid(Zeros[i])
  BY PageTypes
<1>3. Held(NoTag).lev = 0
  BY Uses
<1>4. CASE a.ram[r] = Zeros
  <2>1. Empty(a.ram, r)
    BY <1>2, <1>4 DEF Empty
  <2>2. b = kfree(a, r)
    BY <2>1, RootEmpty
  <2> HIDE DEF b
  <2>3. PICK o1 : /\ Forest(a.freelist, a.ram, o1)
                  /\ \A q \in Pages : IF q \in {r} THEN o1[q] = Held(NoTag) ELSE o1[q] = o[q]
    <3>1. \A q \in Pages \ {r}, j \in Words :
            o[q].lev \in 2..3 /\ valid(a.ram[q][j]) => a.ram[q][j].pa \notin {r}
      BY <1>1 DEF Down, Leads
    <3>2. {r} \in SUBSET Pages /\ \A q \in {r} : o[q].lev \in 1..3
      OBVIOUS
    <3> DEFINE C == {r}
    <3> HIDE DEF C
    <3>3. \E o1 : /\ Forest(a.freelist, a.ram, o1)
                  /\ \A q \in Pages : IF q \in C THEN o1[q] = Held(NoTag) ELSE o1[q] = o[q]
      <4>1. /\ C \in SUBSET Pages /\ \A q \in C : o[q].lev \in 1..3
            /\ \A q \in Pages \ C, j \in Words :
                 o[q].lev \in 2..3 /\ valid(a.ram[q][j]) => a.ram[q][j].pa \notin C
        BY <3>1, <3>2 DEF C
      <4> QED
        BY <1>1, <4>1, Cut
    <3> QED
      BY <3>3 DEF C
  <2>4. Holds(a, o1) /\ o1[r].lev = 0
    BY <1>1, <1>3, <2>3 DEF Holds
  <2>5. PICK o2 : Given(a, b, o1, o2, r)
    BY <2>2, <2>4, Kfree
  <2>6. /\ \A q \in Pages \ {r} : b.ram[q] = a.ram[q]
        /\ \A j \in Words : j # 0 => b.ram[r][j] = word(Wild, {"V"})
    BY <2>4, <2>5, KfreeLeaves
  <2>7. /\ Holds(b, o2) /\ b.panic = a.panic
        /\ \A q \in Pages \ {r} : o2[q] = o[q]
    BY <2>3, <2>5 DEF Given
  <2>8. SameMaps(a.ram, b.ram, o1)
    <3>1. \A q \in Pages : o1[q].lev \in 1..3 => b.ram[q] = a.ram[q]
      BY <2>4, <2>6
    <3> QED
      BY <2>3, <3>1, Untouched
  <2>9. \A q \in Pages \ {r} : o[q].lev = 3 => SameMap(a.ram, b.ram, q)
    BY <2>3, <2>8 DEF SameMaps
  <2>10. Buried(a, b, o, o2, r)
    BY <2>6, <2>7, <2>9 DEF Buried
  <2> QED
    BY <2>10 DEF b
<1>5. CASE a.ram[r] # Zeros
  <2>1. PICK c \in Pages : /\ c # r /\ a.ram[c] = Zeros /\ o[c].lev = 2
                           /\ a.ram[r] = [Zeros EXCEPT ![e] = word(c, {"V"})]
    BY <1>5 DEF Bare
  <2> DEFINE w == word(c, {"V"})
             C == {r, c}
             x == kfree(a, c)
             y == Visited(a, r, e)
  <2>2. w.pa = c /\ valid(w) /\ ~ leaf(w)
    BY TableWord
  <2> HIDE DEF w
  <2>3. a.ram[r][e] = w /\ \A i \in Words : i # e => ~ valid(a.ram[r][i])
    <3>1. Zeros \in Content
      BY PageTypes
    <3> QED
      BY <1>2, <2>1, <3>1 DEF Content, w
  <2>4. PICK o1 : /\ Forest(a.freelist, a.ram, o1)
                  /\ \A q \in Pages : IF q \in C THEN o1[q] = Held(NoTag) ELSE o1[q] = o[q]
    <3>1. Leads(a.ram, o, r, e)
      BY <1>1, <2>2, <2>3 DEF Down
    <3>2. o[c].tab = r
      BY <2>2, <2>3, <3>1 DEF Leads
    <3>3. ASSUME NEW q \in Pages \ C, NEW j \in Words, o[q].lev \in 2..3, valid(a.ram[q][j])
          PROVE  a.ram[q][j].pa \notin C
      <4>1. Leads(a.ram, o, q, j)
        BY <1>1, <3>3 DEF Down
      <4> QED
        BY <3>2, <3>3, <4>1 DEF Leads
    <3>4. C \in SUBSET Pages /\ \A q \in C : o[q].lev \in 1..3
      BY <2>1
    <3> HIDE DEF C
    <3> QED
      BY <1>1, <3>3, <3>4, Cut
  <2>5. Holds(a, o1) /\ o1[r].lev = 0 /\ o1[c].lev = 0
    BY <1>1, <1>3, <2>1, <2>4 DEF Holds
  <2>6. FreeMid(a, c) = x
    <3>1. Empty(a.ram, c)
      BY <1>2, <2>1 DEF Empty
    <3> QED
      BY <3>1, MidEmpty
  <2> HIDE DEF x
  <2>7. PICK o2 : Given(a, x, o1, o2, c)
    BY <2>1, <2>5, Kfree DEF x
  <2>8. \A q \in Pages \ {c} : x.ram[q] = a.ram[q]
    BY <2>1, <2>5, <2>7, KfreeLeaves
  <2>9. /\ Holds(x, o2) /\ x.panic = a.panic /\ o2[r].lev = 0
        /\ \A q \in Pages \ C : o2[q] = o[q]
    BY <2>1, <2>4, <2>5, <2>7 DEF Given
  <2> DEFINE u == [x.ram[r] EXCEPT ![e] = word(NULL, {})]
             z == [x EXCEPT !.ram[r] = u]
  <2>10. y = z
    <3>1. y = [x EXCEPT !.ram[r][e] = word(NULL, {})]
      BY <2>2, <2>3, <2>6 DEF Visited
    <3> QED
      BY <3>1
  <2>11. x.ram[r] \in Content /\ x.ram \in [Pages -> Content]
    BY <2>9 DEF Holds, Forest, Typed
  <2>12. u \in Content /\ \A j \in Words : ~ valid(u[j])
    <3>1. word(NULL, {}) \in Word /\ ~ valid(word(NULL, {}))
      BY PageTypes
    <3>2. u \in Content /\ u[e] = word(NULL, {})
      BY <2>11, <3>1 DEF Content
    <3>3. \A j \in Words : j # e => u[j] = a.ram[r][j]
      BY <2>1, <2>8, <2>11 DEF Content
    <3> HIDE DEF u
    <3> QED
      BY <2>3, <3>1, <3>2, <3>3
  <2> HIDE DEF u
  <2> HIDE DEF z, y
  <2>13. Holds(z, o2) /\ z.panic = x.panic /\ z.ram = [x.ram EXCEPT ![r] = u]
    <3>1. Filled(x, z, o2, r, u)
      BY <2>9, <2>12, Fill DEF z
    <3> QED
      BY <3>1 DEF Filled
  <2>14. /\ z.ram[r] = u /\ \A q \in Pages \ {r} : z.ram[q] = x.ram[q]
    BY <2>11, <2>13
  <2>15. Empty(z.ram, r)
    BY <2>12, <2>14 DEF Empty
  <2>16. b = kfree(z, r)
    <3>1. Visited(a, r, e) = z
      BY <2>10 DEF y
    <3>2. FreeRoot(a, r) = kfree(Visited(a, r, e), r)
      BY <2>2, <2>3, <2>15, <3>1, RootOne
    <3> QED
      BY <3>1, <3>2
  <2> HIDE DEF b
  <2>17. PICK o3 : Given(z, b, o2, o3, r)
    BY <2>9, <2>13, <2>16, Kfree
  <2>18. /\ \A q \in Pages \ {r} : b.ram[q] = z.ram[q]
         /\ \A j \in Words : j # 0 => b.ram[r][j] = word(Wild, {"V"})
    <3>1. Holds(z, o2)
      BY <2>13
    <3> QED
      BY <2>17, <3>1, KfreeLeaves
  <2>19. Holds(b, o3) /\ b.panic = a.panic /\ \A q \in Pages \ C : o3[q] = o[q]
    BY <2>9, <2>13, <2>17 DEF Given
  <2>20. \A q \in Pages \ C : b.ram[q] = a.ram[q]
    BY <2>8, <2>14, <2>18
  <2>21. SameMaps(a.ram, b.ram, o1)
    <3>1. \A q \in Pages : o1[q].lev \in 1..3 => b.ram[q] = a.ram[q]
      BY <1>3, <2>4, <2>20
    <3> HIDE DEF C
    <3> QED
      BY <2>4, <3>1, Untouched
  <2>22. \A q \in Pages \ {r} : o[q].lev = 3 => q \notin C /\ SameMap(a.ram, b.ram, q)
    BY <2>1, <2>4, <2>21 DEF SameMaps
  <2>23. \A q \in Pages : o[q].lev = 0 => q \notin C
    BY <2>1
  <2> HIDE DEF C
  <2>24. Buried(a, b, o, o3, r)
    BY <2>18, <2>19, <2>20, <2>22, <2>23 DEF Buried
  <2> QED
    BY <2>24 DEF b
<1> QED
  BY <1>4, <1>5

------------------------------------------------------------------------------
(* What the kernel does with such a table until it stops for good          *)

\* After the panic only the types count.
Frozen == [freelist : Pages \cup {NULL}, ram : [Pages -> Content], ret : Int,
           panic : {"access_fault"}]

\* A PANIC() after an access fault changes nothing but the message.
LEMMA FrozenStop ==
  ASSUME NEW a \in Frozen, NEW why
  PROVE  stop(a, why) \in Frozen
BY DEF stop, Frozen

\* kfree() of any page, or of none, keeps the types of memory after an access fault.
LEMMA FrozenKfree ==
  ASSUME NEW a \in Frozen, NEW t
  PROVE  kfree(a, t) \in Frozen
<1>1. CASE t \in Pages
  <2> DEFINE c == [Ones EXCEPT ![0] = word(a.freelist, {})]
             b == kfree(a, t)
  <2>1. /\ a.freelist \in Int /\ a.ram \in [Pages -> Content] /\ a.ret \in Int
        /\ a.panic = "access_fault"
        /\ a = [freelist |-> a.freelist, ram |-> a.ram, ret |-> a.ret, panic |-> a.panic]
    BY Addresses DEF Frozen
  <2>2. c \in Content
    BY <2>1, Numbers, PageTypes DEF Content, Word, word
  <2>3. b = [freelist |-> t, ram |-> [a.ram EXCEPT ![t] = c], ret |-> a.ret, panic |-> a.panic]
    BY <1>1, <2>1 DEF kfree
  <2> HIDE DEF c, b
  <2>4. [a.ram EXCEPT ![t] = c] \in [Pages -> Content]
    BY <2>1, <2>2
  <2>5. b \in Frozen
    BY <1>1, <2>1, <2>3, <2>4 DEF Frozen
  <2> QED
    BY <2>5 DEF b
<1>2. CASE t \notin Pages
  BY <1>2, FrozenStop DEF kfree
<1> QED
  BY <1>1, <1>2

\* freewalk() takes an entry out of a table.
Forgotten(x, t, i) == [x EXCEPT !.ram[t][i] = word(NULL, {})]

\* So does an entry set to 0.
LEMMA FrozenWord ==
  ASSUME NEW a \in Frozen, NEW t \in Pages, NEW i \in Words
  PROVE  Forgotten(a, t, i) \in Frozen
<1> DEFINE b == Forgotten(a, t, i)
<1>1. /\ a.freelist \in Pages \cup {NULL} /\ a.ram \in [Pages -> Content] /\ a.ret \in Int
      /\ a.panic = "access_fault"
      /\ a = [freelist |-> a.freelist, ram |-> a.ram, ret |-> a.ret, panic |-> a.panic]
  BY DEF Frozen
<1> DEFINE c == [a.ram[t] EXCEPT ![i] = word(NULL, {})]
<1>2. c \in Content
  <2>1. word(NULL, {}) \in Word /\ a.ram[t] \in Content
    BY <1>1, PageTypes
  <2> QED
    BY <2>1 DEF Content
<1>3. b = [freelist |-> a.freelist, ram |-> [a.ram EXCEPT ![t] = c], ret |-> a.ret,
           panic |-> a.panic]
  BY <1>1 DEF Forgotten
<1> HIDE DEF c, b
<1>4. [a.ram EXCEPT ![t] = c] \in [Pages -> Content]
  BY <1>1, <1>2
<1>5. b \in Frozen
  BY <1>1, <1>3, <1>4 DEF Frozen
<1> QED
  BY <1>5 DEF b

\* freewalk() of anything keeps them.
LEMMA LastFrozen ==
  ASSUME NEW a \in Frozen, NEW t
  PROVE  FreeLast(a, t) \in Frozen
<1> DEFINE n == WORDS
           step(x, i) ==
             IF valid(x.ram[t][i]) /\ ~leaf(x.ram[t][i])
             THEN Forgotten(stop(x, "access_fault"), t, i)
             ELSE IF valid(x.ram[t][i]) THEN stop(x, "freewalk") ELSE x
           entry_of(x, i, pte) ==
             IF valid(pte) /\ ~leaf(pte)
             THEN [stop(x, "access_fault") EXCEPT !.ram[t][i] = word(NULL, {})]
             ELSE IF valid(pte) THEN stop(x, "freewalk") ELSE x
           round(x, i) == entry_of(x, i - 1, x.ram[t][i - 1])
           T == [j \in 0..n |-> Frozen]
           R == [y \in (1..n) \X Frozen |-> step(y[2], y[1] - 1)]
           eq(f) == f = [i \in 0..n |-> IF i = 0 THEN a ELSE round(f[i - 1], i)]
           h == CHOOSE f : eq(f)
<1>0. n \in Nat
  BY Numbers
<1>1. CASE t \notin Pages
  <2>1. FreeLast(a, t) = stop(a, "access_fault")
    BY <1>1, Zenon DEF FreeLast, freetable
  <2> QED
    BY <2>1, FrozenStop
<1>2. CASE t \in Pages
  <2>1. FreeLast(a, t) = kfree(Loop(round, a, WORDS), t)
    BY <1>2, Zenon DEF FreeLast, freetable, PTE2PA
  <2>2. Loop(round, a, WORDS) = h[n]
    BY DEF Loop
  <2> HIDE DEF n
  <2>3. ASSUME NEW i, NEW x
        PROVE  round(x, i) = step(x, i - 1)
    BY DEF Forgotten
  <2>4. ASSUME NEW i \in 1..n, NEW x \in Frozen
        PROVE  step(x, i - 1) \in Frozen
    <3>1. i - 1 \in Words
      BY <1>0 DEF Words, n
    <3>2. stop(x, "access_fault") \in Frozen
      BY FrozenStop
    <3>3. Forgotten(stop(x, "access_fault"), t, i - 1) \in Frozen
      BY <1>2, <3>1, <3>2, FrozenWord
    <3>4. stop(x, "freewalk") \in Frozen
      BY FrozenStop
    <3> QED
      BY <3>3, <3>4
  <2>5. \A i \in 0..n : T[i] = Frozen
    OBVIOUS
  <2> HIDE DEF T, step, round
  <2>6. \A i \in 1..n : \A x \in Frozen : R[<<i, x>>] = step(x, i - 1)
    BY <1>0
  <2> HIDE DEF R, h, eq
  <2>7. PICK f : Path(n, T, a, R, f)
    <3>1. Leading(n, T, R)
      <4>1. ASSUME NEW i \in 1..n, NEW x \in T[i - 1]
            PROVE  R[<<i, x>>] \in T[i]
        <5>1. i - 1 \in 0..n /\ i \in 0..n
          BY <1>0
        <5>2. x \in Frozen /\ T[i] = Frozen
          BY <2>5, <5>1
        <5> QED
          BY <2>4, <2>6, <5>2
      <4> QED
        BY <4>1 DEF Leading
    <3>2. a \in T[0]
      BY <1>0, <2>5
    <3> QED
      BY <1>0, <3>1, <3>2, LoopExists
  <2>8. eq(f)
    <3>1. ASSUME NEW i \in 1..n
          PROVE  R[<<i, f[i - 1]>>] = round(f[i - 1], i)
      BY <1>0, <2>3, <2>5, <2>6, <2>7 DEF Path
    <3>2. f = [i \in 0..n |-> IF i = 0 THEN a ELSE round(f[i - 1], i)]
      <4>1. f = [i \in 0..n |-> IF i = 0 THEN a ELSE R[<<i, f[i - 1]>>]]
        BY <2>7 DEF Path
      <4>2. \A i \in 0..n : i = 0 \/ R[<<i, f[i - 1]>>] = round(f[i - 1], i)
        BY <1>0, <3>1
      <4> QED
        BY <4>1, <4>2
    <3> QED
      BY <3>2 DEF eq
  <2>9. eq(h)
    BY <2>8 DEF h
  <2>10. h[n] \in T[n]
    <3>1. h[0] = a /\ \A i \in 1..n : h[i] = round(h[i - 1], i)
      BY <1>0, <2>9 DEF eq
    <3>2. \A i \in 1..n : h[i - 1] \in T[i - 1] => h[i] \in T[i]
      BY <1>0, <2>3, <2>4, <2>5, <3>1
    <3>3. h[0] \in T[0]
      BY <1>0, <2>5, <3>1
    <3> QED
      BY <1>0, <3>1, <3>2, <3>3, LoopStays
  <2>11. h[n] \in Frozen
    BY <1>0, <2>5, <2>10
  <2> QED
    BY <2>1, <2>2, <2>11, FrozenKfree DEF n
<1> QED
  BY <1>1, <1>2

\* So does freewalk() one level up, whatever the entries look like.
LEMMA MidFrozen ==
  ASSUME NEW a \in Frozen, NEW t
  PROVE  FreeMid(a, t) \in Frozen
<1> DEFINE n == WORDS
           step(x, i) ==
             IF valid(x.ram[t][i]) /\ ~leaf(x.ram[t][i])
             THEN Forgotten(FreeLast(x, x.ram[t][i].pa), t, i)
             ELSE IF valid(x.ram[t][i]) THEN stop(x, "freewalk") ELSE x
           entry_of(x, i, pte) ==
             IF valid(pte) /\ ~leaf(pte)
             THEN [FreeLast(x, pte.pa) EXCEPT !.ram[t][i] = word(NULL, {})]
             ELSE IF valid(pte) THEN stop(x, "freewalk") ELSE x
           round(x, i) == entry_of(x, i - 1, x.ram[t][i - 1])
           T == [j \in 0..n |-> Frozen]
           R == [y \in (1..n) \X Frozen |-> step(y[2], y[1] - 1)]
           eq(f) == f = [i \in 0..n |-> IF i = 0 THEN a ELSE round(f[i - 1], i)]
           h == CHOOSE f : eq(f)
<1>0. n \in Nat
  BY Numbers
<1>1. CASE t \notin Pages
  <2>1. FreeMid(a, t) = stop(a, "access_fault")
    BY <1>1, Zenon DEF FreeMid, freetable
  <2> QED
    BY <2>1, FrozenStop
<1>2. CASE t \in Pages
  <2>1. FreeMid(a, t) = kfree(Loop(round, a, WORDS), t)
    BY <1>2, Zenon DEF FreeMid, freetable, PTE2PA
  <2>2. Loop(round, a, WORDS) = h[n]
    BY DEF Loop
  <2> HIDE DEF n
  <2>3. ASSUME NEW i, NEW x
        PROVE  round(x, i) = step(x, i - 1)
    BY DEF Forgotten
  <2>4. ASSUME NEW i \in 1..n, NEW x \in Frozen
        PROVE  step(x, i - 1) \in Frozen
    <3>1. i - 1 \in Words
      BY <1>0 DEF Words, n
    <3>2. FreeLast(x, x.ram[t][i - 1].pa) \in Frozen
      BY LastFrozen
    <3>3. Forgotten(FreeLast(x, x.ram[t][i - 1].pa), t, i - 1) \in Frozen
      BY <1>2, <3>1, <3>2, FrozenWord
    <3>4. stop(x, "freewalk") \in Frozen
      BY FrozenStop
    <3> QED
      BY <3>3, <3>4
  <2>5. \A i \in 0..n : T[i] = Frozen
    OBVIOUS
  <2> HIDE DEF T, step, round
  <2>6. \A i \in 1..n : \A x \in Frozen : R[<<i, x>>] = step(x, i - 1)
    BY <1>0
  <2> HIDE DEF R, h, eq
  <2>7. PICK f : Path(n, T, a, R, f)
    <3>1. Leading(n, T, R)
      <4>1. ASSUME NEW i \in 1..n, NEW x \in T[i - 1]
            PROVE  R[<<i, x>>] \in T[i]
        <5>1. i - 1 \in 0..n /\ i \in 0..n
          BY <1>0
        <5>2. x \in Frozen /\ T[i] = Frozen
          BY <2>5, <5>1
        <5> QED
          BY <2>4, <2>6, <5>2
      <4> QED
        BY <4>1 DEF Leading
    <3>2. a \in T[0]
      BY <1>0, <2>5
    <3> QED
      BY <1>0, <3>1, <3>2, LoopExists
  <2>8. eq(f)
    <3>1. ASSUME NEW i \in 1..n
          PROVE  R[<<i, f[i - 1]>>] = round(f[i - 1], i)
      BY <1>0, <2>3, <2>5, <2>6, <2>7 DEF Path
    <3>2. f = [i \in 0..n |-> IF i = 0 THEN a ELSE round(f[i - 1], i)]
      <4>1. f = [i \in 0..n |-> IF i = 0 THEN a ELSE R[<<i, f[i - 1]>>]]
        BY <2>7 DEF Path
      <4>2. \A i \in 0..n : i = 0 \/ R[<<i, f[i - 1]>>] = round(f[i - 1], i)
        BY <1>0, <3>1
      <4> QED
        BY <4>1, <4>2
    <3> QED
      BY <3>2 DEF eq
  <2>9. eq(h)
    BY <2>8 DEF h
  <2>10. h[n] \in T[n]
    <3>1. h[0] = a /\ \A i \in 1..n : h[i] = round(h[i - 1], i)
      BY <1>0, <2>9 DEF eq
    <3>2. \A i \in 1..n : h[i - 1] \in T[i - 1] => h[i] \in T[i]
      BY <1>0, <2>3, <2>4, <2>5, <3>1
    <3>3. h[0] \in T[0]
      BY <1>0, <2>5, <3>1
    <3> QED
      BY <1>0, <3>1, <3>2, <3>3, LoopStays
  <2>11. h[n] \in Frozen
    BY <1>0, <2>5, <2>10
  <2> QED
    BY <2>1, <2>2, <2>11, FrozenKfree DEF n
<1> QED
  BY <1>1, <1>2

\* So does freewalk() of a root.
LEMMA RootFrozen ==
  ASSUME NEW a \in Frozen, NEW t
  PROVE  FreeRoot(a, t) \in Frozen
<1> DEFINE n == WORDS
           step(x, i) ==
             IF valid(x.ram[t][i]) /\ ~leaf(x.ram[t][i])
             THEN Forgotten(FreeMid(x, x.ram[t][i].pa), t, i)
             ELSE IF valid(x.ram[t][i]) THEN stop(x, "freewalk") ELSE x
           entry_of(x, i, pte) ==
             IF valid(pte) /\ ~leaf(pte)
             THEN [FreeMid(x, pte.pa) EXCEPT !.ram[t][i] = word(NULL, {})]
             ELSE IF valid(pte) THEN stop(x, "freewalk") ELSE x
           round(x, i) == entry_of(x, i - 1, x.ram[t][i - 1])
           T == [j \in 0..n |-> Frozen]
           R == [y \in (1..n) \X Frozen |-> step(y[2], y[1] - 1)]
           eq(f) == f = [i \in 0..n |-> IF i = 0 THEN a ELSE round(f[i - 1], i)]
           h == CHOOSE f : eq(f)
<1>0. n \in Nat
  BY Numbers
<1>1. CASE t \notin Pages
  <2>1. FreeRoot(a, t) = stop(a, "access_fault")
    BY <1>1, Zenon DEF FreeRoot, freetable
  <2> QED
    BY <2>1, FrozenStop
<1>2. CASE t \in Pages
  <2>1. FreeRoot(a, t) = kfree(Loop(round, a, WORDS), t)
    BY <1>2, Zenon DEF FreeRoot, freetable, PTE2PA
  <2>2. Loop(round, a, WORDS) = h[n]
    BY DEF Loop
  <2> HIDE DEF n
  <2>3. ASSUME NEW i, NEW x
        PROVE  round(x, i) = step(x, i - 1)
    BY DEF Forgotten
  <2>4. ASSUME NEW i \in 1..n, NEW x \in Frozen
        PROVE  step(x, i - 1) \in Frozen
    <3>1. i - 1 \in Words
      BY <1>0 DEF Words, n
    <3>2. FreeMid(x, x.ram[t][i - 1].pa) \in Frozen
      BY MidFrozen
    <3>3. Forgotten(FreeMid(x, x.ram[t][i - 1].pa), t, i - 1) \in Frozen
      BY <1>2, <3>1, <3>2, FrozenWord
    <3>4. stop(x, "freewalk") \in Frozen
      BY FrozenStop
    <3> QED
      BY <3>3, <3>4
  <2>5. \A i \in 0..n : T[i] = Frozen
    OBVIOUS
  <2> HIDE DEF T, step, round
  <2>6. \A i \in 1..n : \A x \in Frozen : R[<<i, x>>] = step(x, i - 1)
    BY <1>0
  <2> HIDE DEF R, h, eq
  <2>7. PICK f : Path(n, T, a, R, f)
    <3>1. Leading(n, T, R)
      <4>1. ASSUME NEW i \in 1..n, NEW x \in T[i - 1]
            PROVE  R[<<i, x>>] \in T[i]
        <5>1. i - 1 \in 0..n /\ i \in 0..n
          BY <1>0
        <5>2. x \in Frozen /\ T[i] = Frozen
          BY <2>5, <5>1
        <5> QED
          BY <2>4, <2>6, <5>2
      <4> QED
        BY <4>1 DEF Leading
    <3>2. a \in T[0]
      BY <1>0, <2>5
    <3> QED
      BY <1>0, <3>1, <3>2, LoopExists
  <2>8. eq(f)
    <3>1. ASSUME NEW i \in 1..n
          PROVE  R[<<i, f[i - 1]>>] = round(f[i - 1], i)
      BY <1>0, <2>3, <2>5, <2>6, <2>7 DEF Path
    <3>2. f = [i \in 0..n |-> IF i = 0 THEN a ELSE round(f[i - 1], i)]
      <4>1. f = [i \in 0..n |-> IF i = 0 THEN a ELSE R[<<i, f[i - 1]>>]]
        BY <2>7 DEF Path
      <4>2. \A i \in 0..n : i = 0 \/ R[<<i, f[i - 1]>>] = round(f[i - 1], i)
        BY <1>0, <3>1
      <4> QED
        BY <4>1, <4>2
    <3> QED
      BY <3>2 DEF eq
  <2>9. eq(h)
    BY <2>8 DEF h
  <2>10. h[n] \in T[n]
    <3>1. h[0] = a /\ \A i \in 1..n : h[i] = round(h[i - 1], i)
      BY <1>0, <2>9 DEF eq
    <3>2. \A i \in 1..n : h[i - 1] \in T[i - 1] => h[i] \in T[i]
      BY <1>0, <2>3, <2>4, <2>5, <3>1
    <3>3. h[0] \in T[0]
      BY <1>0, <2>5, <3>1
    <3> QED
      BY <1>0, <3>1, <3>2, <3>3, LoopStays
  <2>11. h[n] \in Frozen
    BY <1>0, <2>5, <2>10
  <2> QED
    BY <2>1, <2>2, <2>11, FrozenKfree DEF n
<1> QED
  BY <1>1, <1>2

\* A walk in a table that kfree() has filled stops the kernel.
LEMMA WildWalk ==
  ASSUME NEW a, Shape(a), NEW t \in Pages, NEW n \in Vpns, a.ram[t][D2(n)] = word(Wild, {"V"}),
         NEW alloc
  PROVE  walk(a, t, n * PGSIZE, alloc) = return(stop(a, "access_fault"), NULL)
<1> DEFINE va == n * PGSIZE
           b0 == return(a, t)
           b1 == descend(b0, D2(n), alloc)
           b2 == descend(b1, D1(n), alloc)
           e == return(stop(a, "access_fault"), NULL)
<1>1. walk(a, t, va, alloc) = in_ram(b2)
  <2>1. ~ (va >= MAXVA) /\ PX(1, va) = D1(n) /\ PX(2, va) = D2(n)
    BY VpnsAre, TopIs
  <2> HIDE DEF va
  <2> QED
    BY <2>1 DEF walk
<1>2. b0.ret = t /\ b0.ram = a.ram /\ Shape(b0) /\ b0.panic = a.panic /\ b0.freelist = a.freelist
  BY Returns
<1>3. Wild # NULL /\ Wild \notin Pages /\ t # NULL
  BY Numbers, MemoryAssumption DEF Wild, NULL, Pages
<1> HIDE DEF b0
<1>4. b1 = return(b0, Wild)
  <2>1. valid(b0.ram[t][D2(n)]) /\ PTE2PA(b0.ram[t][D2(n)]) = Wild
    BY <1>2 DEF valid, PTE2PA, word
  <2> QED
    BY <1>2, <1>3, <2>1 DEF descend
<1>5. b1.ret = Wild /\ Shape(b1) /\ b1.ram = a.ram /\ b1.panic = a.panic
      /\ b1.freelist = a.freelist
  BY <1>2, <1>4, Returns
<1> HIDE DEF b1
<1>6. b2 = return(stop(b1, "access_fault"), NULL)
  BY <1>3, <1>5 DEF descend
<1>7. b2 = e
  BY <1>5, <1>6 DEF return, stop, Shape
<1>8. e.ret = NULL
  <2>1. Shape(stop(a, "access_fault"))
    BY DEF stop, Shape
  <2> QED
    BY <2>1, Returns
<1> HIDE DEF b2, e
<1>9. in_ram(b2) = e
  BY <1>7, <1>8 DEF in_ram
<1> QED
  BY <1>1, <1>9 DEF e

\* proc_born() goes on with such a table: the kernel stops, and no more than that.
LEMMA WildMap ==
  ASSUME NEW a, Shape(a), a.freelist \in Pages \cup {NULL}, a.ram \in [Pages -> Content],
         a.panic = "none", NEW t \in Pages,
         \A j \in Words : j # 0 => a.ram[t][j] = word(Wild, {"V"}),
         NEW n \in Vpns, D2(n) # 0, NEW u \in Vpns, D2(u) # 0, NEW c \in Int, NEW perm
  PROVE  LET b == mappages(a, t, n * PGSIZE, PGSIZE, c, perm)
         IN  b.ret = -1 /\ uvmfree(uvmunmap(b, t, u * PGSIZE, 1, FALSE), t, 0) \in Frozen
<1> DEFINE b == mappages(a, t, n * PGSIZE, PGSIZE, c, perm)
           a0 == return(a, 0)
           w == Walked(a0, t, n * PGSIZE)
           d == uvmunmap(b, t, u * PGSIZE, 1, FALSE)
<1>1. D2(n) \in Words /\ D2(u) \in Words
  BY VpnsAre, Indices
<1>2. Shape(a0) /\ a0.ram = a.ram /\ a0.freelist = a.freelist /\ a0.panic = "none"
  BY Returns
<1>3. b = map_entry(w, n * PGSIZE, Made(c, perm))
  BY MapIs DEF Mapped
<1> HIDE DEF a0, b
<1>4. w = return(stop(a0, "access_fault"), NULL)
  BY <1>1, <1>2, WildWalk DEF Walked
<1> HIDE DEF w
<1>5. b = return(w, -1)
  <2>1. w.ret = NULL
    <3>1. Shape(stop(a0, "access_fault"))
      BY <1>2 DEF stop, Shape
    <3> QED
      BY <1>4, <3>1, Returns
  <2> QED
    BY <1>3, <2>1 DEF map_entry
<1>6. b = [freelist |-> a.freelist, ram |-> a.ram, ret |-> -1, panic |-> "access_fault"]
  <2>1. stop(a0, "access_fault") = [freelist |-> a.freelist, ram |-> a.ram, ret |-> a0.ret,
                                    panic |-> "access_fault"]
    BY <1>2 DEF stop, Shape
  <2>2. w = [freelist |-> a.freelist, ram |-> a.ram, ret |-> NULL, panic |-> "access_fault"]
    BY <1>4, <2>1 DEF return
  <2> QED
    BY <1>5, <2>2 DEF return
<1>7. b \in Frozen /\ b.ret = -1 /\ Shape(b) /\ b.ram = a.ram
  BY <1>6 DEF Frozen, Shape
<1>8. d \in Frozen
  <2> DEFINE va == u * PGSIZE
             page(s, x) == unmap_entry(walk(s, t, x, FALSE), x, FALSE)
             round(s, i) == page(s, va + (i - 1) * PGSIZE)
             eq(s) == s = [i \in 0..1 |-> IF i = 0 THEN b ELSE round(s[i - 1], i)]
             f == CHOOSE s : eq(s)
  <2>1. va % PGSIZE = 0 /\ va \in Nat /\ PGSIZE \in Nat
    BY VpnsAre, Numbers
  <2>2. d = Loop(round, b, 1)
    <3> HIDE DEF va
    <3> QED
      BY <2>1, Zenon DEF uvmunmap, d, va
  <2>3. Loop(round, b, 1) = f[1]
    BY DEF Loop
  <2>4. round(b, 1) = unmap_entry(walk(b, t, va, FALSE), va, FALSE)
    <3>1. va + (1 - 1) * PGSIZE = va
      BY <2>1
    <3> QED
      BY <3>1, Zenon
  <2>5. round(b, 1) \in Frozen
    <3> DEFINE x == walk(b, t, va, FALSE)
    <3>1. x = return(stop(b, "access_fault"), NULL)
      BY <1>1, <1>7, WildWalk
    <3>2. stop(b, "access_fault") = b
      BY <1>6 DEF stop
    <3>3. x \in Frozen /\ x.ret = NULL
      BY <1>6, <1>7, <3>1, <3>2, PageTypes DEF return, Frozen
    <3> HIDE DEF x
    <3>4. ~ valid(entry(x, va))
      BY <3>3, PageTypes DEF entry
    <3>5. unmap_entry(x, va, FALSE) = x
      BY <3>4 DEF unmap_entry
    <3> HIDE DEF round
    <3> QED
      BY <2>4, <3>3, <3>5 DEF x
  <2> HIDE DEF round, va
  <2>6. eq([i \in 0..1 |-> IF i = 0 THEN b ELSE round(b, 1)])
    OBVIOUS
  <2>7. eq(f)
    <3> HIDE DEF eq
    <3> QED
      BY <2>6
  <2> HIDE DEF f
  <2>8. f[1] = round(b, 1)
    BY <2>7
  <2> QED
    BY <2>2, <2>3, <2>5, <2>8
<1> HIDE DEF d
<1>9. uvmfree(d, t, 0) = FreeRoot(d, t)
  <2>1. ~ (0 > 0)
    OBVIOUS
  <2> QED
    BY <2>1, Zenon DEF uvmfree, freewalk, FreeRoot, FreeMid, FreeLast
<1>10. FreeRoot(d, t) \in Frozen
  BY <1>8, RootFrozen
<1> QED
  BY <1>7, <1>9, <1>10 DEF b, d

------------------------------------------------------------------------------
(* The invariant                                                           *)

\* From m to m1 nothing has changed for those who hold pages and for those who use
\* the tables, but for the root r.
Alike(m, m1, o, o1, r) ==
  /\ \A q \in Pages : o[q].lev = 0 => o1[q] = o[q] /\ m1[q] = m[q]
  /\ \A q \in Pages : o[q].lev = 3 /\ q # r => o1[q] = o[q] /\ SameMap(m, m1, q)

\* The kernel's table.
Kernel(m, o, t) ==
  /\ t \in Pages /\ o[t] = Root(<<"kernel", 0>>)
  /\ \A n \in Vpns : Pt(m, t, n) = KernelPte(n)

\* The entries of a process, apart from that for page 0, after the first st steps of
\* proc_born().
Wanted(q, st, n) ==
  IF n = Apart(1) /\ st >= 4 THEN Made(trampoline, {"R", "X"})
  ELSE IF n = Apart(2) /\ st >= 5 THEN Made(q.trapframe, {"R", "W"})
  ELSE IF n = Apart(3) /\ st >= 6 THEN Made(q.ipc_page, {"R", "W", "U"})
  ELSE IF n = Apart(4) /\ st >= 7 /\ servers[q.server].param = 1
  THEN Made(UART0, {"R", "W", "U"})
  ELSE word(NULL, {})

\* Process p holds page c for its field.
Has(o, c, field, p) == c \in Pages /\ o[c] = Held(<<field, p>>)

\* What process p has after so many steps, where q is its entry of the process table.
Process(m, o, q, p, st) ==
  /\ st >= 1 => Has(o, q.trapframe, "trapframe", p)
  /\ st >= 2 => Has(o, q.ipc_page, "ipc_page", p)
  /\ st >= 3 => /\ q.pagetable \in Pages /\ o[q.pagetable] = Root(<<"pagetable", p>>)
                /\ \A n \in Vpns : n # 0 \/ st < 10 => Pt(m, q.pagetable, n) = Wanted(q, st, n)
  /\ st >= 8 => Has(o, q.ipc_data, "ipc_data", p)
  /\ st >= 9 => Has(o, q.kstack, "kstack", p)

\* How many steps are done at each line of proc_born().
Stage(l) == CASE l = "trapframe" -> 0
              [] l = "ipc_page" -> 1
              [] l = "pagetable" -> 2
              [] l = "trampoline" -> 3
              [] l = "map_trapframe" -> 4
              [] l = "map_ipc" -> 5
              [] l = "map_uart" -> 6
              [] l = "ipc_data" -> 7
              [] l = "kstack" -> 8
              [] OTHER -> 9

\* Its program, if it could be mapped: page 0 is a page of its own with c in it.
User == {"U", "X", "R", "W"}
Started(m, o, q, p, c) ==
  LET w == Pt(m, q.pagetable, 0)
  IN  valid(w) => Has(o, w.pa, "program", p) /\ w = Made(w.pa, User) /\ m[w.pa][0].pa = c

\* The contents that find_binary() finds for server s.
Body(members, s) == members[FirstNamed(members, servers[s].namebin)].contents

\* The kernel's table t and the processes of ps, a set of those in table pt.
Others(m, o, t, pt, ps, members) ==
  /\ Kernel(m, o, t)
  /\ \A p \in ps : /\ Process(m, o, pt[p], p, 10)
                   /\ Started(m, o, pt[p], p, Body(members, pt[p].server))

\* What kfree() leaves of a root.
Ruined(m, t) == t \in Pages /\ \A j \in Words : j # 0 => m[t][j] = word(Wild, {"V"})

\* As long as the kernel runs, the pages have uses o.  Running processes have their
\* program; without a free page the last one may lack it.
Sound(o) ==
  /\ Holds(k, o)
  /\ line = "kvminit" => kernel_pagetable = NULL /\ Running = {}
  /\ line # "kvminit" => Others(k.ram, o, kernel_pagetable, proc, Running, archive)
  /\ \A p \in Running : \/ valid(Pt(k.ram, proc[p].pagetable, 0))
                        \/ k.freelist = NULL /\ line \in {"init_servers", "trapframe"}
  /\ line \in Born => \/ Process(k.ram, o, proc[slot], slot, Stage(line))
                      \/ line = "map_trapframe" /\ Ruined(k.ram, proc[slot].pagetable)
  /\ line = "trampoline" => k.ram[proc[slot].pagetable] = Zeros

\* The invariant of memory; once the kernel has stopped, only its types matter.
MemInv ==
  /\ BootTypeOK
  /\ \A i \in 1 .. Len(archive) : archive[i].contents \in Int
  /\ line \in Born => result[1] # 0 /\ proc[slot].state = "RUN"
  /\ line = "map_uart" => servers[server].param = 1
  /\ k.panic = "none" => \E o : Sound(o)

\* What holds pages and uses tables stays as it is.
LEMMA AlikeTwice ==
  ASSUME NEW m, NEW m1, NEW m2, NEW o, NEW o1, NEW o2, NEW r,
         Alike(m, m1, o, o1, r), Alike(m1, m2, o1, o2, r)
  PROVE  Alike(m, m2, o, o2, r)
<1>1. \A q \in Pages : o[q].lev = 0 => o2[q] = o[q] /\ m2[q] = m[q]
  BY DEF Alike
<1>2. ASSUME NEW q \in Pages, o[q].lev = 3, q # r
      PROVE  o2[q] = o[q] /\ SameMap(m, m2, q)
  <2>1. o1[q] = o[q] /\ SameMap(m, m1, q)
    BY <1>2 DEF Alike
  <2>2. o2[q] = o1[q] /\ SameMap(m1, m2, q)
    BY <1>2, <2>1 DEF Alike
  <2> QED
    BY <2>1, <2>2 DEF SameMap
<1> QED
  BY <1>1, <1>2 DEF Alike

\* A call that leaves everything alone leaves alone everything outside of one table.
LEMMA StayAlike ==
  ASSUME NEW a, NEW b, NEW o, NEW o1, Stay(a, b, o, o1), NEW r
  PROVE  Alike(a.ram, b.ram, o, o1, r)
BY DEF Stay, Keeps, SameMaps, Alike

\* A page that is held stays held, with its contents.
LEMMA HasStays ==
  ASSUME NEW m, NEW m1, NEW o, NEW o1, NEW r, Alike(m, m1, o, o1, r),
         NEW c, NEW field, NEW p, Has(o, c, field, p)
  PROVE  Has(o1, c, field, p) /\ m1[c] = m[c]
BY DEF Has, Held, Alike

\* A process keeps its pages and its table, unless the table is the one that changes.
LEMMA ProcessStays ==
  ASSUME NEW m, NEW m1, NEW o, NEW o1, NEW r, Alike(m, m1, o, o1, r),
         NEW q, NEW p, NEW st \in Nat, Process(m, o, q, p, st), st >= 3 => q.pagetable # r
  PROVE  /\ Process(m1, o1, q, p, st)
         /\ st >= 3 => SameMap(m, m1, q.pagetable)
         /\ \A c : st = 10 /\ Started(m, o, q, p, c) => Started(m1, o1, q, p, c)
<1>1. st >= 3 => /\ q.pagetable \in Pages /\ o1[q.pagetable] = Root(<<"pagetable", p>>)
                 /\ SameMap(m, m1, q.pagetable)
  BY DEF Process, Alike, Root
<1>2. st >= 3 => \A n \in Vpns : Pt(m1, q.pagetable, n) = Pt(m, q.pagetable, n)
  BY <1>1 DEF SameMap
<1>3. Process(m1, o1, q, p, st)
  <2>1. /\ st >= 1 => Has(o1, q.trapframe, "trapframe", p)
        /\ st >= 2 => Has(o1, q.ipc_page, "ipc_page", p)
        /\ st >= 8 => Has(o1, q.ipc_data, "ipc_data", p)
        /\ st >= 9 => Has(o1, q.kstack, "kstack", p)
    BY HasStays DEF Process
  <2>2. st >= 3 => \A n \in Vpns : n # 0 \/ st < 10 => Pt(m, q.pagetable, n) = Wanted(q, st, n)
    BY DEF Process
  <2> QED
    BY <1>1, <1>2, <2>1, <2>2 DEF Process
<1>4. ASSUME NEW c, st = 10, Started(m, o, q, p, c)
      PROVE  Started(m1, o1, q, p, c)
  <2> DEFINE w == Pt(m, q.pagetable, 0)
  <2>1. 0 \in Vpns
    <3>1. Vpns = 0 .. Top - 1 /\ Top \in Nat /\ PHYSTOP < Top - 4 /\ PHYSTOP \in Nat
      BY TopIs, MemoryAssumption DEF Vpns
    <3> HIDE DEF Top
    <3> QED
      BY <3>1
  <2>2. Pt(m1, q.pagetable, 0) = w
    BY <1>2, <1>4, <2>1
  <2>3. valid(w) => Has(o, w.pa, "program", p) /\ w = Made(w.pa, User) /\ m[w.pa][0].pa = c
    BY <1>4 DEF Started
  <2> HIDE DEF w
  <2>4. valid(w) => Has(o1, w.pa, "program", p) /\ m1[w.pa] = m[w.pa]
    BY <2>3, HasStays
  <2> QED
    BY <2>2, <2>3, <2>4 DEF Started
<1> QED
  BY <1>1, <1>3, <1>4

\* So do the kernel and the processes that run, when r is the root of another one.
LEMMA OthersStay ==
  ASSUME NEW m, NEW m1, NEW o, NEW o1, NEW r, Alike(m, m1, o, o1, r),
         NEW t, NEW pt, NEW ps, NEW members, Others(m, o, t, pt, ps, members),
         NEW s, s \notin ps, r = NULL \/ o[r] = Root(<<"pagetable", s>>)
  PROVE  /\ Others(m1, o1, t, pt, ps, members)
         /\ \A p \in ps : Pt(m1, pt[p].pagetable, 0) = Pt(m, pt[p].pagetable, 0)
<1>1. Kernel(m1, o1, t)
  <2>1. t # r
    BY Numbers DEF Others, Kernel, Root
  <2> QED
    BY <2>1 DEF Others, Kernel, Alike, SameMap, Root
<1>2. ASSUME NEW p \in ps
      PROVE  /\ Process(m1, o1, pt[p], p, 10)
             /\ Started(m1, o1, pt[p], p, Body(members, pt[p].server))
             /\ Pt(m1, pt[p].pagetable, 0) = Pt(m, pt[p].pagetable, 0)
  <2>1. /\ Process(m, o, pt[p], p, 10)
        /\ Started(m, o, pt[p], p, Body(members, pt[p].server))
    BY DEF Others
  <2>2. pt[p].pagetable \in Pages /\ o[pt[p].pagetable] = Root(<<"pagetable", p>>)
    BY <2>1 DEF Process
  <2>3. p # s
    OBVIOUS
  <2>4. pt[p].pagetable # r
    BY <2>2, <2>3, Numbers DEF Root
  <2>5. 10 \in Nat /\ 10 >= 3
    OBVIOUS
  <2>6. SameMap(m, m1, pt[p].pagetable)
    BY <2>1, <2>4, <2>5, ProcessStays
  <2>7. 0 \in Vpns
    <3>1. Vpns = 0 .. Top - 1 /\ Top \in Nat /\ PHYSTOP < Top - 4 /\ PHYSTOP \in Nat
      BY TopIs, MemoryAssumption DEF Vpns
    <3> HIDE DEF Top
    <3> QED
      BY <3>1
  <2> QED
    BY <2>1, <2>4, <2>5, <2>6, <2>7, ProcessStays DEF SameMap
<1> QED
  BY <1>1, <1>2 DEF Others

\* An entry of the process table.
Entry == [state : {"UNUSED", "RUN", "RUNABBLE"}, server : 0 .. Len(servers),
          trapframe : Pages \cup {NULL}, ipc_page : Pages \cup {NULL},
          pagetable : Pages \cup {NULL}, ipc_data : Pages \cup {NULL},
          kstack : Pages \cup {NULL}]

\* One field of an entry is set.
Put(pt, pt1, s, f, c) == pt1 = [pt EXCEPT ![s][f] = c]
LEMMA FieldSet ==
  ASSUME NEW pt \in [Procs -> Entry], NEW s \in Procs, NEW f \in Fields \ {"state", "server"},
         NEW c \in Pages \cup {NULL}, NEW pt1, Put(pt, pt1, s, f, c)
  PROVE  /\ pt1 \in [Procs -> Entry]
         /\ pt1[s][f] = c
         /\ \A g \in Fields \ {f} : pt1[s][g] = pt[s][g]
         /\ \A p \in Procs \ {s} : pt1[p] = pt[p]
<1> DEFINE q == pt[s]
           q1 == [q EXCEPT ![f] = c]
<1>1. q \in Entry
  OBVIOUS
<1>2. pt1 = [pt EXCEPT ![s] = q1]
  BY DEF Put
<1> HIDE DEF q
<1>3. q1 \in Entry /\ q1[f] = c /\ \A g \in Fields \ {f} : q1[g] = q[g]
  <2>1. CASE f = "trapframe"
    BY <1>1, <2>1 DEF Entry, Fields
  <2>2. CASE f = "ipc_page"
    BY <1>1, <2>2 DEF Entry, Fields
  <2>3. CASE f = "pagetable"
    BY <1>1, <2>3 DEF Entry, Fields
  <2>4. CASE f = "ipc_data"
    BY <1>1, <2>4 DEF Entry, Fields
  <2>5. CASE f = "kstack"
    BY <1>1, <2>5 DEF Entry, Fields
  <2> QED
    BY <2>1, <2>2, <2>3, <2>4, <2>5 DEF Fields
<1> HIDE DEF q1
<1>4. pt1 \in [Procs -> Entry] /\ pt1[s] = q1 /\ \A p \in Procs \ {s} : pt1[p] = pt[p]
  BY <1>2, <1>3
<1> QED
  BY <1>3, <1>4 DEF q

\* The types are those of the invariant.
LEMMA TypesAre ==
  BootTypeOK <=>
    /\ k.freelist \in Pages \cup {NULL} /\ k.ram \in [Pages -> Content]
    /\ kernel_pagetable \in Pages \cup {NULL} /\ proc \in [Procs -> Entry]
    /\ server \in 1 .. Len(servers) + 1 /\ slot \in Procs
BY DEF BootTypeOK, Content, Word, Entry

\* The types of the memory, for a memory whose pages have uses.
LEMMA TypesHold ==
  ASSUME NEW a, NEW o, Holds(a, o)
  PROVE  a.freelist \in Pages \cup {NULL} /\ a.ram \in [Pages -> Content]
BY DEF Holds, Forest, Typed

\* Once the kernel has stopped, only the types count.
LEMMA Stopped ==
  ASSUME BootInv, MemInv, k'.panic # "none",
         k'.freelist \in Pages \cup {NULL}, k'.ram \in [Pages -> Content],
         kernel_pagetable' \in Pages \cup {NULL}, proc' \in [Procs -> Entry],
         UNCHANGED <<server, slot, tarvars>>,
         line' = line \/ line' \notin Born \/ (line \in Born /\ line' # "map_uart"),
         line \in Born => proc'[slot].state = "RUN"
  PROVE  MemInv'
<1>1. /\ server' = server /\ slot' = slot /\ archive' = archive /\ result' = result
  BY DEF tarvars
<1>2. BootTypeOK'
  <2>1. server \in 1 .. Len(servers) + 1 /\ slot \in Procs
    BY TypesAre DEF MemInv
  <2> QED
    BY <1>1, <2>1 DEF BootTypeOK, Content, Word, Entry
<1>3. "map_uart" \in Born
  BY DEF Born
<1>4. line' \in Born => line \in Born
  OBVIOUS
<1>5. line' = "map_uart" => line = "map_uart"
  BY <1>3
<1> QED
  BY <1>1, <1>2, <1>4, <1>5 DEF MemInv

\* A step of proc_born(), when r is the root of the process it works on, or NULL.
LEMMA BornSound ==
  ASSUME BootInv, MemInv, line \in Born, line' \in Born,
         line' = "map_uart" => servers[server].param = 1,
         UNCHANGED <<kernel_pagetable, server, slot, tarvars>>,
         proc' \in [Procs -> Entry], proc'[slot].state = "RUN",
         \A p \in Procs \ {slot} : proc'[p] = proc[p],
         NEW o, Sound(o), NEW o1, Holds(k', o1), NEW r, Alike(k.ram, k'.ram, o, o1, r),
         r = NULL \/ o[r] = Root(<<"pagetable", slot>>),
         line = "trapframe" => k.freelist # NULL,
         \/ Process(k'.ram, o1, proc'[slot], slot, Stage(line'))
         \/ line' = "map_trapframe" /\ Ruined(k'.ram, proc'[slot].pagetable),
         line' = "trampoline" => k'.ram[proc'[slot].pagetable] = Zeros
  PROVE  MemInv'
<1>1. /\ server' = server /\ slot' = slot /\ archive' = archive /\ result' = result
      /\ kernel_pagetable' = kernel_pagetable
  BY DEF tarvars
<1>2. /\ proc[slot].state = "RUN" /\ slot \in Procs /\ proc \in [Procs -> Entry]
      /\ server \in 1 .. Len(servers) + 1 /\ kernel_pagetable \in Pages \cup {NULL}
  BY TypesAre DEF MemInv
<1>3. BootTypeOK'
  <2>1. k'.freelist \in Pages \cup {NULL} /\ k'.ram \in [Pages -> Content]
    BY TypesHold
  <2> QED
    BY <1>1, <1>2, <2>1 DEF BootTypeOK, Content, Word, Entry
<1>4. slot \notin Running /\ Running \subseteq Procs
  BY <1>2 DEF Running
<1>5. Running' = Running
  <2>1. \A p \in Procs : proc'[p].state = "RUNABBLE" <=> proc[p].state = "RUNABBLE"
    BY <1>2
  <2> QED
    BY <2>1 DEF Running
<1>6. line # "kvminit" /\ line' # "kvminit" /\ line # "init_servers"
  BY DEF Born
<1>7. Others(k.ram, o, kernel_pagetable, proc, Running, archive)
  BY <1>6 DEF Sound
<1>8. /\ Others(k'.ram, o1, kernel_pagetable, proc, Running, archive)
      /\ \A p \in Running : Pt(k'.ram, proc[p].pagetable, 0) = Pt(k.ram, proc[p].pagetable, 0)
  BY <1>4, <1>7, OthersStay
<1>9. \A p \in Running : proc'[p] = proc[p]
  BY <1>4
<1>10. Others(k'.ram, o1, kernel_pagetable', proc', Running', archive')
  BY <1>1, <1>5, <1>8, <1>9 DEF Others
<1>11. \A p \in Running' : valid(Pt(k'.ram, proc'[p].pagetable, 0))
  <2>1. \A p \in Running : valid(Pt(k.ram, proc[p].pagetable, 0))
    BY <1>6 DEF Sound
  <2> QED
    BY <1>5, <1>8, <1>9, <2>1
<1>12. Sound(o1)'
  BY <1>1, <1>6, <1>10, <1>11 DEF Sound
<1> QED
  BY <1>1, <1>3, <1>12 DEF MemInv

\* From o to o1 only the use of free pages changes.
LEMMA FreshAlike ==
  ASSUME NEW a, NEW b, NEW o, NEW g, Fresh(a, b, o, g), b.ret # NULL
  PROVE  LET o1 == [o EXCEPT ![b.ret] = Held(g)]
         IN  /\ b.ret \in Pages /\ o[b.ret].lev = 4 /\ Holds(b, o1)
             /\ Alike(a.ram, b.ram, o, o1, NULL) /\ b.panic = a.panic
<1> DEFINE o1 == [o EXCEPT ![b.ret] = Held(g)]
<1>1. b.ret \in Pages /\ o[b.ret].lev = 4 /\ Holds(b, o1) /\ Stay(a, b, o, o1)
  BY DEF Fresh
<1> HIDE DEF o1
<1>2. Alike(a.ram, b.ram, o, o1, NULL) /\ b.panic = a.panic
  BY <1>1, StayAlike DEF Stay
<1> QED
  BY <1>1, <1>2 DEF o1

\* A kalloc() that returns NULL found the list empty and changed nothing.
LEMMA NotFresh ==
  ASSUME NEW a, NEW b, NEW o, NEW g, Fresh(a, b, o, g), b.ret = NULL
  PROVE  b.freelist = NULL /\ b.ram = a.ram /\ Holds(b, o)
<1>1. NULL \notin Pages
  BY Numbers
<1> QED
  BY <1>1 DEF Fresh

\* A page that is free is on the list.
LEMMA SomeFree ==
  ASSUME NEW a, NEW o, Holds(a, o), NEW c \in Pages, o[c].lev = 4
  PROVE  a.freelist # NULL
BY DEF Holds, Forest, FreeOK

\* The process that is born, while main() works on it.
LEMMA AtWork ==
  ASSUME BootInv, MemInv, line \in Born, k.panic = "none"
  PROVE  /\ proc[slot].state = "RUN" /\ slot \in Procs /\ proc \in [Procs -> Entry]
         /\ proc[slot].server = server /\ server \in 1 .. Len(servers) /\ slot \in Int
         /\ kernel_pagetable \in Pages \cup {NULL}
         /\ \E o : Sound(o)
<1>1. /\ proc[slot].state = "RUN" /\ slot \in Procs /\ proc \in [Procs -> Entry]
      /\ server \in 1 .. Len(servers) + 1 /\ kernel_pagetable \in Pages \cup {NULL}
      /\ \E o : Sound(o)
  BY TypesAre DEF MemInv
<1>2. proc[slot].server = server /\ server <= Len(servers)
  BY DEF BootInv, Placed
<1> QED
  BY <1>1, <1>2 DEF Procs

\* The fields that hold a page from kalloc(), in the order of the calls.
Pairs == {<<"trapframe", "ipc_page">>, <<"ipc_page", "pagetable">>,
          <<"ipc_data", "kstack">>, <<"kstack", "binary">>}

\* With the page for its next field a process is one stage further.
LEMMA Grown ==
  ASSUME NEW m, NEW o, NEW q, NEW q1, NEW p, NEW f, NEW next, <<f, next>> \in Pairs,
         Process(m, o, q, p, Stage(f)), \A g \in Fields \ {f} : q1[g] = q[g],
         Has(o, q1[f], f, p)
  PROVE  Process(m, o, q1, p, Stage(next))
<1>1. CASE f = "trapframe" /\ next = "ipc_page"
  BY <1>1 DEF Stage, Process
<1>2. CASE f = "ipc_page" /\ next = "pagetable"
  <2>1. q1.trapframe = q.trapframe
    BY <1>2 DEF Fields
  <2> QED
    BY <1>2, <2>1 DEF Stage, Process
<1>3. CASE f = "ipc_data" /\ next = "kstack"
  <2>1. /\ q1.trapframe = q.trapframe /\ q1.ipc_page = q.ipc_page
        /\ q1.pagetable = q.pagetable /\ q1.server = q.server
    BY <1>3 DEF Fields
  <2>2. \A n : Wanted(q1, 8, n) = Wanted(q, 7, n)
    BY <2>1 DEF Wanted
  <2>3. Stage(f) = 7 /\ Stage(next) = 8
    BY <1>3 DEF Stage
  <2> QED
    BY <1>3, <2>1, <2>2, <2>3 DEF Process
<1>4. CASE f = "kstack" /\ next = "binary"
  <2>1. /\ q1.trapframe = q.trapframe /\ q1.ipc_page = q.ipc_page
        /\ q1.pagetable = q.pagetable /\ q1.server = q.server /\ q1.ipc_data = q.ipc_data
    BY <1>4 DEF Fields
  <2>2. \A n : Wanted(q1, 9, n) = Wanted(q, 8, n)
    BY <2>1 DEF Wanted
  <2>3. Stage(f) = 8 /\ Stage(next) = 9
    BY <1>4 DEF Stage
  <2> QED
    BY <1>4, <2>1, <2>2, <2>3 DEF Process
<1> QED
  BY <1>1, <1>2, <1>3, <1>4 DEF Pairs

\* A call of kalloc() of proc_born().
LEMMA KeepPage ==
  ASSUME BootInv, MemInv, NEW f, NEW next, <<f, next>> \in Pairs,
         k.panic = "none", line = f, keep(f, kalloc(k), next)
  PROVE  MemInv'
<1> DEFINE a == kalloc(k)
<1>1. /\ proc' = [proc EXCEPT ![slot][f] = a.ret]
      /\ IF a.ret = NULL THEN k' = stop(a, f) /\ UNCHANGED line ELSE k' = a /\ line' = next
      /\ UNCHANGED <<kernel_pagetable, server, slot, tarvars>>
  BY Zenon DEF keep
<1>2. /\ f \in {"trapframe", "ipc_page", "ipc_data", "kstack"}
      /\ next \in {"ipc_page", "pagetable", "kstack", "binary"}
  BY DEF Pairs
<1>3. /\ line \in Born /\ next \in Born /\ next \notin {"map_uart", "trampoline"}
      /\ f # "none" /\ f \in Fields \ {"state", "server"}
  BY <1>2 DEF Born, Fields
<1>4. /\ proc[slot].state = "RUN" /\ slot \in Procs /\ proc \in [Procs -> Entry]
      /\ slot \in Int /\ kernel_pagetable \in Pages \cup {NULL}
  BY <1>3, AtWork
<1>5. PICK o : Sound(o)
  BY <1>3, AtWork
<1>6. Holds(k, o)
  BY <1>5 DEF Sound
<1> DEFINE g == <<f, slot>>
<1>7. g \in Tags
  BY <1>2, <1>4 DEF Tags
<1> HIDE DEF g
<1>8. Fresh(k, a, o, g)
  BY <1>6, <1>7, Kalloc
<1> HIDE DEF a
<1>9. a.ret \in Pages \cup {NULL} /\ a.panic = "none"
  BY <1>8 DEF Fresh, Stay
<1>10. /\ proc' \in [Procs -> Entry] /\ proc'[slot][f] = a.ret
       /\ \A e \in Fields \ {f} : proc'[slot][e] = proc[slot][e]
       /\ \A p \in Procs \ {slot} : proc'[p] = proc[p]
  <2>1. f \in Fields \ {"state", "server"} /\ slot \in Procs /\ proc \in [Procs -> Entry]
    BY <1>3, <1>4
  <2>2. Put(proc, proc', slot, f, a.ret)
    BY <1>1 DEF Put
  <2> QED
    BY <1>9, <2>1, <2>2, FieldSet
<1>11. proc'[slot].state = "RUN"
  BY <1>2, <1>4, <1>10 DEF Fields
<1>12. CASE a.ret = NULL
  <2>1. k' = stop(a, f) /\ line' = line
    BY <1>1, <1>12
  <2>2. a.freelist = NULL /\ a.ram = k.ram /\ Holds(a, o)
    BY <1>8, <1>12, NotFresh
  <2>3. k'.panic # "none" /\ Holds(k', o)
    BY <1>3, <2>1, <2>2, Stops DEF Holds
  <2>4. k'.freelist \in Pages \cup {NULL} /\ k'.ram \in [Pages -> Content]
    BY <2>3, TypesHold
  <2> QED
    BY <1>1, <1>4, <1>10, <1>11, <2>1, <2>3, <2>4, Stopped
<1>13. CASE a.ret # NULL
  <2> DEFINE o1 == [o EXCEPT ![a.ret] = Held(g)]
  <2>1. k' = a /\ line' = next
    BY <1>1, <1>13
  <2>2. /\ a.ret \in Pages /\ o[a.ret].lev = 4 /\ Holds(a, o1)
        /\ Alike(k.ram, a.ram, o, o1, NULL)
    BY <1>8, <1>13, FreshAlike
  <2>3. k.freelist # NULL
    BY <1>6, <2>2, SomeFree
  <2>4. o1[a.ret] = Held(g)
    BY <1>6, <2>2 DEF Holds, Forest, Typed
  <2> HIDE DEF o1
  <2>5. Process(k.ram, o, proc[slot], slot, Stage(f))
    <3>1. f # "map_trapframe"
      BY <1>2
    <3> QED
      BY <1>3, <1>5, <3>1 DEF Sound
  <2>6. Stage(f) \in Nat
    BY <1>2 DEF Stage
  <2>7. Stage(f) >= 3 => proc[slot].pagetable # NULL
    BY <2>5, Numbers DEF Process
  <2>8. Process(a.ram, o1, proc[slot], slot, Stage(f))
    BY <2>2, <2>5, <2>6, <2>7, ProcessStays
  <2>9. Has(o1, proc'[slot][f], f, slot)
    BY <1>10, <2>2, <2>4 DEF Has, g
  <2>10. Process(a.ram, o1, proc'[slot], slot, Stage(next))
    BY <1>10, <2>8, <2>9, Grown
  <2>11. line' \in Born /\ line' # "map_uart" /\ line' # "trampoline"
    BY <1>3, <2>1
  <2>12. UNCHANGED <<kernel_pagetable, server, slot, tarvars>>
    BY <1>1
  <2> QED
    BY <1>3, <1>5, <1>10, <1>11, <2>1, <2>2, <2>3, <2>10, <2>11, <2>12, BornSound
<1> QED
  BY <1>12, <1>13

\* uvmcreate() makes the root of the process.
LEMMA KeepTable ==
  ASSUME BootInv, MemInv, k.panic = "none", line = "pagetable",
         keep("pagetable", uvmcreate(k), "trampoline")
  PROVE  MemInv'
<1> DEFINE a == kalloc_zeroed(k)
           f == "pagetable"
<1>1. /\ proc' = [proc EXCEPT ![slot].pagetable = a.ret]
      /\ IF a.ret = NULL THEN k' = stop(a, f) /\ UNCHANGED line
         ELSE k' = a /\ line' = "trampoline"
      /\ UNCHANGED <<kernel_pagetable, server, slot, tarvars>>
  BY Zenon DEF keep, uvmcreate
<1>3. /\ line \in Born /\ "trampoline" \in Born /\ f # "none" /\ f \in Fields \ {"state", "server"}
  BY DEF Born, Fields
<1>4. /\ proc[slot].state = "RUN" /\ slot \in Procs /\ proc \in [Procs -> Entry]
      /\ slot \in Int /\ kernel_pagetable \in Pages \cup {NULL}
  BY <1>3, AtWork
<1>5. PICK o : Sound(o)
  BY <1>3, AtWork
<1>6. Holds(k, o)
  BY <1>5 DEF Sound
<1> DEFINE g == <<f, slot>>
<1>7. NoTag \in Tags /\ g \in Tags
  BY <1>4, Uses DEF Tags
<1> HIDE DEF g
<1>8. Fresh(k, a, o, NoTag) /\ (a.ret # NULL => a.ram[a.ret] = Zeros)
  BY <1>6, <1>7, KallocZeroed
<1> HIDE DEF a
<1>9. a.ret \in Pages \cup {NULL} /\ a.panic = "none"
  BY <1>8 DEF Fresh, Stay
<1>10. /\ proc' \in [Procs -> Entry] /\ proc'[slot][f] = a.ret
       /\ \A e \in Fields \ {f} : proc'[slot][e] = proc[slot][e]
       /\ \A p \in Procs \ {slot} : proc'[p] = proc[p]
  <2>1. f \in Fields \ {"state", "server"} /\ slot \in Procs /\ proc \in [Procs -> Entry]
    BY <1>3, <1>4
  <2>2. Put(proc, proc', slot, f, a.ret)
    BY <1>1 DEF Put
  <2> QED
    BY <1>9, <2>1, <2>2, FieldSet
<1>11. proc'[slot].state = "RUN"
  BY <1>4, <1>10 DEF Fields
<1>12. CASE a.ret = NULL
  <2>1. k' = stop(a, f) /\ line' = line
    BY <1>1, <1>12
  <2>2. a.freelist = NULL /\ a.ram = k.ram /\ Holds(a, o)
    BY <1>8, <1>12, NotFresh
  <2>3. k'.panic # "none" /\ Holds(k', o)
    BY <1>3, <2>1, <2>2, Stops DEF Holds
  <2>4. k'.freelist \in Pages \cup {NULL} /\ k'.ram \in [Pages -> Content]
    BY <2>3, TypesHold
  <2> QED
    BY <1>1, <1>4, <1>10, <1>11, <2>1, <2>3, <2>4, Stopped
<1>13. CASE a.ret # NULL
  <2> DEFINE c == a.ret
             o0 == [o EXCEPT ![c] = Held(NoTag)]
             o1 == [o0 EXCEPT ![c] = Root(g)]
  <2>1. k' = a /\ line' = "trampoline"
    BY <1>1, <1>13
  <2>2. /\ c \in Pages /\ o[c].lev = 4 /\ Holds(a, o0)
        /\ Alike(k.ram, a.ram, o, o0, NULL)
    BY <1>8, <1>13, FreshAlike
  <2>3. o0[c] = Held(NoTag) /\ o0[c].lev = 0
    BY <1>6, <2>2, Uses DEF Holds, Forest, Typed
  <2>4. a.ram[c] = Zeros
    BY <1>8, <1>13
  <2> HIDE DEF c, o0
  <2>5. Forest(a.freelist, a.ram, o0)
    BY <2>2 DEF Holds
  <2>6. /\ Forest(a.freelist, a.ram, o1)
        /\ \A n \in Vpns : Pt(a.ram, c, n) = word(NULL, {})
    BY <1>7, <2>2, <2>3, <2>4, <2>5, Plant
  <2>7. Holds(a, o1)
    BY <2>2, <2>6 DEF Holds
  <2>8. o1[c] = Root(g) /\ \A q \in Pages \ {c} : o1[q] = o0[q]
    BY <2>2, <2>5 DEF Forest, Typed
  <2> HIDE DEF o1
  <2>9. Alike(k.ram, a.ram, o, o1, NULL)
    BY <2>2, <2>8 DEF Alike
  <2>10. Process(k.ram, o, proc[slot], slot, 2)
    BY <1>3, <1>5 DEF Sound, Stage
  <2>11. Process(a.ram, o1, proc[slot], slot, 2)
    BY <2>9, <2>10, ProcessStays
  <2>12. proc'[slot].trapframe = proc[slot].trapframe /\ proc'[slot].ipc_page = proc[slot].ipc_page
         /\ proc'[slot].pagetable = c
    BY <1>10 DEF Fields, c
  <2>13. \A n : Wanted(proc'[slot], 3, n) = word(NULL, {})
    BY DEF Wanted
  <2>14. Process(a.ram, o1, proc'[slot], slot, 3)
    BY <2>2, <2>6, <2>8, <2>11, <2>12, <2>13 DEF Process, g
  <2>15. Stage(line') = 3 /\ line' \in Born /\ line' # "map_uart" /\ line # "trapframe"
    BY <1>3, <2>1 DEF Stage
  <2>16. UNCHANGED <<kernel_pagetable, server, slot, tarvars>>
    BY <1>1
  <2>17. k'.ram[proc'[slot].pagetable] = Zeros
    BY <2>1, <2>4, <2>12
  <2> QED
    BY <1>3, <1>5, <1>10, <1>11, <2>1, <2>7, <2>9, <2>14, <2>15, <2>16, <2>17, BornSound
<1> QED
  BY <1>12, <1>13

\* The entries of page tables do not reach below the pages apart.
LEMMA ApartAre ==
  /\ 0 \in Vpns
  /\ \A i \in 1..4 : Apart(i) \in Vpns /\ Apart(i) # 0
  /\ \A i, j \in 1..4 : Apart(i) = Apart(j) => i = j
<1>1. Vpns = 0 .. Top - 1 /\ Top \in Nat /\ PHYSTOP < Top - 4 /\ PHYSTOP \in Nat
  BY TopIs, MemoryAssumption DEF Vpns
<1> HIDE DEF Top
<1> QED
  BY <1>1 DEF Apart

\* A call of mappages() leaves other roots alone.
LEMMA DoneAlike ==
  ASSUME NEW a, NEW b, NEW o, NEW o1, NEW r, NEW n, NEW w, Done(a, b, o, o1, r, n, w)
  PROVE  Alike(a.ram, b.ram, o, o1, r)
<1>1. Keeps(a.ram, b.ram, o, o1)
  BY DEF Done
<1>2. \A q \in Pages : o[q].lev = 3 /\ q # r => SameMap(a.ram, b.ram, q)
  BY DEF Done, OneMap, SameMaps
<1> QED
  BY <1>1, <1>2 DEF Keeps, Alike

\* One more page of a process is mapped.
Gains(q, s, s1, i, w) ==
  \A n : Wanted(q, s1, n) = IF n = Apart(i) THEN w ELSE Wanted(q, s, n)

\* With one more page mapped at the top of its address space a process is one stage further.
LEMMA MoreMapped ==
  ASSUME NEW a, NEW b, NEW o, NEW o1, NEW q, NEW p, NEW s \in 3..9, NEW s1 \in 4..7,
         s <= s1, s1 <= 7, NEW i \in 1..4, NEW w,
         Process(a.ram, o, q, p, s), Done(a, b, o, o1, q.pagetable, Apart(i), w), b.ret = 0,
         Gains(q, s, s1, i, w)
  PROVE  Process(b.ram, o1, q, p, s1)
<1> DEFINE r == q.pagetable
<1>1. /\ r \in Pages /\ o[r] = Root(<<"pagetable", p>>)
      /\ \A n \in Vpns : Pt(a.ram, r, n) = Wanted(q, s, n)
  BY DEF Process
<1>2. o1[r] = Root(<<"pagetable", p>>)
  BY <1>1 DEF Done, Keeps, Root
<1>3. OneMap(a.ram, b.ram, o, r, Apart(i), w)
  BY DEF Done
<1>4. \A n \in Vpns : Pt(b.ram, r, n) = Wanted(q, s1, n)
  BY <1>1, <1>3 DEF OneMap, Gains
<1>5. Has(o1, q.trapframe, "trapframe", p) /\ Has(o1, q.ipc_page, "ipc_page", p)
  BY DoneAlike, HasStays DEF Process
<1> QED
  BY <1>1, <1>2, <1>4, <1>5 DEF Process

\* The trampoline is the first page that a process gets to see.
LEMMA MapTrampoline ==
  ASSUME BootInv, MemInv, k.panic = "none", line = "trampoline",
         map_page(TRAMPOLINE, trampoline, {"R", "X"}, NULL, "map_trapframe")
  PROVE  MemInv'
<1> DEFINE q == proc[slot]
           r == q.pagetable
           P == {"R", "X"}
           w == Made(trampoline, P)
           v == Apart(1)
           b == mappages(k, r, TRAMPOLINE, PGSIZE, trampoline, P)
<1>1. /\ k' = IF b.ret < 0 THEN uvmfree(b, r, 0) ELSE b
      /\ line' = "map_trapframe" /\ proc' = proc
      /\ UNCHANGED <<kernel_pagetable, proc, server, slot, tarvars>>
  BY Zenon DEF map_page
<1>2. line \in Born /\ line' \in Born
  BY <1>1 DEF Born
<1>3. q.state = "RUN" /\ slot \in Procs /\ proc \in [Procs -> Entry]
  BY <1>2, AtWork
<1>4. PICK o : Sound(o)
  BY <1>2, AtWork
<1>5. Holds(k, o) /\ k.ram[r] = Zeros /\ Process(k.ram, o, q, slot, 3)
  BY <1>2, <1>4 DEF Sound, Stage
<1> HIDE DEF q
<1>6. /\ r \in Pages /\ o[r] = Root(<<"pagetable", slot>>) /\ o[r].lev = 3
      /\ \A n \in Vpns : Pt(k.ram, r, n) = Wanted(q, 3, n)
  BY <1>5, Uses DEF Process
<1>7. \A n : Wanted(q, 3, n) = word(NULL, {})
  BY DEF Wanted
<1>8. v \in Vpns /\ TRAMPOLINE = v * PGSIZE /\ D2(v) \in Words /\ trampoline \in Int
  <2>1. v \in Vpns /\ TRAMPOLINE = v * PGSIZE /\ trampoline \in Int
    BY ApartAre, TopPages, Ranges
  <2>2. v \in Nat
    BY <2>1, VpnsAre
  <2> QED
    BY <2>1, <2>2, Indices
<1>9. P \in SUBSET (Flags \ {"V"})
  BY DEF Flags
<1> HIDE DEF r, P, v
<1>10. w \in Word
  BY <1>8, <1>9, MadeWord
<1>11. ~ valid(Pt(k.ram, r, v))
  BY <1>6, <1>7, <1>8, PageTypes
<1>12. b = mappages(k, r, v * PGSIZE, PGSIZE, trampoline, P)
  BY <1>8
<1>13. \E o1 : Done(k, b, o, o1, r, v, w)
  <2> HIDE DEF b
  <2> QED
    BY <1>5, <1>6, <1>8, <1>9, <1>11, <1>12, MapOne
<1> HIDE DEF b, w
<1>14. PICK o1 : Done(k, b, o, o1, r, v, w)
  BY <1>13
<1>15. /\ proc' \in [Procs -> Entry] /\ proc'[slot].state = "RUN" /\ proc'[slot] = q
       /\ \A p \in Procs \ {slot} : proc'[p] = proc[p]
       /\ line' # "trampoline" /\ line' # "map_uart" /\ line # "trapframe" /\ Stage(line') = 4
  BY <1>1, <1>3 DEF q, Stage
<1>16. UNCHANGED <<kernel_pagetable, server, slot, tarvars>>
  BY <1>1
<1>17. CASE b.ret = 0
  <2>1. k' = b
    <3>1. ~ (b.ret < 0)
      BY <1>17
    <3> QED
      BY <1>1, <3>1
  <2>2. Gains(q, 3, 4, 1, w)
    BY DEF Gains, Wanted, w, P
  <2>3. Process(b.ram, o1, q, slot, 4)
    <3> DEFINE s == 3
               s1 == 4
               i == 1
    <3>1. s \in 3..9 /\ s1 \in 4..7 /\ s <= s1 /\ s1 <= 7 /\ i \in 1..4
      OBVIOUS
    <3>2. Done(k, b, o, o1, q.pagetable, Apart(i), w)
      BY <1>14 DEF r, v
    <3>3. Process(k.ram, o, q, slot, s) /\ Gains(q, s, s1, i, w)
      BY <1>5, <2>2
    <3> HIDE DEF s, s1, i
    <3>4. Process(b.ram, o1, q, slot, s1)
      BY <1>17, <3>1, <3>2, <3>3, MoreMapped
    <3> QED
      BY <3>4 DEF s1
  <2>4. Alike(k.ram, k'.ram, o, o1, r) /\ Holds(k', o1)
    BY <1>14, <2>1, DoneAlike DEF Done
  <2> QED
    BY <1>2, <1>4, <1>6, <1>15, <1>16, <2>1, <2>3, <2>4, BornSound
<1>18. CASE b.ret # 0
  <2>1. b.ret = -1
    BY <1>14, <1>18 DEF Done
  <2>2. k' = uvmfree(b, r, 0)
    <3>1. b.ret < 0
      BY <2>1
    <3> QED
      BY <1>1, <3>1
  <2>3. uvmfree(b, r, 0) = FreeRoot(b, r)
    <3>1. ~ (0 > 0)
      OBVIOUS
    <3> QED
      BY <3>1, Zenon DEF uvmfree, freewalk, FreeRoot, FreeMid, FreeLast
  <2> DEFINE a == return(k, 0)
  <2>4. Shape(k)
    BY <1>5 DEF Holds
  <2>5. a.ram = k.ram /\ a.panic = k.panic /\ Holds(a, o)
    BY <1>5, <2>4, Returns
  <2>6. b = Mapped(a, r, v, w)
    BY <1>8, <1>12, <2>4, MapIs DEF w
  <2> HIDE DEF a
  <2>7. PICK o2 : /\ Holds(b, o2) /\ Keeps(a.ram, b.ram, o, o2) /\ SameMaps(a.ram, b.ram, o)
                  /\ b.panic = a.panic /\ Bare(b.ram, o2, r, D2(v))
    <3>1. a.ram[r] = Zeros
      BY <1>5, <2>5 DEF r
    <3>2. Mapped(a, r, v, w).ret = -1
      BY <2>1, <2>6
    <3> QED
      BY <1>6, <1>8, <1>10, <2>5, <2>6, <3>1, <3>2, NotMapped
  <2>8. o2[r] = o[r] /\ o2[r].lev = 3
    BY <1>6, <2>7 DEF Keeps
  <2>9. PICK o3 : Buried(b, FreeRoot(b, r), o2, o3, r)
    BY <1>6, <1>8, <2>7, <2>8, BareFreed
  <2>10. Buried(b, k', o2, o3, r)
    BY <2>2, <2>3, <2>9
  <2>11. Alike(k.ram, b.ram, o, o2, r)
    BY <2>5, <2>7 DEF Keeps, SameMaps, Alike
  <2>12. Alike(b.ram, k'.ram, o2, o3, r)
    BY <2>10 DEF Buried, Alike
  <2>13. Alike(k.ram, k'.ram, o, o3, r)
    BY <2>11, <2>12, AlikeTwice
  <2>14. Holds(k', o3) /\ Ruined(k'.ram, proc'[slot].pagetable) /\ line' = "map_trapframe"
    BY <1>1, <1>6, <1>15, <2>10 DEF Buried, Ruined, r
  <2> QED
    BY <1>2, <1>4, <1>6, <1>15, <1>16, <2>13, <2>14, BornSound
<1> QED
  BY <1>17, <1>18

\* The other pages apart are mapped next, for which there is a last table.
LEMMA MapApart ==
  ASSUME BootInv, MemInv, k.panic = "none", line \in Born, NEW next \in Born,
         next = "map_uart" => servers[server].param = 1, next # "trampoline",
         line # "trapframe", NEW o, Sound(o), Process(k.ram, o, proc[slot], slot, Stage(line)),
         Stage(line) \in 4..9, Stage(next) \in 4..7, Stage(line) <= Stage(next),
         NEW i \in 2..4, NEW va, va = Apart(i) * PGSIZE, NEW c \in Int,
         NEW perm \in SUBSET (Flags \ {"V"}),
         Wanted(proc[slot], Stage(line), Apart(i)) = word(NULL, {}),
         Gains(proc[slot], Stage(line), Stage(next), i, Made(c, perm)),
         NEW undone, map_page(va, c, perm, undone, next)
  PROVE  MemInv'
<1> DEFINE q == proc[slot]
           r == q.pagetable
           s == Stage(line)
           s1 == Stage(next)
           w == Made(c, perm)
           v == Apart(i)
           b == mappages(k, r, va, PGSIZE, c, perm)
           e == uvmfree(IF undone = NULL THEN b ELSE uvmunmap(b, r, undone, 1, FALSE), r, 0)
<1>1. /\ k' = IF b.ret < 0 THEN e ELSE b
      /\ line' = next /\ proc' = proc
      /\ UNCHANGED <<kernel_pagetable, proc, server, slot, tarvars>>
  BY Zenon DEF map_page
<1> HIDE DEF e
<1>2. line' \in Born
  BY <1>1
<1>3. q.state = "RUN" /\ slot \in Procs /\ proc \in [Procs -> Entry]
  BY AtWork
<1>4. Holds(k, o) /\ s \in 4..9 /\ s1 \in 4..7 /\ s <= s1 /\ s1 <= 7
  BY DEF Sound
<1>5. Process(k.ram, o, q, slot, s) /\ Gains(q, s, s1, i, w) /\ Wanted(q, s, v) = word(NULL, {})
  OBVIOUS
<1>6. 4 <= s /\ s < 10 /\ s \in 3..9
  BY <1>4
<1> HIDE DEF q, s, s1
<1>7. /\ r \in Pages /\ o[r] = Root(<<"pagetable", slot>>) /\ o[r].lev = 3
      /\ \A n \in Vpns : Pt(k.ram, r, n) = Wanted(q, s, n)
  BY <1>5, <1>6, Uses DEF Process
<1>8. v \in Vpns /\ Apart(1) \in Vpns /\ va = v * PGSIZE
  BY ApartAre
<1>9. ~ valid(Pt(k.ram, r, v))
  BY <1>5, <1>7, <1>8, PageTypes
<1>10. valid(Pt(k.ram, r, Apart(1)))
  <2>1. trampoline \in Int /\ {"R", "X"} \in SUBSET (Flags \ {"V"})
    BY Ranges DEF Flags
  <2>2. valid(Made(trampoline, {"R", "X"}))
    BY <2>1, MadeWord
  <2>3. Wanted(q, s, Apart(1)) = Made(trampoline, {"R", "X"})
    BY <1>6 DEF Wanted
  <2> QED
    BY <1>7, <1>8, <2>2, <2>3
<1>11. LastTable(k.ram, r, v) # NULL
  <2>1. LastTable(k.ram, r, Apart(1)) # NULL
    BY <1>10, PageTypes DEF Pt
  <2>2. D1(v) = D1(Apart(1)) /\ D2(v) = D2(Apart(1))
    BY TopPages
  <2> QED
    BY <2>1, <2>2 DEF LastTable, MidTable
<1> HIDE DEF r, v
<1>12. b = mappages(k, r, v * PGSIZE, PGSIZE, c, perm)
  BY <1>8
<1>13. \E o1 : Done(k, b, o, o1, r, v, w)
  <2> HIDE DEF b
  <2> QED
    BY <1>4, <1>7, <1>8, <1>9, <1>12, MapOne
<1> HIDE DEF b, w
<1>14. PICK o1 : Done(k, b, o, o1, r, v, w)
  BY <1>13
<1>15. b.ret = 0
  BY <1>11, <1>14 DEF Done
<1>16. k' = b
  <2>1. ~ (b.ret < 0)
    BY <1>15
  <2> QED
    BY <1>1, <2>1
<1>17. Process(k'.ram, o1, q, slot, s1)
  <2>1. Done(k, b, o, o1, q.pagetable, Apart(i), w) /\ i \in 1..4
    BY <1>14 DEF r, v
  <2> QED
    BY <1>4, <1>5, <1>6, <1>15, <1>16, <2>1, MoreMapped
<1>18. /\ proc' \in [Procs -> Entry] /\ proc'[slot].state = "RUN" /\ proc'[slot] = q
       /\ \A p \in Procs \ {slot} : proc'[p] = proc[p]
       /\ line' # "trampoline" /\ Stage(line') = s1
  BY <1>1, <1>3 DEF q, s1
<1>19. UNCHANGED <<kernel_pagetable, server, slot, tarvars>>
  BY <1>1
<1>20. Alike(k.ram, k'.ram, o, o1, r) /\ Holds(k', o1)
  BY <1>14, <1>16, DoneAlike DEF Done
<1>21. line' = "map_uart" => servers[server].param = 1
  BY <1>1
<1> QED
  BY <1>2, <1>7, <1>17, <1>18, <1>19, <1>20, <1>21, BornSound

\* But not if the trampoline could not be mapped: then the kernel stops.
LEMMA MapRuined ==
  ASSUME BootInv, MemInv, k.panic = "none", line = "map_trapframe", NEW o, Sound(o),
         Ruined(k.ram, proc[slot].pagetable),
         map_page(TRAPFRAME, proc[slot].trapframe, {"R", "W"}, TRAMPOLINE, "map_ipc")
  PROVE  MemInv'
<1> DEFINE q == proc[slot]
           r == q.pagetable
           c == q.trapframe
           P == {"R", "W"}
           b == mappages(k, r, TRAPFRAME, PGSIZE, c, P)
           e == uvmfree(uvmunmap(b, r, TRAMPOLINE, 1, FALSE), r, 0)
<1>1. /\ k' = IF b.ret < 0
              THEN uvmfree(IF TRAMPOLINE = NULL THEN b ELSE uvmunmap(b, r, TRAMPOLINE, 1, FALSE),
                           r, 0)
              ELSE b
      /\ line' = "map_ipc" /\ proc' = proc
      /\ UNCHANGED <<kernel_pagetable, proc, server, slot, tarvars>>
  BY Zenon DEF map_page
<1>2. line \in Born /\ line' # "map_uart"
  BY <1>1 DEF Born
<1>3. /\ q.state = "RUN" /\ slot \in Procs /\ proc \in [Procs -> Entry]
      /\ kernel_pagetable \in Pages \cup {NULL}
  BY <1>2, AtWork
<1>4. Holds(k, o) /\ r \in Pages /\ \A j \in Words : j # 0 => k.ram[r][j] = word(Wild, {"V"})
  BY DEF Sound, Ruined
<1>5. c \in Int
  <2>1. c \in Pages \cup {NULL}
    <3> HIDE DEF c
    <3>1. q \in Entry
      BY <1>3
    <3> HIDE DEF q
    <3>2. q.trapframe \in Pages \cup {NULL}
      BY <3>1 DEF Entry
    <3> QED
      BY <3>2 DEF c
  <2> QED
    BY <2>1, Addresses
<1>6. /\ TRAPFRAME = Apart(2) * PGSIZE /\ TRAMPOLINE = Apart(1) * PGSIZE
      /\ Apart(2) \in Vpns /\ Apart(1) \in Vpns /\ D2(Apart(2)) # 0 /\ D2(Apart(1)) # 0
      /\ TRAMPOLINE # NULL
  <2>1. /\ TRAPFRAME = Apart(2) * PGSIZE /\ TRAMPOLINE = Apart(1) * PGSIZE
        /\ Apart(2) \in Vpns /\ Apart(1) \in Vpns /\ D2(Apart(2)) # 0 /\ D2(Apart(1)) # 0
    BY TopPages
  <2>2. Apart(1) \in Nat /\ Apart(1) # 0 /\ PGSIZE \in Nat /\ PGSIZE > 0
    BY <2>1, VpnsAre, ApartAre, Numbers
  <2>3. Apart(1) * PGSIZE # 0
    <3> DEFINE x == Apart(1)
    <3>1. x \in Nat /\ x # 0
      BY <2>2
    <3> HIDE DEF x
    <3>2. x * PGSIZE # 0
      BY <2>2, <3>1
    <3> QED
      BY <3>2 DEF x
  <2> QED
    BY <2>1, <2>3 DEF NULL
<1> HIDE DEF q, r, c
<1>7. b.ret = -1 /\ e \in Frozen
  <2>1. Shape(k) /\ k.freelist \in Pages \cup {NULL} /\ k.ram \in [Pages -> Content]
    BY <1>4, TypesHold DEF Holds
  <2> DEFINE d == mappages(k, r, Apart(2) * PGSIZE, PGSIZE, c, P)
  <2>2. d.ret = -1 /\ uvmfree(uvmunmap(d, r, Apart(1) * PGSIZE, 1, FALSE), r, 0) \in Frozen
    BY <1>4, <1>5, <1>6, <2>1, WildMap, Zenon
  <2>3. b = d /\ e = uvmfree(uvmunmap(d, r, Apart(1) * PGSIZE, 1, FALSE), r, 0)
    BY <1>6, Zenon
  <2> QED
    BY <2>2, <2>3, Zenon
<1>8. k' = e
  <2>1. b.ret < 0
    BY <1>7
  <2> HIDE DEF b, e
  <2>2. k' = uvmfree(IF TRAMPOLINE = NULL THEN b ELSE uvmunmap(b, r, TRAMPOLINE, 1, FALSE), r, 0)
    BY <1>1, <2>1, Zenon
  <2> QED
    BY <1>6, <2>2 DEF e
<1> HIDE DEF e, b
<1>9. /\ k'.panic # "none" /\ k'.freelist \in Pages \cup {NULL} /\ k'.ram \in [Pages -> Content]
  BY <1>7, <1>8 DEF Frozen
<1>10. proc' \in [Procs -> Entry] /\ proc'[slot].state = "RUN" /\ kernel_pagetable' \in Pages \cup {NULL}
  BY <1>1, <1>3 DEF q
<1>11. UNCHANGED <<server, slot, tarvars>>
  BY <1>1
<1> QED
  BY <1>2, <1>9, <1>10, <1>11, Stopped

\* proc_born() maps the trapframe.
LEMMA TrapframeSound ==
  ASSUME BootInv, MemInv, born_map_trapframe
  PROVE  MemInv'
<1> DEFINE q == proc[slot]
           c == q.trapframe
           P == {"R", "W"}
           next == "map_ipc"
<1>1. /\ k.panic = "none" /\ line = "map_trapframe"
      /\ map_page(TRAPFRAME, c, P, TRAMPOLINE, next)
  BY Zenon DEF born_map_trapframe, at
<1>2. line \in Born /\ next \in Born /\ next # "map_uart" /\ next # "trampoline" /\ line # "trapframe"
  BY <1>1 DEF Born
<1>3. PICK o : Sound(o)
  BY <1>1, <1>2, AtWork
<1>4. CASE Ruined(k.ram, q.pagetable)
  BY <1>1, <1>3, <1>4, MapRuined
<1>5. CASE Process(k.ram, o, q, slot, 4)
  <2>1. Stage(line) = 4 /\ Stage(next) = 5
    BY <1>1 DEF Stage
  <2>2. c \in Int
    BY <1>5, Addresses DEF Process, Has
  <2>3. P \in SUBSET (Flags \ {"V"}) /\ TRAPFRAME = Apart(2) * PGSIZE
    BY TopPages DEF Flags
  <2>4. Apart(2) # Apart(1)
    BY ApartAre
  <2>5. Wanted(q, 4, Apart(2)) = word(NULL, {}) /\ Gains(q, 4, 5, 2, Made(c, P))
    BY <2>4 DEF Wanted, Gains
  <2> HIDE DEF q, c, P, next
  <2>6. /\ Process(k.ram, o, q, slot, Stage(line)) /\ Stage(line) \in 4..9 /\ Stage(next) \in 4..7
        /\ Stage(line) <= Stage(next) /\ Wanted(q, Stage(line), Apart(2)) = word(NULL, {})
        /\ Gains(q, Stage(line), Stage(next), 2, Made(c, P))
    BY <1>5, <2>1, <2>5
  <2> DEFINE i == 2
  <2>7. /\ i \in 2..4 /\ TRAPFRAME = Apart(i) * PGSIZE
        /\ Wanted(q, Stage(line), Apart(i)) = word(NULL, {})
        /\ Gains(q, Stage(line), Stage(next), i, Made(c, P))
    BY <2>3, <2>6
  <2> HIDE DEF i
  <2> QED
    BY <1>1, <1>2, <1>3, <2>2, <2>3, <2>6, <2>7, MapApart DEF q
<1> QED
  BY <1>1, <1>2, <1>3, <1>4, <1>5 DEF Sound, Stage

\* proc_born() maps the ipc page.
LEMMA IpcSound ==
  ASSUME BootInv, MemInv, born_map_ipc
  PROVE  MemInv'
<1> DEFINE q == proc[slot]
           c == q.ipc_page
           P == {"R", "W", "U"}
           next == IF servers[server].param = 1 THEN "map_uart" ELSE "ipc_data"
<1>1. k.panic = "none" /\ line = "map_ipc" /\ map_page(IPC, c, P, IPC, next)
  BY Zenon DEF born_map_ipc, at
<1>2. /\ line \in Born /\ next \in Born /\ next # "trampoline" /\ line # "trapframe"
      /\ next = "map_uart" => servers[server].param = 1
  BY <1>1 DEF Born
<1>3. PICK o : Sound(o)
  BY <1>1, <1>2, AtWork
<1>4. Stage(line) = 5 /\ Stage(next) = IF servers[server].param = 1 THEN 6 ELSE 7
  BY <1>1 DEF Stage
<1>5. Process(k.ram, o, q, slot, 5) /\ q.server = server
  BY <1>1, <1>2, <1>3, <1>4, AtWork DEF Sound
<1>6. c \in Int
  BY <1>5, Addresses DEF Process, Has
<1>7. P \in SUBSET (Flags \ {"V"}) /\ IPC = Apart(3) * PGSIZE
  BY TopPages DEF Flags
<1>8. Apart(3) # Apart(1) /\ Apart(3) # Apart(2) /\ Apart(3) # Apart(4)
  BY ApartAre
<1>9. Wanted(q, 5, Apart(3)) = word(NULL, {})
  BY <1>8 DEF Wanted
<1>10. Gains(q, 5, Stage(next), 3, Made(c, P))
  <2>1. CASE servers[server].param = 1
    BY <1>4, <1>8, <2>1 DEF Wanted, Gains
  <2>2. CASE servers[server].param # 1
    BY <1>4, <1>5, <1>8, <2>2 DEF Wanted, Gains
  <2> QED
    BY <2>1, <2>2
<1> HIDE DEF q, c, P, next
<1> DEFINE i == 3
<1>11. /\ Process(k.ram, o, q, slot, Stage(line)) /\ Stage(line) \in 4..9 /\ Stage(next) \in 4..7
       /\ Stage(line) <= Stage(next) /\ Wanted(q, Stage(line), Apart(i)) = word(NULL, {})
       /\ Gains(q, Stage(line), Stage(next), i, Made(c, P))
       /\ i \in 2..4 /\ IPC = Apart(i) * PGSIZE
  BY <1>4, <1>5, <1>7, <1>9, <1>10
<1> HIDE DEF i
<1> QED
  BY <1>1, <1>2, <1>3, <1>6, <1>7, <1>11, MapApart DEF q

\* proc_born() maps the UART for a server of devices.
LEMMA UartSound ==
  ASSUME BootInv, MemInv, born_map_uart
  PROVE  MemInv'
<1> DEFINE q == proc[slot]
           P == {"R", "W", "U"}
           next == "ipc_data"
<1>1. k.panic = "none" /\ line = "map_uart" /\ map_page(VUART, UART0, P, VUART, next)
  BY Zenon DEF born_map_uart, at
<1>2. line \in Born /\ next \in Born /\ next # "map_uart" /\ next # "trampoline" /\ line # "trapframe"
  BY <1>1 DEF Born
<1>3. PICK o : Sound(o)
  BY <1>1, <1>2, AtWork
<1>4. Stage(line) = 6 /\ Stage(next) = 7
  BY <1>1 DEF Stage
<1>5. Process(k.ram, o, q, slot, 6) /\ q.server = server
  BY <1>1, <1>2, <1>3, <1>4, AtWork DEF Sound
<1>6. servers[server].param = 1
  BY <1>1 DEF MemInv
<1>7. UART0 \in Int /\ P \in SUBSET (Flags \ {"V"}) /\ VUART = Apart(4) * PGSIZE
  BY TopPages DEF Flags, UART0
<1>8. Apart(4) # Apart(1) /\ Apart(4) # Apart(2) /\ Apart(4) # Apart(3)
  BY ApartAre
<1>9. Wanted(q, 6, Apart(4)) = word(NULL, {}) /\ Gains(q, 6, 7, 4, Made(UART0, P))
  BY <1>5, <1>6, <1>8 DEF Wanted, Gains
<1> HIDE DEF q, P, next
<1> DEFINE i == 4
<1>10. /\ Process(k.ram, o, q, slot, Stage(line)) /\ Stage(line) \in 4..9 /\ Stage(next) \in 4..7
       /\ Stage(line) <= Stage(next) /\ Wanted(q, Stage(line), Apart(i)) = word(NULL, {})
       /\ Gains(q, Stage(line), Stage(next), i, Made(UART0, P))
       /\ i \in 2..4 /\ VUART = Apart(i) * PGSIZE
  BY <1>4, <1>5, <1>7, <1>9
<1> HIDE DEF i
<1> QED
  BY <1>1, <1>2, <1>3, <1>7, <1>10, MapApart DEF q

\* A file that is found is in the archive.
LEMMA NamedIsThere ==
  ASSUME Linked, NEW nm, FirstNamed(archive, nm) # 0
  PROVE  FirstNamed(archive, nm) \in 1 .. Len(archive)
<1> DEFINE n == Len(archive)
           I == {j \in 1..n : archive[j].type \in Regular /\ archive[j].name = nm}
<1>1. n \in Nat
  BY StartOf
<1>2. FirstNamed(archive, nm) = IF I # {} THEN Min(I) ELSE 0
  BY DEF FirstNamed, SelectInSeq
<1>3. I \subseteq 1..n /\ I # {}
  BY <1>2
<1> HIDE DEF I
<1>4. \E m \in I : \A y \in I : m <= y
  <2>1. I \in SUBSET Nat
    BY <1>1, <1>3
  <2> QED
    BY <1>3, <2>1, Least
<1>5. Min(I) \in I
  <2>1. PICK m \in I : \A y \in I : m <= y
    BY <1>4
  <2>2. I \in SUBSET Nat
    BY <1>1, <1>3
  <2> QED
    BY <2>1, <2>2, MinIs
<1> QED
  BY <1>2, <1>3, <1>5

\* The program that a process gets is that of its server.
LEMMA FoundBody ==
  ASSUME BootInv, line \in Born, result[1] # 0
  PROVE  contents(result[1]) = Body(archive, server)
<1> DEFINE i == FirstNamed(archive, servers[server].namebin)
<1>1. Linked /\ FindsFirst /\ result # <<>>
  BY DEF BootInv, Searched
<1>2. result = IF i = 0 THEN <<0, 0>> ELSE <<Start(i) + 1, archive[i].size>>
  BY <1>1, Zenon DEF FindsFirst
<1>3. i # 0 /\ result[1] = Start(i) + 1
  BY <1>2
<1>4. i \in 1 .. Len(archive)
  BY <1>1, <1>3, NamedIsThere
<1> HIDE DEF i
<1>5. Start(i) \in Nat /\ At(Start(i)) = i
  <2>1. i \in 1 .. Len(archive) + 1
    BY <1>1, <1>4, StartOf
  <2> QED
    BY <1>1, <1>4, <2>1, StartOf, AtStart
<1>6. result[1] - 1 = Start(i)
  BY <1>3, <1>5
<1> QED
  BY <1>3, <1>4, <1>5, <1>6 DEF contents, Body, i

\* The process with its program, or without when memory ran out.
LEMMA Ready ==
  ASSUME NEW x, NEW b, NEW o1, NEW o2, NEW q, NEW q1, NEW p, Process(x.ram, o1, q, p, 9),
         \A g \in Fields \ {"state"} : q1[g] = q[g], NEW w, Done(x, b, o1, o2, q.pagetable, 0, w)
  PROVE  Process(b.ram, o2, q1, p, 10)
<1> DEFINE r == q.pagetable
<1>1. /\ r \in Pages /\ o1[r] = Root(<<"pagetable", p>>) /\ o1[r].lev = 3
      /\ \A n \in Vpns : Pt(x.ram, r, n) = Wanted(q, 9, n)
  BY Uses DEF Process
<1>2. o2[r] = o1[r]
  BY <1>1 DEF Done, Keeps
<1>3. \A n \in Vpns : n # 0 => Pt(b.ram, r, n) = Pt(x.ram, r, n)
  BY <1>1 DEF Done, OneMap, SameMaps, SameMap
<1>4. /\ Has(o2, q.trapframe, "trapframe", p) /\ Has(o2, q.ipc_page, "ipc_page", p)
      /\ Has(o2, q.ipc_data, "ipc_data", p) /\ Has(o2, q.kstack, "kstack", p)
  BY DoneAlike, HasStays DEF Process
<1>5. /\ q1.trapframe = q.trapframe /\ q1.ipc_page = q.ipc_page /\ q1.ipc_data = q.ipc_data
      /\ q1.kstack = q.kstack /\ q1.pagetable = q.pagetable /\ q1.server = q.server
  BY DEF Fields
<1>6. \A n : Wanted(q1, 10, n) = Wanted(q, 9, n)
  BY <1>5 DEF Wanted
<1> QED
  BY <1>1, <1>2, <1>3, <1>4, <1>5, <1>6 DEF Process

\* Its page 0 has the program, if it is mapped.
LEMMA Starts0 ==
  ASSUME NEW x, NEW b, NEW o1, NEW o2, NEW q, NEW q1, NEW p, NEW c, NEW d,
         q.pagetable \in Pages, o1[q.pagetable].lev = 3, q1.pagetable = q.pagetable,
         ~ valid(Pt(x.ram, q.pagetable, 0)), Has(o1, c, "program", p), x.ram[c][0].pa = d,
         Done(x, b, o1, o2, q.pagetable, 0, Made(c, User))
  PROVE  /\ Started(b.ram, o2, q1, p, d)
         /\ valid(Pt(b.ram, q1.pagetable, 0)) \/ b.freelist = NULL
<1> DEFINE r == q.pagetable
           w == Made(c, User)
<1>1. 0 \in Vpns /\ User \in SUBSET (Flags \ {"V"}) /\ c \in Int
  BY ApartAre, Addresses DEF User, Flags, Has
<1>2. valid(w) /\ w.pa = c
  BY <1>1, MadeWord
<1>3. Has(o2, c, "program", p) /\ b.ram[c] = x.ram[c]
  BY DEF Done, Keeps, Has, Held
<1>4. CASE b.ret = 0 /\ OneMap(x.ram, b.ram, o1, r, 0, w)
  <2>1. Pt(b.ram, r, 0) = w
    BY <1>1, <1>4 DEF OneMap
  <2> HIDE DEF w
  <2>2. valid(Pt(b.ram, q1.pagetable, 0)) /\ Pt(b.ram, q1.pagetable, 0) = w
    BY <1>2, <2>1
  <2> QED
    BY <1>2, <1>3, <2>2 DEF Started, w
<1>5. CASE b.freelist = NULL /\ SameMaps(x.ram, b.ram, o1)
  <2>1. Pt(b.ram, r, 0) = Pt(x.ram, r, 0)
    BY <1>1, <1>5 DEF SameMaps, SameMap
  <2> QED
    BY <1>5, <2>1 DEF Started
<1> QED
  BY <1>4, <1>5 DEF Done

\* The process is ready, with the kernel and the others as they were.
LEMMA ReadySound ==
  ASSUME BootInv, MemInv, line = "binary", line' = "init_servers", server' = server + 1,
         archive' = archive, slot' = slot, kernel_pagetable' = kernel_pagetable,
         proc' = [proc EXCEPT ![slot].state = "RUNABBLE"], k.panic = "none",
         NEW o, Sound(o), NEW o1, Holds(k', o1), NEW r, Alike(k.ram, k'.ram, o, o1, r),
         r = NULL \/ o[r] = Root(<<"pagetable", slot>>),
         Process(k'.ram, o1, proc'[slot], slot, 10),
         Started(k'.ram, o1, proc'[slot], slot, Body(archive, server)),
         valid(Pt(k'.ram, proc'[slot].pagetable, 0)) \/ k'.freelist = NULL
  PROVE  MemInv'
<1>1. line \in Born /\ line' \notin Born
  BY DEF Born
<1>2. /\ proc[slot].state = "RUN" /\ slot \in Procs /\ proc \in [Procs -> Entry]
      /\ proc[slot].server = server /\ server \in 1 .. Len(servers)
      /\ kernel_pagetable \in Pages \cup {NULL}
  BY <1>1, AtWork
<1>3. /\ proc' \in [Procs -> Entry] /\ proc'[slot].state = "RUNABBLE"
      /\ proc'[slot].server = server /\ \A p \in Procs \ {slot} : proc'[p] = proc[p]
  <2> DEFINE q == proc[slot]
             q1 == [q EXCEPT !.state = "RUNABBLE"]
  <2>1. q \in Entry /\ q.server = server
    BY <1>2
  <2>2. proc' = [proc EXCEPT ![slot] = q1]
    OBVIOUS
  <2> HIDE DEF q
  <2>3. q1 \in Entry /\ q1.state = "RUNABBLE" /\ q1.server = server
    BY <2>1 DEF Entry
  <2> HIDE DEF q1
  <2> QED
    BY <1>2, <2>2, <2>3
<1>4. BootTypeOK'
  <2>1. k'.freelist \in Pages \cup {NULL} /\ k'.ram \in [Pages -> Content]
    BY TypesHold
  <2>2. server + 1 \in 1 .. Len(servers) + 1
    <3>1. server \in Int /\ 1 <= server /\ server <= Len(servers)
      BY <1>2
    <3> QED
      BY <1>2
  <2> QED
    BY <1>2, <1>3, <2>1, <2>2 DEF BootTypeOK, Content, Word, Entry
<1>5. slot \notin Running /\ Running \subseteq Procs
  BY <1>2 DEF Running
<1>6. Running' = Running \cup {slot}
  <2>1. \A p \in Procs : proc'[p].state = "RUNABBLE" <=> proc[p].state = "RUNABBLE" \/ p = slot
    BY <1>2, <1>3
  <2> QED
    BY <1>2, <2>1 DEF Running
<1>7. /\ Others(k.ram, o, kernel_pagetable, proc, Running, archive)
      /\ \A p \in Running : valid(Pt(k.ram, proc[p].pagetable, 0))
  BY DEF Sound
<1>8. /\ Others(k'.ram, o1, kernel_pagetable, proc, Running, archive)
      /\ \A p \in Running : Pt(k'.ram, proc[p].pagetable, 0) = Pt(k.ram, proc[p].pagetable, 0)
  BY <1>5, <1>7, OthersStay
<1>9. \A p \in Running : proc'[p] = proc[p]
  BY <1>3, <1>5
<1>10. Others(k'.ram, o1, kernel_pagetable', proc', Running', archive')
  BY <1>3, <1>6, <1>8, <1>9 DEF Others
<1>11. \A p \in Running' : valid(Pt(k'.ram, proc'[p].pagetable, 0)) \/ k'.freelist = NULL
  BY <1>6, <1>7, <1>8, <1>9
<1>12. Sound(o1)'
  BY <1>1, <1>10, <1>11 DEF Sound
<1> QED
  BY <1>1, <1>4, <1>12 DEF MemInv

\* What proc_born() writes to the page of the program.
LEMMA ProgramFilled ==
  ASSUME NEW a, NEW o, NEW o1, NEW m, Holds(a, o1), a.ret \in Pages, o[a.ret].lev = 4,
         o1[a.ret].lev = 0, Alike(m, a.ram, o, o1, NULL), NEW c \in Content
  PROVE  LET x == [a EXCEPT !.ram[a.ret] = c]
         IN  /\ Holds(x, o1) /\ x.ret = a.ret /\ x.panic = a.panic /\ x.ram[a.ret] = c
             /\ Alike(m, x.ram, o, o1, NULL)
<1> DEFINE x == [a EXCEPT !.ram[a.ret] = c]
           p == a.ret
<1>1. Filled(a, [a EXCEPT !.ram[p] = c], o1, p, c)
  <2> HIDE DEF p
  <2> QED
    BY Fill DEF p
<1>2. Filled(a, x, o1, p, c)
  BY <1>1
<1> HIDE DEF x
<1>3. a.ram \in [Pages -> Content]
  BY TypesHold
<1>4. /\ Holds(x, o1) /\ x.ret = a.ret /\ x.panic = a.panic /\ x.ram[p] = c
      /\ \A q \in Pages \ {p} : x.ram[q] = a.ram[q]
      /\ SameMaps(a.ram, x.ram, o1)
  BY <1>2, <1>3 DEF Filled
<1>5. \A q \in Pages : o[q].lev = 0 => o1[q] = o[q] /\ x.ram[q] = m[q]
  BY <1>4 DEF Alike
<1>6. ASSUME NEW q \in Pages, o[q].lev = 3, q # NULL
      PROVE  o1[q] = o[q] /\ SameMap(m, x.ram, q)
  <2>1. o1[q] = o[q] /\ SameMap(m, a.ram, q)
    BY <1>6 DEF Alike
  <2>2. SameMap(a.ram, x.ram, q)
    BY <1>4, <1>6, <2>1 DEF SameMaps
  <2> QED
    BY <2>1, <2>2 DEF SameMap
<1> QED
  BY <1>4, <1>5, <1>6 DEF Alike, x

\* The block of a header belongs to a file in the archive.
LEMMA FoundAt ==
  ASSUME BootInv, line \in Born, result[1] # 0
  PROVE  At(result[1] - 1) \in 1 .. Len(archive)
<1> DEFINE i == FirstNamed(archive, servers[server].namebin)
<1>1. Linked /\ FindsFirst /\ result # <<>>
  BY DEF BootInv, Searched
<1>2. result = IF i = 0 THEN <<0, 0>> ELSE <<Start(i) + 1, archive[i].size>>
  BY <1>1, Zenon DEF FindsFirst
<1>3. i # 0 /\ result[1] = Start(i) + 1
  BY <1>2
<1>4. i \in 1 .. Len(archive)
  BY <1>1, <1>3, NamedIsThere
<1> HIDE DEF i
<1>5. Start(i) \in Nat /\ At(Start(i)) = i
  <2>1. i \in 1 .. Len(archive) + 1
    BY <1>1, <1>4, StartOf
  <2> QED
    BY <1>1, <1>4, <2>1, StartOf, AtStart
<1>6. result[1] - 1 = Start(i)
  BY <1>3, <1>5
<1> QED
  BY <1>4, <1>5, <1>6

\* proc_born() allocates a page for the program, fills and maps it, whether or not there is one.
LEMMA BinarySound ==
  ASSUME BootInv, MemInv, born_binary
  PROVE  MemInv'
<1> DEFINE a == kalloc(k)
           q == proc[slot]
           r == q.pagetable
           C == Page(word(contents(result[1]), {}))
           x == [a EXCEPT !.ram[a.ret] = C]
           b == mappages(x, r, 0, PGSIZE, a.ret, {"U", "X", "R", "W"})
           large == "size of bin process too large !"
           none == "dont get phys page for process !"
           stays == UNCHANGED <<proc, line, server, header, result>>
<1>1. k.panic = "none" /\ line = "binary" /\ UNCHANGED <<kernel_pagetable, archive, slot>>
  BY Zenon DEF born_binary, at
<1>2. \/ k' = stop(k, large) /\ stays
      \/ a.ret = NULL /\ k' = stop(a, none) /\ stays
      \/ a.ret # NULL /\ k' = b /\ next_server
  BY Zenon DEF born_binary, program
<1> HIDE DEF b
<1>3. line \in Born /\ large # "none" /\ none # "none"
  BY <1>1 DEF Born
<1>4. /\ q.state = "RUN" /\ slot \in Procs /\ proc \in [Procs -> Entry] /\ slot \in Int
      /\ q.server = server /\ server \in 1 .. Len(servers) /\ kernel_pagetable \in Pages \cup {NULL}
  BY <1>1, <1>3, AtWork
<1>5. PICK o : Sound(o)
  BY <1>1, <1>3, AtWork
<1>6. Holds(k, o) /\ Process(k.ram, o, q, slot, 9)
  BY <1>1, <1>3, <1>5 DEF Sound, Stage
<1> DEFINE g == <<"program", slot>>
<1>7. g \in Tags
  BY <1>4 DEF Tags
<1> HIDE DEF g, q
<1>8. Fresh(k, a, o, g)
  BY <1>6, <1>7, Kalloc
<1>9. ASSUME stays, k'.panic # "none", Holds(k', o)
      PROVE  MemInv'
  <2>1. k'.freelist \in Pages \cup {NULL} /\ k'.ram \in [Pages -> Content]
    BY <1>9, TypesHold
  <2>2. UNCHANGED <<server, slot, tarvars>> /\ line' = line
    BY <1>1, <1>9 DEF tarvars
  <2>3. proc' \in [Procs -> Entry] /\ proc'[slot].state = "RUN" /\ kernel_pagetable' \in Pages \cup {NULL}
    BY <1>1, <1>4, <1>9 DEF q
  <2> QED
    BY <1>9, <2>1, <2>2, <2>3, Stopped
<1>10. CASE k' = stop(k, large) /\ stays
  <2>1. k'.panic # "none" /\ Holds(k', o)
    BY <1>3, <1>6, <1>10, Stops DEF Holds
  <2> QED
    BY <1>9, <1>10, <2>1
<1>11. CASE a.ret = NULL /\ k' = stop(a, none) /\ stays
  <2> HIDE DEF a
  <2>1. Holds(a, o)
    BY <1>8, <1>11, NotFresh
  <2>2. k'.panic # "none" /\ Holds(k', o)
    BY <1>3, <1>11, <2>1, Stops DEF Holds
  <2> QED
    BY <1>9, <1>11, <2>2
<1>12. CASE a.ret # NULL /\ k' = b /\ next_server
  <2>1. /\ proc' = [proc EXCEPT ![slot].state = "RUNABBLE"]
        /\ line' = "init_servers" /\ server' = server + 1
    BY <1>12 DEF next_server
  <2> HIDE DEF a, next_server, C
  <2> DEFINE o1 == [o EXCEPT ![a.ret] = Held(g)]
             d == Body(archive, server)
             w == Made(a.ret, User)
  <2>2. /\ a.ret \in Pages /\ o[a.ret].lev = 4 /\ Holds(a, o1)
        /\ Alike(k.ram, a.ram, o, o1, NULL)
    BY <1>8, <1>12, FreshAlike
  <2>3. o1[a.ret] = Held(g) /\ o1[a.ret].lev = 0
    <3>1. o1[a.ret] = Held(g)
      BY <1>6, <2>2 DEF Holds, Forest, Typed
    <3> QED
      BY <3>1, Uses
  <2> HIDE DEF o1
  <2>4. contents(result[1]) = d /\ d \in Int
    <3>1. result[1] # 0 /\ \A i \in 1 .. Len(archive) : archive[i].contents \in Int
      BY <1>3 DEF MemInv
    <3>2. contents(result[1]) = d
      BY <1>3, <3>1, FoundBody
    <3>3. contents(result[1]) \in Int
      <4> DEFINE i == At(result[1] - 1)
      <4>1. i # 0 => i \in 1 .. Len(archive)
        BY <1>3, <3>1, FoundAt
      <4> QED
        BY <3>1, <4>1 DEF contents
    <3> QED
      BY <3>2, <3>3
  <2> HIDE DEF d
  <2>5. C \in Content /\ C[0].pa = d
    <3>1. C = Page(word(d, {}))
      BY <2>4 DEF C
    <3>2. word(d, {}) \in Word
      BY <2>4 DEF word, Word
    <3> DEFINE e == word(d, {})
    <3>3. e \in Word /\ C = Page(e) /\ e.pa = d
      BY <3>1, <3>2 DEF word
    <3> HIDE DEF e
    <3> QED
      BY <3>3, Numbers DEF Page, Content
  <2>6. /\ Holds(x, o1) /\ x.ret = a.ret /\ x.panic = a.panic /\ x.ram[a.ret] = C
        /\ Alike(k.ram, x.ram, o, o1, NULL)
    BY <2>2, <2>3, <2>5, ProgramFilled
  <2> HIDE DEF x
  <2>7. Process(x.ram, o1, q, slot, 9)
    <3> DEFINE s == 9
    <3>1. s \in Nat /\ Process(k.ram, o, q, slot, s) /\ (s >= 3 => r # NULL)
      BY <1>6, Numbers DEF Process
    <3> HIDE DEF s
    <3>2. Process(x.ram, o1, q, slot, s)
      BY <2>6, <3>1, ProcessStays
    <3> QED
      BY <3>2 DEF s
  <2>8. /\ r \in Pages /\ o1[r].lev = 3 /\ o[r] = Root(<<"pagetable", slot>>)
        /\ Pt(x.ram, r, 0) = Wanted(q, 9, 0)
    BY <1>6, <2>7, Uses, ApartAre DEF Process
  <2>9. ~ valid(Pt(x.ram, r, 0))
    <3>1. Wanted(q, 9, 0) = word(NULL, {})
      BY ApartAre DEF Wanted
    <3> QED
      BY <2>8, <3>1, PageTypes
  <2> HIDE DEF r
  <2>10. User \in SUBSET (Flags \ {"V"}) /\ User = {"U", "X", "R", "W"} /\ 0 \in Vpns /\ a.ret \in Int
    BY <2>2, ApartAre, Addresses DEF User, Flags
  <2>11. b = mappages(x, r, 0 * PGSIZE, PGSIZE, a.ret, User)
    <3>1. 0 * PGSIZE = 0
      BY Numbers
    <3> QED
      BY <2>10, <3>1 DEF b
  <2> DEFINE z == 0
  <2>12. z \in Vpns /\ ~ valid(Pt(x.ram, r, z)) /\ b = mappages(x, r, z * PGSIZE, PGSIZE, a.ret, User)
    BY <2>9, <2>10, <2>11
  <2> HIDE DEF z
  <2>13. \E o2 : Done(x, b, o1, o2, r, z, w)
    BY <2>6, <2>8, <2>10, <2>12, MapOne
  <2> HIDE DEF w
  <2>14. PICK o2 : Done(x, b, o1, o2, r, z, w)
    BY <2>13
  <2>15. Done(x, b, o1, o2, r, 0, w)
    BY <2>14 DEF z
  <2>16. /\ \A e \in Fields \ {"state"} : proc'[slot][e] = q[e]
         /\ proc'[slot].pagetable = r
    <3>1. q \in Entry
      BY <1>4 DEF q
    <3> DEFINE q1 == [q EXCEPT !.state = "RUNABBLE"]
    <3>2. \A e \in Fields \ {"state"} : q1[e] = q[e]
      BY <3>1 DEF Entry, Fields
    <3>3. proc'[slot] = q1
      BY <1>4, <2>1 DEF q
    <3>4. "pagetable" \in Fields \ {"state"}
      BY DEF Fields
    <3> HIDE DEF q1
    <3>5. q1.pagetable = q.pagetable
      BY <3>2, <3>4
    <3> QED
      BY <3>2, <3>3, <3>5 DEF r
  <2>17. Process(b.ram, o2, proc'[slot], slot, 10)
    BY <2>7, <2>15, <2>16, Ready DEF r
  <2>18. Has(o1, a.ret, "program", slot) /\ x.ram[a.ret][0].pa = d
    BY <2>2, <2>3, <2>5, <2>6 DEF Has, g
  <2>19. /\ Started(b.ram, o2, proc'[slot], slot, d)
         /\ valid(Pt(b.ram, proc'[slot].pagetable, 0)) \/ b.freelist = NULL
    <3>1. q.pagetable = r
      BY DEF r
    <3>2. Done(x, b, o1, o2, q.pagetable, 0, Made(a.ret, User))
      BY <2>15, <3>1 DEF w
    <3>3. /\ q.pagetable \in Pages /\ o1[q.pagetable].lev = 3
          /\ ~ valid(Pt(x.ram, q.pagetable, 0)) /\ proc'[slot].pagetable = q.pagetable
      BY <2>8, <2>9, <2>16, <3>1
    <3> QED
      BY <2>18, <3>2, <3>3, Starts0, Zenon
  <2>20. Alike(k.ram, b.ram, o, o2, r) /\ Holds(b, o2)
    <3>1. Alike(x.ram, b.ram, o1, o2, r)
      BY <2>15, DoneAlike
    <3>2. Alike(k.ram, x.ram, o, o1, r)
      BY <2>6, Numbers DEF Alike
    <3> QED
      BY <2>15, <3>1, <3>2, AlikeTwice DEF Done
  <2>21. k' = b
    BY <1>12
  <2>22. archive' = archive /\ slot' = slot /\ kernel_pagetable' = kernel_pagetable
    BY <1>1
  <2> QED
    BY <1>1, <1>5, <2>1, <2>8, <2>17, <2>19, <2>20, <2>21, <2>22, ReadySound DEF d
<1> QED
  BY <1>2, <1>10, <1>11, <1>12

\* The kernel gets its table, or stops.
LEMMA KvminitSound ==
  ASSUME BootInv, MemInv, kvminit
  PROVE  MemInv'
<1> DEFINE b == kvmmake(k)
<1>1. /\ k.panic = "none" /\ line = "kvminit" /\ k' = b /\ kernel_pagetable' = k'.ret
      /\ line' = "init_servers" /\ UNCHANGED <<proc, server, slot, tarvars>>
  BY Zenon DEF kvminit, at
<1>2. line \notin Born /\ line' \notin Born
  BY <1>1 DEF Born
<1>3. PICK o : Sound(o)
  BY <1>1 DEF MemInv
<1>4. Holds(k, o) /\ Running = {}
  BY <1>1, <1>3 DEF Sound
<1>5. \E o1 : /\ Holds(b, o1) /\ b.ret \in Pages \cup {NULL}
              /\ b.panic = "none" =>
                   /\ b.ret \in Pages /\ o1[b.ret] = Root(<<"kernel", 0>>)
                   /\ \A n \in Vpns : Pt(b.ram, b.ret, n) = KernelPte(n)
  BY <1>4, Kvmmake
<1> HIDE DEF b
<1>6. PICK o1 : /\ Holds(b, o1) /\ b.ret \in Pages \cup {NULL}
                /\ b.panic = "none" =>
                     /\ b.ret \in Pages /\ o1[b.ret] = Root(<<"kernel", 0>>)
                     /\ \A n \in Vpns : Pt(b.ram, b.ret, n) = KernelPte(n)
  BY <1>5
<1>7. k'.freelist \in Pages \cup {NULL} /\ k'.ram \in [Pages -> Content]
  BY <1>1, <1>6, TypesHold
<1>8. proc' = proc /\ server' = server /\ slot' = slot /\ archive' = archive
  BY <1>1 DEF tarvars
<1>9. /\ proc \in [Procs -> Entry] /\ server \in 1 .. Len(servers) + 1 /\ slot \in Procs
  BY TypesAre DEF MemInv
<1>10. kernel_pagetable' \in Pages \cup {NULL}
  BY <1>1, <1>6
<1>11. CASE k'.panic # "none"
  <2>1. UNCHANGED <<server, slot, tarvars>>
    BY <1>1
  <2> QED
    BY <1>2, <1>7, <1>8, <1>9, <1>10, <1>11, <2>1, Stopped
<1>12. CASE k'.panic = "none"
  <2>1. BootTypeOK'
    BY <1>7, <1>8, <1>9, <1>10 DEF BootTypeOK, Content, Word, Entry
  <2>2. Kernel(k'.ram, o1, kernel_pagetable')
    BY <1>1, <1>6, <1>12 DEF Kernel
  <2>3. Running' = {}
    BY <1>4, <1>8 DEF Running
  <2>4. Others(k'.ram, o1, kernel_pagetable', proc', Running', archive')
    BY <2>2, <2>3 DEF Others
  <2>5. Sound(o1)'
    BY <1>1, <1>2, <1>6, <2>3, <2>4 DEF Sound
  <2>6. line' # "map_uart"
    BY <1>1
  <2> QED
    BY <1>2, <1>8, <2>1, <2>5, <2>6 DEF MemInv
<1> QED
  BY <1>11, <1>12

\* The search changes nothing of all this.
LEMMA StillSound ==
  ASSUME MemInv, UNCHANGED <<k, kernel_pagetable, proc, line, server, slot, archive>>,
         line \in Born => result' = result
  PROVE  MemInv'
<1>1. BootTypeOK'
  BY DEF MemInv, BootTypeOK
<1>2. \A o : Sound(o) => Sound(o)'
  BY DEF Sound, Running
<1> QED
  BY <1>1, <1>2 DEF MemInv

\* A round of find_binary() leaves memory and the process table alone.
LEMMA FindSound ==
  ASSUME MemInv, find
  PROVE  MemInv'
<1>1. line = "init_servers" /\ UNCHANGED <<k, kernel_pagetable, proc, line, server, slot>>
  BY Zenon DEF find, at
<1>2. archive' = archive
  <2>1. find_binary(servers[server].namebin)
    BY Zenon DEF find
  <2> QED
    BY <2>1, Zenon DEF find_binary
<1>3. line \notin Born
  BY <1>1 DEF Born
<1> QED
  BY <1>1, <1>2, <1>3, StillSound

\* A server gets its slot, or the kernel stops.
LEMMA InitServersSound ==
  ASSUME BootInv, MemInv, init_servers
  PROVE  MemInv'
<1> DEFINE free == {p \in Procs : proc[p].state = "UNUSED"}
           i == first_slot(free)
           none == "server not found"
           full == "NOT FREE SLOTS FOR PROCESS"
           stays == UNCHANGED <<proc, line, slot>>
<1>1. k.panic = "none" /\ line = "init_servers" /\ UNCHANGED <<kernel_pagetable, server, tarvars>>
  BY Zenon DEF init_servers, at
<1>2. \/ k' = stop(k, none) /\ stays
      \/ k' = stop(k, full) /\ stays
      \/ /\ result[1] # 0 /\ slot' = i /\ k' = k /\ line' = "trapframe"
         /\ proc' = [proc EXCEPT ![i].state = "RUN", ![i].server = server]
  BY Zenon DEF init_servers
<1>3. line \notin Born /\ none # "none" /\ full # "none"
  BY <1>1 DEF Born
<1>4. PICK o : Sound(o)
  BY <1>1 DEF MemInv
<1>5. Holds(k, o)
  BY <1>4 DEF Sound
<1>6. /\ proc \in [Procs -> Entry] /\ server \in 1 .. Len(servers) + 1 /\ slot \in Procs
      /\ kernel_pagetable \in Pages \cup {NULL}
  BY TypesAre DEF MemInv
<1>7. CASE stays /\ \E why \in {none, full} : k' = stop(k, why)
  <2>1. k'.panic # "none" /\ Holds(k', o)
    BY <1>3, <1>5, <1>7, Stops DEF Holds
  <2>2. k'.freelist \in Pages \cup {NULL} /\ k'.ram \in [Pages -> Content]
    BY <2>1, TypesHold
  <2>3. /\ UNCHANGED <<server, slot, tarvars>> /\ line' = line
        /\ proc' \in [Procs -> Entry] /\ kernel_pagetable' \in Pages \cup {NULL}
    BY <1>1, <1>6, <1>7
  <2> QED
    BY <1>3, <2>1, <2>2, <2>3, Stopped
<1>8. CASE /\ result[1] # 0 /\ slot' = i /\ k' = k /\ line' = "trapframe"
           /\ proc' = [proc EXCEPT ![i].state = "RUN", ![i].server = server]
  <2> HIDE DEF i
  <2>1. BootInv'
    BY InitServersKeeps
  <2>2. line' \in Born /\ line' # "map_uart" /\ line' # "kvminit" /\ line' # "trampoline"
    BY <1>8 DEF Born
  <2>3. i = server - 1 /\ i \in Procs /\ server <= Len(servers)
    BY <1>1, <1>8, <2>1, <2>2 DEF BootInv, Placed
  <2>4. proc[i] = Unused
    BY <1>3, <2>3 DEF BootInv, Placed
  <2>5. /\ proc' \in [Procs -> Entry] /\ proc'[i].state = "RUN"
        /\ \A p \in Procs \ {i} : proc'[p] = proc[p]
    <3> DEFINE q == proc[i]
               q1 == [[q EXCEPT !.state = "RUN"] EXCEPT !.server = server]
    <3>1. q \in Entry
      BY <1>6, <2>3
    <3>2. proc' = [proc EXCEPT ![i] = q1]
      BY <1>6, <1>8, <2>3
    <3>3. server \in 0 .. Len(servers)
      BY <1>6, <2>3
    <3> HIDE DEF q
    <3>4. q1 \in Entry /\ q1.state = "RUN"
      BY <3>1, <3>3 DEF Entry
    <3> HIDE DEF q1
    <3> QED
      BY <1>6, <2>3, <3>2, <3>4
  <2>6. archive' = archive /\ result' = result
    BY <1>1 DEF tarvars
  <2>7. BootTypeOK'
    <3>1. k.freelist \in Pages \cup {NULL} /\ k.ram \in [Pages -> Content]
      BY <1>5, TypesHold
    <3> QED
      BY <1>1, <1>6, <1>8, <2>3, <2>5, <3>1 DEF BootTypeOK, Content, Word, Entry
  <2>8. i \notin Running /\ Running \subseteq Procs
    BY <2>4 DEF Running, Unused
  <2>9. Running' = Running
    <3>1. \A p \in Procs : proc'[p].state = "RUNABBLE" <=> proc[p].state = "RUNABBLE"
      BY <2>4, <2>5 DEF Unused
    <3> QED
      BY <3>1 DEF Running
  <2>10. \A p \in Running : proc'[p] = proc[p]
    BY <2>5, <2>8
  <2>11. Others(k.ram, o, kernel_pagetable, proc, Running, archive)
    BY <1>1, <1>4 DEF Sound
  <2>12. Others(k'.ram, o, kernel_pagetable', proc', Running', archive')
    BY <1>1, <1>8, <2>6, <2>9, <2>10, <2>11 DEF Others
  <2>13. \A p \in Running' : valid(Pt(k'.ram, proc'[p].pagetable, 0)) \/ k'.freelist = NULL
    BY <1>4, <1>8, <2>9, <2>10 DEF Sound
  <2>14. Process(k'.ram, o, proc'[slot'], slot', Stage(line'))
    BY <1>8 DEF Process, Stage
  <2>15. Sound(o)'
    BY <1>5, <1>8, <2>2, <2>12, <2>13, <2>14 DEF Sound
  <2> QED
    BY <1>8, <2>2, <2>5, <2>6, <2>7, <2>15 DEF MemInv
<1> QED
  BY <1>2, <1>7, <1>8

\* Every step keeps the invariant.
LEMMA StepSound ==
  ASSUME BootInv, MemInv, [BootNext]_bootvars
  PROVE  MemInv'
<1>1. CASE kvminit
  BY <1>1, KvminitSound
<1>2. CASE find
  BY <1>2, FindSound
<1>3. CASE init_servers
  BY <1>3, InitServersSound
<1>4. ASSUME proc_born_step
      PROVE  MemInv'
  <2>1. CASE born_trapframe
    <3> DEFINE f == "trapframe"
               next == "ipc_page"
    <3>1. k.panic = "none" /\ line = f /\ keep(f, kalloc(k), next) /\ <<f, next>> \in Pairs
      BY <2>1, Zenon DEF born_trapframe, at, Pairs
    <3> HIDE DEF f, next
    <3> QED
      BY <3>1, KeepPage, Zenon
  <2>2. CASE born_ipc_page
    <3> DEFINE f == "ipc_page"
               next == "pagetable"
    <3>1. k.panic = "none" /\ line = f /\ keep(f, kalloc(k), next) /\ <<f, next>> \in Pairs
      BY <2>2, Zenon DEF born_ipc_page, at, Pairs
    <3> HIDE DEF f, next
    <3> QED
      BY <3>1, KeepPage, Zenon
  <2>3. CASE born_pagetable
    <3>1. /\ k.panic = "none" /\ line = "pagetable"
          /\ keep("pagetable", uvmcreate(k), "trampoline")
      BY <2>3, Zenon DEF born_pagetable, at
    <3> QED
      BY <3>1, KeepTable, Zenon
  <2>4. CASE born_ipc_data
    <3> DEFINE f == "ipc_data"
               next == "kstack"
    <3>1. k.panic = "none" /\ line = f /\ keep(f, kalloc(k), next) /\ <<f, next>> \in Pairs
      BY <2>4, Zenon DEF born_ipc_data, at, Pairs
    <3> HIDE DEF f, next
    <3> QED
      BY <3>1, KeepPage, Zenon
  <2>5. CASE born_kstack
    <3> DEFINE f == "kstack"
               next == "binary"
    <3>1. k.panic = "none" /\ line = f /\ keep(f, kalloc(k), next) /\ <<f, next>> \in Pairs
      BY <2>5, Zenon DEF born_kstack, at, Pairs
    <3> HIDE DEF f, next
    <3> QED
      BY <3>1, KeepPage, Zenon
  <2>6. CASE born_trampoline
    <3>1. /\ k.panic = "none" /\ line = "trampoline"
          /\ map_page(TRAMPOLINE, trampoline, {"R", "X"}, NULL, "map_trapframe")
      BY <2>6, Zenon DEF born_trampoline, at
    <3> QED
      BY <3>1, MapTrampoline, Zenon
  <2>7. CASE born_map_trapframe
    BY <2>7, TrapframeSound
  <2>8. CASE born_map_ipc
    BY <2>8, IpcSound
  <2>9. CASE born_map_uart
    BY <2>9, UartSound
  <2>10. CASE born_binary
    BY <2>10, BinarySound
  <2> QED
    BY <1>4, <2>1, <2>2, <2>3, <2>4, <2>5, <2>6, <2>7, <2>8, <2>9, <2>10, Zenon
       DEF proc_born_step
<1>5. CASE UNCHANGED bootvars
  <2>1. UNCHANGED <<k, kernel_pagetable, proc, line, server, slot, archive>> /\ result' = result
    BY <1>5 DEF bootvars, tarvars
  <2> QED
    BY <2>1, StillSound
<1> QED
  BY <1>1, <1>2, <1>3, <1>4, <1>5, Zenon DEF BootNext

\* All pages of RAM are free at the start, and no process is there.
LEMMA StartsSound == BootInit => MemInv
<1> SUFFICES ASSUME BootInit PROVE MemInv
  OBVIOUS
<1>1. PICK s \in Starts : k = kinit(s.pages) /\ archive = s.archive
  BY Zenon DEF BootInit
<1>2. /\ kernel_pagetable = NULL /\ proc = [p \in Procs |-> Unused]
      /\ line = "kvminit" /\ server = 1 /\ slot = 0
  BY Zenon DEF BootInit
<1>3. /\ s.pages \in 0 .. PHYSTOP - END /\ servers \in Seq(Range(servers))
      /\ archive \in Seq(Range(archive))
      /\ \A i \in DOMAIN archive : archive[i].contents \in Int
      /\ MAX_PROS \in Nat \ {0}
  BY <1>1, BootAssumption, Zenon
<1>4. Len(servers) \in Nat /\ DOMAIN archive = 1 .. Len(archive)
  BY <1>3, LenProperties
<1>5. PICK o : Holds(k, o) /\ k.panic = "none"
  BY <1>1, <1>3, Kinit
<1>6. BootTypeOK
  <2>1. k.freelist \in Pages \cup {NULL} /\ k.ram \in [Pages -> Content]
    BY <1>5, TypesHold
  <2>2. Unused \in Entry
    BY <1>4 DEF Unused, Entry
  <2>3. 0 \in Procs /\ 1 \in 1 .. Len(servers) + 1
    BY <1>3, <1>4 DEF Procs
  <2> QED
    BY <1>2, <2>1, <2>2, <2>3, TypesAre
<1>7. Running = {}
  BY <1>2 DEF Running, Unused
<1>8. line \notin Born /\ line # "trampoline" /\ line # "map_uart"
  BY <1>2 DEF Born
<1>9. Sound(o)
  BY <1>2, <1>5, <1>7, <1>8 DEF Sound
<1> QED
  BY <1>3, <1>4, <1>6, <1>8, <1>9 DEF MemInv

\* The kernel stops, or the tables and pages are what they should be.
LEMMA MemAlways == BootSpec => [](BootInv /\ MemInv)
BY StartsOut, StepKeeps, StartsSound, StepSound, PTL DEF BootSpec

------------------------------------------------------------------------------
(* What the invariants say.                                                *)

\* The places of the free list: ranks go down by one from place to place.
LEMMA ListOnce ==
  ASSUME NEW a, NEW o, Holds(a, o)
  PROVE  LET list == FreeList(a)
         IN  /\ \A i \in DOMAIN list : list[i] \in Pages /\ o[list[i]].lev = 4
             /\ \A i, j \in DOMAIN list : list[i] = list[j] => i = j
<1> DEFINE np == PHYSTOP - END
           f == a.freelist
           top == o[f].rank
           next(q) == IF q \in Pages THEN a.ram[q][0].pa ELSE NULL
           eq(fn) == fn = [i \in 0..np |-> IF i = 0 THEN f ELSE next(fn[i - 1])]
           h == CHOOSE fn : eq(fn)
           g == [y \in Nat \X Int |-> next(y[2])]
           list == [i \in {j \in 0..np : h[j] \in Pages} |-> h[i]]
           There(x, i) == IF f # NULL /\ i <= top
                          THEN x \in Pages /\ o[x].lev = 4 /\ o[x].rank = top - i
                          ELSE x = NULL
<1>1. np \in Nat /\ Pages = END .. (END + np) - 1 /\ END \in Nat
  BY MemoryAssumption DEF Pages
<1>2. FreeList(a) = list
  BY Zenon DEF FreeList
<1>3. FreeOK(f, a.ram, o) /\ Typed(f, a.ram, o)
  BY DEF Holds, Forest
<1>4. \A q \in Pages : o[q].lev \in 0..4 /\ o[q].rank \in Nat
  BY <1>3 DEF Typed, Use
<1>5. f \in Pages \cup {NULL} /\ f \in Int /\ NULL \in Int
  BY <1>3, Addresses DEF Typed
<1>6. \A q : next(q) \in Int
  <2>1. ASSUME NEW q \in Pages
        PROVE  a.ram[q][0].pa \in Int
    <3>1. a.ram[q] \in [Words -> Word] /\ 0 \in Words
      BY <1>3, Numbers DEF Typed, Content
    <3> QED
      BY <3>1 DEF Word
  <2> QED
    BY <1>5, <2>1
<1> HIDE DEF np, next
<1>7. g \in [Nat \X Int -> Int]
  BY <1>6
<1>8. PICK d : d \in Recursive(np, Int, f, g)
  <2> HIDE DEF g, f
  <2>1. Recursive(np, Int, f, g) # {}
    BY <1>1, <1>5, <1>7, Recursion
  <2> QED
    BY <2>1
<1>9. eq(d)
  <2>1. d \in [0..np -> Int] /\ d[0] = f /\ \A i \in 1..np : d[i] = g[<<i, d[i - 1]>>]
    BY <1>8 DEF Recursive
  <2>2. ASSUME NEW i \in 1..np
        PROVE  d[i] = next(d[i - 1])
    <3>1. i - 1 \in 0..np /\ i \in Nat /\ <<i, d[i - 1]>> \in Nat \X Int
      BY <1>1, <2>1
    <3> QED
      BY <2>1, <3>1
  <2> QED
    BY <1>1, <2>1, <2>2
<1>10. eq(h)
  BY <1>9
<1> HIDE DEF h, eq
<1>11. h[0] = f /\ \A i \in 1..np : h[i] = next(h[i - 1])
  BY <1>1, <1>10 DEF eq
<1>12. \A i \in 0..np : There(h[i], i)
  <2> DEFINE A == {i \in 0..np : There(h[i], i)}
  <2>1. 0 \in A
    <3>1. CASE f = NULL
      BY <1>1, <1>11, <3>1
    <3>2. CASE f # NULL
      BY <1>1, <1>3, <1>4, <1>5, <1>11, <3>2 DEF FreeOK
    <3> QED
      BY <3>1, <3>2
  <2>2. ASSUME NEW i \in 1..np, i - 1 \in A
        PROVE  i \in A
    <3> DEFINE x == h[i - 1]
               y == h[i]
    <3>1. y = next(x) /\ There(x, i - 1) /\ i \in 0..np
      BY <1>1, <1>11, <2>2
    <3> HIDE DEF x, y
    <3>2. CASE ~ (f # NULL /\ i - 1 <= top)
      <4>1. x = NULL /\ ~ (f # NULL /\ i <= top)
        BY <1>4, <1>5, <3>1, <3>2
      <4>2. y = NULL
        BY <3>1, <4>1, Numbers DEF next
      <4> QED
        BY <3>1, <4>1, <4>2 DEF y
    <3>3. CASE f # NULL /\ i - 1 <= top
      <4>1. /\ x \in Pages /\ o[x].lev = 4 /\ o[x].rank = top - (i - 1) /\ top \in Nat
            /\ y = a.ram[x][0].pa
        BY <1>4, <1>5, <3>1, <3>3 DEF next
      <4>2. CASE o[x].rank = 0
        <5>1. y = NULL
          BY <1>3, <4>1, <4>2 DEF FreeOK
        <5>2. ~ (i <= top)
          BY <4>1, <4>2
        <5> QED
          BY <3>1, <5>1, <5>2 DEF y
      <4>3. CASE o[x].rank > 0
        <5>1. y \in Pages /\ o[y].lev = 4 /\ o[y].rank = o[x].rank - 1
          BY <1>3, <4>1, <4>3 DEF FreeOK
        <5>2. i <= top /\ o[y].rank = top - i
          BY <4>1, <4>3, <5>1
        <5> QED
          BY <3>1, <3>3, <5>1, <5>2 DEF y
      <4> QED
        BY <1>4, <4>1, <4>2, <4>3
    <3> QED
      BY <3>2, <3>3
  <2> HIDE DEF A, There
  <2>3. \A i \in 0..np : i \in A
    BY <1>1, <2>1, <2>2, UpTo
  <2> QED
    BY <2>3 DEF A
<1>13. \A i \in 0..np : h[i] \in Pages => o[h[i]].lev = 4 /\ o[h[i]].rank = top - i /\ top \in Nat
  BY <1>4, <1>5, <1>12, Numbers
<1>14. DOMAIN list = {j \in 0..np : h[j] \in Pages} /\ \A i \in DOMAIN list : list[i] = h[i]
  OBVIOUS
<1> HIDE DEF list, top
<1>15. \A i, j \in 0..np : h[i] \in Pages /\ h[i] = h[j] => i = j
  <2> SUFFICES ASSUME NEW i \in 0..np, NEW j \in 0..np, h[i] \in Pages, h[i] = h[j]
               PROVE  i = j
    OBVIOUS
  <2>1. top - i = top - j /\ top \in Nat
    BY <1>13
  <2> QED
    BY <1>1, <2>1
<1>16. /\ \A i \in DOMAIN list : list[i] \in Pages /\ o[list[i]].lev = 4
       /\ \A i, j \in DOMAIN list : list[i] = list[j] => i = j
  BY <1>13, <1>14, <1>15
<1> QED
  BY <1>2, <1>16

\* What a root maps.
LEMMA MapsAre ==
  ASSUME NEW o, Holds(k, o), NEW r \in Pages, o[r].lev = 3
  PROVE  Maps(r) = {<<n, Pt(k.ram, r, n).pa, Pt(k.ram, r, n).flags \ {"V"}>> :
                      n \in {v \in Vpns : valid(Pt(k.ram, r, v))}}
<1>1. ASSUME NEW n \in Vpns
      PROVE  Pte(r, n) = Pt(k.ram, r, n)
  <2>1. entry(Looked(k, r, n * PGSIZE), n * PGSIZE) = Pt(k.ram, r, n)
    BY PteIs
  <2> QED
    BY <2>1, Zenon DEF Pte, Looked
<1> DEFINE V == {v \in Vpns : valid(Pt(k.ram, r, v))}
<1>2. {v \in Vpns : valid(Pte(r, v))} = V
  BY <1>1
<1>3. V \subseteq Vpns
  OBVIOUS
<1> HIDE DEF V
<1>4. Maps(r) = {<<n, Pte(r, n).pa, Pte(r, n).flags \ {"V"}>> : n \in V}
  BY <1>2 DEF Maps
<1>5. {<<n, Pte(r, n).pa, Pte(r, n).flags \ {"V"}>> : n \in V}
        = {<<n, Pt(k.ram, r, n).pa, Pt(k.ram, r, n).flags \ {"V"}>> : n \in V}
  BY <1>1, <1>3
<1> QED
  BY <1>4, <1>5 DEF V

\* An element of Maps, by its page.
LEMMA MapsHas ==
  ASSUME NEW o, Holds(k, o), NEW r \in Pages, o[r].lev = 3
  PROVE  \A e : e \in Maps(r) <=>
                  \E n \in Vpns : /\ valid(Pt(k.ram, r, n))
                                  /\ e = <<n, Pt(k.ram, r, n).pa, Pt(k.ram, r, n).flags \ {"V"}>>
<1>1. Maps(r) = {<<n, Pt(k.ram, r, n).pa, Pt(k.ram, r, n).flags \ {"V"}>> :
                   n \in {v \in Vpns : valid(Pt(k.ram, r, v))}}
  BY MapsAre
<1> QED
  BY <1>1

\* What a made entry shows in Maps.
LEMMA MadeShows ==
  ASSUME NEW n, NEW c \in Int, NEW perm \in SUBSET (Flags \ {"V"}), NEW w, w = Made(c, perm)
  PROVE  valid(w) /\ <<n, w.pa, w.flags \ {"V"}>> = <<n, c, perm>>
BY MadeWord

------------------------------------------------------------------------------
(* The theorems.                                                           *)

\* The types of main()'s and proc_born()'s state, whatever the memory holds.
THEOREM BootTypes == BootSpec => []BootTypeOK
<1>1. BootInv /\ MemInv => BootTypeOK
  BY DEF MemInv
<1> QED
  BY <1>1, MemAlways, PTL

\* kvmmake() maps every page of RAM to itself, the text without W and the data without X,
\* and the trampoline at the top, and nothing else: the table stays so.
THEOREM KernelIsMapped == BootSpec => []KernelMap
<1>1. ASSUME BootInv, MemInv, k.panic = "none", kernel_pagetable # NULL
      PROVE  Maps(kernel_pagetable) =
               {<<n, n, {"R", "X"}>> : n \in KERNBASE .. ETEXT - 1}
                 \cup {<<n, n, {"R", "W"}>> : n \in ETEXT .. PHYSTOP - 1}
                 \cup {<<TRAMPOLINE \div PGSIZE, trampoline, {"R", "X"}>>}
  <2> DEFINE t == kernel_pagetable
             X == {"R", "X"}
             W == {"R", "W"}
             A == KERNBASE .. ETEXT - 1
             B == ETEXT .. PHYSTOP - 1
             c == Apart(1)
             S == {<<n, n, X>> : n \in A} \cup {<<n, n, W>> : n \in B} \cup {<<c, trampoline, X>>}
  <2>1. PICK o : Sound(o)
    BY <1>1 DEF MemInv
  <2>2. line # "kvminit"
    BY <1>1, <2>1 DEF Sound
  <2>3. Holds(k, o) /\ Kernel(k.ram, o, t)
    BY <2>1, <2>2 DEF Sound, Others
  <2>4. /\ t \in Pages /\ o[t].lev = 3 /\ \A n \in Vpns : Pt(k.ram, t, n) = KernelPte(n)
    BY <2>3, Uses DEF Kernel
  <2>5. /\ X \in SUBSET (Flags \ {"V"}) /\ W \in SUBSET (Flags \ {"V"})
    BY DEF Flags
  <2>6. /\ A \subseteq Vpns /\ B \subseteq Vpns /\ c \in Vpns /\ trampoline \in Int
        /\ \A n \in A : n \in Int /\ n \notin B /\ n # c
        /\ \A n \in B : n \in Int /\ n # c
    BY Ranges
  <2>7. TRAMPOLINE \div PGSIZE = c
    BY TopPages
  <2>8. /\ \A n \in A : KernelPte(n) = Made(n, X)
        /\ \A n \in B : KernelPte(n) = Made(n, W)
        /\ KernelPte(c) = Made(trampoline, X)
        /\ \A n \in Vpns : n \notin A /\ n \notin B /\ n # c => KernelPte(n) = word(NULL, {})
    BY <2>6 DEF KernelPte
  <2> HIDE DEF A, B, c, X, W, t
  <2>9. \A e : e \in Maps(t) <=>
                 \E n \in Vpns : /\ valid(KernelPte(n))
                                 /\ e = <<n, KernelPte(n).pa, KernelPte(n).flags \ {"V"}>>
    BY <2>3, <2>4, MapsHas
  <2>10. /\ \A n \in A : /\ valid(KernelPte(n))
                         /\ <<n, KernelPte(n).pa, KernelPte(n).flags \ {"V"}>> = <<n, n, X>>
         /\ \A n \in B : /\ valid(KernelPte(n))
                         /\ <<n, KernelPte(n).pa, KernelPte(n).flags \ {"V"}>> = <<n, n, W>>
         /\ valid(KernelPte(c))
         /\ <<c, KernelPte(c).pa, KernelPte(c).flags \ {"V"}>> = <<c, trampoline, X>>
         /\ \A n \in Vpns : n \in A \/ n \in B \/ n = c \/ ~ valid(KernelPte(n))
    BY <2>5, <2>6, <2>8, MadeShows, PageTypes
  <2>11. \A e : e \in S <=> \/ \E n \in A : e = <<n, n, X>>
                            \/ \E n \in B : e = <<n, n, W>>
                            \/ e = <<c, trampoline, X>>
    OBVIOUS
  <2> HIDE DEF S
  <2>12. ASSUME NEW e, e \in Maps(t)
         PROVE  e \in S
    <3>1. PICK n \in Vpns : /\ valid(KernelPte(n))
                            /\ e = <<n, KernelPte(n).pa, KernelPte(n).flags \ {"V"}>>
      BY <2>9, <2>12
    <3>2. n \in A \/ n \in B \/ n = c
      BY <2>10, <3>1
    <3> QED
      BY <2>10, <2>11, <3>1, <3>2
  <2>13. ASSUME NEW e, e \in S
         PROVE  e \in Maps(t)
    <3>1. CASE \E n \in A : e = <<n, n, X>>
      BY <2>6, <2>9, <2>10, <3>1
    <3>2. CASE \E n \in B : e = <<n, n, W>>
      BY <2>6, <2>9, <2>10, <3>2
    <3>3. CASE e = <<c, trampoline, X>>
      BY <2>6, <2>9, <2>10, <3>3
    <3> QED
      BY <2>11, <2>13, <3>1, <3>2, <3>3
  <2>14. Maps(t) = S
    BY <2>12, <2>13
  <2> QED
    BY <2>7, <2>14 DEF S, A, B, X, W, t
<1>2. BootInv /\ MemInv => KernelMap
  BY <1>1 DEF KernelMap
<1> QED
  BY <1>2, MemAlways, PTL

\* The state in which the kernel runs processes.
LEMMA RunningAre ==
  ASSUME MemInv, k.panic = "none", NEW o, Sound(o), NEW p \in Running
  PROVE  /\ Holds(k, o) /\ Process(k.ram, o, proc[p], p, 10)
         /\ Started(k.ram, o, proc[p], p, Body(archive, proc[p].server))
         /\ Kernel(k.ram, o, kernel_pagetable)
         /\ proc[p].pagetable \in Pages /\ o[proc[p].pagetable] = Root(<<"pagetable", p>>)
         /\ o[proc[p].pagetable].lev = 3
         /\ valid(Pt(k.ram, proc[p].pagetable, 0)) \/ k.freelist = NULL
<1>1. line # "kvminit"
  BY DEF Sound
<1>2. Holds(k, o) /\ Others(k.ram, o, kernel_pagetable, proc, Running, archive)
  BY <1>1 DEF Sound
<1>3. /\ Process(k.ram, o, proc[p], p, 10) /\ Kernel(k.ram, o, kernel_pagetable)
      /\ Started(k.ram, o, proc[p], p, Body(archive, proc[p].server))
  BY <1>2 DEF Others
<1>4. proc[p].pagetable \in Pages /\ o[proc[p].pagetable] = Root(<<"pagetable", p>>)
  BY <1>3 DEF Process
<1> QED
  BY <1>2, <1>3, <1>4, Uses DEF Sound

\* What page 0 of a process maps to.
LEMMA LowIs ==
  ASSUME NEW o, Holds(k, o), NEW r \in Pages, o[r].lev = 3
  PROVE  LET w == Pt(k.ram, r, 0)
         IN  \A e : e \in Maps(r) /\ e[1] = 0 <=> valid(w) /\ e = <<0, w.pa, w.flags \ {"V"}>>
<1> DEFINE w(n) == Pt(k.ram, r, n)
<1>1. \A e : e \in Maps(r) <=>
               \E n \in Vpns : valid(w(n)) /\ e = <<n, w(n).pa, w(n).flags \ {"V"}>>
  BY MapsHas
<1> HIDE DEF w
<1>2. \A e : e \in Maps(r) /\ e[1] = 0 => valid(w(0)) /\ e = <<0, w(0).pa, w(0).flags \ {"V"}>>
  BY <1>1
<1>3. \A e : valid(w(0)) /\ e = <<0, w(0).pa, w(0).flags \ {"V"}>> => e \in Maps(r) /\ e[1] = 0
  BY <1>1, ApartAre
<1>4. \A e : e \in Maps(r) /\ e[1] = 0 <=> valid(w(0)) /\ e = <<0, w(0).pa, w(0).flags \ {"V"}>>
  BY <1>2, <1>3
<1> QED
  BY <1>4 DEF w

\* What the other pages of a process map to.
LEMMA HighIs ==
  ASSUME NEW o, Holds(k, o), NEW p, NEW q, Process(k.ram, o, q, p, 10)
  PROVE  {e \in Maps(q.pagetable) : e[1] # 0} =
           {<<Apart(1), trampoline, {"R", "X"}>>, <<Apart(2), q.trapframe, {"R", "W"}>>,
            <<Apart(3), q.ipc_page, {"R", "W", "U"}>>}
             \cup {e \in {<<Apart(4), UART0, {"R", "W", "U"}>>} : servers[q.server].param = 1}
<1> DEFINE r == q.pagetable
           W(n) == Wanted(q, 10, n)
           shows(n) == <<n, W(n).pa, W(n).flags \ {"V"}>>
           uart == servers[q.server].param = 1
           e1 == <<Apart(1), trampoline, {"R", "X"}>>
           e2 == <<Apart(2), q.trapframe, {"R", "W"}>>
           e3 == <<Apart(3), q.ipc_page, {"R", "W", "U"}>>
           e4 == <<Apart(4), UART0, {"R", "W", "U"}>>
           H == {e \in Maps(r) : e[1] # 0}
           S == {e1, e2, e3} \cup {e \in {e4} : uart}
<1>1. /\ r \in Pages /\ o[r].lev = 3 /\ \A n \in Vpns : n # 0 => Pt(k.ram, r, n) = W(n)
      /\ q.trapframe \in Pages /\ q.ipc_page \in Pages
  BY Uses DEF Process, Has
<1>2. /\ \A i \in 1..4 : Apart(i) \in Vpns /\ Apart(i) # 0
      /\ Apart(1) # Apart(2) /\ Apart(1) # Apart(3) /\ Apart(1) # Apart(4)
      /\ Apart(2) # Apart(3) /\ Apart(2) # Apart(4) /\ Apart(3) # Apart(4)
  BY ApartAre
<1>3. /\ {"R", "X"} \in SUBSET (Flags \ {"V"}) /\ {"R", "W"} \in SUBSET (Flags \ {"V"})
      /\ {"R", "W", "U"} \in SUBSET (Flags \ {"V"})
  BY DEF Flags
<1>4. trampoline \in Int /\ UART0 \in Int /\ q.trapframe \in Int /\ q.ipc_page \in Int
  BY <1>1, Ranges, Addresses DEF UART0
<1>5. /\ W(Apart(1)) = Made(trampoline, {"R", "X"})
      /\ W(Apart(2)) = Made(q.trapframe, {"R", "W"})
      /\ W(Apart(3)) = Made(q.ipc_page, {"R", "W", "U"})
      /\ uart => W(Apart(4)) = Made(UART0, {"R", "W", "U"})
      /\ \A n : n = Apart(1) \/ n = Apart(2) \/ n = Apart(3) \/ (n = Apart(4) /\ uart)
                \/ W(n) = word(NULL, {})
  BY <1>2 DEF Wanted
<1> HIDE DEF W, uart
<1>6. /\ valid(W(Apart(1))) /\ shows(Apart(1)) = e1
      /\ valid(W(Apart(2))) /\ shows(Apart(2)) = e2
      /\ valid(W(Apart(3))) /\ shows(Apart(3)) = e3
      /\ uart => valid(W(Apart(4))) /\ shows(Apart(4)) = e4
  <2>1. valid(W(Apart(1))) /\ shows(Apart(1)) = e1
    BY <1>3, <1>4, <1>5, MadeShows
  <2>2. valid(W(Apart(2))) /\ shows(Apart(2)) = e2
    BY <1>3, <1>4, <1>5, MadeShows
  <2>3. valid(W(Apart(3))) /\ shows(Apart(3)) = e3
    BY <1>3, <1>4, <1>5, MadeShows
  <2>4. uart => valid(W(Apart(4))) /\ shows(Apart(4)) = e4
    BY <1>3, <1>4, <1>5, MadeShows
  <2> QED
    BY <2>1, <2>2, <2>3, <2>4
<1>7. \A n : n = Apart(1) \/ n = Apart(2) \/ n = Apart(3) \/ (n = Apart(4) /\ uart) \/ ~ valid(W(n))
  BY <1>5, PageTypes
<1>8. \A e : e \in Maps(r) <=>
               \E n \in Vpns : /\ valid(Pt(k.ram, r, n))
                               /\ e = <<n, Pt(k.ram, r, n).pa, Pt(k.ram, r, n).flags \ {"V"}>>
  BY <1>1, MapsHas
<1>9. \A e : e \in H <=> \E n \in Vpns : n # 0 /\ valid(W(n)) /\ e = shows(n)
  BY <1>1, <1>8
<1>10. \A e : e \in S <=> e = e1 \/ e = e2 \/ e = e3 \/ (e = e4 /\ uart)
  OBVIOUS
<1> HIDE DEF H, S, shows, e1, e2, e3, e4
<1>11. ASSUME NEW e, e \in H
       PROVE  e \in S
  <2>1. PICK n \in Vpns : n # 0 /\ valid(W(n)) /\ e = shows(n)
    BY <1>9, <1>11
  <2> QED
    BY <1>6, <1>7, <1>10, <2>1
<1>12. ASSUME NEW e, e \in S
       PROVE  e \in H
  <2>1. e1 \in H /\ e2 \in H /\ e3 \in H /\ (uart => e4 \in H)
    BY <1>2, <1>6, <1>9
  <2> QED
    BY <1>10, <1>12, <2>1
<1>13. H = S
  BY <1>11, <1>12
<1> QED
  BY <1>13 DEF H, S, e1, e2, e3, e4, uart

\* What proc_born() maps for a process: the trampoline, its own trapframe and ipc page,
\* the UART for those that serve devices, and its program, which is missing only when
\* the last page is gone.
THEOREM ProcessesAreMapped == BootSpec => []ProcessMap
<1>1. ASSUME BootInv, MemInv, k.panic = "none", NEW p \in Running
      PROVE  LET maps == Maps(proc[p].pagetable)
                 low == {e \in maps : e[1] = 0}
             IN  /\ low = {} => k.freelist = NULL
                 /\ maps \ low =
                      {<<TRAMPOLINE \div PGSIZE, trampoline, {"R", "X"}>>,
                       <<TRAPFRAME \div PGSIZE, proc[p].trapframe, {"R", "W"}>>,
                       <<IPC \div PGSIZE, proc[p].ipc_page, {"R", "W", "U"}>>}
                        \cup {e \in {<<VUART \div PGSIZE, UART0, {"R", "W", "U"}>>} :
                                servers[proc[p].server].param = 1}
                 /\ \A e \in low :
                      /\ e[2] \in Pages /\ k.ram[e[2]][0].pa = Program(p)
                      /\ e[3] = {"R", "W", "X", "U"}
  <2> DEFINE q == proc[p]
             maps == Maps(q.pagetable)
             low == {e \in maps : e[1] = 0}
             w == Pt(k.ram, q.pagetable, 0)
             d == Body(archive, q.server)
  <2>1. PICK o : Sound(o)
    BY <1>1 DEF MemInv
  <2>2. /\ Holds(k, o) /\ Process(k.ram, o, q, p, 10) /\ Started(k.ram, o, q, p, d)
        /\ q.pagetable \in Pages /\ o[q.pagetable].lev = 3
        /\ valid(w) \/ k.freelist = NULL
    BY <1>1, <2>1, RunningAre
  <2>3. d = Program(p)
    BY Zenon DEF Body, Program
  <2> HIDE DEF q, d
  <2>4. \A e : e \in maps /\ e[1] = 0 <=> valid(w) /\ e = <<0, w.pa, w.flags \ {"V"}>>
    BY <2>2, LowIs
  <2>5. {e \in maps : e[1] # 0} =
          {<<Apart(1), trampoline, {"R", "X"}>>, <<Apart(2), q.trapframe, {"R", "W"}>>,
           <<Apart(3), q.ipc_page, {"R", "W", "U"}>>}
            \cup {e \in {<<Apart(4), UART0, {"R", "W", "U"}>>} : servers[q.server].param = 1}
    BY <2>2, HighIs
  <2> HIDE DEF maps
  <2>6. maps \ low = {e \in maps : e[1] # 0}
    OBVIOUS
  <2>7. low = {} => k.freelist = NULL
    BY <2>2, <2>4
  <2>8. ASSUME NEW e \in low
        PROVE  /\ e[2] \in Pages /\ k.ram[e[2]][0].pa = Program(p)
               /\ e[3] = {"R", "W", "X", "U"}
    <3>1. valid(w) /\ e = <<0, w.pa, w.flags \ {"V"}>>
      BY <2>4
    <3> HIDE DEF w
    <3>2. Has(o, w.pa, "program", p) /\ w = Made(w.pa, User) /\ k.ram[w.pa][0].pa = d
      BY <2>2, <3>1 DEF Started, w
    <3>3. w.pa \in Int /\ User \in SUBSET (Flags \ {"V"}) /\ User = {"R", "W", "X", "U"}
      BY <3>2, Addresses DEF Has, User, Flags
    <3>4. w.flags \ {"V"} = User
      BY <3>2, <3>3, MadeWord
    <3>5. e[2] = w.pa /\ e[3] = User
      BY <3>1, <3>4
    <3> QED
      BY <2>3, <3>2, <3>3, <3>5 DEF Has
  <2>9. /\ TRAMPOLINE \div PGSIZE = Apart(1) /\ TRAPFRAME \div PGSIZE = Apart(2)
        /\ IPC \div PGSIZE = Apart(3) /\ VUART \div PGSIZE = Apart(4)
    BY TopPages
  <2> HIDE DEF low
  <2> QED
    BY <2>5, <2>6, <2>7, <2>8, <2>9 DEF maps, low, q
<1>2. BootInv /\ MemInv => ProcessMap
  BY <1>1, Zenon DEF ProcessMap
<1> QED
  BY <1>2, MemAlways, PTL

\* Four things are at least four.
LEMMA FourOf ==
  ASSUME NEW S, IsFiniteSet(S), NEW a \in S, NEW b \in S, NEW c \in S, NEW d \in S,
         a # b, a # c, a # d, b # c, b # d, c # d
  PROVE  Cardinality(S) >= 4
<1> DEFINE A == {a}
           B == A \cup {b}
           C == B \cup {c}
           D == C \cup {d}
<1>1. D \in SUBSET S
  OBVIOUS
<1>2. b \notin A /\ c \notin B /\ d \notin C
  OBVIOUS
<1>3. IsFiniteSet(A) /\ Cardinality(A) = 1
  BY FS_Singleton
<1> HIDE DEF A
<1>4. IsFiniteSet(B) /\ Cardinality(B) = 2
  BY <1>2, <1>3, FS_AddElement
<1> HIDE DEF B
<1>5. IsFiniteSet(C) /\ Cardinality(C) = 3
  BY <1>2, <1>4, FS_AddElement
<1> HIDE DEF C
<1>6. IsFiniteSet(D) /\ Cardinality(D) = 4
  BY <1>2, <1>5, FS_AddElement
<1> HIDE DEF D
<1>7. Cardinality(D) <= Cardinality(S) /\ Cardinality(S) \in Nat
  BY <1>1, FS_Subset, FS_CardinalityType
<1> QED
  BY <1>6, <1>7

\* The tables that those of ts lead to.
Below(ts) == {k.ram[e[1]][e[2]].pa : e \in {x \in ts \X Words :
                valid(k.ram[x[1]][x[2]]) /\ ~leaf(k.ram[x[1]][x[2]])}}

\* What the tables of one level lead to are tables of the next.
LEMMA BelowAre ==
  ASSUME NEW o, Holds(k, o), NEW l \in 2..3, NEW ts, \A t \in ts : t \in Pages /\ o[t].lev = l
  PROVE  \A c \in Below(ts) : c \in Pages /\ o[c].lev = l - 1
<1> SUFFICES ASSUME NEW c \in Below(ts)
             PROVE  c \in Pages /\ o[c].lev = l - 1
  OBVIOUS
<1>1. PICK x \in ts \X Words : valid(k.ram[x[1]][x[2]]) /\ c = k.ram[x[1]][x[2]].pa
  BY DEF Below
<1>2. x[1] \in Pages /\ o[x[1]].lev = l /\ x[2] \in Words
  BY <1>1
<1>3. Leads(k.ram, o, x[1], x[2])
  BY <1>1, <1>2 DEF Holds, Forest, Down
<1> QED
  BY <1>1, <1>2, <1>3 DEF Leads

\* The pages of a process besides its tables.
Own(p) == {proc[p].trapframe, proc[p].ipc_page, proc[p].ipc_data, proc[p].kstack}
            \cup {e[2] : e \in {m \in Maps(proc[p].pagetable) : m[1] = 0}}

\* Each of them is held by the process, and the first four for different fields.
LEMMA OwnAre ==
  ASSUME MemInv, k.panic = "none", NEW o, Sound(o), NEW p \in Running
  PROVE  /\ \A c \in Own(p) : c \in Pages /\ o[c].lev = 0 /\ o[c].tag[2] = p
         /\ Cardinality(Own(p)) >= 4
<1> DEFINE q == proc[p]
           w == Pt(k.ram, q.pagetable, 0)
           low == {m \in Maps(q.pagetable) : m[1] = 0}
           own(c, f) == c \in Pages /\ o[c].lev = 0 /\ o[c].tag = <<f, p>>
<1>1. /\ Holds(k, o) /\ Process(k.ram, o, q, p, 10)
      /\ Started(k.ram, o, q, p, Body(archive, q.server))
      /\ q.pagetable \in Pages /\ o[q.pagetable].lev = 3
  BY RunningAre
<1>2. \A c, f : Has(o, c, f, p) => own(c, f)
  BY Uses DEF Has
<1>3. /\ own(q.trapframe, "trapframe") /\ own(q.ipc_page, "ipc_page")
      /\ own(q.ipc_data, "ipc_data") /\ own(q.kstack, "kstack")
  BY <1>1, <1>2 DEF Process
<1>4. valid(w) => own(w.pa, "program")
  BY <1>1, <1>2 DEF Started
<1> HIDE DEF q
<1>5. \A e : e \in low <=> valid(w) /\ e = <<0, w.pa, w.flags \ {"V"}>>
  BY <1>1, LowIs
<1> HIDE DEF low, w
<1>6. Own(p) = {q.trapframe, q.ipc_page, q.ipc_data, q.kstack} \cup {e[2] : e \in low}
  BY DEF Own, low, q
<1>7. \A c \in Own(p) : \E f : own(c, f)
  <2>1. \A e \in low : own(e[2], "program")
    BY <1>4, <1>5
  <2> HIDE DEF own
  <2> QED
    BY <1>3, <1>6, <2>1
<1>8. \A c \in Own(p) : c \in Pages /\ o[c].lev = 0 /\ o[c].tag[2] = p
  BY <1>7
<1>9. Cardinality(Own(p)) >= 4
  <2>1. /\ q.trapframe # q.ipc_page /\ q.trapframe # q.ipc_data /\ q.trapframe # q.kstack
        /\ q.ipc_page # q.ipc_data /\ q.ipc_page # q.kstack /\ q.ipc_data # q.kstack
    BY <1>3
  <2>2. /\ q.trapframe \in Own(p) /\ q.ipc_page \in Own(p) /\ q.ipc_data \in Own(p)
        /\ q.kstack \in Own(p)
    BY <1>6
  <2>3. IsFiniteSet(Own(p))
    <3>1. END \in Int /\ PHYSTOP - 1 \in Int
      BY MemoryAssumption
    <3>2. IsFiniteSet(Pages)
      BY <3>1, FS_Interval DEF Pages
    <3>3. Own(p) \in SUBSET Pages
      BY <1>8
    <3> QED
      BY <3>2, <3>3, FS_Subset
  <2> QED
    BY <2>1, <2>2, <2>3, FourOf
<1> QED
  BY <1>8, <1>9

\* Once the kernel has its table, no page is free twice, and none of its tables, of a
\* running process's tables and of the pages that process holds is free or is used for
\* anything else: kalloc() never hands out a page that is in use.
THEOREM NoPageTwice == BootSpec => []PagesApart
<1>1. ASSUME BootInv, MemInv, k.panic = "none", kernel_pagetable # NULL
      PROVE  LET list == FreeList(k)
                 roots == {kernel_pagetable} \cup {proc[p].pagetable : p \in Running}
                 tables == roots \cup Below(roots) \cup Below(Below(roots))
             IN  /\ \A i, j \in DOMAIN list : list[i] = list[j] => i = j
                 /\ (tables \cup UNION {Own(p) : p \in Running})
                      \cap {list[i] : i \in DOMAIN list} = {}
                 /\ \A p \in Running :
                      /\ Cardinality(Own(p)) >= 4
                      /\ Own(p) \cap tables = {}
                      /\ \A q \in Running \ {p} :
                           Own(p) \cap Own(q) = {} /\ proc[p].pagetable # proc[q].pagetable
  <2> DEFINE list == FreeList(k)
             roots == {kernel_pagetable} \cup {proc[p].pagetable : p \in Running}
             tables == roots \cup Below(roots) \cup Below(Below(roots))
             own == UNION {Own(p) : p \in Running}
             free == {list[i] : i \in DOMAIN list}
  <2>1. PICK o : Sound(o)
    BY <1>1 DEF MemInv
  <2>2. line # "kvminit"
    BY <1>1, <2>1 DEF Sound
  <2>3. Holds(k, o) /\ Kernel(k.ram, o, kernel_pagetable)
    BY <2>1, <2>2 DEF Sound, Others
  <2>4. /\ \A i \in DOMAIN list : list[i] \in Pages /\ o[list[i]].lev = 4
        /\ \A i, j \in DOMAIN list : list[i] = list[j] => i = j
    BY <2>3, ListOnce
  <2>5. \A t \in roots : t \in Pages /\ o[t].lev = 3
    <3>1. kernel_pagetable \in Pages /\ o[kernel_pagetable].lev = 3
      BY <2>3, Uses DEF Kernel
    <3>2. \A p \in Running : proc[p].pagetable \in Pages /\ o[proc[p].pagetable].lev = 3
      BY <1>1, <2>1, RunningAre
    <3> QED
      BY <3>1, <3>2
  <2>6. \A p \in Running : /\ \A c \in Own(p) : o[c].lev = 0 /\ o[c].tag[2] = p
                           /\ Cardinality(Own(p)) >= 4
    BY <1>1, <2>1, OwnAre
  <2>7. \A p \in Running : o[proc[p].pagetable].tag = <<"pagetable", p>>
    <3>1. \A p \in Running : o[proc[p].pagetable] = Root(<<"pagetable", p>>)
      BY <1>1, <2>1, RunningAre
    <3> QED
      BY <3>1, Uses
  <2> HIDE DEF list, roots
  <2>8. \A c \in tables : o[c].lev \in 1..3
    <3> DEFINE l == 3
               m == 2
               mid == Below(roots)
    <3>1. l \in 2..3 /\ m \in 2..3 /\ l - 1 = m /\ m - 1 = 1 /\ l = 3
      OBVIOUS
    <3> HIDE DEF l
    <3>2. \A c \in mid : c \in Pages /\ o[c].lev = l - 1
      BY <2>3, <2>5, <3>1, BelowAre
    <3> HIDE DEF m, mid
    <3>3. \A c \in mid : c \in Pages /\ o[c].lev = m
      BY <3>1, <3>2
    <3>4. \A c \in Below(mid) : c \in Pages /\ o[c].lev = m - 1
      BY <2>3, <3>1, <3>3, BelowAre
    <3> QED
      BY <2>5, <3>1, <3>3, <3>4 DEF mid, m
  <2>9. \A c \in free : o[c].lev = 4
    BY <2>4
  <2>10. \A c \in own : o[c].lev = 0
    BY <2>6
  <2>11. \A p \in Running : Own(p) \subseteq own
    OBVIOUS
  <2> HIDE DEF tables, own, free
  <2>12. (tables \cup own) \cap free = {}
    BY <2>8, <2>9, <2>10
  <2>13. ASSUME NEW p \in Running
         PROVE  /\ Cardinality(Own(p)) >= 4
                /\ Own(p) \cap tables = {}
                /\ \A q \in Running \ {p} :
                     Own(p) \cap Own(q) = {} /\ proc[p].pagetable # proc[q].pagetable
    <3>1. Own(p) \cap tables = {}
      BY <2>6, <2>8
    <3>2. ASSUME NEW q \in Running \ {p}
          PROVE  Own(p) \cap Own(q) = {} /\ proc[p].pagetable # proc[q].pagetable
      <4>1. Own(p) \cap Own(q) = {}
        BY <2>6
      <4>2. proc[p].pagetable # proc[q].pagetable
        BY <2>7
      <4> QED
        BY <4>1, <4>2
    <3> QED
      BY <2>6, <3>1, <3>2
  <2> QED
    BY <2>4, <2>12, <2>13 DEF tables, own, free, list, roots
<1>2. BootInv /\ MemInv => PagesApart
  BY <1>1, Zenon DEF PagesApart, Below, Own
<1> QED
  BY <1>2, MemAlways, PTL
===============================================================================
