---------------------------------- MODULE Tar ----------------------------------
(***************************************************************************)
(* find_binary() of bootstrap.c: the search for a file in the archive as   *)
(* it lies in memory.  A member is a header of one block and the blocks    *)
(* of its contents, which may look like anything, headers included; two    *)
(* empty blocks end the archive.  Boot calls it, one member at a time.     *)
(***************************************************************************)
EXTENDS Archive, FiniteSets

CONSTANTS
  BLOCK,     \* TAR_BLOCK_SIZE (512)
  DIGITS     \* characters of tar_header.size (12), the last of them NUL

ASSUME TarAssumption == BLOCK \in Nat \ {0} /\ DIGITS \in Nat \ {0}

VARIABLES
  archive,  \* the members
  header,   \* the block that header points to
  result    \* <<where, how long>> as find_binary() returned it; <<>> before

tarvars == <<archive, header, result>>

\* What is left of n without its last k octal digits, as a function of k.
rest(n) == LET r[k \in 0..DIGITS] == IF k = 0 THEN n ELSE r[k - 1] \div 8 IN r

\* The octal digits of a size as tar writes them, and the character after them.
NUL == 8
octal(n) == [i \in 1..DIGITS |-> IF i = DIGITS THEN NUL ELSE rest(n)[DIGITS - 1 - i] % 8]

\* Digits count up to the first character that is none.
oct2int(oct, len) ==
  LET dec[i \in 0..len] ==
        IF i = 0 THEN 0
        ELSE IF \A j \in 1..i : oct[j] \in 0..7 THEN dec[i - 1] * 8 + oct[i]
        ELSE dec[i - 1]
  IN  dec[len]

\* The block of the i-th header, or of the end of the archive.
Blocks(size) == (size + BLOCK - 1) \div BLOCK
Start(i) ==
  LET start[j \in 0 .. Len(archive)] ==
        IF j = 0 THEN 0 ELSE start[j - 1] + 1 + Blocks(archive[j].size)
  IN  start[i - 1]

\* The member whose header is block b, or 0.
At(b) == SelectInSeq([j \in 1..Len(archive) |-> Start(j)], LAMBDA s : s = b)

\* Memory from _disk_tar_start on, when contents look like a file called name.
Header(b, name) ==
  IF At(b) # 0
  THEN LET m == archive[At(b)]
       IN  [name |-> m.name, type |-> m.type, size |-> octal(m.size)]
  ELSE [name |-> IF b < Start(Len(archive) + 1) THEN name ELSE "",
        type |-> "0", size |-> octal(0)]

\* What a file has in it when block b is its first; 0 stands for anything else.
contents(b) == IF At(b - 1) # 0 THEN archive[At(b - 1)].contents ELSE 0

\* Faulty variants: the size is not rounded up, or the header not counted.
next_round_down(h) == header + 1 + oct2int(h.size, DIGITS) \div BLOCK
next_no_header(h) == header + Blocks(oct2int(h.size, DIGITS))

next_header(h) == header + 1 + Blocks(oct2int(h.size, DIGITS))

wanted(h, name) == h.type \in Regular /\ h.name = name

\* One round of the loop.
find_binary(name) ==
  LET h == Header(header, name)
  IN  /\ result = <<>>
      /\ \/ /\ wanted(h, name)
            /\ result' = <<header + 1, oct2int(h.size, DIGITS)>>
            /\ UNCHANGED header
         \/ /\ h.name # "" /\ ~wanted(h, name)
            /\ header' = next_header(h)
            /\ UNCHANGED result
         \/ /\ h.name = ""
            /\ result' = <<0, 0>>
            /\ UNCHANGED header
      /\ UNCHANGED archive
==============================================================================
