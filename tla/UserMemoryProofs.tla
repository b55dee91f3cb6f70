--------------------------- MODULE UserMemoryProofs ---------------------------
(***************************************************************************)
(* UserMemory for every number of spaces and every size of memory.         *)
(*                                                                         *)
(* The invariant says that there is a function o from pages to uses which  *)
(* the memory agrees with (Tree): where a free page is on the list, of     *)
(* which space and level a table is, which entry leads to it, what a page  *)
(* of user memory holds and how its entry lets it be used.  Each operator  *)
(* of Kalloc and Vm has a lemma that says what it makes of o; from that    *)
(* the steps of the abstract specification are read off (Moved, Draws).    *)
(* Within a call there are orphans Z, pages that the kernel holds, and     *)
(* entries X that freewalk() is about to clear; between calls there are    *)
(* none.                                                                   *)
(***************************************************************************)
EXTENDS UserMemory, Induction, FiniteSetTheorems

\* What a word and a page may be.
Word == [pa : Int, flags : SUBSET Flags]
Content == [Words -> Word]

\* What a page is used for.  lev is 0 for user memory and pages that the kernel
\* holds, 1 to 3 for page tables (3 for a root), and 4 for free pages.
Use == [lev : 0..4,                \* the level
        sp : Spaces \cup {NULL},   \* its address space
        num : Nat,                 \* the indices that lead to it, as one number
        tab : Pages \cup {NULL},   \* the table with the entry for it
        idx : Words,               \* and the place of that entry
        rank : Nat,                \* how many free pages come after it
        body : Content,            \* what is in it, if it is no table
        flags : SUBSET Flags]      \* and how its entry lets it be used

\* The use of a page that kalloc() has just given, with x in it.
Held(x) == [lev |-> 0, sp |-> NULL, num |-> 0, tab |-> NULL, idx |-> 0, rank |-> 0,
            body |-> x, flags |-> {}]

\* The number for index i in the table that n leads to.
Join(n, i) == n * WORDS + i

\* f is the head of the free list, m the pages, rt the roots, o the uses.
Typed(f, m, rt, o) ==
  /\ f \in Pages \cup {NULL}
  /\ m \in [Pages -> Content]
  /\ rt \in [Spaces -> Pages \cup {NULL}]
  /\ o \in [Pages -> Use]

\* The free list: each page leads to the one of the next lower rank.
FreeOK(f, m, o) ==
  /\ f # NULL => o[f].lev = 4
  /\ \A p \in Pages : o[p].lev = 4 =>
       /\ f # NULL /\ o[p].rank <= o[f].rank
       /\ o[p].rank = 0 => m[p][0].pa = NULL
       /\ o[p].rank > 0 => /\ m[p][0].pa \in Pages
                           /\ o[m[p][0].pa].lev = 4
                           /\ o[m[p][0].pa].rank = o[p].rank - 1
  /\ \A p, q \in Pages : o[p].lev = 4 /\ o[q].lev = 4 /\ o[p].rank = o[q].rank => p = q

\* What the valid entries of a table lead to, but for those in X, which are
\* about to be cleared.
Leads(m, o, Z, p, i) ==
  LET c == m[p][i].pa
  IN  /\ c \in Pages \ Z
      /\ o[c].lev = o[p].lev - 1 /\ o[c].sp = o[p].sp /\ o[c].num = Join(o[p].num, i)
      /\ o[c].tab = p /\ o[c].idx = i
      /\ leaf(m[p][i]) <=> o[p].lev = 1
Down(m, o, Z, X) ==
  \A p \in Pages, i \in Words :
    o[p].lev \in 1..3 /\ <<p, i>> \notin X /\ valid(m[p][i]) => Leads(m, o, Z, p, i)

\* The entry for a page that is no root and no orphan.
Up(m, o, Z, X) ==
  \A c \in Pages \ Z : o[c].lev <= 2 =>
    LET p == o[c].tab
        i == o[c].idx
    IN  /\ p \in Pages /\ o[p].lev = o[c].lev + 1
        /\ <<p, i>> \notin X /\ valid(m[p][i]) /\ m[p][i].pa = c

\* The pages of level 3 and the roots are the same.
Roots(rt, o, Z) ==
  /\ \A s \in Spaces : rt[s] # NULL =>
       /\ rt[s] \notin Z
       /\ o[rt[s]].lev = 3 /\ o[rt[s]].sp = s /\ o[rt[s]].num = 0
  /\ \A p \in Pages \ Z : o[p].lev = 3 => o[p].sp \in Spaces /\ rt[o[p].sp] = p

\* Z are the orphans: pages that no entry leads to and the kernel holds.
Orphans(o, Z) == Z \subseteq Pages /\ \A c \in Z : o[c].lev <= 3

\* What the pages that are no tables hold, and what their entries allow.
Shown(m, o, Z) ==
  /\ \A q \in Pages : o[q].lev = 0 => o[q].body = m[q]
  /\ \A q \in Pages \ Z : o[q].lev = 0 => o[q].flags = m[o[q].tab][o[q].idx].flags

\* All of this.
Tree(f, m, rt, o, Z, X) ==
  /\ Typed(f, m, rt, o)
  /\ FreeOK(f, m, o)
  /\ Down(m, o, Z, X)
  /\ Up(m, o, Z, X)
  /\ Roots(rt, o, Z)
  /\ Orphans(o, Z)
  /\ Shown(m, o, Z)

------------------------------------------------------------------------------

\* Pages and indices are numbers, and no page is NULL.
LEMMA Numbers ==
  /\ NULL \notin Pages /\ Pages \subseteq Nat /\ 0 \in Words /\ Words \subseteq Nat
  /\ WORDS \in Nat /\ WORDS > 1
  /\ \A n \in Nat, i \in Words : Join(n, i) \in Nat
<1>1. NULL \notin Pages /\ Pages \subseteq Nat /\ 0 \in Words /\ Words \subseteq Nat
  BY MemoryAssumption DEF Pages, Words, NULL
<1>2. WORDS \in Nat /\ WORDS > 1
  BY MemoryAssumption
<1>3. ASSUME NEW n \in Nat, NEW i \in Words
      PROVE  Join(n, i) \in Nat
  <2>1. n * WORDS \in Nat
    BY <1>2
  <2> QED
    BY <1>1, <2>1 DEF Join
<1> QED
  BY <1>1, <1>2, <1>3

\* What a link, a root or an entry holds is an address.
LEMMA Addresses == \A p \in Pages \cup {NULL} : p \in Int
  BY MemoryAssumption DEF Pages, NULL

\* A page that the kernel holds has a use.
LEMMA HeldUse == \A x \in Content : Held(x) \in Use
  BY Numbers DEF Held, Use

\* What memset() leaves in a page are words, and zeros are no valid entries.
LEMMA PageTypes ==
  /\ NULL \in Int /\ Wild \in Int /\ Zeros \in Content /\ Fives \in Content /\ Ones \in Content
  /\ \A w : Page(w) = [i \in Words |-> w]
  /\ \A i \in Words : ~ valid(Zeros[i])
<1>1. NULL \in Int /\ Wild \in Int
  BY MemoryAssumption DEF NULL, Wild
<1>2. word(NULL, {}) \in Word /\ word(Wild, {"V"}) \in Word /\ word(Wild, {"V", "W"}) \in Word
  BY <1>1 DEF word, Word, Flags
<1>3. Zeros \in Content /\ Fives \in Content /\ Ones \in Content
  BY <1>2 DEF Zeros, Ones, Fives, Page, Content
<1>4. \A i \in Words : ~ valid(Zeros[i])
  BY DEF Zeros, Page, valid, word
<1> QED
  BY <1>1, <1>3, <1>4 DEF Page

\* The entry for q is valid, in a table of the last level, and leads to q.
InTable(m, o, q) ==
  /\ o[q].tab \in Pages /\ o[q].idx \in Words /\ o[o[q].tab].lev = 1
  /\ valid(m[o[q].tab][o[q].idx]) /\ m[o[q].tab][o[q].idx].pa = q

\* That is where the pages of user memory are.
LEMMA EntryOf ==
  ASSUME NEW f, NEW m, NEW rt, NEW o, NEW Z, NEW X, Tree(f, m, rt, o, Z, X)
  PROVE  \A q \in Pages \ Z : o[q].lev = 0 => InTable(m, o, q)
<1> SUFFICES ASSUME NEW q \in Pages \ Z, o[q].lev = 0
             PROVE  InTable(m, o, q)
  OBVIOUS
<1>1. Typed(f, m, rt, o) /\ Up(m, o, Z, X)
  BY DEF Tree
<1>2. o[q].lev <= 2 /\ o[q].lev + 1 = 1
  OBVIOUS
<1>3. o[q].idx \in Words
  BY <1>1 DEF Typed, Use
<1> QED
  BY <1>1, <1>2, <1>3 DEF Up, InTable

\* kalloc() takes the first page of the list.
LEMMA Pop ==
  ASSUME NEW f, NEW m, NEW rt, NEW o, NEW Z, NEW X, Tree(f, m, rt, o, Z, X), f # NULL,
         NEW c \in Content
  PROVE  Tree(m[f][0].pa, [m EXCEPT ![f] = c], rt, [o EXCEPT ![f] = Held(c)], Z \cup {f}, X)
<1> DEFINE f1 == m[f][0].pa
           m1 == [m EXCEPT ![f] = c]
           o1 == [o EXCEPT ![f] = Held(c)]
<1>1. /\ Typed(f, m, rt, o) /\ FreeOK(f, m, o) /\ Down(m, o, Z, X) /\ Up(m, o, Z, X)
      /\ Roots(rt, o, Z) /\ Orphans(o, Z) /\ Shown(m, o, Z)
  BY DEF Tree
<1>2. /\ f \in Pages /\ o[f].lev = 4 /\ f \notin Z
      /\ \A p \in Pages : o[p].lev \in 0..4 /\ o[p].rank \in Nat
  BY <1>1 DEF Typed, FreeOK, Orphans, Use
<1>3. /\ m1[f] = c /\ o1[f] = Held(c)
      /\ \A p \in Pages : p # f => m1[p] = m[p] /\ o1[p] = o[p]
  BY <1>1, <1>2 DEF Typed
<1>4. o1[f].lev = 0 /\ o1[f].body = c
  BY <1>3 DEF Held
<1>5. f1 \in Pages \cup {NULL}
  BY <1>1, <1>2, Numbers DEF FreeOK
<1>6. Typed(f1, m1, rt, o1)
  BY <1>1, <1>5, HeldUse DEF Typed
<1> HIDE DEF f1, m1, o1
<1>7. f1 = m[f][0].pa
  BY DEF f1
<1>8. FreeOK(f1, m1, o1)
  <2>1. f1 # NULL => f1 \in Pages /\ f1 # f /\ o1[f1].lev = 4 /\ o1[f1].rank = o[f].rank - 1
    BY <1>1, <1>2, <1>3, <1>7 DEF FreeOK
  <2>2. ASSUME NEW p \in Pages, o1[p].lev = 4
        PROVE  /\ f1 # NULL /\ o1[p].rank <= o1[f1].rank
               /\ o1[p].rank = 0 => m1[p][0].pa = NULL
               /\ o1[p].rank > 0 => /\ m1[p][0].pa \in Pages
                                    /\ o1[m1[p][0].pa].lev = 4
                                    /\ o1[m1[p][0].pa].rank = o1[p].rank - 1
    <3>1. p # f /\ o1[p] = o[p] /\ m1[p] = m[p] /\ o[p].lev = 4
      BY <1>3, <1>4, <2>2
    <3>2. o[p].rank # o[f].rank /\ o[p].rank <= o[f].rank
      BY <1>1, <1>2, <3>1 DEF FreeOK
    <3>3. o[f].rank > 0 /\ f1 # NULL
      BY <1>1, <1>2, <1>7, <3>2, Numbers DEF FreeOK
    <3>4. o1[p].rank <= o1[f1].rank
      BY <1>2, <2>1, <3>1, <3>2, <3>3
    <3>5. o[p].rank = 0 => m[p][0].pa = NULL
      BY <1>1, <3>1 DEF FreeOK
    <3>6. o[p].rank > 0 =>
            m[p][0].pa \in Pages /\ o[m[p][0].pa].lev = 4 /\ o[m[p][0].pa].rank = o[p].rank - 1
      BY <1>1, <3>1 DEF FreeOK
    <3>7. o[p].rank > 0 => m[p][0].pa # f
      BY <1>2, <3>2, <3>6
    <3> QED
      BY <1>3, <3>1, <3>3, <3>4, <3>5, <3>6, <3>7
  <2>3. \A p, q \in Pages : o1[p].lev = 4 /\ o1[q].lev = 4 /\ o1[p].rank = o1[q].rank => p = q
    BY <1>1, <1>3, <1>4 DEF FreeOK
  <2> QED
    BY <2>1, <2>2, <2>3 DEF FreeOK
<1>9. Down(m1, o1, Z \cup {f}, X)
  BY <1>1, <1>2, <1>3, <1>4 DEF Down, Leads
<1>10. Up(m1, o1, Z \cup {f}, X)
  BY <1>1, <1>2, <1>3, <1>4 DEF Up
<1>11. Roots(rt, o1, Z \cup {f})
  BY <1>1, <1>2, <1>3, <1>4 DEF Roots, Typed
<1>12. Orphans(o1, Z \cup {f})
  BY <1>1, <1>2, <1>3, <1>4 DEF Orphans
<1>13. Shown(m1, o1, Z \cup {f})
  <2>1. ASSUME NEW q \in Pages \ Z, o[q].lev = 0
        PROVE  o[q].tab \in Pages \ {f}
    <3>1. InTable(m, o, q)
      BY <2>1, EntryOf, Zenon
    <3> QED
      BY <1>2, <3>1 DEF InTable
  <2> QED
    BY <1>1, <1>2, <1>3, <1>4, <2>1 DEF Shown
<1> QED
  BY <1>6, <1>8, <1>9, <1>10, <1>11, <1>12, <1>13 DEF Tree, f1, m1, o1

\* A page that kfree() has put on the list before f.
Freed(f, o) == [lev |-> 4, sp |-> NULL, num |-> 0, tab |-> NULL, idx |-> 0,
                rank |-> IF f = NULL THEN 0 ELSE o[f].rank + 1, body |-> Zeros, flags |-> {}]

\* kfree() puts an orphan on the list; a table must have no valid entry left.
LEMMA Push ==
  ASSUME NEW f, NEW m, NEW rt, NEW o, NEW Z, NEW X, Tree(f, m, rt, o, Z, X), NEW t \in Z,
         o[t].lev > 0 => \A i \in Words : ~ valid(m[t][i]),
         NEW c \in Content, c[0].pa = f
  PROVE  Tree(t, [m EXCEPT ![t] = c], rt, [o EXCEPT ![t] = Freed(f, o)], Z \ {t}, X)
<1> DEFINE m1 == [m EXCEPT ![t] = c]
           o1 == [o EXCEPT ![t] = Freed(f, o)]
<1>1. /\ Typed(f, m, rt, o) /\ FreeOK(f, m, o) /\ Down(m, o, Z, X) /\ Up(m, o, Z, X)
      /\ Roots(rt, o, Z) /\ Orphans(o, Z) /\ Shown(m, o, Z)
  BY DEF Tree
<1>2. /\ t \in Pages /\ o[t].lev # 4
      /\ \A p \in Pages : o[p].lev \in 0..4 /\ o[p].rank \in Nat
  BY <1>1 DEF Typed, Orphans, Use
<1>3. /\ m1[t] = c /\ o1[t] = Freed(f, o)
      /\ \A p \in Pages : p # t => m1[p] = m[p] /\ o1[p] = o[p]
  BY <1>1, <1>2 DEF Typed
<1>4. /\ f # NULL => f \in Pages /\ o[f].rank \in Nat
      /\ o1[t].lev = 4
      /\ f # NULL => o1[t].rank = o[f].rank + 1
      /\ f = NULL => o1[t].rank = 0
  BY <1>1, <1>2, <1>3 DEF Freed, Typed
<1>5. Freed(f, o) \in Use
  <2>1. (IF f = NULL THEN 0 ELSE o[f].rank + 1) \in Nat
    BY <1>4
  <2> QED
    BY <2>1, Numbers, PageTypes DEF Freed, Use
<1>6. Typed(t, m1, rt, o1)
  BY <1>1, <1>2, <1>5 DEF Typed
<1> HIDE DEF m1, o1
<1>7. FreeOK(t, m1, o1)
  <2>1. ASSUME NEW p \in Pages, o1[p].lev = 4
        PROVE  /\ t # NULL /\ o1[p].rank <= o1[t].rank
               /\ o1[p].rank = 0 => m1[p][0].pa = NULL
               /\ o1[p].rank > 0 => /\ m1[p][0].pa \in Pages
                                    /\ o1[m1[p][0].pa].lev = 4
                                    /\ o1[m1[p][0].pa].rank = o1[p].rank - 1
    <3>1. t # NULL
      BY <1>2, Numbers
    <3>2. CASE p = t
      <4>1. m1[p][0].pa = f
        BY <1>3, <3>2
      <4>2. f # NULL => f \in Pages /\ f # t /\ o1[f].lev = 4 /\ o1[f].rank = o1[t].rank - 1
        BY <1>1, <1>2, <1>3, <1>4 DEF FreeOK
      <4> QED
        BY <1>2, <1>4, <3>1, <3>2, <4>1, <4>2
    <3>3. CASE p # t
      <4>1. o1[p] = o[p] /\ m1[p] = m[p] /\ o[p].lev = 4
        BY <1>3, <2>1, <3>3
      <4>2. f # NULL /\ o[p].rank <= o[f].rank
        BY <1>1, <4>1 DEF FreeOK
      <4>3. o[p].rank > 0 =>
              /\ m[p][0].pa \in Pages /\ m[p][0].pa # t /\ o[m[p][0].pa].lev = 4
              /\ o[m[p][0].pa].rank = o[p].rank - 1
        BY <1>1, <1>2, <4>1 DEF FreeOK
      <4>4. o[p].rank = 0 => m[p][0].pa = NULL
        BY <1>1, <4>1 DEF FreeOK
      <4> QED
        BY <1>2, <1>3, <1>4, <3>1, <4>1, <4>2, <4>3, <4>4
    <3> QED
      BY <3>2, <3>3
  <2>2. ASSUME NEW p \in Pages, NEW q \in Pages,
               o1[p].lev = 4, o1[q].lev = 4, o1[p].rank = o1[q].rank
        PROVE  p = q
    <3>1. \A r \in Pages : r # t /\ o1[r].lev = 4 =>
            o1[r] = o[r] /\ o[r].lev = 4 /\ o[r].rank \in Nat /\ o[r].rank < o1[t].rank
      BY <1>1, <1>2, <1>3, <1>4 DEF FreeOK
    <3>2. CASE p # t /\ q # t
      BY <1>1, <2>2, <3>1, <3>2 DEF FreeOK
    <3>3. CASE p = t \/ q = t
      BY <2>2, <3>1, <3>3
    <3> QED
      BY <3>2, <3>3
  <2> QED
    BY <1>4, <2>1, <2>2 DEF FreeOK
<1>8. ASSUME NEW p \in Pages \ Z, o[p].lev <= 2
      PROVE  o[p].tab # t
  <2>1. o[p].idx \in Words /\ o[p].lev \in 0..4
    BY <1>1 DEF Typed, Use
  <2>2. o[o[p].tab].lev = o[p].lev + 1 /\ valid(m[o[p].tab][o[p].idx])
    BY <1>1, <1>8 DEF Up
  <2> QED
    BY <2>1, <2>2
<1>9. Down(m1, o1, Z \ {t}, X)
  BY <1>1, <1>2, <1>3, <1>4 DEF Down, Leads
<1>10. Up(m1, o1, Z \ {t}, X)
  BY <1>1, <1>2, <1>3, <1>4, <1>8 DEF Up
<1>11. Roots(rt, o1, Z \ {t})
  BY <1>1, <1>2, <1>3, <1>4 DEF Roots, Typed
<1>12. Orphans(o1, Z \ {t})
  BY <1>1, <1>2, <1>3, <1>4 DEF Orphans
<1>13. Shown(m1, o1, Z \ {t})
  <2>1. ASSUME NEW q \in Pages \ Z, o[q].lev = 0
        PROVE  o[q].tab \in Pages \ {t}
    <3>1. InTable(m, o, q)
      BY <2>1, EntryOf, Zenon
    <3>2. o[q].lev <= 2
      BY <2>1
    <3> QED
      BY <1>8, <2>1, <3>1, <3>2 DEF InTable
  <2> QED
    BY <1>1, <1>2, <1>3, <1>4, <2>1 DEF Shown
<1> QED
  BY <1>6, <1>7, <1>9, <1>10, <1>11, <1>12, <1>13 DEF Tree, m1, o1

\* An entry is about to be cleared: what it leads to is an orphan.
LEMMA Detach ==
  ASSUME NEW f, NEW m, NEW rt, NEW o, NEW Z, NEW X, Tree(f, m, rt, o, Z, X),
         NEW p \in Pages, NEW i \in Words, o[p].lev \in 1..3, <<p, i>> \notin X, valid(m[p][i])
  PROVE  Tree(f, m, rt, o, Z \cup {m[p][i].pa}, X \cup {<<p, i>>})
<1> DEFINE c == m[p][i].pa
<1>1. /\ Typed(f, m, rt, o) /\ FreeOK(f, m, o) /\ Down(m, o, Z, X) /\ Up(m, o, Z, X)
      /\ Roots(rt, o, Z) /\ Orphans(o, Z) /\ Shown(m, o, Z)
  BY DEF Tree
<1>2. c \in Pages \ Z /\ o[c].lev \in 0..2 /\ o[c].tab = p /\ o[c].idx = i
  BY <1>1 DEF Down, Leads
<1>3. Down(m, o, Z \cup {c}, X \cup {<<p, i>>})
  BY <1>1, <1>2 DEF Down, Leads
<1>4. Up(m, o, Z \cup {c}, X \cup {<<p, i>>})
  BY <1>1, <1>2 DEF Up
<1>5. Roots(rt, o, Z \cup {c})
  BY <1>1, <1>2 DEF Roots
<1>6. Orphans(o, Z \cup {c})
  BY <1>1, <1>2 DEF Orphans
<1>7. Shown(m, o, Z \cup {c})
  BY <1>1 DEF Shown
<1> QED
  BY <1>1, <1>3, <1>4, <1>5, <1>6, <1>7 DEF Tree

\* The entry is cleared.
LEMMA Cut ==
  ASSUME NEW f, NEW m, NEW rt, NEW o, NEW Z, NEW X, Tree(f, m, rt, o, Z, X),
         NEW p \in Pages, NEW i \in Words, o[p].lev \in 1..3, <<p, i>> \in X,
         NEW w \in Word, ~ valid(w)
  PROVE  Tree(f, [m EXCEPT ![p][i] = w], rt, o, Z, X \ {<<p, i>>})
<1> DEFINE m1 == [m EXCEPT ![p][i] = w]
<1>1. /\ Typed(f, m, rt, o) /\ FreeOK(f, m, o) /\ Down(m, o, Z, X) /\ Up(m, o, Z, X)
      /\ Roots(rt, o, Z) /\ Orphans(o, Z) /\ Shown(m, o, Z)
  BY DEF Tree
<1>2. /\ m1 \in [Pages -> Content] /\ m1[p][i] = w
      /\ \A q \in Pages : q # p => m1[q] = m[q]
      /\ \A q \in Pages, j \in Words : <<q, j>> # <<p, i>> => m1[q][j] = m[q][j]
  BY <1>1 DEF Typed, Content
<1> HIDE DEF m1
<1>3. Typed(f, m1, rt, o)
  BY <1>1, <1>2 DEF Typed
<1>4. FreeOK(f, m1, o)
  BY <1>1, <1>2 DEF FreeOK
<1>5. Down(m1, o, Z, X \ {<<p, i>>})
  BY <1>1, <1>2 DEF Down, Leads
<1>6. Up(m1, o, Z, X \ {<<p, i>>})
  BY <1>1, <1>2 DEF Up, Typed, Use
<1>7. Shown(m1, o, Z)
  <2>1. ASSUME NEW q \in Pages \ Z, o[q].lev = 0
        PROVE  m1[o[q].tab][o[q].idx] = m[o[q].tab][o[q].idx]
    <3>1. o[q].tab \in Pages /\ o[q].idx \in Words /\ <<o[q].tab, o[q].idx>> \notin X
      BY <1>1, <2>1 DEF Up, Typed, Use
    <3> QED
      BY <1>2, <3>1
  <2>2. \A q \in Pages : o[q].lev = 0 => m1[q] = m[q]
    BY <1>2
  <2> QED
    BY <1>1, <2>1, <2>2 DEF Shown
<1> QED
  BY <1>1, <1>3, <1>4, <1>5, <1>6, <1>7 DEF Tree, m1

\* What the entry w of p leads to that is linked there now, with x in it.
Child(o, p, i, x, w) == [lev |-> o[p].lev - 1, sp |-> o[p].sp, num |-> Join(o[p].num, i),
                         tab |-> p, idx |-> i, rank |-> 0, body |-> x, flags |-> w.flags]

\* A held page gets an entry.
LEMMA Attach ==
  ASSUME NEW f, NEW m, NEW rt, NEW o, NEW Z, NEW X, Tree(f, m, rt, o, Z, X),
         NEW p \in Pages, NEW i \in Words, o[p].lev \in 1..3, <<p, i>> \notin X,
         ~ valid(m[p][i]), NEW c \in Z, o[c].lev = 0,
         o[p].lev > 1 => \A j \in Words : ~ valid(m[c][j]),
         NEW w \in Word, valid(w), w.pa = c, leaf(w) <=> o[p].lev = 1
  PROVE  Tree(f, [m EXCEPT ![p][i] = w], rt, [o EXCEPT ![c] = Child(o, p, i, m[c], w)],
              Z \ {c}, X)
<1> DEFINE m1 == [m EXCEPT ![p][i] = w]
           o1 == [o EXCEPT ![c] = Child(o, p, i, m[c], w)]
<1>1. /\ Typed(f, m, rt, o) /\ FreeOK(f, m, o) /\ Down(m, o, Z, X) /\ Up(m, o, Z, X)
      /\ Roots(rt, o, Z) /\ Orphans(o, Z) /\ Shown(m, o, Z)
  BY DEF Tree
<1>2. /\ c \in Pages /\ c # p
      /\ \A q \in Pages : o[q].lev \in 0..4 /\ o[q].rank \in Nat /\ o[q].num \in Nat
      /\ o[p].sp \in Spaces \cup {NULL}
  BY <1>1 DEF Typed, Orphans, Use
<1>3. /\ m1 \in [Pages -> Content] /\ m1[p][i] = w
      /\ \A q \in Pages : q # p => m1[q] = m[q]
      /\ \A q \in Pages, j \in Words : <<q, j>> # <<p, i>> => m1[q][j] = m[q][j]
  BY <1>1 DEF Typed, Content
<1>4. /\ o1[c] = Child(o, p, i, m[c], w)
      /\ \A q \in Pages : q # c => o1[q] = o[q]
  BY <1>1, <1>2 DEF Typed
<1>5. /\ o1[c].lev = o[p].lev - 1 /\ o1[c].sp = o[p].sp /\ o1[c].num = Join(o[p].num, i)
      /\ o1[c].tab = p /\ o1[c].idx = i /\ o1[c].body = m[c] /\ o1[c].flags = w.flags
  BY <1>4 DEF Child
<1>6. Child(o, p, i, m[c], w) \in Use
  <2>1. Join(o[p].num, i) \in Nat
    BY <1>2, Numbers
  <2>2. o[p].lev - 1 \in 0..4
    BY <1>2
  <2>3. m[c] \in Content /\ w.flags \in SUBSET Flags
    BY <1>1, <1>2 DEF Typed, Word
  <2> QED
    BY <1>2, <2>1, <2>2, <2>3 DEF Child, Use
<1>7. Typed(f, m1, rt, o1)
  BY <1>1, <1>2, <1>3, <1>6 DEF Typed
<1> HIDE DEF m1, o1
<1>8. FreeOK(f, m1, o1)
  BY <1>1, <1>2, <1>3, <1>4, <1>5 DEF FreeOK, Typed
<1>9. Down(m1, o1, Z \ {c}, X)
  <2>1. ASSUME NEW q \in Pages, NEW j \in Words,
               o1[q].lev \in 1..3, <<q, j>> \notin X, valid(m1[q][j])
        PROVE  Leads(m1, o1, Z \ {c}, q, j)
    <3>1. CASE q = c
      BY <1>2, <1>3, <1>5, <2>1, <3>1
    <3>2. CASE q = p /\ j = i
      BY <1>2, <1>3, <1>4, <1>5, <3>2 DEF Leads
    <3>3. CASE q # c /\ ~ (q = p /\ j = i)
      <4>1. m1[q][j] = m[q][j] /\ o1[q] = o[q]
        BY <1>3, <1>4, <3>3
      <4>2. Leads(m, o, Z, q, j)
        BY <1>1, <2>1, <4>1 DEF Down
      <4> QED
        BY <1>4, <4>1, <4>2 DEF Leads
    <3> QED
      BY <3>1, <3>2, <3>3
  <2> QED
    BY <2>1 DEF Down
<1>10. Up(m1, o1, Z \ {c}, X)
  <2>1. ASSUME NEW q \in Pages \ Z, o[q].lev <= 2
        PROVE  o[q].tab # c /\ <<o[q].tab, o[q].idx>> # <<p, i>>
    <3>1. o[q].lev \in 0..4 /\ o[o[q].tab].lev = o[q].lev + 1
      BY <1>1, <1>2, <2>1 DEF Up
    <3>2. valid(m[o[q].tab][o[q].idx])
      BY <1>1, <2>1 DEF Up
    <3> QED
      BY <3>1, <3>2
  <2>2. \A q \in Pages : o[q].idx \in Words
    BY <1>1 DEF Typed, Use
  <2> QED
    BY <1>1, <1>2, <1>3, <1>4, <1>5, <2>1, <2>2 DEF Up
<1>11. Roots(rt, o1, Z \ {c})
  BY <1>1, <1>2, <1>4, <1>5 DEF Roots, Typed
<1>12. Orphans(o1, Z \ {c})
  BY <1>1, <1>2, <1>4 DEF Orphans
<1>13. Shown(m1, o1, Z \ {c})
  <2>1. ASSUME NEW q \in Pages \ Z, o[q].lev = 0
        PROVE  m1[o[q].tab][o[q].idx] = m[o[q].tab][o[q].idx]
    <3>1. InTable(m, o, q)
      BY <2>1, EntryOf, Zenon
    <3> QED
      BY <1>3, <3>1 DEF InTable
  <2>2. \A q \in Pages : o[q].lev = 0 => m1[q] = m[q]
    BY <1>3
  <2>3. m1[o1[c].tab][o1[c].idx].flags = o1[c].flags
    BY <1>3, <1>5
  <2>4. \A q \in Pages : o1[q].lev = 0 => o1[q].body = m1[q]
    <3>1. o1[c].body = m1[c]
      BY <1>2, <1>3, <1>5
    <3> QED
      BY <1>1, <1>4, <2>2, <3>1 DEF Shown
  <2>5. \A q \in Pages \ Z : o1[q].lev = 0 => o1[q].flags = m1[o1[q].tab][o1[q].idx].flags
    BY <1>1, <1>4, <2>1 DEF Shown
  <2> QED
    BY <2>3, <2>4, <2>5 DEF Shown
<1> QED
  BY <1>7, <1>8, <1>9, <1>10, <1>11, <1>12, <1>13 DEF Tree, m1, o1

\* A held page, or one of user memory, gets other contents.
LEMMA Fill ==
  ASSUME NEW f, NEW m, NEW rt, NEW o, NEW Z, NEW X, Tree(f, m, rt, o, Z, X),
         NEW c \in Pages, o[c].lev = 0, NEW x \in Content
  PROVE  Tree(f, [m EXCEPT ![c] = x], rt, [o EXCEPT ![c].body = x], Z, X)
<1> DEFINE m1 == [m EXCEPT ![c] = x]
           o1 == [o EXCEPT ![c].body = x]
<1>1. /\ Typed(f, m, rt, o) /\ FreeOK(f, m, o) /\ Down(m, o, Z, X) /\ Up(m, o, Z, X)
      /\ Roots(rt, o, Z) /\ Orphans(o, Z) /\ Shown(m, o, Z)
  BY DEF Tree
<1>2. /\ m1 \in [Pages -> Content] /\ m1[c] = x
      /\ \A q \in Pages : q # c => m1[q] = m[q]
      /\ \A q \in Pages : o[q].lev \in 0..4
  BY <1>1 DEF Typed, Use
<1>3. /\ o1 \in [Pages -> Use] /\ o1[c].body = x
      /\ \A q \in Pages : q # c => o1[q] = o[q]
      /\ \A q \in Pages : /\ o1[q].lev = o[q].lev /\ o1[q].sp = o[q].sp /\ o1[q].num = o[q].num
                           /\ o1[q].tab = o[q].tab /\ o1[q].idx = o[q].idx
                           /\ o1[q].rank = o[q].rank /\ o1[q].flags = o[q].flags
  BY <1>1 DEF Typed, Use
<1> HIDE DEF m1, o1
<1>4. Typed(f, m1, rt, o1)
  BY <1>1, <1>2, <1>3 DEF Typed
<1>5. FreeOK(f, m1, o1)
  <2>1. FreeOK(f, m1, o)
    BY <1>1, <1>2 DEF FreeOK
  <2> QED
    BY <1>1, <1>3, <2>1 DEF FreeOK, Typed
<1>6. Down(m1, o1, Z, X)
  BY <1>1, <1>2, <1>3 DEF Down, Leads
<1>7. Up(m1, o1, Z, X)
  BY <1>1, <1>2, <1>3 DEF Up
<1>8. Roots(rt, o1, Z) /\ Orphans(o1, Z)
  BY <1>1, <1>3 DEF Roots, Orphans, Typed
<1>9. Shown(m1, o1, Z)
  <2>1. ASSUME NEW q \in Pages \ Z, o[q].lev = 0
        PROVE  o[q].tab \in Pages /\ m1[o[q].tab] = m[o[q].tab]
    <3>1. InTable(m, o, q)
      BY <2>1, EntryOf, Zenon
    <3> QED
      BY <1>2, <3>1 DEF InTable
  <2> QED
    BY <1>1, <1>2, <1>3, <2>1 DEF Shown
<1> QED
  BY <1>4, <1>5, <1>6, <1>7, <1>8, <1>9 DEF Tree, m1, o1

\* The flags of the entry for a page of user memory change, but not what it is.
LEMMA Flag ==
  ASSUME NEW f, NEW m, NEW rt, NEW o, NEW Z, NEW X, Tree(f, m, rt, o, Z, X),
         NEW p \in Pages, NEW i \in Words, o[p].lev = 1, <<p, i>> \notin X,
         NEW w \in Word, w.pa = m[p][i].pa, valid(w), valid(m[p][i]), leaf(w) <=> leaf(m[p][i])
  PROVE  Tree(f, [m EXCEPT ![p][i] = w], rt, [o EXCEPT ![m[p][i].pa].flags = w.flags], Z, X)
<1> DEFINE m1 == [m EXCEPT ![p][i] = w]
           c == m[p][i].pa
           o1 == [o EXCEPT ![c].flags = w.flags]
<1>1. /\ Typed(f, m, rt, o) /\ FreeOK(f, m, o) /\ Down(m, o, Z, X) /\ Up(m, o, Z, X)
      /\ Roots(rt, o, Z) /\ Orphans(o, Z) /\ Shown(m, o, Z)
  BY DEF Tree
<1>2. /\ m1 \in [Pages -> Content] /\ m1[p][i] = w
      /\ \A q \in Pages : q # p => m1[q] = m[q]
      /\ \A q \in Pages, j \in Words : <<q, j>> # <<p, i>> => m1[q][j] = m[q][j]
      /\ \A q \in Pages, j \in Words : /\ m1[q][j].pa = m[q][j].pa
                                       /\ valid(m1[q][j]) <=> valid(m[q][j])
                                       /\ leaf(m1[q][j]) <=> leaf(m[q][j])
      /\ \A q \in Pages : o[q].idx \in Words
  BY <1>1 DEF Typed, Content, Use
<1>3. c \in Pages \ Z /\ o[c].lev = 0 /\ o[c].tab = p /\ o[c].idx = i
  <2>1. o[p].lev \in 1..3 /\ o[p].lev - 1 = 0
    OBVIOUS
  <2> QED
    BY <1>1, <2>1 DEF Down, Leads
<1> HIDE DEF c
<1>4. /\ o1 \in [Pages -> Use] /\ o1[c].flags = w.flags
      /\ \A q \in Pages : q # c => o1[q] = o[q]
      /\ \A q \in Pages : /\ o1[q].lev = o[q].lev /\ o1[q].sp = o[q].sp /\ o1[q].num = o[q].num
                           /\ o1[q].tab = o[q].tab /\ o1[q].idx = o[q].idx
                           /\ o1[q].rank = o[q].rank /\ o1[q].body = o[q].body
  BY <1>1, <1>3 DEF Typed, Use, Word
<1> HIDE DEF m1, o1
<1>5. Typed(f, m1, rt, o1)
  BY <1>1, <1>2, <1>4 DEF Typed
<1>6. FreeOK(f, m1, o1)
  <2>1. FreeOK(f, m1, o)
    BY <1>1, <1>2 DEF FreeOK
  <2> QED
    BY <1>1, <1>4, <2>1 DEF FreeOK, Typed
<1>7. Down(m1, o1, Z, X)
  <2>1. Down(m1, o, Z, X)
    BY <1>1, <1>2 DEF Down, Leads
  <2> QED
    BY <1>4, <2>1 DEF Down, Leads
<1>8. Up(m1, o1, Z, X)
  <2>1. Up(m1, o, Z, X)
    BY <1>1, <1>2 DEF Up
  <2> QED
    BY <1>4, <2>1 DEF Up
<1>9. Roots(rt, o1, Z) /\ Orphans(o1, Z)
  BY <1>1, <1>4 DEF Roots, Orphans, Typed
<1>10. Shown(m1, o1, Z)
  <2>1. ASSUME NEW q \in Pages \ Z, o[q].lev = 0, q # c
        PROVE  m1[o[q].tab][o[q].idx] = m[o[q].tab][o[q].idx]
    <3>1. InTable(m, o, q)
      BY <2>1, EntryOf, Zenon
    <3> QED
      BY <1>2, <2>1, <3>1 DEF c, InTable
  <2>2. m1[o1[c].tab][o1[c].idx].flags = o1[c].flags
    BY <1>2, <1>3, <1>4
  <2>3. \A q \in Pages : o[q].lev = 0 => m1[q] = m[q]
    BY <1>2
  <2>4. \A q \in Pages : o1[q].lev = 0 => o1[q].body = m1[q]
    BY <1>1, <1>4, <2>3 DEF Shown
  <2>5. \A q \in Pages \ Z : o1[q].lev = 0 /\ q # c => o1[q].flags = m1[o1[q].tab][o1[q].idx].flags
    BY <1>1, <1>4, <2>1 DEF Shown
  <2> QED
    BY <2>2, <2>4, <2>5 DEF Shown
<1> QED
  BY <1>5, <1>6, <1>7, <1>8, <1>9, <1>10 DEF Tree, m1, o1, c

\* A held page becomes the root of a space.
RootOf(s) == [lev |-> 3, sp |-> s, num |-> 0, tab |-> NULL, idx |-> 0, rank |-> 0,
              body |-> Zeros, flags |-> {}]

\* An empty page becomes the root of a space.
LEMMA Plant ==
  ASSUME NEW f, NEW m, NEW rt, NEW o, NEW Z, NEW X, Tree(f, m, rt, o, Z, X),
         NEW c \in Z, o[c].lev = 0, \A j \in Words : ~ valid(m[c][j]),
         NEW s \in Spaces, rt[s] = NULL
  PROVE  Tree(f, m, [rt EXCEPT ![s] = c], [o EXCEPT ![c] = RootOf(s)], Z \ {c}, X)
<1> DEFINE o1 == [o EXCEPT ![c] = RootOf(s)]
           rt1 == [rt EXCEPT ![s] = c]
<1>1. /\ Typed(f, m, rt, o) /\ FreeOK(f, m, o) /\ Down(m, o, Z, X) /\ Up(m, o, Z, X)
      /\ Roots(rt, o, Z) /\ Orphans(o, Z) /\ Shown(m, o, Z)
  BY DEF Tree
<1>2. /\ c \in Pages
      /\ \A q \in Pages : o[q].lev \in 0..4 /\ o[q].rank \in Nat /\ o[q].idx \in Words
  BY <1>1 DEF Typed, Orphans, Use
<1>3. /\ o1[c] = RootOf(s)
      /\ \A q \in Pages : q # c => o1[q] = o[q]
      /\ rt1 \in [Spaces -> Pages \cup {NULL}] /\ rt1[s] = c
      /\ \A t \in Spaces : t # s => rt1[t] = rt[t]
  BY <1>1, <1>2 DEF Typed
<1>4. o1[c].lev = 3 /\ o1[c].sp = s /\ o1[c].num = 0
  BY <1>3 DEF RootOf
<1>5. RootOf(s) \in Use
  BY Numbers, PageTypes DEF RootOf, Use
<1>6. Typed(f, m, rt1, o1)
  BY <1>1, <1>2, <1>3, <1>5 DEF Typed
<1> HIDE DEF o1, rt1
<1>7. FreeOK(f, m, o1)
  BY <1>1, <1>2, <1>3, <1>4 DEF FreeOK, Typed
<1>8. Down(m, o1, Z \ {c}, X)
  BY <1>1, <1>2, <1>3, <1>4 DEF Down, Leads
<1>9. Up(m, o1, Z \ {c}, X)
  <2>1. ASSUME NEW q \in Pages \ Z, o[q].lev <= 2
        PROVE  o[q].tab # c
    <3>1. o[q].lev \in 0..4 /\ o[o[q].tab].lev = o[q].lev + 1
      BY <1>1, <1>2, <2>1 DEF Up
    <3> QED
      BY <3>1
  <2> QED
    BY <1>1, <1>2, <1>3, <1>4, <2>1 DEF Up
<1>10. Roots(rt1, o1, Z \ {c})
  <2>1. ASSUME NEW t \in Spaces, rt1[t] # NULL
        PROVE  /\ rt1[t] \notin Z \ {c}
               /\ o1[rt1[t]].lev = 3 /\ o1[rt1[t]].sp = t /\ o1[rt1[t]].num = 0
    <3>1. CASE t = s
      BY <1>3, <1>4, <3>1
    <3>2. CASE t # s
      BY <1>1, <1>2, <1>3, <2>1, <3>2 DEF Roots, Typed
    <3> QED
      BY <3>1, <3>2
  <2>2. ASSUME NEW p \in Pages \ (Z \ {c}), o1[p].lev = 3
        PROVE  o1[p].sp \in Spaces /\ rt1[o1[p].sp] = p
    <3>1. CASE p = c
      BY <1>3, <1>4, <3>1
    <3>2. CASE p # c
      <4>1. o1[p] = o[p] /\ p \in Pages \ Z
        BY <1>3, <3>2
      <4>2. o[p].sp \in Spaces /\ rt[o[p].sp] = p
        BY <1>1, <2>2, <4>1 DEF Roots
      <4> QED
        BY <1>3, <4>1, <4>2, Numbers
    <3> QED
      BY <3>1, <3>2
  <2> QED
    BY <2>1, <2>2 DEF Roots
<1>11. Orphans(o1, Z \ {c})
  BY <1>1, <1>2, <1>3 DEF Orphans
<1>12. Shown(m, o1, Z \ {c})
  BY <1>1, <1>3, <1>4 DEF Shown
<1> QED
  BY <1>6, <1>7, <1>8, <1>9, <1>10, <1>11, <1>12 DEF Tree, o1, rt1

\* A space gives up its root.
LEMMA Uproot ==
  ASSUME NEW f, NEW m, NEW rt, NEW o, NEW Z, NEW X, Tree(f, m, rt, o, Z, X),
         NEW s \in Spaces, rt[s] # NULL
  PROVE  Tree(f, m, [rt EXCEPT ![s] = NULL], o, Z \cup {rt[s]}, X)
<1>1. /\ Typed(f, m, rt, o) /\ FreeOK(f, m, o) /\ Down(m, o, Z, X) /\ Up(m, o, Z, X)
      /\ Roots(rt, o, Z) /\ Orphans(o, Z) /\ Shown(m, o, Z)
  BY DEF Tree
<1> DEFINE rt1 == [rt EXCEPT ![s] = NULL]
           r == rt[s]
<1>2. /\ r \in Pages /\ o[r].lev = 3 /\ o[r].sp = s
      /\ \A q \in Pages : o[q].lev \in 0..4
  BY <1>1 DEF Typed, Roots, Use
<1>3. /\ rt1 \in [Spaces -> Pages \cup {NULL}] /\ rt1[s] = NULL
      /\ \A t \in Spaces : t # s => rt1[t] = rt[t]
  BY <1>1 DEF Typed
<1> HIDE DEF rt1
<1>4. Typed(f, m, rt1, o)
  BY <1>1, <1>3 DEF Typed
<1>5. Down(m, o, Z \cup {r}, X)
  BY <1>1, <1>2 DEF Down, Leads
<1>6. Up(m, o, Z \cup {r}, X)
  BY <1>1 DEF Up
<1>7. Roots(rt1, o, Z \cup {r})
  BY <1>1, <1>2, <1>3, Numbers DEF Roots, Typed
<1>8. Orphans(o, Z \cup {r})
  BY <1>1, <1>2 DEF Orphans
<1>9. Shown(m, o, Z \cup {r})
  BY <1>1 DEF Shown
<1> QED
  BY <1>1, <1>4, <1>5, <1>6, <1>7, <1>8, <1>9 DEF Tree, rt1

------------------------------------------------------------------------------
(* Addresses.                                                              *)

\* The number of the page of a virtual address, and where pages begin.
VpnOf(va) == va \div PGSIZE
Aligned(va) == va % PGSIZE = 0

\* The end of the addresses is a number.
LEMMA MaxvaInt == MAXVA \in Int
<1>1. WORDS \in Nat /\ PGSIZE \in Nat
  BY MemoryAssumption, PageAssumption
<1> DEFINE w3 == WORDS * WORDS * WORDS
<1>2. w3 \in Nat
  BY <1>1
<1> HIDE DEF w3
<1>3. w3 * PGSIZE \in Nat
  BY <1>1, <1>2
<1> QED
  BY <1>3 DEF MAXVA, w3

\* The indices of an address lead to the number of its page.
LEMMA Digits ==
  ASSUME NEW va \in Nat, va < MAXVA
  PROVE  /\ \A l \in 0..2 : PX(l, va) \in Words
         /\ VpnOf(va) \in Nat /\ VpnOf(va) \div WORDS \in Nat
         /\ Join(0, PX(2, va)) = (VpnOf(va) \div WORDS) \div WORDS
         /\ Join((VpnOf(va) \div WORDS) \div WORDS, PX(1, va)) = VpnOf(va) \div WORDS
         /\ Join(VpnOf(va) \div WORDS, PX(0, va)) = VpnOf(va)
<1> DEFINE n == VpnOf(va)
           n1 == n \div WORDS
           n2 == n1 \div WORDS
<1>1. WORDS \in Nat /\ WORDS > 0 /\ PGSIZE \in Nat /\ PGSIZE > 0
  BY MemoryAssumption, PageAssumption
<1>2. n \in Nat
  BY <1>1, Quotient DEF VpnOf
<1>3. n1 \in Nat
  <2> HIDE DEF n
  <2> QED
    BY <1>1, <1>2, Quotient
<1>4. n2 \in Nat
  <2> HIDE DEF n1
  <2> QED
    BY <1>1, <1>3, Quotient
<1>5. PX(2, va) = n2 % WORDS /\ PX(1, va) = n1 % WORDS /\ PX(0, va) = n % WORDS
  BY DEF PX, VpnOf
<1>6. n2 < WORDS
  <2> DEFINE w2 == WORDS * WORDS
             w3 == w2 * WORDS
             top == w3 * PGSIZE
  <2>1. w2 \in Nat
    BY <1>1
  <2>2. w3 \in Nat
    <3> HIDE DEF w2
    <3> QED
      BY <1>1, <2>1
  <2>3. top \in Nat
    <3> HIDE DEF w3
    <3> QED
      BY <1>1, <2>2
  <2>4. va < top
    <3>1. MAXVA = top \div 2
      BY DEF MAXVA
    <3> HIDE DEF top
    <3>2. top \div 2 <= top /\ top \div 2 \in Int
      BY <2>3
    <3> QED
      BY <2>3, <3>1, <3>2
  <2>5. n < w3
    <3> HIDE DEF w3
    <3> QED
      BY <1>1, <2>2, <2>4 DEF VpnOf
  <2>6. n1 < w2
    <3> HIDE DEF w2, n
    <3> QED
      BY <1>1, <1>2, <2>1, <2>5
  <2> HIDE DEF n1
  <2> QED
    BY <1>1, <1>3, <2>6
<1> HIDE DEF n, n1, n2
<1>7. /\ n2 = n1 \div WORDS /\ n1 = n \div WORDS /\ n = VpnOf(va)
  BY DEF n, n1, n2
<1>8. n2 % WORDS = n2
  BY <1>1, <1>4, <1>6
<1>9. n2 % WORDS \in Words /\ n1 % WORDS \in Words /\ n % WORDS \in Words
  BY <1>1, <1>2, <1>3, <1>4, Divide DEF Words
<1>10. n1 = n2 * WORDS + (n1 % WORDS) /\ n = n1 * WORDS + (n % WORDS)
  BY <1>1, <1>2, <1>3, <1>7, Divide
<1>11. Join(0, n2 % WORDS) = n2
  BY <1>1, <1>4, <1>8 DEF Join
<1>12. Join(n2, n1 % WORDS) = n1 /\ Join(n1, n % WORDS) = n
  BY <1>10 DEF Join
<1>13. \A l \in 0..2 : PX(l, va) \in Words
  <2>1. \A l \in 0..2 : l = 0 \/ l = 1 \/ l = 2
    OBVIOUS
  <2> QED
    BY <1>5, <1>9, <2>1
<1>14. VpnOf(va) \div WORDS = n1 /\ (VpnOf(va) \div WORDS) \div WORDS = n2
  BY <1>7
<1> QED
  BY <1>2, <1>3, <1>5, <1>7, <1>11, <1>12, <1>13, <1>14

\* An index and what leads to its table can be read off their join.
LEMMA JoinInjective ==
  ASSUME NEW n \in Nat, NEW m \in Nat, NEW i \in Words, NEW j \in Words, Join(n, i) = Join(m, j)
  PROVE  n = m /\ i = j
<1>1. WORDS \in Nat /\ WORDS > 0 /\ i \in 0 .. WORDS - 1 /\ j \in 0 .. WORDS - 1
  BY MemoryAssumption DEF Words
<1>2. n * WORDS + i = m * WORDS + j
  BY DEF Join
<1> QED
  BY <1>1, <1>2

\* Rounding up: how many pages x bytes begin.
Ceil(x) == (x + PGSIZE - 1) \div PGSIZE

\* What rounding up gives: the number of pages that so many bytes need.
LEMMA Rounding ==
  ASSUME NEW x \in Nat
  PROVE  /\ Ceil(x) \in Nat
         /\ \A n \in Nat : n < Ceil(x) <=> n * PGSIZE < x
         /\ PGROUNDUP(x) = Ceil(x) * PGSIZE /\ PGROUNDUP(x) \in Nat
         /\ PGROUNDUP(x) \div PGSIZE = Ceil(x)
         /\ Aligned(PGROUNDUP(x))
<1>1. PGSIZE \in Nat /\ PGSIZE > 0
  BY PageAssumption
<1>2. Ceil(x) \in Nat
  <2>1. x + PGSIZE - 1 \in Nat
    BY <1>1
  <2> QED
    BY <1>1, <2>1, Quotient DEF Ceil
<1>3. \A n \in Nat : n < Ceil(x) <=> n * PGSIZE < x
  BY <1>1 DEF Ceil
<1>4. PGROUNDUP(x) = Ceil(x) * PGSIZE
  BY DEF PGROUNDUP, Ceil
<1> HIDE DEF Ceil
<1>5. Ceil(x) * PGSIZE \in Nat
  BY <1>1, <1>2
<1>6. (Ceil(x) * PGSIZE) \div PGSIZE = Ceil(x) /\ (Ceil(x) * PGSIZE) % PGSIZE = 0
  BY <1>1, <1>2
<1> QED
  BY <1>2, <1>3, <1>4, <1>5, <1>6 DEF Aligned

\* Whole pages.
LEMMA Multiples ==
  ASSUME NEW n \in Nat
  PROVE  /\ n * PGSIZE \in Nat /\ VpnOf(n * PGSIZE) = n /\ Aligned(n * PGSIZE)
         /\ Ceil(n * PGSIZE) = n /\ PGROUNDUP(n * PGSIZE) = n * PGSIZE
<1>1. PGSIZE \in Nat /\ PGSIZE > 0
  BY PageAssumption
<1>2. n * PGSIZE \in Nat /\ (n * PGSIZE) \div PGSIZE = n /\ (n * PGSIZE) % PGSIZE = 0
  BY <1>1
<1>3. (n * PGSIZE + PGSIZE - 1) \div PGSIZE = n
  <2>1. PGSIZE - 1 \in 0 .. PGSIZE - 1
    BY <1>1
  <2>2. ASSUME NEW r \in 0 .. PGSIZE - 1
        PROVE  (n * PGSIZE + r) \div PGSIZE = n
    BY <1>1
  <2>3. (n * PGSIZE + (PGSIZE - 1)) \div PGSIZE = n
    BY <2>1, <2>2
  <2>4. n * PGSIZE + PGSIZE - 1 = n * PGSIZE + (PGSIZE - 1)
    BY <1>1, <1>2
  <2> QED
    BY <2>3, <2>4
<1> QED
  BY <1>2, <1>3 DEF VpnOf, Aligned, Ceil, PGROUNDUP

------------------------------------------------------------------------------
(* kalloc.c                                                                *)

Mem == [freelist : Pages \cup {NULL}, ram : [Pages -> Content], ret : Int, panic : {"none"}]

\* The memory a, with orphans Z, where nothing has gone wrong.
Holds(a, rt, o, Z, X) == a \in Mem /\ Tree(a.freelist, a.ram, rt, o, Z, X)

\* What kalloc() makes of a: b is a without its first free page.
Allocated(a, b, rt, o, Z, X) ==
  \/ b.ret = NULL /\ Holds(b, rt, o, Z, X)
  \/ /\ b.ret \in Pages \ Z /\ o[b.ret].lev = 4
     /\ Holds(b, rt, [o EXCEPT ![b.ret] = Held(b.ram[b.ret])], Z \cup {b.ret}, X)
     /\ \A q \in Pages \ {b.ret} : b.ram[q] = a.ram[q]

\* A return value changes nothing else.
LEMMA Returns ==
  ASSUME NEW a, NEW rt, NEW o, NEW Z, NEW X, Holds(a, rt, o, Z, X), NEW r \in Int
  PROVE  /\ Holds(return(a, r), rt, o, Z, X)
         /\ return(a, r).ret = r /\ return(a, r).ram = a.ram
         /\ return(a, r).freelist = a.freelist
BY DEF Holds, Mem, return

\* kalloc() hands out a free page or NULL.
LEMMA Kalloc ==
  ASSUME NEW a, NEW rt, NEW o, NEW Z, NEW X, Holds(a, rt, o, Z, X)
  PROVE  Allocated(a, kalloc(a), rt, o, Z, X)
<1>1. CASE a.freelist = NULL
  BY <1>1, Returns, PageTypes DEF kalloc, Allocated
<1>2. CASE a.freelist # NULL
  <2> DEFINE f == a.freelist
             b == kalloc(a)
  <2>1. a \in Mem /\ Tree(f, a.ram, rt, o, Z, X)
    BY DEF Holds
  <2>2. f \in Pages /\ a.ram \in [Pages -> Content]
    BY <1>2, <2>1 DEF Mem
  <2>3. o[f].lev = 4 /\ f \notin Z
    BY <1>2, <2>1 DEF Tree, FreeOK, Orphans
  <2>4. /\ b.ret = f /\ b.freelist = a.ram[f][0].pa /\ b.panic = "none"
        /\ b.ram = [a.ram EXCEPT ![f] = Fives]
        /\ b = [freelist |-> b.freelist, ram |-> b.ram, ret |-> b.ret, panic |-> b.panic]
    BY <1>2, <2>1 DEF kalloc, Mem
  <2>5. Tree(b.freelist, b.ram, rt, [o EXCEPT ![f] = Held(Fives)], Z \cup {f}, X)
    <3>1. Tree(a.ram[f][0].pa, [a.ram EXCEPT ![f] = Fives], rt, [o EXCEPT ![f] = Held(Fives)],
               Z \cup {f}, X)
      <4>1. Fives \in Content
        BY PageTypes
      <4> HIDE DEF f
      <4> QED
        BY <1>2, <2>1, <4>1, Pop DEF f
    <3> QED
      BY <2>4, <3>1
  <2> HIDE DEF b
  <2>6. b.freelist \in Pages \cup {NULL} /\ b.ram \in [Pages -> Content]
    BY <2>5 DEF Tree, Typed
  <2>7. b.ret \in Int
    BY <2>2, <2>4, Numbers
  <2>8. b \in Mem
    BY <2>4, <2>6, <2>7 DEF Mem
  <2>9. Holds(b, rt, [o EXCEPT ![b.ret] = Held(b.ram[b.ret])], Z \cup {b.ret}, X)
    <3>1. b.ram[b.ret] = Fives
      BY <2>2, <2>4
    <3> QED
      BY <2>4, <2>5, <2>8, <3>1 DEF Holds
  <2>10. \A q \in Pages \ {b.ret} : b.ram[q] = a.ram[q]
    BY <2>2, <2>4
  <2> QED
    BY <2>2, <2>3, <2>4, <2>9, <2>10 DEF Allocated, b
<1> QED
  BY <1>1, <1>2

\* kalloc() and memset().
LEMMA KallocZeroed ==
  ASSUME NEW a, NEW rt, NEW o, NEW Z, NEW X, Holds(a, rt, o, Z, X)
  PROVE  LET b == kalloc_zeroed(a)
         IN  /\ Allocated(a, b, rt, o, Z, X)
             /\ b.ret # NULL => /\ \A i \in Words : ~ valid(b.ram[b.ret][i])
                                /\ b.ram[b.ret] = Zeros
<1> DEFINE b == kalloc(a)
           c == kalloc_zeroed(a)
           o1 == [o EXCEPT ![b.ret] = Held(b.ram[b.ret])]
           o2 == [o1 EXCEPT ![b.ret].body = Zeros]
<1>1. Allocated(a, b, rt, o, Z, X)
  BY Kalloc
<1>2. c = IF b.ret = NULL THEN b ELSE [b EXCEPT !.ram[b.ret] = Zeros]
  BY DEF kalloc_zeroed, zeroed
<1> HIDE DEF b, c
<1>3. CASE b.ret = NULL
  BY <1>1, <1>2, <1>3 DEF c
<1>4. CASE b.ret # NULL
  <2>1. /\ b.ret \in Pages \ Z /\ o[b.ret].lev = 4
        /\ Holds(b, rt, o1, Z \cup {b.ret}, X)
        /\ \A q \in Pages \ {b.ret} : b.ram[q] = a.ram[q]
    BY <1>1, <1>4 DEF Allocated
  <2>2. b \in Mem /\ Tree(b.freelist, b.ram, rt, o1, Z \cup {b.ret}, X)
    BY <2>1 DEF Holds
  <2>3. o1[b.ret].lev = 0
    <3>1. o \in [Pages -> Use]
      BY DEF Holds, Tree, Typed
    <3> QED
      BY <2>1, <3>1 DEF Held
  <2>4. /\ c.ret = b.ret /\ c.freelist = b.freelist /\ c.panic = b.panic
        /\ c.ram = [b.ram EXCEPT ![b.ret] = Zeros]
        /\ c = [freelist |-> c.freelist, ram |-> c.ram, ret |-> c.ret, panic |-> c.panic]
    BY <1>2, <1>4, <2>2 DEF Mem
  <2>5. Zeros \in Content
    BY PageTypes
  <2>12. o2 = [o EXCEPT ![b.ret] = Held(Zeros)]
    <3>1. o \in [Pages -> Use]
      BY DEF Holds, Tree, Typed
    <3>2. o1[b.ret] = Held(b.ram[b.ret])
      BY <2>1, <3>1
    <3>3. [Held(b.ram[b.ret]) EXCEPT !.body = Zeros] = Held(Zeros)
      BY DEF Held
    <3>4. o2 = [o1 EXCEPT ![b.ret] = [o1[b.ret] EXCEPT !.body = Zeros]]
      OBVIOUS
    <3> QED
      BY <2>1, <3>1, <3>2, <3>3, <3>4
  <2> HIDE DEF o1
  <2>6. Tree(b.freelist, [b.ram EXCEPT ![b.ret] = Zeros], rt, o2, Z \cup {b.ret}, X)
    BY <2>1, <2>2, <2>3, <2>5, Fill
  <2>7. c.ram \in [Pages -> Content] /\ c.ram[b.ret] = Zeros
        /\ \A q \in Pages \ {b.ret} : c.ram[q] = b.ram[q]
    BY <2>1, <2>2, <2>4, <2>5 DEF Mem
  <2>8. c \in Mem
    BY <2>2, <2>4, <2>7 DEF Mem
  <2> HIDE DEF o2
  <2>9. Holds(c, rt, o2, Z \cup {b.ret}, X)
    BY <2>4, <2>6, <2>8 DEF Holds
  <2>10. Allocated(a, c, rt, o, Z, X)
    BY <2>1, <2>4, <2>7, <2>9, <2>12 DEF Allocated
  <2>11. \A i \in Words : ~ valid(c.ram[c.ret][i])
    BY <2>4, <2>7, PageTypes
  <2> QED
    BY <2>4, <2>7, <2>10, <2>11 DEF c
<1> QED
  BY <1>3, <1>4

\* kfree() of a page that the kernel holds.
LEMMA Kfree ==
  ASSUME NEW a, NEW rt, NEW o, NEW Z, NEW X, Holds(a, rt, o, Z, X), NEW t \in Z,
         o[t].lev > 0 => \A i \in Words : ~ valid(a.ram[t][i])
  PROVE  LET b == kfree(a, t)
         IN  /\ Holds(b, rt, [o EXCEPT ![t] = Freed(a.freelist, o)], Z \ {t}, X)
             /\ b.ret = a.ret
             /\ \A q \in Pages \ {t} : b.ram[q] = a.ram[q]
<1> DEFINE b == kfree(a, t)
           c == [Ones EXCEPT ![0] = word(a.freelist, {})]
<1>1. a \in Mem /\ Tree(a.freelist, a.ram, rt, o, Z, X)
  BY DEF Holds
<1>2. t \in Pages
  BY <1>1 DEF Tree, Orphans
<1>3. a.freelist \in Int
  BY <1>1, Addresses DEF Mem
<1>4. c \in Content /\ c[0].pa = a.freelist
  BY <1>3, Numbers, PageTypes DEF Content, Word, word
<1>5. /\ b.ret = a.ret /\ b.freelist = t /\ b.panic = "none"
      /\ b.ram = [a.ram EXCEPT ![t] = c]
      /\ b = [freelist |-> b.freelist, ram |-> b.ram, ret |-> b.ret, panic |-> b.panic]
  BY <1>1, <1>2 DEF kfree, Mem
<1> HIDE DEF b, c
<1>6. Tree(t, [a.ram EXCEPT ![t] = c], rt, [o EXCEPT ![t] = Freed(a.freelist, o)], Z \ {t}, X)
  BY <1>1, <1>4, Push
<1>7. b.ram \in [Pages -> Content] /\ \A q \in Pages \ {t} : b.ram[q] = a.ram[q]
  BY <1>1, <1>2, <1>4, <1>5 DEF Mem
<1>8. b \in Mem
  BY <1>1, <1>2, <1>5, <1>7 DEF Mem
<1> QED
  BY <1>5, <1>6, <1>7, <1>8 DEF Holds, b

------------------------------------------------------------------------------
(* walk()                                                                  *)

\* From o to o1, free pages became tables of space s.
Grew(o, o1, s, q) ==
  \/ o1[q] = o[q]
  \/ o[q].lev = 4 /\ o1[q].lev \in 1..2 /\ o1[q].sp = s
Grown(o, o1, s) == \A q \in Pages : Grew(o, o1, s, q)

\* Page t is of level l in space s, and n leads to it.
At(o, Z, t, l, s, n) ==
  t \in Pages \ Z /\ o[t].lev = l /\ o[t].sp = s /\ o[t].num = n

\* The entry that walk() makes leads to a table.
LEMMA TableWord ==
  ASSUME NEW c \in Pages
  PROVE  LET w == word(c, {"V"})
         IN  w \in Word /\ valid(w) /\ w.pa = c /\ ~ leaf(w)
<1> DEFINE w == word(c, {"V"})
<1>1. w.pa = c /\ w.flags = {"V"} /\ w = [pa |-> w.pa, flags |-> w.flags]
  BY DEF word
<1> HIDE DEF w
<1>2. w \in Word
  BY <1>1, Numbers DEF Word, Flags
<1>3. valid(w)
  BY <1>1 DEF valid
<1>4. ~ leaf(w)
  BY <1>1 DEF leaf
<1> QED
  BY <1>1, <1>2, <1>3, <1>4 DEF w

\* One level of a walk that may allocate.
LEMMA Descend ==
  ASSUME NEW a, NEW rt, NEW o, NEW Z, Holds(a, rt, o, Z, {}),
         a.ret \in Pages, o[a.ret].lev \in 2..3, NEW i \in Words
  PROVE  LET b == descend(a, i, TRUE)
             p == o[a.ret]
         IN  \E o1 : /\ Holds(b, rt, o1, Z, {}) /\ Grown(o, o1, p.sp)
                     /\ b.ret # NULL => At(o1, Z, b.ret, p.lev - 1, p.sp, Join(p.num, i))
<1> DEFINE p == a.ret
           w == a.ram[p][i]
           b == descend(a, i, TRUE)
<1>1. a \in Mem /\ Tree(a.freelist, a.ram, rt, o, Z, {})
  BY DEF Holds
<1>2. Typed(a.freelist, a.ram, rt, o) /\ Down(a.ram, o, Z, {}) /\ Orphans(o, Z)
  BY <1>1 DEF Tree
<1>3. CASE valid(w)
  <2>1. b = return(a, w.pa)
    BY <1>3, Numbers DEF descend, PTE2PA
  <2>2. Leads(a.ram, o, Z, p, i)
    BY <1>2, <1>3 DEF Down
  <2>3. w.pa \in Pages \ Z /\ At(o, Z, w.pa, o[p].lev - 1, o[p].sp, Join(o[p].num, i))
    BY <2>2 DEF Leads, At
  <2>4. Holds(b, rt, o, Z, {}) /\ b.ret = w.pa
    <3> HIDE DEF b, w
    <3>1. w.pa \in Int
      BY <2>3, Addresses
    <3> QED
      BY <2>1, <3>1, Returns
  <2>5. Grown(o, o, o[p].sp)
    BY DEF Grown, Grew
  <2> QED
    BY <2>3, <2>4, <2>5
<1>4. CASE ~ valid(w)
  <2> DEFINE d == kalloc_zeroed(a)
             c == d.ret
             x == d.ram[c]
             o1 == [o EXCEPT ![c] = Held(x)]
             v == word(c, {"V"})
             o2 == [o1 EXCEPT ![c] = Child(o1, p, i, x, v)]
  <2>1. b = IF d.ret = NULL THEN d ELSE [d EXCEPT !.ram[p][i] = v]
    BY <1>4, Numbers DEF descend, link
  <2>2. Allocated(a, d, rt, o, Z, {}) /\ (c # NULL => \A j \in Words : ~ valid(d.ram[c][j]))
    BY KallocZeroed
  <2> HIDE DEF d, b
  <2>3. CASE c = NULL
    <3>1. b = d /\ Holds(d, rt, o, Z, {})
      BY <2>1, <2>2, <2>3, Numbers DEF Allocated
    <3>2. Grown(o, o, o[p].sp)
      BY DEF Grown, Grew
    <3> QED
      BY <2>3, <3>1, <3>2 DEF b
  <2>4. CASE c # NULL
    <3>1. /\ c \in Pages \ Z /\ o[c].lev = 4 /\ Holds(d, rt, o1, Z \cup {c}, {})
          /\ \A q \in Pages \ {c} : d.ram[q] = a.ram[q]
      BY <2>2, <2>4 DEF Allocated
    <3>2. /\ o \in [Pages -> Use] /\ p # c /\ o1[c] = Held(x) /\ o1[p] = o[p]
          /\ \A q \in Pages \ {c} : o1[q] = o[q]
      BY <1>2, <3>1 DEF Typed
    <3>3. d \in Mem /\ Tree(d.freelist, d.ram, rt, o1, Z \cup {c}, {})
      BY <3>1 DEF Holds
    <3>4. v \in Word /\ valid(v) /\ v.pa = c /\ ~ leaf(v)
      BY <3>1, TableWord DEF v
    <3>5. d.ram[p] = a.ram[p] /\ ~ valid(d.ram[p][i])
      BY <1>4, <3>1, <3>2
    <3>6. /\ o1[p].lev \in 1..3 /\ o1[c].lev = 0 /\ <<p, i>> \notin {}
          /\ (leaf(v) <=> o1[p].lev = 1) /\ c \in Z \cup {c}
      BY <3>2, <3>4 DEF Held
    <3>7. o1 \in [Pages -> Use]
      BY <3>3 DEF Tree, Typed
    <3> HIDE DEF o1, v, x
    <3>8. Tree(d.freelist, [d.ram EXCEPT ![p][i] = v], rt, o2, (Z \cup {c}) \ {c}, {})
      <4>1. \A j \in Words : ~ valid(d.ram[c][j])
        BY <2>2, <2>4
      <4> HIDE DEF c, p
      <4> QED
        BY <3>3, <3>4, <3>5, <3>6, <3>7, <4>1, Attach DEF p, x
    <3>9. (Z \cup {c}) \ {c} = Z
      BY <3>1
    <3>10. /\ b.ret = c /\ b.freelist = d.freelist /\ b.panic = "none"
           /\ b.ram = [d.ram EXCEPT ![p][i] = v]
           /\ b = [freelist |-> b.freelist, ram |-> b.ram, ret |-> b.ret, panic |-> b.panic]
      BY <2>1, <2>4, <3>3 DEF Mem
    <3>11. b.ram \in [Pages -> Content]
      BY <3>8, <3>10 DEF Tree, Typed
    <3>12. b \in Mem
      BY <3>3, <3>10, <3>11 DEF Mem
    <3>13. Holds(b, rt, o2, Z, {})
      BY <3>8, <3>9, <3>10, <3>12 DEF Holds
    <3>14. o2[c] = Child(o1, p, i, x, v) /\ \A q \in Pages \ {c} : o2[q] = o[q]
      BY <3>1, <3>2, <3>7
    <3> HIDE DEF o2
    <3>15. At(o2, Z, c, o[p].lev - 1, o[p].sp, Join(o[p].num, i))
      BY <3>1, <3>2, <3>14 DEF At, Child
    <3>16. Grown(o, o2, o[p].sp)
      BY <3>1, <3>15, <3>14 DEF Grown, Grew, At
    <3> QED
      BY <3>10, <3>13, <3>15, <3>16 DEF b
  <2> QED
    BY <2>3, <2>4
<1> QED
  BY <1>3, <1>4

\* The two kinds of walk.
Walked(a, r, va) == walk(a, r, va, TRUE)
Looked(a, r, va) == walk(a, r, va, FALSE)

\* Two walks grow what one does.
LEMMA GrownTwice ==
  ASSUME NEW o, NEW o1, NEW o2, NEW s, Grown(o, o1, s), Grown(o1, o2, s)
  PROVE  Grown(o, o2, s)
BY DEF Grown, Grew

\* A walk that may allocate tables.
LEMMA WalkAlloc ==
  ASSUME NEW a, NEW rt, NEW o, NEW Z, Holds(a, rt, o, Z, {}),
         NEW s \in Spaces, rt[s] # NULL, NEW va \in Nat, va < MAXVA
  PROVE  LET b == Walked(a, rt[s], va)
         IN  \E o1 : /\ Holds(b, rt, o1, Z, {}) /\ Grown(o, o1, s)
                     /\ b.ret # NULL => At(o1, Z, b.ret, 1, s, VpnOf(va) \div WORDS)
<1> DEFINE r == rt[s]
           b == Walked(a, r, va)
           b0 == return(a, r)
           b1 == descend(b0, PX(2, va), TRUE)
           b2 == descend(b1, PX(1, va), TRUE)
<1>1. r \in Pages /\ o[r].lev = 3 /\ o[r].sp = s /\ o[r].num = 0
  BY DEF Holds, Tree, Typed, Roots
<1>2. b = in_ram(b2)
  <2>1. va \in Int /\ MAXVA \in Int /\ ~ (va >= MAXVA)
    <3>1. MAXVA \in Int
      BY MaxvaInt
    <3> QED
      BY <3>1
  <2> QED
    BY <2>1 DEF walk, Walked
<1>3. Holds(b0, rt, o, Z, {}) /\ b0.ret = r
  <2>1. r \in Int
    BY <1>1, Addresses
  <2> HIDE DEF r
  <2> QED
    BY <2>1, Returns
<1>4. /\ PX(2, va) \in Words /\ PX(1, va) \in Words
      /\ Join(0, PX(2, va)) = (VpnOf(va) \div WORDS) \div WORDS
      /\ Join((VpnOf(va) \div WORDS) \div WORDS, PX(1, va)) = VpnOf(va) \div WORDS
  BY Digits
<1> HIDE DEF b0, r
<1>5. PICK o1 : /\ Holds(b1, rt, o1, Z, {}) /\ Grown(o, o1, s)
                /\ b1.ret # NULL =>
                     At(o1, Z, b1.ret, 2, s, (VpnOf(va) \div WORDS) \div WORDS)
  <2>1. b0.ret \in Pages /\ o[b0.ret].lev \in 2..3
    BY <1>1, <1>3
  <2>2. \E o1 : /\ Holds(b1, rt, o1, Z, {}) /\ Grown(o, o1, o[b0.ret].sp)
                /\ b1.ret # NULL => At(o1, Z, b1.ret, o[b0.ret].lev - 1, o[b0.ret].sp,
                                             Join(o[b0.ret].num, PX(2, va)))
    BY <1>3, <1>4, <2>1, Descend
  <2>3. o[b0.ret].lev - 1 = 2 /\ o[b0.ret].sp = s
        /\ Join(o[b0.ret].num, PX(2, va)) = (VpnOf(va) \div WORDS) \div WORDS
    BY <1>1, <1>3, <1>4
  <2> QED
    BY <2>2, <2>3
<1> HIDE DEF b1
<1>6. PICK o2 : /\ Holds(b2, rt, o2, Z, {}) /\ Grown(o1, o2, s)
                /\ b2.ret # NULL => At(o2, Z, b2.ret, 1, s, VpnOf(va) \div WORDS)
  <2>1. CASE b1.ret = NULL
    <3>1. b2 = b1
      BY <2>1 DEF descend
    <3>2. Grown(o1, o1, s)
      BY DEF Grown, Grew
    <3> QED
      BY <1>5, <2>1, <3>1, <3>2
  <2>2. CASE b1.ret # NULL
    <3>1. At(o1, Z, b1.ret, 2, s, (VpnOf(va) \div WORDS) \div WORDS)
      BY <1>5, <2>2
    <3>2. b1.ret \in Pages /\ o1[b1.ret].lev \in 2..3
      BY <3>1 DEF At
    <3>3. \E o2 : /\ Holds(b2, rt, o2, Z, {}) /\ Grown(o1, o2, o1[b1.ret].sp)
                  /\ b2.ret # NULL => At(o2, Z, b2.ret, o1[b1.ret].lev - 1, o1[b1.ret].sp,
                                               Join(o1[b1.ret].num, PX(1, va)))
      BY <1>4, <1>5, <3>2, Descend
    <3>4. o1[b1.ret].lev - 1 = 1 /\ o1[b1.ret].sp = s
          /\ Join(o1[b1.ret].num, PX(1, va)) = VpnOf(va) \div WORDS
      BY <1>4, <3>1 DEF At
    <3> QED
      BY <3>3, <3>4
  <2> QED
    BY <2>1, <2>2
<1> HIDE DEF b2
<1>7. b = b2
  BY <1>2, <1>6 DEF in_ram, At
<1>8. Grown(o, o2, s)
  BY <1>5, <1>6, GrownTwice
<1> QED
  BY <1>6, <1>7, <1>8 DEF r

\* The orphans are pages that the kernel holds.
Settled(o, Z) == \A z \in Z : o[z].lev = 0

\* A page and the entry for it.
LEMMA Parent ==
  ASSUME NEW a, NEW rt, NEW o, NEW Z, Holds(a, rt, o, Z, {}), Settled(o, Z),
         NEW q \in Pages \ Z, o[q].lev \in 0..2
  PROVE  LET p == o[q].tab
             i == o[q].idx
         IN  /\ p \in Pages \ Z /\ o[p].lev = o[q].lev + 1 /\ i \in Words
             /\ valid(a.ram[p][i]) /\ a.ram[p][i].pa = q
             /\ o[p].num \in Nat /\ o[q].num = Join(o[p].num, i) /\ o[q].sp = o[p].sp
<1> DEFINE p == o[q].tab
           i == o[q].idx
           m == a.ram
<1>1. Typed(a.freelist, m, rt, o) /\ Down(m, o, Z, {}) /\ Up(m, o, Z, {})
  BY DEF Holds, Tree
<1>2. \A x \in Pages : o[x].num \in Nat /\ o[x].idx \in Words
  BY <1>1 DEF Typed, Use
<1>3. p \in Pages /\ o[p].lev = o[q].lev + 1 /\ valid(m[p][i]) /\ m[p][i].pa = q
  BY <1>1 DEF Up
<1>4. i \in Words
  BY <1>2
<1> HIDE DEF p, i
<1>5. p \notin Z
  BY <1>3 DEF Settled
<1>6. Leads(m, o, Z, p, i)
  BY <1>1, <1>3, <1>4 DEF Down
<1>7. /\ p \in Pages \ Z /\ valid(m[p][i]) /\ m[p][i].pa = q
      /\ o[p].num \in Nat /\ o[q].num = Join(o[p].num, i) /\ o[q].sp = o[p].sp
  BY <1>2, <1>3, <1>5, <1>6 DEF Leads
<1> QED
  BY <1>3, <1>4, <1>7, Zenon DEF p, i

\* The way from the root to a page.
LEMMA Climb ==
  ASSUME NEW a, NEW rt, NEW o, NEW Z, Holds(a, rt, o, Z, {}), Settled(o, Z),
         NEW c \in Pages \ Z, o[c].lev = 0, NEW va \in Nat, va < MAXVA, o[c].num = VpnOf(va)
  PROVE  LET t == o[c].tab
             u == o[t].tab
             s == o[c].sp
         IN  /\ s \in Spaces /\ t \in Pages /\ u \in Pages /\ rt[s] \in Pages
             /\ valid(a.ram[rt[s]][PX(2, va)]) /\ a.ram[rt[s]][PX(2, va)].pa = u
             /\ valid(a.ram[u][PX(1, va)]) /\ a.ram[u][PX(1, va)].pa = t
             /\ valid(a.ram[t][PX(0, va)]) /\ a.ram[t][PX(0, va)].pa = c
             /\ o[c].idx = PX(0, va)
<1> DEFINE t == o[c].tab
           u == o[t].tab
           r == o[u].tab
           m == a.ram
           n == VpnOf(va)
           n1 == n \div WORDS
           n2 == n1 \div WORDS
<1>1. /\ PX(2, va) \in Words /\ PX(1, va) \in Words /\ PX(0, va) \in Words
      /\ Join(0, PX(2, va)) = n2 /\ Join(n2, PX(1, va)) = n1 /\ Join(n1, PX(0, va)) = n
      /\ n1 \in Nat
  BY Digits
<1>2. n2 \in Nat
  <2> HIDE DEF n1
  <2> QED
    BY <1>1, Numbers, Quotient
<1> HIDE DEF n, n1, n2
<1>3. /\ t \in Pages \ Z /\ o[t].lev = 1 /\ o[c].idx \in Words
      /\ valid(m[t][o[c].idx]) /\ m[t][o[c].idx].pa = c
      /\ o[t].num \in Nat /\ o[c].num = Join(o[t].num, o[c].idx) /\ o[c].sp = o[t].sp
  BY Parent
<1>4. o[t].num = n1 /\ o[c].idx = PX(0, va)
  <2>1. Join(o[t].num, o[c].idx) = Join(n1, PX(0, va))
    BY <1>1, <1>3, SMTT(30) DEF n
  <2> HIDE DEF t
  <2> QED
    BY <1>1, <1>3, <2>1, JoinInjective
<1> HIDE DEF t
<1>5. /\ u \in Pages \ Z /\ o[u].lev = 2 /\ o[t].idx \in Words
      /\ valid(m[u][o[t].idx]) /\ m[u][o[t].idx].pa = t
      /\ o[u].num \in Nat /\ o[t].num = Join(o[u].num, o[t].idx) /\ o[t].sp = o[u].sp
  BY <1>3, Parent
<1>6. o[u].num = n2 /\ o[t].idx = PX(1, va)
  <2>1. Join(o[u].num, o[t].idx) = Join(n2, PX(1, va))
    BY <1>1, <1>4, <1>5, SMTT(30)
  <2> HIDE DEF u
  <2> QED
    BY <1>1, <1>2, <1>5, <2>1, JoinInjective
<1> HIDE DEF u
<1>7. /\ r \in Pages \ Z /\ o[r].lev = 3 /\ o[u].idx \in Words
      /\ valid(m[r][o[u].idx]) /\ m[r][o[u].idx].pa = u
      /\ o[u].num = Join(o[r].num, o[u].idx) /\ o[u].sp = o[r].sp
  BY <1>5, Parent
<1> HIDE DEF r
<1>8. o[r].sp \in Spaces /\ rt[o[r].sp] = r /\ o[r].num = 0
  <2>1. Roots(rt, o, Z)
    BY DEF Holds, Tree
  <2> QED
    BY <1>7, <2>1, Numbers DEF Roots
<1>9. o[u].idx = PX(2, va)
  <2>1. Join(0, o[u].idx) = Join(0, PX(2, va)) /\ 0 \in Nat
    BY <1>1, <1>6, <1>7, <1>8
  <2> QED
    BY <1>1, <1>7, <2>1, JoinInjective
<1> QED
  BY <1>3, <1>4, <1>5, <1>6, <1>7, <1>8, <1>9, ZenonT(40) DEF t, u

\* What the entries of a table lead to.
LEMMA Entries ==
  ASSUME NEW a, NEW rt, NEW o, NEW Z, Holds(a, rt, o, Z, {}), NEW t \in Pages, NEW i \in Words,
         o[t].lev \in 1..3, valid(a.ram[t][i])
  PROVE  LET c == a.ram[t][i].pa
         IN  /\ At(o, Z, c, o[t].lev - 1, o[t].sp, Join(o[t].num, i))
             /\ o[c].tab = t /\ o[c].idx = i
             /\ leaf(a.ram[t][i]) <=> o[t].lev = 1
<1>1. Leads(a.ram, o, Z, t, i)
  BY DEF Holds, Tree, Down
<1> QED
  BY <1>1 DEF Leads, At

\* The last return value counts.
LEMMA ReturnTwice ==
  ASSUME NEW a \in Mem, NEW x \in Int, NEW y \in Int
  PROVE  return(return(a, x), y) = return(a, y)
BY DEF return, Mem

\* A walk that only looks.
LEMMA Look ==
  ASSUME NEW a, NEW rt, NEW o, NEW Z, Holds(a, rt, o, Z, {}), Settled(o, Z),
         NEW s \in Spaces, rt[s] # NULL, NEW va \in Nat, va < MAXVA
  PROVE  \E t \in Pages \cup {NULL} :
           /\ Looked(a, rt[s], va) = return(a, t)
           /\ t # NULL => At(o, Z, t, 1, s, VpnOf(va) \div WORDS)
           /\ \A c \in Pages : At(o, Z, c, 0, s, VpnOf(va)) =>
                t # NULL /\ valid(a.ram[t][PX(0, va)]) /\ a.ram[t][PX(0, va)].pa = c
<1> DEFINE r == rt[s]
           i2 == PX(2, va)
           i1 == PX(1, va)
           m == a.ram
           u == IF valid(m[r][i2]) THEN m[r][i2].pa ELSE NULL
           t == IF u # NULL /\ valid(m[u][i1]) THEN m[u][i1].pa ELSE NULL
           n == VpnOf(va)
           b0 == return(a, r)
           b1 == descend(b0, i2, FALSE)
           b2 == descend(b1, i1, FALSE)
<1>1. r \in Pages /\ o[r].lev = 3 /\ o[r].sp = s /\ o[r].num = 0 /\ a \in Mem
  BY DEF Holds, Tree, Typed, Roots
<1>2. /\ i2 \in Words /\ i1 \in Words
      /\ Join(0, i2) = (n \div WORDS) \div WORDS
      /\ Join((n \div WORDS) \div WORDS, i1) = n \div WORDS
  BY Digits
<1>3. ASSUME NEW c \in Pages, At(o, Z, c, 0, s, n)
      PROVE  /\ t # NULL /\ valid(m[t][PX(0, va)]) /\ m[t][PX(0, va)].pa = c
  <2>1. /\ o[o[c].tab].tab \in Pages /\ o[c].tab \in Pages
        /\ valid(m[r][i2]) /\ m[r][i2].pa = o[o[c].tab].tab
        /\ valid(m[o[o[c].tab].tab][i1]) /\ m[o[o[c].tab].tab][i1].pa = o[c].tab
        /\ valid(m[o[c].tab][PX(0, va)]) /\ m[o[c].tab][PX(0, va)].pa = c
    BY <1>3, Climb DEF At
  <2> HIDE DEF m, i1, i2, r
  <2>2. u = o[o[c].tab].tab /\ u # NULL
    BY <2>1, Numbers, SMTT(30)
  <2>3. t = o[c].tab /\ t # NULL
    BY <2>1, <2>2, Numbers, ZenonT(40)
  <2> QED
    BY <2>1, <2>3, ZenonT(40)
<1> HIDE DEF n
<1>4. u # NULL => At(o, Z, u, 2, s, (n \div WORDS) \div WORDS)
  <2>1. ASSUME valid(m[r][i2])
        PROVE  At(o, Z, m[r][i2].pa, 2, s, (n \div WORDS) \div WORDS)
    <3>1. At(o, Z, m[r][i2].pa, o[r].lev - 1, o[r].sp, Join(o[r].num, i2))
      BY <1>1, <1>2, <2>1, Entries
    <3>2. o[r].lev - 1 = 2
      BY <1>1
    <3> QED
      BY <1>1, <1>2, <3>1, <3>2
  <2> QED
    BY <2>1
<1>5. u \in Pages \cup {NULL}
  BY <1>4 DEF At
<1> HIDE DEF u
<1>6. t # NULL => At(o, Z, t, 1, s, n \div WORDS)
  <2>1. ASSUME u # NULL, valid(m[u][i1])
        PROVE  At(o, Z, m[u][i1].pa, 1, s, n \div WORDS)
    <3>1. u \in Pages /\ o[u].lev = 2 /\ o[u].sp = s /\ o[u].num = (n \div WORDS) \div WORDS
      BY <1>4, <2>1 DEF At
    <3>2. At(o, Z, m[u][i1].pa, o[u].lev - 1, o[u].sp, Join(o[u].num, i1))
      BY <1>2, <2>1, <3>1, Entries
    <3>3. o[u].lev - 1 = 1
      BY <3>1
    <3> QED
      BY <1>2, <3>1, <3>2, <3>3
  <2> QED
    BY <2>1
<1>7. t \in Pages \cup {NULL}
  BY <1>6 DEF At
<1>8. r \in Int /\ u \in Int /\ t \in Int /\ NULL \in Int
  <2> HIDE DEF r, t
  <2> QED
    BY <1>1, <1>5, <1>7, Addresses
<1>9. b1 = return(a, u)
  <2>1. b0.ret = r /\ b0.ram = m
    BY <1>1 DEF return, Mem
  <2>2. b1 = return(b0, u)
    BY <1>1, <2>1, Numbers DEF descend, PTE2PA, u
  <2> QED
    BY <1>1, <1>8, <2>2, ReturnTwice
<1>10. b2 = return(a, t)
  <2>1. b1.ret = u /\ b1.ram = m
    BY <1>1, <1>9 DEF return, Mem
  <2> HIDE DEF b1
  <2>2. CASE u = NULL
    BY <1>9, <2>1, <2>2 DEF descend
  <2>3. CASE u # NULL
    <3>1. b2 = return(b1, t)
      BY <1>5, <2>1, <2>3 DEF descend, PTE2PA
    <3> QED
      BY <1>1, <1>8, <1>9, <3>1, ReturnTwice
  <2> QED
    BY <2>2, <2>3
<1>11. Looked(a, r, va) = in_ram(b2)
  <2>1. ~ (va >= MAXVA)
    BY MaxvaInt
  <2> QED
    BY <2>1 DEF walk, Looked
<1>12. in_ram(b2) = b2
  <2>1. b2.ret = t
    BY <1>1, <1>10 DEF return, Mem
  <2> HIDE DEF b2, t
  <2> QED
    BY <1>7, <2>1 DEF in_ram
<1> HIDE DEF b2, t
<1> QED
  BY <1>3, <1>6, <1>7, <1>10, <1>11, <1>12 DEF n

------------------------------------------------------------------------------
(* mappages() for one page.                                                *)

\* The entry that it makes.
Made(c, perm) == word(c, perm \cup {"V"})

\* mappages() of one page is one round of its loop.
LEMMA MapOne ==
  ASSUME NEW a, NEW table, NEW va, NEW c, NEW perm,
         a \in Mem, va \in Nat, Aligned(va), c \in Int
  PROVE  mappages(a, table, va, PGSIZE, c, perm)
           = map_entry(Walked(return(a, 0), table, va), va, Made(c, perm))
<1> DEFINE base == return(a, 0)
           page(s, x, to) ==
             IF s.ret = -1 THEN s
             ELSE map_entry(walk(s, table, x, TRUE), x, word(to, perm \cup {"V"}))
           round(s, i) == page(s, va + (i - 1) * PGSIZE, c + i - 1)
           eq(s) == s = [i \in 0..1 |-> IF i = 0 THEN base ELSE round(s[i - 1], i)]
           f == CHOOSE s : eq(s)
<1>1. PGSIZE \in Nat /\ PGSIZE > 0
  BY PageAssumption
<1>2. PGSIZE % PGSIZE = 0 /\ PGSIZE # 0
  BY <1>1
<1>3. rounds(va, va + PGSIZE) = 1
  <2>1. va < va + PGSIZE /\ (va + PGSIZE) - va = PGSIZE
    BY <1>1
  <2>2. PGROUNDUP(PGSIZE) \div PGSIZE = Ceil(PGSIZE)
    BY <1>1, Rounding
  <2>3. Ceil(1 * PGSIZE) = 1 /\ 1 * PGSIZE = PGSIZE
    BY <1>1, Multiples
  <2>4. rounds(va, va + PGSIZE) = PGROUNDUP((va + PGSIZE) - va) \div PGSIZE
    BY <2>1, Zenon DEF rounds
  <2> QED
    BY <2>1, <2>2, <2>3, <2>4
<1>4. mappages(a, table, va, PGSIZE, c, perm) = Loop(round, base, 1)
  BY <1>2, <1>3, Zenon DEF mappages, Aligned
<1>5. Loop(round, base, 1) = f[1]
  BY DEF Loop
<1>6. ~ (base.ret = -1)
  BY DEF return, Mem
<1>7. va + (1 - 1) * PGSIZE = va /\ c + 1 - 1 = c
  BY <1>1
<1>8. round(base, 1) = map_entry(Walked(base, table, va), va, Made(c, perm))
  <2> HIDE DEF base
  <2>1. round(base, 1) = map_entry(Walked(base, table, va + (1 - 1) * PGSIZE),
                                   va + (1 - 1) * PGSIZE, Made(c + 1 - 1, perm))
    BY <1>6, Zenon DEF Made, Walked
  <2> HIDE DEF round
  <2> QED
    BY <1>7, <2>1
<1> HIDE DEF round, base
<1>9. eq([i \in 0..1 |-> IF i = 0 THEN base ELSE round(base, 1)])
  OBVIOUS
<1>10. eq(f)
  <2> HIDE DEF eq
  <2> QED
    BY <1>9
<1> HIDE DEF f
<1>11. f[1] = round(base, 1)
  BY <1>10
<1> QED
  BY <1>4, <1>5, <1>8, <1>11 DEF base

\* The flags of a page of user memory.
LEMMA PageWord ==
  ASSUME NEW c \in Pages, NEW perm \in SUBSET Flags, perm \cap {"R", "W", "X"} # {}
  PROVE  LET w == Made(c, perm)
         IN  w \in Word /\ valid(w) /\ w.pa = c /\ leaf(w)
<1> DEFINE w == Made(c, perm)
<1>1. w.pa = c /\ w.flags = perm \cup {"V"} /\ w = [pa |-> w.pa, flags |-> w.flags]
  BY DEF word, Made
<1> HIDE DEF w
<1>2. w \in Word
  BY <1>1, Addresses DEF Word, Flags
<1>3. valid(w)
  BY <1>1 DEF valid
<1>4. leaf(w)
  BY <1>1 DEF leaf
<1> QED
  BY <1>1, <1>2, <1>3, <1>4 DEF w

\* A held page c becomes page n of space s, unless there is no page for a table.
MappedPage(b, rt, o, Z, s, n, c, perm) ==
  \/ b.ret = -1 /\ \E o1 : Holds(b, rt, o1, Z, {}) /\ Grown(o, o1, s)
  \/ b.ret = 0 /\ \E o1 : /\ Holds(b, rt, o1, Z \ {c}, {})
                          /\ At(o1, Z \ {c}, c, 0, s, n)
                          /\ o1[c].body = o[c].body /\ o1[c].flags = perm \cup {"V"}
                          /\ \A q \in Pages \ {c} : Grew(o, o1, s, q)

\* mappages() of one page, where the space has none.
LEMMA MapPage ==
  ASSUME NEW a, NEW rt, NEW o, NEW Z, Holds(a, rt, o, Z, {}), Settled(o, Z),
         NEW s \in Spaces, rt[s] # NULL, NEW n \in Nat, n * PGSIZE < MAXVA,
         NEW c \in Z, NEW perm \in SUBSET Flags, perm \cap {"R", "W", "X"} # {},
         \A q \in Pages : ~ At(o, Z, q, 0, s, n)
  PROVE  MappedPage(mappages(a, rt[s], n * PGSIZE, PGSIZE, c, perm), rt, o, Z, s, n, c, perm)
<1> DEFINE va == n * PGSIZE
           r == rt[s]
           a0 == return(a, 0)
           w == Walked(a0, r, va)
           pte == Made(c, perm)
           b == mappages(a, r, va, PGSIZE, c, perm)
           i == PX(0, va)
           t == w.ret
<1>1. va \in Nat /\ VpnOf(va) = n /\ Aligned(va)
  BY Multiples
<1>2. c \in Pages /\ a \in Mem /\ o[c].lev = 0
  BY DEF Holds, Tree, Orphans, Settled
<1>3. b = map_entry(w, va, pte)
  <2>1. c \in Int
    BY <1>2, Addresses
  <2> HIDE DEF va, r
  <2> QED
    BY <1>1, <1>2, <2>1, MapOne
<1>4. Holds(a0, rt, o, Z, {})
  BY Returns
<1>5. i \in Words /\ Join(n \div WORDS, i) = n
  <2> HIDE DEF va
  <2> QED
    BY <1>1, Digits DEF va
<1>6. pte \in Word /\ valid(pte) /\ pte.pa = c /\ leaf(pte)
  BY <1>2, PageWord
<1> HIDE DEF va, a0, pte, i
<1>7. PICK o2 : /\ Holds(w, rt, o2, Z, {}) /\ Grown(o, o2, s)
                /\ t # NULL => At(o2, Z, t, 1, s, n \div WORDS)
  <2> HIDE DEF r
  <2>1. va < MAXVA
    BY DEF va
  <2> QED
    BY <1>1, <1>4, <2>1, WalkAlloc DEF r
<1> HIDE DEF w, b
<1>8. w \in Mem /\ Tree(w.freelist, w.ram, rt, o2, Z, {}) /\ o2 \in [Pages -> Use]
  BY <1>7 DEF Holds, Tree, Typed
<1>9. o2[c] = o[c]
  BY <1>2, <1>7 DEF Grown, Grew
<1>10. CASE t = NULL
  <2>1. b = return(w, -1)
    BY <1>3, <1>10 DEF map_entry
  <2>2. Holds(b, rt, o2, Z, {}) /\ b.ret = -1
    BY <1>7, <2>1, Returns
  <2> QED
    BY <1>7, <2>2 DEF MappedPage, b, r, va
<1>11. CASE t # NULL
  <2> DEFINE m1 == [w.ram EXCEPT ![t][i] = pte]
             o3 == [o2 EXCEPT ![c] = Child(o2, t, i, w.ram[c], pte)]
  <2>1. t \in Pages \ Z /\ o2[t].lev = 1 /\ o2[t].sp = s /\ o2[t].num = n \div WORDS
    BY <1>7, <1>11 DEF At
  <2>2. entry(w, va) = w.ram[t][i]
    BY <1>11 DEF entry, i
  <2>3. ~ valid(w.ram[t][i])
    <3>1. SUFFICES ASSUME valid(w.ram[t][i])
                   PROVE  FALSE
      OBVIOUS
    <3> DEFINE q == w.ram[t][i].pa
    <3>2. At(o2, Z, q, o2[t].lev - 1, o2[t].sp, Join(o2[t].num, i))
      <4>1. o2[t].lev \in 1..3 /\ t \in Pages
        BY <2>1
      <4> HIDE DEF t
      <4> QED
        BY <1>5, <1>7, <3>1, <4>1, Entries
    <3> HIDE DEF q
    <3>3. q \in Pages \ Z /\ o2[q].lev = 0 /\ o2[q].sp = s /\ o2[q].num = n
      BY <1>5, <2>1, <3>2 DEF At
    <3>4. o2[q] = o[q]
      BY <1>7, <3>3 DEF Grown, Grew
    <3> QED
      BY <3>3, <3>4 DEF At
  <2>4. b = [w EXCEPT !.ram[t][i] = pte, !.ret = 0]
    BY <1>3, <1>11, <2>2, <2>3 DEF map_entry, i
  <2>5. /\ b.ret = 0 /\ b.freelist = w.freelist /\ b.panic = "none" /\ b.ram = m1
        /\ b = [freelist |-> b.freelist, ram |-> b.ram, ret |-> b.ret, panic |-> b.panic]
    BY <1>8, <2>4 DEF Mem
  <2>6. Tree(w.freelist, m1, rt, o3, Z \ {c}, {})
    <3>1. /\ o2[t].lev \in 1..3 /\ <<t, i>> \notin {} /\ o2[c].lev = 0 /\ ~ (o2[t].lev > 1)
          /\ leaf(pte) <=> o2[t].lev = 1
      BY <1>2, <1>6, <1>9, <2>1
    <3> HIDE DEF t
    <3> QED
      BY <1>5, <1>6, <1>8, <2>1, <2>3, <3>1, Attach
  <2> HIDE DEF m1
  <2>7. m1 \in [Pages -> Content]
    BY <2>6 DEF Tree, Typed
  <2>8. Holds(b, rt, o3, Z \ {c}, {})
    <3>1. b \in Mem
      BY <1>8, <2>5, <2>7 DEF Mem
    <3> QED
      BY <2>5, <2>6, <3>1 DEF Holds
  <2>9. o3[c] = Child(o2, t, i, w.ram[c], pte) /\ \A q \in Pages \ {c} : o3[q] = o2[q]
    BY <1>2, <1>8
  <2>12. o3[c].body = o[c].body /\ o3[c].flags = perm \cup {"V"}
    <3>1. w.ram[c] = o2[c].body
      BY <1>2, <1>8, <1>9 DEF Tree, Shown
    <3>2. pte.flags = perm \cup {"V"}
      BY DEF pte, Made, word
    <3> QED
      BY <1>9, <2>9, <3>1, <3>2 DEF Child
  <2> HIDE DEF o3
  <2>10. At(o3, Z \ {c}, c, 0, s, n)
    BY <1>2, <1>5, <2>1, <2>9 DEF Child, At
  <2>11. \A q \in Pages \ {c} : Grew(o, o3, s, q)
    BY <1>7, <2>9 DEF Grown, Grew
  <2> QED
    BY <2>5, <2>8, <2>10, <2>11, <2>12 DEF MappedPage, b, r, va
<1> QED
  BY <1>10, <1>11

------------------------------------------------------------------------------
(* uvmunmap()                                                              *)

\* Pages of space s with their numbers in A became free.
Lost(o, o1, Z, s, A) ==
  \A q \in Pages :
    \/ o1[q] = o[q]
    \/ q \notin Z /\ o[q].lev = 0 /\ o[q].sp = s /\ o[q].num \in A /\ o1[q].lev = 4

\* Space s has no page whose number is in A.
Gone(o, Z, s, A) ==
  \A q \in Pages : ~ (q \notin Z /\ o[q].lev = 0 /\ o[q].sp = s /\ o[q].num \in A)

\* A round of uvmunmap().
Removed(w, va) == unmap_entry(w, va, TRUE)

\* One round of uvmunmap().
LEMMA UnmapPage ==
  ASSUME NEW a, NEW rt, NEW o, NEW Z, Holds(a, rt, o, Z, {}), Settled(o, Z),
         NEW s \in Spaces, rt[s] # NULL, NEW n \in Nat, n * PGSIZE < MAXVA
  PROVE  LET b == Removed(Looked(a, rt[s], n * PGSIZE), n * PGSIZE)
         IN  \E o1 : /\ Holds(b, rt, o1, Z, {}) /\ Lost(o, o1, Z, s, {n})
                     /\ Gone(o1, Z, s, {n})
<1> DEFINE va == n * PGSIZE
           w == Looked(a, rt[s], va)
           b == Removed(w, va)
           i == PX(0, va)
<1>1. va \in Nat /\ VpnOf(va) = n
  BY Multiples
<1> HIDE DEF va
<1>2. va < MAXVA
  BY DEF va
<1>3. PICK t \in Pages \cup {NULL} :
        /\ w = return(a, t)
        /\ t # NULL => At(o, Z, t, 1, s, n \div WORDS)
        /\ \A c \in Pages : At(o, Z, c, 0, s, n) =>
             t # NULL /\ valid(a.ram[t][i]) /\ a.ram[t][i].pa = c
  BY <1>1, <1>2, Look
<1>4. i \in Words /\ Join(n \div WORDS, i) = n
  BY <1>1, <1>2, Digits
<1> HIDE DEF w
<1>5. /\ Holds(w, rt, o, Z, {}) /\ w.ret = t /\ w.ram = a.ram /\ w.freelist = a.freelist
  <2>1. t \in Int
    BY Addresses
  <2> QED
    BY <1>3, <2>1, Returns
<1>6. entry(w, va) = IF t = NULL THEN word(NULL, {}) ELSE a.ram[t][i]
  BY <1>5 DEF entry
<1>7. Lost(o, o, Z, s, {n})
  BY DEF Lost
<1> HIDE DEF i
<1>8. CASE ~ valid(entry(w, va))
  <2>1. b = w
    BY <1>8 DEF Removed, unmap_entry
  <2>2. Gone(o, Z, s, {n})
    BY <1>3, <1>6, <1>8 DEF Gone, At
  <2>3. Holds(b, rt, o, Z, {}) /\ Lost(o, o, Z, s, {n}) /\ Gone(o, Z, s, {n})
    BY <1>5, <1>7, <2>1, <2>2
  <2> QED
    BY <2>3 DEF va, w
<1>9. CASE valid(entry(w, va))
  <2> DEFINE c == a.ram[t][i].pa
             d == kfree(w, c)
             f1 == Freed(w.freelist, o)
             o1 == [o EXCEPT ![c] = f1]
             nil == word(NULL, {})
             m1 == [d.ram EXCEPT ![t][i] = nil]
  <2>1. t # NULL /\ valid(a.ram[t][i])
    BY <1>6, <1>9 DEF valid, word
  <2>2. t \in Pages \ Z /\ o[t].lev = 1 /\ o[t].sp = s /\ o[t].num = n \div WORDS
    BY <1>3, <2>1 DEF At
  <2>3. At(o, Z, c, 0, s, n)
    <3>1. At(o, Z, c, o[t].lev - 1, o[t].sp, Join(o[t].num, i))
      <4>1. o[t].lev \in 1..3
        BY <2>2
      <4> QED
        BY <1>4, <2>1, <2>2, <4>1, Entries
    <3>2. o[t].lev - 1 = 0
      BY <2>2
    <3> QED
      BY <1>4, <2>2, <3>1, <3>2
  <2>4. c \in Pages \ Z /\ o[c].lev = 0 /\ o[c].sp = s /\ o[c].num = n /\ c # t
    BY <2>2, <2>3 DEF At
  <2>5. b = [d EXCEPT !.ram[t][i] = nil]
    BY <1>5, <1>6, <1>9, <2>1 DEF Removed, unmap_entry, PTE2PA, i
  <2> HIDE DEF d
  <2>6. Holds(w, rt, o, Z \cup {c}, {<<t, i>>})
    <3>1. w \in Mem /\ Tree(w.freelist, w.ram, rt, o, Z, {})
      BY <1>5 DEF Holds
    <3>2. o[t].lev \in 1..3 /\ <<t, i>> \notin {} /\ valid(w.ram[t][i]) /\ w.ram[t][i].pa = c
      BY <1>5, <2>1, <2>2
    <3>3. Tree(w.freelist, w.ram, rt, o, Z \cup {w.ram[t][i].pa}, {} \cup {<<t, i>>})
      BY <1>4, <2>2, <3>1, <3>2, Detach
    <3>4. {} \cup {<<t, i>>} = {<<t, i>>}
      OBVIOUS
    <3> QED
      BY <3>1, <3>2, <3>3, <3>4 DEF Holds
  <2>7. Holds(d, rt, o1, Z, {<<t, i>>})
    <3> HIDE DEF c
    <3>1. ~ (o[c].lev > 0) /\ c \in Z \cup {c} /\ (Z \cup {c}) \ {c} = Z
      BY <2>4
    <3> QED
      BY <2>6, <3>1, Kfree DEF d
  <2>8. d \in Mem /\ Tree(d.freelist, d.ram, rt, o1, Z, {<<t, i>>}) /\ o \in [Pages -> Use]
    BY <1>5, <2>7 DEF Holds, Tree, Typed
  <2>9. o1[c] = f1 /\ o1[c].lev = 4 /\ \A q \in Pages \ {c} : o1[q] = o[q]
    BY <2>4, <2>8 DEF Freed
  <2> HIDE DEF c, f1, o1, nil
  <2>10. Tree(d.freelist, m1, rt, o1, Z, {})
    <3>1. o1[t].lev \in 1..3
      BY <2>2, <2>4, <2>9
    <3>2. nil \in Word /\ ~ valid(nil)
      BY PageTypes DEF nil, word, Word, valid
    <3>3. <<t, i>> \in {<<t, i>>} /\ {<<t, i>>} \ {<<t, i>>} = {}
      OBVIOUS
    <3>4. Tree(d.freelist, m1, rt, o1, Z, {<<t, i>>} \ {<<t, i>>})
      BY <1>4, <2>2, <2>8, <3>1, <3>2, <3>3, Cut
    <3> QED
      BY <3>3, <3>4
  <2>11. Holds(b, rt, o1, Z, {})
    <3>1. /\ b.ret = d.ret /\ b.freelist = d.freelist /\ b.panic = d.panic /\ b.ram = m1
          /\ b = [freelist |-> b.freelist, ram |-> b.ram, ret |-> b.ret, panic |-> b.panic]
      BY <2>5, <2>8 DEF Mem
    <3> HIDE DEF m1, b
    <3>2. m1 \in [Pages -> Content]
      BY <2>10 DEF Tree, Typed
    <3>3. b \in Mem
      BY <2>8, <3>1, <3>2 DEF Mem
    <3> QED
      BY <2>10, <3>1, <3>3 DEF Holds
  <2>12. Lost(o, o1, Z, s, {n})
    BY <2>4, <2>9 DEF Lost
  <2>13. Gone(o1, Z, s, {n})
    <3>1. ASSUME NEW q \in Pages, q \notin Z, o1[q].lev = 0, o1[q].sp = s, o1[q].num = n
          PROVE  FALSE
      <4>1. q # c /\ o1[q] = o[q]
        BY <2>9, <3>1
      <4>2. At(o, Z, q, 0, s, n)
        BY <3>1, <4>1 DEF At
      <4> QED
        BY <1>3, <4>1, <4>2 DEF c
    <3> QED
      BY <3>1 DEF Gone
  <2> HIDE DEF b
  <2> QED
    BY <2>11, <2>12, <2>13 DEF va, w, b
<1> QED
  BY <1>8, <1>9

\* Two rounds lose what both lose.
LEMMA LostMore ==
  ASSUME NEW o, NEW o1, NEW o2, NEW Z, NEW s, NEW A, NEW B, NEW C, A \subseteq C, B \subseteq C,
         Lost(o, o1, Z, s, A), Lost(o1, o2, Z, s, B)
  PROVE  Lost(o, o2, Z, s, C)
BY DEF Lost

\* What one round took away, the next does not bring back.
LEMMA GoneMore ==
  ASSUME NEW o, NEW o1, NEW o2, NEW Z, NEW s, NEW A, NEW B, NEW C, C \subseteq A \cup B,
         Gone(o1, Z, s, A), Lost(o1, o2, Z, s, B), Gone(o2, Z, s, B)
  PROVE  Gone(o2, Z, s, C)
BY DEF Gone, Lost

\* Pages that the kernel holds stay as they are.
LEMMA LostSettled ==
  ASSUME NEW o, NEW o1, NEW Z, NEW s, NEW A, Settled(o, Z), Lost(o, o1, Z, s, A), Z \subseteq Pages
  PROVE  Settled(o1, Z)
BY DEF Settled, Lost

\* uvmunmap() of np pages from page v on, as its callers use it.
Unmapped(a, r, v, np) == uvmunmap(a, r, v * PGSIZE, np, TRUE)

\* uvmunmap() takes its pages from the space and nothing else.
LEMMA Unmap ==
  ASSUME NEW a, NEW rt, NEW o, NEW Z, Holds(a, rt, o, Z, {}), Settled(o, Z),
         NEW s \in Spaces, rt[s] # NULL, NEW v \in Nat, NEW np \in Nat,
         \A n \in v .. (v + np) - 1 : n * PGSIZE < MAXVA
  PROVE  LET b == Unmapped(a, rt[s], v, np)
         IN  \E o1 : /\ Holds(b, rt, o1, Z, {}) /\ Lost(o, o1, Z, s, v .. (v + np) - 1)
                     /\ Gone(o1, Z, s, v .. (v + np) - 1)
<1> DEFINE r == rt[s]
           va == v * PGSIZE
           Inv(x, j) == \E o1 : /\ Holds(x, rt, o1, Z, {}) /\ Lost(o, o1, Z, s, v .. (v + j) - 1)
                                /\ Gone(o1, Z, s, v .. (v + j) - 1)
           T == [j \in 0..np |-> {x \in Mem : Inv(x, j)}]
           step(x, n) == Removed(Looked(x, r, n * PGSIZE), n * PGSIZE)
           R == [y \in (1..np) \X Mem |-> step(y[2], v + (y[1] - 1))]
           page(x, c) == unmap_entry(walk(x, r, c, FALSE), c, TRUE)
           round(x, i) == page(x, va + (i - 1) * PGSIZE)
           eq(f) == f = [i \in 0..np |-> IF i = 0 THEN a ELSE round(f[i - 1], i)]
           h == CHOOSE f : eq(f)
<1>1. /\ PGSIZE \in Nat /\ va \in Nat /\ va % PGSIZE = 0
  BY PageAssumption, Multiples DEF Aligned
<1>2. Unmapped(a, r, v, np) = Loop(round, a, np)
  BY <1>1, Zenon DEF Unmapped, uvmunmap
<1>3. Loop(round, a, np) = h[np]
  BY DEF Loop
<1>4. ASSUME NEW i \in 1..np, NEW x
      PROVE  round(x, i) = step(x, v + (i - 1))
  <2>1. va + (i - 1) * PGSIZE = (v + (i - 1)) * PGSIZE
    BY <1>1
  <2> QED
    BY <2>1, Zenon DEF Removed, Looked
<1>5. ASSUME NEW i \in 1..np, NEW x \in T[i - 1]
      PROVE  step(x, v + (i - 1)) \in T[i]
  <2> DEFINE n == v + (i - 1)
             y == step(x, n)
  <2>1. n \in v .. (v + np) - 1 /\ n \in Nat /\ i - 1 \in 0..np /\ i \in 0..np
    OBVIOUS
  <2>2. n * PGSIZE < MAXVA
    BY <2>1
  <2>3. PICK o1 : /\ Holds(x, rt, o1, Z, {}) /\ Lost(o, o1, Z, s, v .. (v + (i - 1)) - 1)
                  /\ Gone(o1, Z, s, v .. (v + (i - 1)) - 1)
    BY <2>1
  <2>4. Settled(o1, Z)
    BY <2>3, LostSettled DEF Holds, Tree, Orphans
  <2> HIDE DEF step
  <2>5. \E o2 : /\ Holds(y, rt, o2, Z, {}) /\ Lost(o1, o2, Z, s, {n}) /\ Gone(o2, Z, s, {n})
    <3> HIDE DEF n
    <3> QED
      BY <2>1, <2>2, <2>3, <2>4, UnmapPage DEF step
  <2>6. PICK o2 : /\ Holds(y, rt, o2, Z, {}) /\ Lost(o1, o2, Z, s, {n}) /\ Gone(o2, Z, s, {n})
    BY <2>5
  <2>7. /\ v .. (v + (i - 1)) - 1 \subseteq v .. (v + i) - 1 /\ {n} \subseteq v .. (v + i) - 1
        /\ v .. (v + i) - 1 \subseteq (v .. (v + (i - 1)) - 1) \cup {n}
    OBVIOUS
  <2> HIDE DEF y, n
  <2>8. Lost(o, o2, Z, s, v .. (v + i) - 1)
    BY <2>3, <2>6, <2>7, LostMore
  <2>9. Gone(o2, Z, s, v .. (v + i) - 1)
    BY <2>3, <2>6, <2>7, GoneMore
  <2>10. y \in Mem
    BY <2>6 DEF Holds
  <2>11. Inv(y, i)
    BY <2>6, <2>8, <2>9
  <2> HIDE DEF Inv
  <2> QED
    BY <2>1, <2>10, <2>11 DEF y, n
<1>6. a \in T[0]
  <2>1. Lost(o, o, Z, s, v .. (v + 0) - 1) /\ Gone(o, Z, s, v .. (v + 0) - 1)
    BY DEF Lost, Gone
  <2>2. Inv(a, 0) /\ a \in Mem
    BY <2>1 DEF Holds
  <2> HIDE DEF Inv
  <2> QED
    BY <2>2
<1>7. \A i \in 0..np : T[i] \subseteq Mem
  OBVIOUS
<1> HIDE DEF T, Inv, step, round
<1>8. \A i \in 1..np : \A x \in T[i - 1] : R[<<i, x>>] = step(x, v + (i - 1))
  BY <1>7
<1> HIDE DEF R, h, eq
<1>9. PICK f : Path(np, T, a, R, f)
  <2>1. Leading(np, T, R)
    BY <1>5, <1>8 DEF Leading
  <2> QED
    BY <1>6, <2>1, LoopExists
<1>10. eq(f)
  <2>1. ASSUME NEW i \in 1..np
        PROVE  R[<<i, f[i - 1]>>] = round(f[i - 1], i)
    BY <1>4, <1>8, <1>9, SMTT(30) DEF Path
  <2>2. f = [i \in 0..np |-> IF i = 0 THEN a ELSE round(f[i - 1], i)]
    BY <1>9, <2>1 DEF Path
  <2> QED
    BY <2>2 DEF eq
<1>11. eq(h)
  BY <1>10 DEF h
<1>12. h[np] \in T[np]
  <2>1. h[0] = a /\ \A i \in 1..np : h[i] = round(h[i - 1], i)
    BY <1>11 DEF eq
  <2>2. \A i \in 1..np : h[i - 1] \in T[i - 1] => h[i] \in T[i]
    BY <1>4, <1>5, <2>1
  <2> QED
    BY <1>6, <2>1, <2>2, LoopStays
<1>13. Inv(h[np], np)
  BY <1>12 DEF T
<1> HIDE DEF r
<1>14. Inv(Unmapped(a, r, v, np), np)
  BY <1>2, <1>3, <1>13
<1> QED
  BY <1>14 DEF Inv, r

------------------------------------------------------------------------------
(* uvmdealloc() and uvmalloc()                                             *)

\* Rounding keeps the order.
LEMMA CeilOrder ==
  ASSUME NEW x \in Nat, NEW y \in Nat, x <= y
  PROVE  Ceil(x) <= Ceil(y)
<1>1. Ceil(x) \in Nat /\ Ceil(y) \in Nat
  BY Rounding
<1>2. \A n \in Nat : (n < Ceil(x) <=> n * PGSIZE < x) /\ (n < Ceil(y) <=> n * PGSIZE < y)
  BY Rounding
<1>3. \A n \in Nat : n * PGSIZE \in Nat
  BY Multiples
<1>4. \A n \in Nat : n < Ceil(x) => n < Ceil(y)
  BY <1>2, <1>3
<1> HIDE DEF Ceil
<1>5. SUFFICES ASSUME Ceil(x) > Ceil(y)
               PROVE  FALSE
  BY <1>1
<1> QED
  BY <1>1, <1>4, <1>5

\* The pages that a space of old bytes has and one of new bytes has not.
Extra(new, old) == Ceil(new) .. Ceil(old) - 1

\* The pages that uvmdealloc() takes away have addresses.
LEMMA ExtraBelow ==
  ASSUME NEW new \in Nat, NEW old \in Nat, old <= MAXVA, NEW n \in Extra(new, old)
  PROVE  n \in Nat /\ n * PGSIZE < old /\ n * PGSIZE < MAXVA
<1>1. Ceil(new) \in Nat /\ Ceil(old) \in Nat /\ \A x \in Nat : x < Ceil(old) <=> x * PGSIZE < old
  BY Rounding
<1> HIDE DEF Ceil
<1>2. n \in Nat /\ n < Ceil(old)
  BY <1>1 DEF Extra
<1>3. n * PGSIZE < old
  BY <1>1, <1>2
<1>4. n * PGSIZE \in Nat
  BY <1>2, Multiples
<1> QED
  BY <1>2, <1>3, <1>4, MaxvaInt

\* uvmdealloc() takes away the pages above the new size.
LEMMA Dealloc ==
  ASSUME NEW a, NEW rt, NEW o, NEW Z, Holds(a, rt, o, Z, {}), Settled(o, Z),
         NEW s \in Spaces, rt[s] # NULL, NEW old \in Nat, NEW new \in Nat, old <= MAXVA
  PROVE  LET b == uvmdealloc(a, rt[s], old, new)
         IN  /\ \E o1 : /\ Holds(b, rt, o1, Z, {}) /\ Lost(o, o1, Z, s, Extra(new, old))
                        /\ Gone(o1, Z, s, Extra(new, old))
             /\ b.ret = IF new >= old THEN old ELSE new
<1> DEFINE r == rt[s]
           b == uvmdealloc(a, r, old, new)
           v == Ceil(new)
           np == Ceil(old) - Ceil(new)
<1>1. /\ Ceil(new) \in Nat /\ PGROUNDUP(new) = Ceil(new) * PGSIZE
      /\ Ceil(old) \in Nat /\ PGROUNDUP(old) = Ceil(old) * PGSIZE
  BY Rounding
<1>2. CASE new >= old
  <2>1. b = return(a, old)
    BY <1>2, Zenon DEF uvmdealloc
  <2>2. Holds(b, rt, o, Z, {}) /\ b.ret = old
    <3> HIDE DEF b
    <3> QED
      BY <2>1, Returns
  <2>3. Ceil(old) <= Ceil(new)
    BY <1>2, CeilOrder
  <2>4. Extra(new, old) = {}
    <3> HIDE DEF Ceil
    <3> QED
      BY <1>1, <2>3 DEF Extra
  <2>5. Lost(o, o, Z, s, Extra(new, old)) /\ Gone(o, Z, s, Extra(new, old))
    BY <2>4 DEF Lost, Gone
  <2> HIDE DEF b
  <2> QED
    BY <1>2, <2>2, <2>5 DEF b
<1>3. CASE ~ (new >= old)
  <2>1. Ceil(new) <= Ceil(old)
    BY <1>3, CeilOrder
  <2> HIDE DEF Ceil
  <2>2. np \in Nat /\ v \in Nat /\ v .. (v + np) - 1 = Extra(new, old)
    <3>1. (v + np) - 1 = Ceil(old) - 1
      BY <1>1
    <3> QED
      BY <1>1, <2>1, <3>1 DEF Extra
  <2>3. (PGROUNDUP(old) - PGROUNDUP(new)) \div PGSIZE = np
    <3>1. PGROUNDUP(old) - PGROUNDUP(new) = np * PGSIZE
      BY <1>1, PageAssumption
    <3>2. (np * PGSIZE) \div PGSIZE = np
      <4> HIDE DEF np
      <4> QED
        BY <2>2, Multiples DEF VpnOf
    <3> QED
      BY <3>1, <3>2
  <2>4. b = return(Unmapped(a, r, v, np), new)
    <3> HIDE DEF np
    <3>1. b = return(uvmunmap(a, r, PGROUNDUP(new), np, TRUE), new)
      BY <1>3, <2>3, Zenon DEF uvmdealloc
    <3> QED
      BY <1>1, <3>1, Zenon DEF Unmapped
  <2>5. \A n \in v .. (v + np) - 1 : n * PGSIZE < MAXVA
    BY <2>2, ExtraBelow
  <2> HIDE DEF v, np
  <2>6. \E o1 : /\ Holds(Unmapped(a, r, v, np), rt, o1, Z, {})
                /\ Lost(o, o1, Z, s, v .. (v + np) - 1) /\ Gone(o1, Z, s, v .. (v + np) - 1)
    BY <2>2, <2>5, Unmap
  <2>7. PICK o1 : /\ Holds(Unmapped(a, r, v, np), rt, o1, Z, {})
                  /\ Lost(o, o1, Z, s, Extra(new, old)) /\ Gone(o1, Z, s, Extra(new, old))
    BY <2>2, <2>6
  <2> HIDE DEF b
  <2>8. Holds(b, rt, o1, Z, {}) /\ b.ret = new
    BY <2>4, <2>7, Returns
  <2> QED
    BY <1>3, <2>7, <2>8 DEF b
<1> QED
  BY <1>2, <1>3

\* The user pages of space s have numbers below n.
Below(o, Z, s, n) == \A q \in Pages : q \notin Z /\ o[q].lev = 0 /\ o[q].sp = s => o[q].num < n

\* User memory, but for the pages of space s from number C on: all of it is
\* what it was, and nothing is new.
Low(o, s, C, q) == o[q].lev = 0 /\ (o[q].sp = s => o[q].num < C)
Keeps(o, o1, s, C) == \A q \in Pages : Low(o, s, C, q) \/ Low(o1, s, C, q) => o1[q] = o[q]

\* Two calls for a space keep what each keeps.
LEMMA KeepsTwice ==
  ASSUME NEW o, NEW o1, NEW o2, NEW s, NEW C, Keeps(o, o1, s, C), Keeps(o1, o2, s, C)
  PROVE  Keeps(o, o2, s, C)
BY DEF Keeps, Low

\* A call that keeps all user memory.
LEMMA KeepsAll ==
  ASSUME NEW o, NEW o1, \A q \in Pages : o[q].lev = 0 \/ o1[q].lev = 0 => o1[q] = o[q],
         NEW s, NEW C
  PROVE  Keeps(o, o1, s, C)
BY DEF Keeps, Low

\* A call that takes pages of the space keeps the others.
LEMMA LostKeeps ==
  ASSUME NEW o, NEW o1, NEW s, NEW C, NEW A, Lost(o, o1, {}, s, A), \A n \in A : ~ (n < C)
  PROVE  Keeps(o, o1, s, C)
BY DEF Lost, Keeps, Low

\* Space s has a page n with x in it, and an entry with the flags f.
Has(o, s, n, x, f) ==
  \E q \in Pages : /\ o[q].lev = 0 /\ o[q].sp = s /\ o[q].num = n
                   /\ o[q].body = x /\ o[q].flags = f

\* The pages of space s from number C to n are empty.
Blank(o, s, C, n, perm) ==
  \A j \in Nat : C <= j /\ j < n => Has(o, s, j, Zeros, perm \cup {"V"})

\* A number is known by the numbers below it.
LEMMA Same ==
  ASSUME NEW x \in Nat, NEW y \in Nat, \A n \in Nat : n < x <=> n < y
  PROVE  x = y
<1>1. ~ (x < y) /\ ~ (y < x)
  OBVIOUS
<1> QED
  BY <1>1

\* How often the loops of uvmalloc() and uvmcopy() go round.
LEMMA Rounds ==
  ASSUME NEW old \in Nat, NEW new \in Nat, old <= new
  PROVE  /\ rounds(PGROUNDUP(old), new) \in Nat
         /\ Ceil(old) + rounds(PGROUNDUP(old), new) = Ceil(new)
<1> DEFINE C == Ceil(old)
           d == new - C * PGSIZE
<1>1. /\ C \in Nat /\ Ceil(new) \in Nat /\ PGROUNDUP(old) = C * PGSIZE
      /\ \A n \in Nat : n < Ceil(new) <=> n * PGSIZE < new
  BY Rounding
<1>2. C <= Ceil(new)
  BY CeilOrder
<1>3. C * PGSIZE \in Nat /\ PGSIZE \in Nat
  BY <1>1, Multiples, PageAssumption
<1>4. CASE C * PGSIZE < new
  <2>1. d \in Nat
    BY <1>3, <1>4
  <2>2. rounds(PGROUNDUP(old), new) = PGROUNDUP(d) \div PGSIZE
    BY <1>1, <1>4, Zenon DEF rounds
  <2> HIDE DEF d
  <2>3. /\ PGROUNDUP(d) \div PGSIZE = Ceil(d) /\ Ceil(d) \in Nat
        /\ \A n \in Nat : n < Ceil(d) <=> n * PGSIZE < d
    BY <2>1, Rounding
  <2> HIDE DEF Ceil, C
  <2>4. ASSUME NEW n \in Nat
        PROVE  n < Ceil(d) <=> n < Ceil(new) - C
    <3>1. n * PGSIZE < d <=> n * PGSIZE + C * PGSIZE < new
      <4>1. n * PGSIZE \in Nat
        BY Multiples
      <4> QED
        BY <1>3, <4>1 DEF d
    <3>2. n * PGSIZE + C * PGSIZE = (n + C) * PGSIZE /\ n + C \in Nat
      BY <1>1, <1>3
    <3>3. n + C < Ceil(new) <=> (n + C) * PGSIZE < new
      BY <1>1, <3>2
    <3>4. n + C < Ceil(new) <=> n < Ceil(new) - C
      BY <1>1
    <3> QED
      BY <2>3, <3>1, <3>2, <3>3, <3>4
  <2>5. Ceil(new) - C \in Nat
    BY <1>1, <1>2
  <2>6. Ceil(d) = Ceil(new) - C
    BY <2>3, <2>4, <2>5, Same
  <2> QED
    BY <1>1, <2>2, <2>3, <2>6 DEF C
<1>5. CASE ~ (C * PGSIZE < new)
  <2>1. rounds(PGROUNDUP(old), new) = 0
    BY <1>1, <1>5, Zenon DEF rounds
  <2>2. ~ (C < Ceil(new))
    BY <1>1, <1>5
  <2> HIDE DEF Ceil
  <2> QED
    BY <1>1, <1>2, <2>1, <2>2
<1> QED
  BY <1>4, <1>5

\* The way back: the space has C pages again.
Undone(a, r, n, C) == return(uvmdealloc(a, r, n * PGSIZE, C * PGSIZE), 0)

\* uvmalloc() that cannot go on gives back what it got.
LEMMA Undo ==
  ASSUME NEW a, NEW rt, NEW o, Holds(a, rt, o, {}, {}),
         NEW s \in Spaces, rt[s] # NULL, NEW n \in Nat, NEW C \in Nat, n * PGSIZE < MAXVA,
         Below(o, {}, s, n), C <= n
  PROVE  LET b == Undone(a, rt[s], n, C)
         IN  b.ret = 0 /\ \E o1 : /\ Holds(b, rt, o1, {}, {}) /\ Keeps(o, o1, s, C)
                                  /\ Below(o1, {}, s, C)
<1> DEFINE d == uvmdealloc(a, rt[s], n * PGSIZE, C * PGSIZE)
           old == n * PGSIZE
           new == C * PGSIZE
           b == return(d, 0)
<1>1. old \in Nat /\ new \in Nat /\ Ceil(old) = n /\ Ceil(new) = C
  BY Multiples
<1>2. Settled(o, {})
  BY DEF Settled
<1> HIDE DEF d, old, new
<1>3. old <= MAXVA
  BY <1>1, MaxvaInt DEF old
<1>4. PICK o1 : /\ Holds(d, rt, o1, {}, {}) /\ Lost(o, o1, {}, s, Extra(new, old))
                /\ Gone(o1, {}, s, Extra(new, old))
  <2>1. \E o1 : /\ Holds(uvmdealloc(a, rt[s], old, new), rt, o1, {}, {})
                /\ Lost(o, o1, {}, s, Extra(new, old)) /\ Gone(o1, {}, s, Extra(new, old))
    BY <1>1, <1>2, <1>3, Dealloc
  <2> QED
    BY <2>1 DEF d, old, new
<1>5. Extra(new, old) = C .. n - 1
  BY <1>1 DEF Extra
<1>6. Holds(b, rt, o1, {}, {}) /\ b.ret = 0
  BY <1>4, Returns
<1>7. Keeps(o, o1, s, C)
  BY <1>4, <1>5, LostKeeps
<1>8. Below(o1, {}, s, C)
  <2>1. ASSUME NEW q \in Pages, o1[q].lev = 0, o1[q].sp = s
        PROVE  o1[q].num < C
    <3>1. o1[q] = o[q]
      BY <1>4, <2>1 DEF Lost
    <3>2. o1[q].num < n
      BY <2>1, <3>1 DEF Below
    <3>3. o1[q].num \in Nat
      BY <1>4 DEF Holds, Tree, Typed, Use
    <3>4. ~ (o1[q].num \in C .. n - 1)
      BY <1>4, <1>5, <2>1 DEF Gone
    <3> QED
      BY <3>2, <3>3, <3>4
  <2> QED
    BY <2>1 DEF Below
<1> HIDE DEF b
<1> QED
  BY <1>6, <1>7, <1>8 DEF Undone, b, d

\* A round of the loop, with what kalloc() gave.
Enlarged(m, r, n, C, new, perm) ==
  IF m.ret = NULL THEN Undone(m, r, n, C)
  ELSE LET p == mappages(m, r, n * PGSIZE, PGSIZE, m.ret, perm)
       IN  IF p.ret = 0 THEN return(p, new) ELSE Undone(kfree(p, m.ret), r, n, C)

\* Either all is done, up to page n, or all is undone.
Resized(b, rt, o, s, n, C, new, perm) ==
  \E o1 : /\ Holds(b, rt, o1, {}, {}) /\ Keeps(o, o1, s, C)
          /\ \/ b.ret = 0 /\ Below(o1, {}, s, C)
             \/ b.ret = new /\ Below(o1, {}, s, n) /\ Blank(o1, s, C, n, perm)

\* A round of uvmalloc(), at whichever kalloc() the memory runs out.
LEMMA Enlarge ==
  ASSUME NEW a, NEW rt, NEW o, Holds(a, rt, o, {}, {}),
         NEW s \in Spaces, rt[s] # NULL, NEW n \in Nat, NEW C \in Nat, n * PGSIZE < MAXVA,
         Below(o, {}, s, n), C <= n, NEW new \in Int,
         NEW perm \in SUBSET Flags, perm \cap {"R", "W", "X"} # {}, Blank(o, s, C, n, perm)
  PROVE  Resized(Enlarged(kalloc_zeroed(a), rt[s], n, C, new, perm), rt, o, s, n + 1, C, new, perm)
<1> DEFINE m == kalloc_zeroed(a)
           r == rt[s]
           b == Enlarged(m, r, n, C, new, perm)
           c == m.ret
           o1 == [o EXCEPT ![c] = Held(m.ram[c])]
           p == mappages(m, r, n * PGSIZE, PGSIZE, c, perm)
<1>1. Allocated(a, m, rt, o, {}, {}) /\ (c # NULL => m.ram[c] = Zeros)
  BY KallocZeroed
<1> HIDE DEF m
<1>2. ASSUME NEW x, NEW o2, Holds(x, rt, o2, {}, {}), Keeps(o, o2, s, C), Below(o2, {}, s, n)
      PROVE  Resized(Undone(x, r, n, C), rt, o, s, n + 1, C, new, perm)
  <2>1. PICK o3 : /\ Undone(x, r, n, C).ret = 0 /\ Holds(Undone(x, r, n, C), rt, o3, {}, {})
                  /\ Keeps(o2, o3, s, C) /\ Below(o3, {}, s, C)
    BY <1>2, Undo
  <2>2. Keeps(o, o3, s, C)
    BY <1>2, <2>1, KeepsTwice
  <2> QED
    BY <2>1, <2>2 DEF Resized
<1>3. CASE c = NULL
  <2>1. b = Undone(m, r, n, C)
    BY <1>3 DEF Enlarged
  <2>2. Holds(m, rt, o, {}, {})
    BY <1>1, <1>3, Numbers DEF Allocated
  <2>3. Keeps(o, o, s, C)
    BY DEF Keeps
  <2> HIDE DEF b
  <2> QED
    BY <1>2, <2>1, <2>2, <2>3 DEF b, m
<1>4. CASE c # NULL
  <2>1. c \in Pages /\ o[c].lev = 4 /\ Holds(m, rt, o1, {c}, {})
    <3>1. {} \cup {c} = {c}
      OBVIOUS
    <3> QED
      BY <1>1, <1>4, <3>1 DEF Allocated
  <2>2. o1[c] = Held(Zeros) /\ \A q \in Pages \ {c} : o1[q] = o[q]
    BY <1>1, <1>4, <2>1 DEF Holds, Tree, Typed
  <2>3. Settled(o1, {c}) /\ c \in {c}
    BY <2>2 DEF Settled, Held
  <2>4. ASSUME NEW q \in Pages, At(o1, {c}, q, 0, s, n)
        PROVE  FALSE
    <3>1. q # c /\ o1[q] = o[q] /\ o[q].lev = 0 /\ o[q].sp = s /\ o[q].num = n
      BY <2>2, <2>4 DEF At
    <3> QED
      BY <3>1 DEF Below
  <2> HIDE DEF o1, p
  <2>5. MappedPage(p, rt, o1, {c}, s, n, c, perm)
    <3> HIDE DEF c, r
    <3>1. \A q \in Pages : ~ At(o1, {c}, q, 0, s, n)
      BY <2>4
    <3> QED
      BY <2>1, <2>3, <3>1, MapPage DEF p, r
  <2>6. b = IF p.ret = 0 THEN return(p, new) ELSE Undone(kfree(p, c), r, n, C)
    BY <1>4, Zenon DEF Enlarged, p
  <2> HIDE DEF b
  <2>7. CASE p.ret = -1
    <3>1. PICK o2 : Holds(p, rt, o2, {c}, {}) /\ Grown(o1, o2, s)
      BY <2>5, <2>7 DEF MappedPage
    <3> DEFINE d == kfree(p, c)
               o3 == [o2 EXCEPT ![c] = Freed(p.freelist, o2)]
    <3>2. o2[c].lev = 0
      BY <2>1, <2>2, <3>1 DEF Grown, Grew, Held
    <3>3. Holds(d, rt, o3, {}, {})
      <4>1. {c} \ {c} = {} /\ ~ (o2[c].lev > 0)
        BY <3>2
      <4>2. Holds(d, rt, o3, {c} \ {c}, {})
        BY <2>3, <3>1, <4>1, Kfree
      <4> QED
        BY <4>1, <4>2
    <3>4. o3[c].lev = 4 /\ \A q \in Pages \ {c} : o3[q] = o2[q]
      <4>1. o2 \in [Pages -> Use]
        BY <3>1 DEF Holds, Tree, Typed
      <4> QED
        BY <2>1, <4>1 DEF Freed
    <3> HIDE DEF d, o3
    <3>5. \A q \in Pages : o[q].lev = 0 \/ o3[q].lev = 0 => o3[q] = o[q]
      BY <2>1, <2>2, <3>1, <3>4 DEF Grown, Grew
    <3>6. Keeps(o, o3, s, C) /\ Below(o3, {}, s, n)
      BY <3>5, KeepsAll DEF Below
    <3>7. Resized(Undone(d, r, n, C), rt, o, s, n + 1, C, new, perm)
      BY <1>2, <3>3, <3>6
    <3>8. b = Undone(d, r, n, C)
      BY <2>6, <2>7 DEF d
    <3> QED
      BY <3>7, <3>8 DEF b, m
  <2>8. CASE p.ret = 0
    <3>1. PICK o2 : /\ Holds(p, rt, o2, {c} \ {c}, {}) /\ At(o2, {c} \ {c}, c, 0, s, n)
                    /\ o2[c].body = o1[c].body /\ o2[c].flags = perm \cup {"V"}
                    /\ \A q \in Pages \ {c} : Grew(o1, o2, s, q)
      BY <2>5, <2>8 DEF MappedPage
    <3>2. {c} \ {c} = {}
      OBVIOUS
    <3>3. Holds(b, rt, o2, {}, {}) /\ b.ret = new
      <4>1. b = return(p, new) /\ Holds(p, rt, o2, {}, {})
        BY <2>6, <2>8, <3>1, <3>2
      <4> QED
        BY <4>1, Returns
    <3>4. o2[c].lev = 0 /\ o2[c].sp = s /\ o2[c].num = n /\ o2[c].body = Zeros
      BY <2>2, <3>1 DEF At, Held
    <3>7. \A q \in Pages \ {c} : o[q].lev = 0 \/ o2[q].lev = 0 => o2[q] = o[q]
      BY <2>2, <3>1 DEF Grew
    <3>5. Keeps(o, o2, s, C)
      BY <2>1, <3>4, <3>7 DEF Keeps, Low
    <3>6. Below(o2, {}, s, n + 1)
      <4>1. ASSUME NEW q \in Pages, o2[q].lev = 0, o2[q].sp = s
            PROVE  o2[q].num < n + 1
        <5>1. CASE q = c
          BY <3>4, <5>1
        <5>2. CASE q # c
          <6>1. o2[q] = o[q]
            BY <2>2, <3>1, <4>1, <5>2 DEF Grew
          <6>2. o2[q].num < n /\ o2[q].num \in Nat
            BY <3>3, <4>1, <6>1 DEF Below, Holds, Tree, Typed, Use
          <6> QED
            BY <6>2
        <5> QED
          BY <5>1, <5>2
      <4> QED
        BY <4>1 DEF Below
    <3>8. Blank(o2, s, C, n + 1, perm)
      <4>1. ASSUME NEW j \in Nat, C <= j, j < n + 1
            PROVE  Has(o2, s, j, Zeros, perm \cup {"V"})
        <5>1. CASE j = n
          BY <2>1, <3>1, <3>4, <5>1 DEF Has
        <5>2. CASE j # n
          <6>1. j < n
            BY <4>1, <5>2
          <6>2. Has(o, s, j, Zeros, perm \cup {"V"})
            BY <4>1, <6>1 DEF Blank
          <6> QED
            BY <2>1, <3>7, <6>2 DEF Has
        <5> QED
          BY <5>1, <5>2
      <4> QED
        BY <4>1 DEF Blank
    <3> QED
      BY <3>3, <3>5, <3>6, <3>8 DEF Resized, b, m
  <2> QED
    BY <2>5, <2>7, <2>8 DEF MappedPage
<1> QED
  BY <1>3, <1>4

\* uvmalloc() maps all its pages or none.
LEMMA Alloc ==
  ASSUME NEW a, NEW rt, NEW o, Holds(a, rt, o, {}, {}),
         NEW s \in Spaces, rt[s] # NULL, NEW old \in Nat, NEW new \in Nat,
         old < new, new <= MAXVA, Below(o, {}, s, Ceil(old)), NEW xperm \in SUBSET Flags
  PROVE  Resized(uvmalloc(a, rt[s], old, new, xperm), rt, o, s, Ceil(new), Ceil(old), new,
                 {"R", "U"} \cup xperm)
<1> DEFINE r == rt[s]
           C == Ceil(old)
           perm == {"R", "U"} \cup xperm
           base == return(a, new)
           np == rounds(PGROUNDUP(old), new)
           T == [j \in 0..np |-> {x \in Mem : Resized(x, rt, o, s, C + j, C, new, perm)}]
           step(x, n) ==
             IF x.ret = 0 THEN x ELSE Enlarged(kalloc_zeroed(x), r, n, C, new, perm)
           R == [y \in (1..np) \X Mem |-> step(y[2], C + (y[1] - 1))]
           undo(x, c) == return(uvmdealloc(x, r, c, PGROUNDUP(old)), 0)
           mapped(p, mem, c) == IF p.ret = 0 THEN return(p, new) ELSE undo(kfree(p, mem), c)
           got(m, c) ==
             IF m.ret = NULL THEN undo(m, c)
             ELSE mapped(mappages(m, r, c, PGSIZE, m.ret, {"R", "U"} \cup xperm), m.ret, c)
           round(x, i) ==
             IF x.ret = 0 THEN x ELSE got(kalloc_zeroed(x), PGROUNDUP(old) + (i - 1) * PGSIZE)
           eq(f) == f = [i \in 0..np |-> IF i = 0 THEN base ELSE round(f[i - 1], i)]
           h == CHOOSE f : eq(f)
<1>1. /\ C \in Nat /\ Ceil(new) \in Nat /\ PGROUNDUP(old) = C * PGSIZE
      /\ PGSIZE \in Nat /\ old <= new
  BY Rounding, PageAssumption
<1>2. np \in Nat /\ C + np = Ceil(new)
  <2> HIDE DEF C
  <2> QED
    BY <1>1, Rounds DEF C
<1>3. uvmalloc(a, r, old, new, xperm) = Loop(round, base, np)
  <2>1. ~ (new < old)
    BY <1>1
  <2> QED
    BY <2>1, Zenon DEF uvmalloc
<1>4. Loop(round, base, np) = h[np]
  BY DEF Loop
<1>5. perm \in SUBSET Flags /\ perm \cap {"R", "W", "X"} # {}
  BY DEF Flags
<1> HIDE DEF C, np
<1>6. ASSUME NEW i \in 1..np, NEW x
      PROVE  round(x, i) = step(x, C + (i - 1))
  <2>1. PGROUNDUP(old) + (i - 1) * PGSIZE = (C + (i - 1)) * PGSIZE
    BY <1>1
  <2>2. got(kalloc_zeroed(x), (C + (i - 1)) * PGSIZE)
          = Enlarged(kalloc_zeroed(x), r, C + (i - 1), C, new, perm)
    BY <1>1, Zenon DEF Enlarged, Undone
  <2> HIDE DEF got
  <2> QED
    BY <2>1, <2>2, Zenon
<1> HIDE DEF perm
<1>7. ASSUME NEW i \in 1..np, NEW x \in T[i - 1]
      PROVE  step(x, C + (i - 1)) \in T[i]
  <2> DEFINE n == C + (i - 1)
             y == step(x, n)
  <2>1. i - 1 \in 0..np /\ i \in 0..np /\ n \in Nat /\ n < Ceil(new) /\ C <= n /\ n + 1 = C + i
    BY <1>1, <1>2
  <2>2. n * PGSIZE < MAXVA
    <3> HIDE DEF n
    <3>1. n * PGSIZE < new /\ n * PGSIZE \in Nat
      BY <2>1, Rounding, Multiples
    <3> QED
      BY <3>1, MaxvaInt
  <2>3. x \in Mem /\ Resized(x, rt, o, s, n, C, new, perm)
    BY <2>1
  <2> HIDE DEF n
  <2>4. Resized(y, rt, o, s, n + 1, C, new, perm)
    <3>1. CASE x.ret = 0
      <4>1. PICK o1 : Holds(x, rt, o1, {}, {}) /\ Keeps(o, o1, s, C) /\ Below(o1, {}, s, C)
        <5>1. PICK o1 : /\ Holds(x, rt, o1, {}, {}) /\ Keeps(o, o1, s, C)
                        /\ \/ x.ret = 0 /\ Below(o1, {}, s, C)
                           \/ x.ret = new /\ Below(o1, {}, s, n) /\ Blank(o1, s, C, n, perm)
          BY <2>3 DEF Resized
        <5>2. x.ret # new
          BY <1>1, <3>1
        <5> QED
          BY <5>1, <5>2
      <4> QED
        BY <3>1, <4>1 DEF Resized
    <3>2. CASE x.ret # 0
      <4>1. PICK o1 : /\ Holds(x, rt, o1, {}, {}) /\ Keeps(o, o1, s, C)
                      /\ Below(o1, {}, s, n) /\ Blank(o1, s, C, n, perm)
        BY <2>3, <3>2 DEF Resized
      <4>2. Resized(y, rt, o1, s, n + 1, C, new, perm)
        <5>1. new \in Int /\ y = Enlarged(kalloc_zeroed(x), r, n, C, new, perm)
          BY <3>2
        <5>2. Resized(Enlarged(kalloc_zeroed(x), r, n, C, new, perm), rt, o1, s, n + 1, C, new, perm)
          BY <1>1, <1>5, <2>1, <2>2, <4>1, <5>1, Enlarge
        <5> QED
          BY <5>1, <5>2
      <4> HIDE DEF y
      <4>3. PICK o2 : /\ Holds(y, rt, o2, {}, {}) /\ Keeps(o1, o2, s, C)
                      /\ \/ y.ret = 0 /\ Below(o2, {}, s, C)
                         \/ y.ret = new /\ Below(o2, {}, s, n + 1) /\ Blank(o2, s, C, n + 1, perm)
        BY <4>2 DEF Resized
      <4>4. Keeps(o, o2, s, C)
        BY <4>1, <4>3, KeepsTwice
      <4> QED
        BY <4>3, <4>4 DEF Resized
    <3> QED
      BY <3>1, <3>2
  <2> HIDE DEF y
  <2>5. y \in Mem
    BY <2>4 DEF Resized, Holds
  <2> QED
    BY <2>1, <2>4, <2>5 DEF y, n
<1>8. base \in T[0]
  <2>1. Holds(base, rt, o, {}, {}) /\ base.ret = new
    BY Returns
  <2> HIDE DEF base
  <2>2. Keeps(o, o, s, C) /\ C + 0 = C /\ Below(o, {}, s, C)
    BY <1>1 DEF Keeps, C
  <2>5. Blank(o, s, C, C, perm)
    BY <1>1 DEF Blank
  <2>3. Resized(base, rt, o, s, C + 0, C, new, perm)
    BY <2>1, <2>2, <2>5 DEF Resized
  <2>4. base \in Mem
    BY <2>1 DEF Holds
  <2> QED
    BY <1>2, <2>3, <2>4
<1>9. \A i \in 0..np : T[i] \subseteq Mem
  OBVIOUS
<1>10. \A x \in T[np] : Resized(x, rt, o, s, C + np, C, new, perm)
  BY <1>2
<1> HIDE DEF T, step, round, base
<1>11. \A i \in 1..np : \A x \in T[i - 1] : R[<<i, x>>] = step(x, C + (i - 1))
  BY <1>2, <1>9
<1> HIDE DEF R, h, eq
<1>12. PICK f : Path(np, T, base, R, f)
  <2>1. Leading(np, T, R)
    BY <1>7, <1>11 DEF Leading
  <2> QED
    BY <1>2, <1>8, <2>1, LoopExists
<1>13. eq(f)
  <2>1. ASSUME NEW i \in 1..np
        PROVE  R[<<i, f[i - 1]>>] = round(f[i - 1], i)
    BY <1>2, <1>6, <1>11, <1>12 DEF Path
  <2>2. f = [i \in 0..np |-> IF i = 0 THEN base ELSE round(f[i - 1], i)]
    BY <1>12, <2>1, SMTT(30) DEF Path
  <2> QED
    BY <2>2 DEF eq
<1>14. eq(h)
  BY <1>13 DEF h
<1>15. h[np] \in T[np]
  <2>1. h[0] = base /\ \A i \in 1..np : h[i] = round(h[i - 1], i)
    BY <1>2, <1>14 DEF eq
  <2>2. \A i \in 1..np : h[i - 1] \in T[i - 1] => h[i] \in T[i]
    BY <1>6, <1>7, <2>1
  <2> QED
    BY <1>2, <1>8, <2>1, <2>2, LoopStays
<1> HIDE DEF r
<1>16. Resized(uvmalloc(a, r, old, new, xperm), rt, o, s, Ceil(new), C, new, perm)
  <2>1. Resized(h[np], rt, o, s, C + np, C, new, perm)
    BY <1>10, <1>15
  <2> QED
    BY <1>2, <1>3, <1>4, <2>1
<1> QED
  BY <1>16 DEF r, C, perm

------------------------------------------------------------------------------
(* freewalk()                                                              *)

\* Space s has no user memory left.
NoData(o, s) == \A q \in Pages : ~ (o[q].lev = 0 /\ o[q].sp = s)

\* A table t of level l that leads to no user memory, with the entries X of
\* tables above it to be cleared when it is free.
Doomed(a, rt, o, Z, X, t, l) ==
  /\ Holds(a, rt, o, Z, X)
  /\ t \in Z /\ o[t].lev = l /\ NoData(o, o[t].sp)
  /\ \A p \in Pages, i \in Words : <<p, i>> \in X => p \in Z /\ p # t

\* From a to b nothing happened but that tables became free.
Emptied(a, b, o, o1, Z, t) ==
  /\ \A q \in Pages : o1[q] = o[q] \/ (o1[q].lev = 4 /\ o[q].lev # 0)
  /\ \A q \in Z : q # t => o1[q] = o[q] /\ b.ram[q] = a.ram[q]

\* The loop over the entries of t, before entry j, and its end.
Cleared(a, b, rt, o, Z, X, t, j) ==
  \E o1 : /\ Holds(b, rt, o1, Z, X) /\ Emptied(a, b, o, o1, Z, t) /\ o1[t] = o[t]
          /\ \A i \in Words : i < j => ~ valid(b.ram[t][i])
TableFreed(a, b, rt, o, Z, X, t) ==
  \E o1 : Holds(b, rt, o1, Z \ {t}, X) /\ Emptied(a, b, o, o1, Z, t)

\* A table to be freed stays one while those below it are freed.
LEMMA StillDoomed ==
  ASSUME NEW a, NEW b, NEW rt, NEW o, NEW o1, NEW Z, NEW X, NEW t, NEW l,
         Doomed(a, rt, o, Z, X, t, l), Holds(b, rt, o1, Z, X), Emptied(a, b, o, o1, Z, t),
         o1[t] = o[t]
  PROVE  Doomed(b, rt, o1, Z, X, t, l)
BY DEF Doomed, Emptied, NoData

\* Two rounds only make pages free, as each does.
LEMMA EmptiedTwice ==
  ASSUME NEW a, NEW b, NEW c, NEW o, NEW o1, NEW o2, NEW Z, NEW t, Z \subseteq Pages,
         Emptied(a, b, o, o1, Z, t), Emptied(b, c, o1, o2, Z, t)
  PROVE  Emptied(a, c, o, o2, Z, t)
BY DEF Emptied

\* freewalk() meets no leaf, and goes to a table that is to be freed.
LEMMA BeginVisit ==
  ASSUME NEW a, NEW rt, NEW o, NEW Z, NEW X, NEW t, NEW l, l \in 1..3, NEW j, j \in Words,
         Doomed(a, rt, o, Z, X, t, l), valid(a.ram[t][j])
  PROVE  LET c == a.ram[t][j].pa
         IN  /\ l > 1 /\ c \notin Z /\ c \in Pages
             /\ ~ leaf(a.ram[t][j]) /\ o[c].sp = o[t].sp
             /\ Doomed(a, rt, o, Z \cup {c}, X \cup {<<t, j>>}, c, l - 1)
<1> DEFINE c == a.ram[t][j].pa
<1>1. /\ a \in Mem /\ Tree(a.freelist, a.ram, rt, o, Z, X) /\ t \in Z /\ o[t].lev = l
      /\ NoData(o, o[t].sp)
      /\ \A p \in Pages, i \in Words : <<p, i>> \in X => p \in Z /\ p # t
  BY DEF Doomed, Holds
<1>2. t \in Pages /\ o[t].lev \in 1..3 /\ <<t, j>> \notin X
  BY <1>1 DEF Tree, Orphans
<1>3. Leads(a.ram, o, Z, t, j)
  BY <1>1, <1>2 DEF Tree, Down
<1>4. /\ c \in Pages \ Z /\ o[c].lev = l - 1 /\ o[c].sp = o[t].sp
      /\ leaf(a.ram[t][j]) <=> l = 1
  BY <1>1, <1>3 DEF Leads
<1>5. l > 1
  BY <1>1, <1>4 DEF NoData
<1>6. Holds(a, rt, o, Z \cup {c}, X \cup {<<t, j>>})
  BY <1>1, <1>2, Detach DEF Holds
<1> HIDE DEF c
<1>7. \A p \in Pages, i \in Words : <<p, i>> \in X \cup {<<t, j>>} => p \in Z \cup {c} /\ p # c
  BY <1>1, <1>4
<1>8. Doomed(a, rt, o, Z \cup {c}, X \cup {<<t, j>>}, c, l - 1)
  BY <1>1, <1>4, <1>6, <1>7 DEF Doomed
<1> QED
  BY <1>4, <1>5, <1>8 DEF c

\* The entry of a table that is free is cleared.
Forgotten(d, t, j) == [d EXCEPT !.ram[t][j] = word(NULL, {})]

\* After a visit the entry is cleared, and nothing leads to the freed table.
LEMMA EndVisit ==
  ASSUME NEW a, NEW d, NEW rt, NEW o, NEW Z, NEW X, NEW t, NEW l, l \in 2..3,
         NEW j, j \in Words, Doomed(a, rt, o, Z, X, t, l), NEW c, c \in Pages, c \notin Z,
         \A i \in Words : i < j => ~ valid(a.ram[t][i]),
         TableFreed(a, d, rt, o, Z \cup {c}, X \cup {<<t, j>>}, c)
  PROVE  Cleared(a, Forgotten(d, t, j), rt, o, Z, X, t, j + 1)
<1> DEFINE nil == word(NULL, {})
           m1 == [d.ram EXCEPT ![t][j] = nil]
           b == Forgotten(d, t, j)
<1>1. t \in Z /\ t \in Pages /\ o[t].lev = l /\ Z \subseteq Pages
  BY DEF Doomed, Holds, Tree, Orphans
<1>2. (Z \cup {c}) \ {c} = Z
  OBVIOUS
<1>3. PICK o1 : /\ Holds(d, rt, o1, Z, X \cup {<<t, j>>})
                /\ Emptied(a, d, o, o1, Z \cup {c}, c)
  BY <1>2 DEF TableFreed
<1>4. /\ \A q \in Pages : o1[q] = o[q] \/ (o1[q].lev = 4 /\ o[q].lev # 0)
      /\ \A q \in Z : o1[q] = o[q] /\ d.ram[q] = a.ram[q]
  BY <1>3 DEF Emptied
<1>5. d \in Mem /\ Tree(d.freelist, d.ram, rt, o1, Z, X \cup {<<t, j>>})
  BY <1>3 DEF Holds
<1>6. nil \in Word /\ ~ valid(nil)
  BY PageTypes DEF nil, word, Word, valid
<1>7. (X \cup {<<t, j>>}) \ {<<t, j>>} = X /\ <<t, j>> \in X \cup {<<t, j>>}
  <2>1. <<t, j>> \notin X
    BY <1>1 DEF Doomed
  <2> QED
    BY <2>1
<1>8. o1[t] = o[t] /\ o1[t].lev \in 1..3
  BY <1>1, <1>4
<1>9. /\ b.ret = d.ret /\ b.freelist = d.freelist /\ b.panic = d.panic /\ b.ram = m1
      /\ b = [freelist |-> b.freelist, ram |-> b.ram, ret |-> b.ret, panic |-> b.panic]
  BY <1>5 DEF Mem, Forgotten
<1> HIDE DEF nil
<1>10. Tree(d.freelist, m1, rt, o1, Z, X)
  <2>1. Tree(d.freelist, m1, rt, o1, Z, (X \cup {<<t, j>>}) \ {<<t, j>>})
    BY <1>1, <1>5, <1>6, <1>7, <1>8, Cut
  <2> QED
    BY <1>7, <2>1
<1>11. /\ \A q \in Pages \ {t} : m1[q] = d.ram[q]
       /\ m1[t][j] = nil /\ \A i \in Words \ {j} : m1[t][i] = d.ram[t][i]
  BY <1>1, <1>5 DEF Mem, Content
<1> HIDE DEF m1, b
<1>12. Holds(b, rt, o1, Z, X)
  <2>1. m1 \in [Pages -> Content]
    BY <1>10 DEF Tree, Typed
  <2>2. b \in Mem
    BY <1>5, <1>9, <2>1 DEF Mem
  <2> QED
    BY <1>9, <1>10, <2>2 DEF Holds
<1>13. Emptied(a, b, o, o1, Z, t)
  BY <1>1, <1>4, <1>9, <1>11 DEF Emptied
<1>14. \A i \in Words : i < j + 1 => ~ valid(b.ram[t][i])
  <2>1. ASSUME NEW i \in Words, i < j + 1
        PROVE  ~ valid(b.ram[t][i])
    <3>1. i \in Nat /\ j \in Nat
      BY Numbers
    <3>2. CASE i = j
      BY <1>6, <1>9, <1>11, <3>2
    <3>3. CASE i # j
      BY <1>1, <1>4, <1>9, <1>11, <2>1, <3>1, <3>3
    <3> QED
      BY <3>2, <3>3
  <2> QED
    BY <2>1
<1> QED
  BY <1>8, <1>12, <1>13, <1>14 DEF Cleared, b

\* The table itself is freed.
LEMMA Finish ==
  ASSUME NEW a, NEW b, NEW rt, NEW o, NEW Z, NEW X, NEW t, t \in Z, o[t].lev # 0,
         Cleared(a, b, rt, o, Z, X, t, WORDS)
  PROVE  TableFreed(a, kfree(b, t), rt, o, Z, X, t)
<1> DEFINE d == kfree(b, t)
<1>1. PICK o1 : /\ Holds(b, rt, o1, Z, X) /\ Emptied(a, b, o, o1, Z, t) /\ o1[t] = o[t]
                /\ \A i \in Words : i < WORDS => ~ valid(b.ram[t][i])
  BY DEF Cleared
<1>2. \A i \in Words : ~ valid(b.ram[t][i])
  BY <1>1, MemoryAssumption DEF Words
<1> DEFINE o2 == [o1 EXCEPT ![t] = Freed(b.freelist, o1)]
<1>3. /\ Holds(d, rt, o2, Z \ {t}, X)
      /\ \A q \in Pages \ {t} : d.ram[q] = b.ram[q]
  BY <1>1, <1>2, Kfree
<1>4. /\ o2[t].lev = 4 /\ \A q \in Pages \ {t} : o2[q] = o1[q]
      /\ Z \subseteq Pages
  <2>1. o1 \in [Pages -> Use] /\ Z \subseteq Pages
    BY <1>1 DEF Holds, Tree, Typed, Orphans
  <2> QED
    BY <2>1 DEF Freed
<1> HIDE DEF o2, d
<1>5. Emptied(a, d, o, o2, Z, t)
  BY <1>1, <1>3, <1>4 DEF Emptied
<1> QED
  BY <1>3, <1>5 DEF TableFreed, d

\* freetable() of a table of level 1, 2 and 3.
LastTable(a, t) == freetable(a, t, LAMBDA u, w : stop(u, "access_fault"))

\* freewalk() of tables of the middle and of the root level.
MidTable(a, t) == freetable(a, t, LastTable)
RootTable(a, t) == freetable(a, t, MidTable)

\* The last one has no entries any more.
LEMMA LastFreed ==
  ASSUME NEW a, NEW rt, NEW o, NEW Z, NEW X, NEW t, Doomed(a, rt, o, Z, X, t, 1)
  PROVE  TableFreed(a, LastTable(a, t), rt, o, Z, X, t)
<1> DEFINE n == WORDS
           entry_of(x, i, pte) ==
             IF valid(pte) /\ ~leaf(pte)
             THEN [stop(x, "access_fault") EXCEPT !.ram[t][i] = word(NULL, {})]
             ELSE IF valid(pte) THEN stop(x, "freewalk") ELSE x
           round(x, i) == entry_of(x, i - 1, x.ram[t][i - 1])
           eq(f) == f = [i \in 0..n |-> IF i = 0 THEN a ELSE round(f[i - 1], i)]
           h == CHOOSE f : eq(f)
           T == [j \in 0..n |-> {a}]
<1>0. n \in Nat
  BY MemoryAssumption
<1>1. t \in Z /\ t \in Pages /\ Holds(a, rt, o, Z, X) /\ o[t].lev # 0
  BY DEF Doomed, Holds, Tree, Orphans
<1>2. \A i \in Words : ~ valid(a.ram[t][i])
  <2>1. ASSUME NEW i \in Words, valid(a.ram[t][i])
        PROVE  FALSE
    <3>1. 1 \in 1..3 /\ ~ (1 > 1)
      OBVIOUS
    <3> QED
      BY <2>1, <3>1, BeginVisit
  <2> QED
    BY <2>1
<1>3. LastTable(a, t) = kfree(Loop(round, a, WORDS), t)
  BY <1>1, Zenon DEF LastTable, freetable, PTE2PA
<1>4. Loop(round, a, WORDS) = h[n]
  BY DEF Loop
<1> HIDE DEF n
<1>5. ASSUME NEW i \in 1..n
      PROVE  round(a, i) = a
  <2>1. i - 1 \in Words
    BY <1>0 DEF Words, n
  <2> QED
    BY <1>2, <2>1
<1> HIDE DEF round
<1>6. eq([i \in 0..n |-> a])
  BY <1>0, <1>5
<1> HIDE DEF eq, h
<1>7. eq(h)
  BY <1>6 DEF h
<1>8. h[n] \in T[n]
  <2>1. h[0] = a /\ \A i \in 1..n : h[i] = round(h[i - 1], i)
    BY <1>0, <1>7 DEF eq
  <2>2. h[0] \in T[0] /\ \A i \in 1..n : h[i - 1] \in T[i - 1] => h[i] \in T[i]
    BY <1>0, <1>5, <2>1
  <2> HIDE DEF T
  <2> QED
    BY <1>0, <2>2, LoopStays
<1>9. h[n] = a
  BY <1>0, <1>8
<1>10. Cleared(a, a, rt, o, Z, X, t, WORDS)
  BY <1>1, <1>2 DEF Cleared, Emptied
<1> QED
  BY <1>1, <1>3, <1>4, <1>9, <1>10, Finish DEF n

\* freewalk() of a middle table.
LEMMA MidFreed ==
  ASSUME NEW a, NEW rt, NEW o, NEW Z, NEW X, NEW t, Doomed(a, rt, o, Z, X, t, 2)
  PROVE  TableFreed(a, MidTable(a, t), rt, o, Z, X, t)
<1> DEFINE n == WORDS
           step(x, i) ==
             IF valid(x.ram[t][i]) /\ ~leaf(x.ram[t][i])
             THEN Forgotten(LastTable(x, x.ram[t][i].pa), t, i)
             ELSE IF valid(x.ram[t][i]) THEN stop(x, "freewalk") ELSE x
           entry_of(x, i, pte) ==
             IF valid(pte) /\ ~leaf(pte)
             THEN [LastTable(x, pte.pa) EXCEPT !.ram[t][i] = word(NULL, {})]
             ELSE IF valid(pte) THEN stop(x, "freewalk") ELSE x
           round(x, i) == entry_of(x, i - 1, x.ram[t][i - 1])
           T == [j \in 0..n |-> {x \in Mem : Cleared(a, x, rt, o, Z, X, t, j)}]
           R == [y \in (1..n) \X Mem |-> step(y[2], y[1] - 1)]
           eq(f) == f = [i \in 0..n |-> IF i = 0 THEN a ELSE round(f[i - 1], i)]
           h == CHOOSE f : eq(f)
<1>0. n \in Nat
  BY MemoryAssumption
<1>1. t \in Z /\ t \in Pages /\ Holds(a, rt, o, Z, X) /\ Z \subseteq Pages /\ o[t].lev # 0
  BY DEF Doomed, Holds, Tree, Orphans
<1>2. MidTable(a, t) = kfree(Loop(round, a, WORDS), t)
  BY <1>1, Zenon DEF MidTable, freetable, PTE2PA
<1>3. Loop(round, a, WORDS) = h[n]
  BY DEF Loop
<1> HIDE DEF n
<1>4. ASSUME NEW i, NEW x
      PROVE  round(x, i) = step(x, i - 1)
  BY DEF Forgotten
<1>5. ASSUME NEW i \in 1..n, NEW x \in T[i - 1]
      PROVE  step(x, i - 1) \in T[i]
  <2> DEFINE j == i - 1
             y == step(x, j)
             c == x.ram[t][j].pa
             d == LastTable(x, c)
  <2>1. j \in Words /\ j \in 0..n /\ i \in 0..n /\ j + 1 = i
    BY <1>0 DEF Words, n
  <2>2. PICK o1 : /\ Holds(x, rt, o1, Z, X) /\ Emptied(a, x, o, o1, Z, t) /\ o1[t] = o[t]
                  /\ \A k1 \in Words : k1 < j => ~ valid(x.ram[t][k1])
    BY <2>1 DEF Cleared
  <2>3. Doomed(x, rt, o1, Z, X, t, 2)
    BY <2>2, StillDoomed
  <2> HIDE DEF j
  <2>4. CASE ~ valid(x.ram[t][j])
    <3>1. y = x
      BY <2>4
    <3>2. \A k1 \in Words : k1 < i => ~ valid(x.ram[t][k1])
      <4>1. \A k1 \in Words : k1 < i => k1 < j \/ k1 = j
        BY <2>1, Numbers
      <4> QED
        BY <2>2, <2>4, <4>1
    <3>3. Cleared(a, x, rt, o, Z, X, t, i)
      BY <2>2, <3>2 DEF Cleared
    <3>4. x \in Mem
      BY <2>2 DEF Holds
    <3> QED
      BY <2>1, <3>1, <3>3, <3>4 DEF j
  <2>5. CASE valid(x.ram[t][j])
    <3>1. /\ c \notin Z /\ c \in Pages /\ ~ leaf(x.ram[t][j])
          /\ Doomed(x, rt, o1, Z \cup {c}, X \cup {<<t, j>>}, c, 1)
      <4>1. 2 \in 1..3 /\ 2 - 1 = 1
        OBVIOUS
      <4>2. /\ c \notin Z /\ c \in Pages /\ ~ leaf(x.ram[t][j])
            /\ Doomed(x, rt, o1, Z \cup {c}, X \cup {<<t, j>>}, c, 2 - 1)
        BY <2>1, <2>3, <2>5, <4>1, BeginVisit
      <4> QED
        BY <4>1, <4>2
    <3>2. y = Forgotten(d, t, j)
      BY <2>5, <3>1
    <3> HIDE DEF c, d, y
    <3>3. TableFreed(x, d, rt, o1, Z \cup {c}, X \cup {<<t, j>>}, c)
      BY <3>1, LastFreed DEF d
    <3>4. 2 \in 2..3
      OBVIOUS
    <3>5. Cleared(x, y, rt, o1, Z, X, t, j + 1)
      BY <2>1, <2>2, <2>3, <3>1, <3>2, <3>3, <3>4, EndVisit
    <3>6. PICK o2 : /\ Holds(y, rt, o2, Z, X) /\ Emptied(x, y, o1, o2, Z, t)
                    /\ o2[t] = o1[t]
                    /\ \A k1 \in Words : k1 < i => ~ valid(y.ram[t][k1])
      BY <2>1, <3>5 DEF Cleared
    <3>7. Emptied(a, y, o, o2, Z, t)
      BY <1>1, <2>2, <3>6, EmptiedTwice
    <3>8. Cleared(a, y, rt, o, Z, X, t, i)
      BY <2>2, <3>6, <3>7 DEF Cleared
    <3>9. y \in Mem
      BY <3>6 DEF Holds
    <3> QED
      BY <2>1, <3>8, <3>9 DEF y, j
  <2> QED
    BY <2>4, <2>5
<1>6. a \in T[0]
  <2>1. \A i \in Words : ~ (i < 0)
    BY Numbers
  <2>2. Cleared(a, a, rt, o, Z, X, t, 0)
    BY <1>1, <2>1 DEF Cleared, Emptied
  <2> QED
    BY <1>0, <1>1, <2>2 DEF Holds
<1>7. \A i \in 0..n : T[i] \subseteq Mem
  OBVIOUS
<1>8. \A x \in T[n] : Cleared(a, x, rt, o, Z, X, t, n)
  BY <1>0
<1> HIDE DEF T, step, round
<1>9. \A i \in 1..n : \A x \in T[i - 1] : R[<<i, x>>] = step(x, i - 1)
  BY <1>0, <1>7
<1> HIDE DEF R, h, eq
<1>10. PICK f : Path(n, T, a, R, f)
  <2>1. Leading(n, T, R)
    BY <1>5, <1>9 DEF Leading
  <2> QED
    BY <1>0, <1>6, <2>1, LoopExists
<1>11. eq(f)
  <2>1. ASSUME NEW i \in 1..n
        PROVE  R[<<i, f[i - 1]>>] = round(f[i - 1], i)
    BY <1>0, <1>4, <1>9, <1>10 DEF Path
  <2>2. f = [i \in 0..n |-> IF i = 0 THEN a ELSE round(f[i - 1], i)]
    <3>1. f = [i \in 0..n |-> IF i = 0 THEN a ELSE R[<<i, f[i - 1]>>]]
      BY <1>10 DEF Path
    <3>2. \A i \in 0..n : i = 0 \/ R[<<i, f[i - 1]>>] = round(f[i - 1], i)
      BY <1>0, <2>1
    <3> QED
      BY <3>1, <3>2
  <2> QED
    BY <2>2 DEF eq
<1>12. eq(h)
  BY <1>11 DEF h
<1>13. h[n] \in T[n]
  <2>1. h[0] = a /\ \A i \in 1..n : h[i] = round(h[i - 1], i)
    BY <1>0, <1>12 DEF eq
  <2>2. \A i \in 1..n : h[i - 1] \in T[i - 1] => h[i] \in T[i]
    BY <1>4, <1>5, <2>1
  <2> QED
    BY <1>0, <1>6, <2>1, <2>2, LoopStays
<1> QED
  BY <1>0, <1>1, <1>2, <1>3, <1>8, <1>13, Finish DEF n

\* freewalk() of a root.
LEMMA RootFreed ==
  ASSUME NEW a, NEW rt, NEW o, NEW Z, NEW X, NEW t, Doomed(a, rt, o, Z, X, t, 3)
  PROVE  TableFreed(a, RootTable(a, t), rt, o, Z, X, t)
<1> DEFINE n == WORDS
           step(x, i) ==
             IF valid(x.ram[t][i]) /\ ~leaf(x.ram[t][i])
             THEN Forgotten(MidTable(x, x.ram[t][i].pa), t, i)
             ELSE IF valid(x.ram[t][i]) THEN stop(x, "freewalk") ELSE x
           entry_of(x, i, pte) ==
             IF valid(pte) /\ ~leaf(pte)
             THEN [MidTable(x, pte.pa) EXCEPT !.ram[t][i] = word(NULL, {})]
             ELSE IF valid(pte) THEN stop(x, "freewalk") ELSE x
           round(x, i) == entry_of(x, i - 1, x.ram[t][i - 1])
           T == [j \in 0..n |-> {x \in Mem : Cleared(a, x, rt, o, Z, X, t, j)}]
           R == [y \in (1..n) \X Mem |-> step(y[2], y[1] - 1)]
           eq(f) == f = [i \in 0..n |-> IF i = 0 THEN a ELSE round(f[i - 1], i)]
           h == CHOOSE f : eq(f)
<1>0. n \in Nat
  BY MemoryAssumption
<1>1. t \in Z /\ t \in Pages /\ Holds(a, rt, o, Z, X) /\ Z \subseteq Pages /\ o[t].lev # 0
  BY DEF Doomed, Holds, Tree, Orphans
<1>2. RootTable(a, t) = kfree(Loop(round, a, WORDS), t)
  BY <1>1, Zenon DEF RootTable, freetable, PTE2PA
<1>3. Loop(round, a, WORDS) = h[n]
  BY DEF Loop
<1> HIDE DEF n
<1>4. ASSUME NEW i, NEW x
      PROVE  round(x, i) = step(x, i - 1)
  BY DEF Forgotten
<1>5. ASSUME NEW i \in 1..n, NEW x \in T[i - 1]
      PROVE  step(x, i - 1) \in T[i]
  <2> DEFINE j == i - 1
             y == step(x, j)
             c == x.ram[t][j].pa
             d == MidTable(x, c)
  <2>1. j \in Words /\ j \in 0..n /\ i \in 0..n /\ j + 1 = i
    BY <1>0 DEF Words, n
  <2>2. PICK o1 : /\ Holds(x, rt, o1, Z, X) /\ Emptied(a, x, o, o1, Z, t) /\ o1[t] = o[t]
                  /\ \A k1 \in Words : k1 < j => ~ valid(x.ram[t][k1])
    BY <2>1 DEF Cleared
  <2>3. Doomed(x, rt, o1, Z, X, t, 3)
    BY <2>2, StillDoomed
  <2> HIDE DEF j
  <2>4. CASE ~ valid(x.ram[t][j])
    <3>1. y = x
      BY <2>4
    <3>2. \A k1 \in Words : k1 < i => ~ valid(x.ram[t][k1])
      <4>1. \A k1 \in Words : k1 < i => k1 < j \/ k1 = j
        BY <2>1, Numbers
      <4> QED
        BY <2>2, <2>4, <4>1
    <3>3. Cleared(a, x, rt, o, Z, X, t, i)
      BY <2>2, <3>2 DEF Cleared
    <3>4. x \in Mem
      BY <2>2 DEF Holds
    <3> QED
      BY <2>1, <3>1, <3>3, <3>4 DEF j
  <2>5. CASE valid(x.ram[t][j])
    <3>1. /\ c \notin Z /\ c \in Pages /\ ~ leaf(x.ram[t][j])
          /\ Doomed(x, rt, o1, Z \cup {c}, X \cup {<<t, j>>}, c, 2)
      <4>1. 3 \in 1..3 /\ 3 - 1 = 2
        OBVIOUS
      <4>2. /\ c \notin Z /\ c \in Pages /\ ~ leaf(x.ram[t][j])
            /\ Doomed(x, rt, o1, Z \cup {c}, X \cup {<<t, j>>}, c, 3 - 1)
        BY <2>1, <2>3, <2>5, <4>1, BeginVisit
      <4> QED
        BY <4>1, <4>2
    <3>2. y = Forgotten(d, t, j)
      BY <2>5, <3>1
    <3> HIDE DEF c, d, y
    <3>3. TableFreed(x, d, rt, o1, Z \cup {c}, X \cup {<<t, j>>}, c)
      BY <3>1, MidFreed DEF d
    <3>4. 3 \in 2..3
      OBVIOUS
    <3>5. Cleared(x, y, rt, o1, Z, X, t, j + 1)
      BY <2>1, <2>2, <2>3, <3>1, <3>2, <3>3, <3>4, EndVisit
    <3>6. PICK o2 : /\ Holds(y, rt, o2, Z, X) /\ Emptied(x, y, o1, o2, Z, t)
                    /\ o2[t] = o1[t]
                    /\ \A k1 \in Words : k1 < i => ~ valid(y.ram[t][k1])
      BY <2>1, <3>5 DEF Cleared
    <3>7. Emptied(a, y, o, o2, Z, t)
      BY <1>1, <2>2, <3>6, EmptiedTwice
    <3>8. Cleared(a, y, rt, o, Z, X, t, i)
      BY <2>2, <3>6, <3>7 DEF Cleared
    <3>9. y \in Mem
      BY <3>6 DEF Holds
    <3> QED
      BY <2>1, <3>8, <3>9 DEF y, j
  <2> QED
    BY <2>4, <2>5
<1>6. a \in T[0]
  <2>1. \A i \in Words : ~ (i < 0)
    BY Numbers
  <2>2. Cleared(a, a, rt, o, Z, X, t, 0)
    BY <1>1, <2>1 DEF Cleared, Emptied
  <2> QED
    BY <1>0, <1>1, <2>2 DEF Holds
<1>7. \A i \in 0..n : T[i] \subseteq Mem
  OBVIOUS
<1>8. \A x \in T[n] : Cleared(a, x, rt, o, Z, X, t, n)
  BY <1>0
<1> HIDE DEF T, step, round
<1>9. \A i \in 1..n : \A x \in T[i - 1] : R[<<i, x>>] = step(x, i - 1)
  BY <1>0, <1>7
<1> HIDE DEF R, h, eq
<1>10. PICK f : Path(n, T, a, R, f)
  <2>1. Leading(n, T, R)
    BY <1>5, <1>9 DEF Leading
  <2> QED
    BY <1>0, <1>6, <2>1, LoopExists
<1>11. eq(f)
  <2>1. ASSUME NEW i \in 1..n
        PROVE  R[<<i, f[i - 1]>>] = round(f[i - 1], i)
    BY <1>0, <1>4, <1>9, <1>10 DEF Path
  <2>2. f = [i \in 0..n |-> IF i = 0 THEN a ELSE round(f[i - 1], i)]
    <3>1. f = [i \in 0..n |-> IF i = 0 THEN a ELSE R[<<i, f[i - 1]>>]]
      BY <1>10 DEF Path
    <3>2. \A i \in 0..n : i = 0 \/ R[<<i, f[i - 1]>>] = round(f[i - 1], i)
      BY <1>0, <2>1
    <3> QED
      BY <3>1, <3>2
  <2> QED
    BY <2>2 DEF eq
<1>12. eq(h)
  BY <1>11 DEF h
<1>13. h[n] \in T[n]
  <2>1. h[0] = a /\ \A i \in 1..n : h[i] = round(h[i - 1], i)
    BY <1>0, <1>12 DEF eq
  <2>2. \A i \in 1..n : h[i - 1] \in T[i - 1] => h[i] \in T[i]
    BY <1>4, <1>5, <2>1
  <2> QED
    BY <1>0, <1>6, <2>1, <2>2, LoopStays
<1> QED
  BY <1>0, <1>1, <1>2, <1>3, <1>8, <1>13, Finish DEF n

\* uvmfree() of a space that gave up its root.
LEMMA Free ==
  ASSUME NEW a, NEW rt, NEW o, Holds(a, rt, o, {}, {}),
         NEW s \in Spaces, rt[s] # NULL, NEW size \in Nat, size <= MAXVA,
         Below(o, {}, s, Ceil(size))
  PROVE  \E o1 : /\ Holds(uvmfree(a, rt[s], size), [rt EXCEPT ![s] = NULL], o1, {}, {})
                 /\ Keeps(o, o1, s, 0) /\ NoData(o1, s)
<1> DEFINE r == rt[s]
           rt1 == [rt EXCEPT ![s] = NULL]
           np == Ceil(size)
           b == IF size > 0 THEN uvmunmap(a, r, 0, PGROUNDUP(size) \div PGSIZE, TRUE) ELSE a
<1>1. /\ np \in Nat /\ PGROUNDUP(size) \div PGSIZE = np /\ 0 \in Nat
      /\ \A n \in Nat : n < np <=> n * PGSIZE < size
  BY Rounding
<1>2. uvmfree(a, r, size) = RootTable(b, r)
  BY Zenon DEF uvmfree, freewalk, RootTable, MidTable, LastTable
<1>3. Settled(o, {})
  BY DEF Settled
<1>4. \E o1 : /\ Holds(b, rt, o1, {}, {}) /\ Lost(o, o1, {}, s, Nat) /\ Gone(o1, {}, s, Nat)
  <2> HIDE DEF np
  <2>1. CASE size > 0
    <3>1. b = Unmapped(a, r, 0, np)
      <4>1. 0 * PGSIZE = 0
        BY PageAssumption
      <4> QED
        BY <1>1, <2>1, <4>1, Zenon DEF Unmapped
    <3>2. 0 .. (0 + np) - 1 \subseteq Nat /\ \A n \in Nat : n < np => n \in 0 .. (0 + np) - 1
      BY <1>1
    <3>3. \A n \in 0 .. (0 + np) - 1 : n * PGSIZE < MAXVA
      <4>1. ASSUME NEW n \in 0 .. (0 + np) - 1
            PROVE  n * PGSIZE < MAXVA
        <5>1. n \in Nat /\ n < np
          BY <1>1
        <5>2. n * PGSIZE < size /\ n * PGSIZE \in Nat
          BY <1>1, <5>1, Multiples
        <5> QED
          BY <5>2, MaxvaInt
      <4> QED
        BY <4>1
    <3>4. \E o1 : /\ Holds(Unmapped(a, rt[s], 0, np), rt, o1, {}, {})
                  /\ Lost(o, o1, {}, s, 0 .. (0 + np) - 1) /\ Gone(o1, {}, s, 0 .. (0 + np) - 1)
      BY <1>1, <1>3, <3>3, Unmap
    <3>5. PICK o1 : /\ Holds(Unmapped(a, rt[s], 0, np), rt, o1, {}, {})
                    /\ Lost(o, o1, {}, s, 0 .. (0 + np) - 1)
                    /\ Gone(o1, {}, s, 0 .. (0 + np) - 1)
      BY <3>4
    <3>6. Lost(o, o1, {}, s, Nat)
      BY <3>2, <3>5 DEF Lost
    <3>7. Gone(o1, {}, s, Nat)
      <4>1. ASSUME NEW q \in Pages, o1[q].lev = 0, o1[q].sp = s, o1[q].num \in Nat
            PROVE  FALSE
        <5>1. o1[q] = o[q]
          BY <3>5, <4>1 DEF Lost
        <5>2. o1[q].num < np
          BY <4>1, <5>1 DEF Below, np
        <5>3. o1[q].num \in 0 .. (0 + np) - 1
          BY <3>2, <4>1, <5>2
        <5> QED
          BY <3>5, <4>1, <5>3 DEF Gone
      <4> QED
        BY <4>1 DEF Gone
    <3> HIDE DEF b
    <3> QED
      BY <3>1, <3>5, <3>6, <3>7
  <2>2. CASE ~ (size > 0)
    <3>1. b = a
      BY <2>2
    <3>2. ~ (0 < np)
      <4>1. 0 * PGSIZE = 0
        BY PageAssumption
      <4> QED
        BY <1>1, <2>2, <4>1
    <3>3. Lost(o, o, {}, s, Nat)
      BY DEF Lost
    <3>4. \A q \in Pages : o[q].num \in Nat
      BY DEF Holds, Tree, Typed, Use
    <3>5. \A q \in Pages : o[q].num \in Nat => ~ (o[q].num < np)
      BY <1>1, <3>2
    <3>6. Gone(o, {}, s, Nat)
      BY <3>4, <3>5 DEF Gone, Below, np
    <3> HIDE DEF b
    <3> QED
      BY <3>1, <3>3, <3>6
  <2> QED
    BY <2>1, <2>2
<1> HIDE DEF b, np
<1>5. PICK o1 : /\ Holds(b, rt, o1, {}, {}) /\ Lost(o, o1, {}, s, Nat) /\ Gone(o1, {}, s, Nat)
  BY <1>4
<1>6. b \in Mem /\ Tree(b.freelist, b.ram, rt, o1, {}, {})
  BY <1>5 DEF Holds
<1>7. r \in Pages /\ o1[r].lev = 3 /\ o1[r].sp = s
  BY <1>6 DEF Tree, Typed, Roots
<1>8. NoData(o1, s)
  <2>1. \A q \in Pages : o1[q].num \in Nat
    BY <1>6 DEF Tree, Typed, Use
  <2> QED
    BY <1>5, <2>1 DEF Gone, NoData
<1>9. Holds(b, rt1, o1, {r}, {})
  <2>1. Tree(b.freelist, b.ram, rt1, o1, {} \cup {r}, {})
    BY <1>6, Uproot
  <2>2. {} \cup {r} = {r}
    OBVIOUS
  <2> QED
    BY <1>6, <2>1, <2>2 DEF Holds
<1>10. Doomed(b, rt1, o1, {r}, {}, r, 3)
  BY <1>7, <1>8, <1>9 DEF Doomed
<1> HIDE DEF r, rt1
<1>11. TableFreed(b, RootTable(b, r), rt1, o1, {r}, {}, r)
  BY <1>10, RootFreed
<1>12. PICK o2 : /\ Holds(RootTable(b, r), rt1, o2, {r} \ {r}, {})
                 /\ Emptied(b, RootTable(b, r), o1, o2, {r}, r)
  BY <1>11 DEF TableFreed
<1>13. {r} \ {r} = {}
  OBVIOUS
<1>14. Keeps(o, o2, s, 0)
  <2>1. Keeps(o, o1, s, 0)
    <3>1. \A n \in Nat : ~ (n < 0)
      OBVIOUS
    <3> QED
      BY <1>5, <3>1, LostKeeps
  <2>2. \A q \in Pages : o1[q].lev = 0 \/ o2[q].lev = 0 => o2[q] = o1[q]
    BY <1>12 DEF Emptied
  <2>3. Keeps(o1, o2, s, 0)
    BY <2>2, KeepsAll
  <2> QED
    BY <2>1, <2>3, KeepsTwice
<1>15. NoData(o2, s)
  BY <1>8, <1>12 DEF NoData, Emptied
<1> QED
  BY <1>2, <1>12, <1>13, <1>14, <1>15 DEF r, rt1

------------------------------------------------------------------------------
(* uvmcopy()                                                               *)

\* The pages of space s before n are copies of those of u.
Copies(o, u, s, n) ==
  /\ \A q \in Pages : o[q].lev = 0 /\ o[q].sp = u /\ o[q].num < n =>
       Has(o, s, o[q].num, o[q].body, o[q].flags)
  /\ \A q \in Pages : o[q].lev = 0 /\ o[q].sp = s =>
       Has(o, u, o[q].num, o[q].body, o[q].flags)

\* Either all is copied, up to page n, or all is undone.
Copied(b, rt, o, u, s, n) ==
  \E o1 : /\ Holds(b, rt, o1, {}, {}) /\ Keeps(o, o1, s, 0)
          /\ \/ b.ret = 0 /\ Below(o1, {}, s, n) /\ Copies(o1, u, s, n)
             \/ b.ret = -1 /\ Below(o1, {}, s, 0)

\* err: of uvmcopy() gives back what was copied.
LEMMA CopyUndo ==
  ASSUME NEW a, NEW rt, NEW o, NEW o1, Holds(a, rt, o1, {}, {}),
         NEW s \in Spaces, rt[s] # NULL, Keeps(o, o1, s, 0), NEW n \in Nat, n * PGSIZE < MAXVA,
         Below(o1, {}, s, n), NEW u, NEW n1
  PROVE  Copied(uvmcopy_err(a, rt[s], n * PGSIZE), rt, o, u, s, n1)
<1> DEFINE d == Unmapped(a, rt[s], 0, n)
           b == uvmcopy_err(a, rt[s], n * PGSIZE)
<1>1. /\ n * PGSIZE \in Nat /\ (n * PGSIZE) \div PGSIZE = n /\ 0 \in Nat /\ 0 * PGSIZE = 0
      /\ PGSIZE \in Nat
  BY Multiples, PageAssumption DEF VpnOf
<1>2. b = return(d, -1)
  BY <1>1, Zenon DEF uvmcopy_err, Unmapped
<1>3. \A j \in 0 .. (0 + n) - 1 : j * PGSIZE < MAXVA
  <2>1. ASSUME NEW j \in 0 .. (0 + n) - 1
        PROVE  j * PGSIZE < MAXVA
    <3>1. j \in Nat /\ j <= n
      OBVIOUS
    <3>2. j * PGSIZE <= n * PGSIZE /\ j * PGSIZE \in Nat
      BY <1>1, <3>1
    <3> QED
      BY <1>1, <3>2, MaxvaInt
  <2> QED
    BY <2>1
<1>4. Settled(o1, {})
  BY DEF Settled
<1>5. PICK o2 : /\ Holds(d, rt, o2, {}, {}) /\ Lost(o1, o2, {}, s, 0 .. (0 + n) - 1)
                /\ Gone(o2, {}, s, 0 .. (0 + n) - 1)
  <2>1. \E o2 : /\ Holds(Unmapped(a, rt[s], 0, n), rt, o2, {}, {})
                /\ Lost(o1, o2, {}, s, 0 .. (0 + n) - 1) /\ Gone(o2, {}, s, 0 .. (0 + n) - 1)
    BY <1>1, <1>3, <1>4, Unmap
  <2> QED
    BY <2>1
<1> HIDE DEF d, b
<1>6. Holds(b, rt, o2, {}, {}) /\ b.ret = -1
  <2>1. Holds(d, rt, o2, {}, {}) /\ -1 \in Int
    BY <1>5
  <2>2. Holds(return(d, -1), rt, o2, {}, {}) /\ return(d, -1).ret = -1
    BY <2>1, Returns
  <2> QED
    BY <1>2, <2>2
<1>7. Keeps(o, o2, s, 0)
  <2>1. \A j \in 0 .. (0 + n) - 1 : ~ (j < 0)
    OBVIOUS
  <2>2. Keeps(o1, o2, s, 0)
    BY <1>5, <2>1, LostKeeps
  <2> QED
    BY <2>2, KeepsTwice
<1>8. Below(o2, {}, s, 0)
  <2>1. ASSUME NEW q \in Pages, o2[q].lev = 0, o2[q].sp = s
        PROVE  FALSE
    <3>1. o2[q] = o1[q]
      BY <1>5, <2>1 DEF Lost
    <3>2. o2[q].num < n
      BY <2>1, <3>1 DEF Below
    <3>3. o2[q].num \in Nat
      BY <1>5 DEF Holds, Tree, Typed, Use
    <3>4. o2[q].num \in 0 .. (0 + n) - 1
      BY <3>2, <3>3
    <3> QED
      BY <1>5, <2>1, <3>4 DEF Gone
  <2> QED
    BY <2>1 DEF Below
<1> QED
  BY <1>6, <1>7, <1>8 DEF Copied, b

\* The entry of a page that is there.
Found(a, r, n) == entry(Looked(a, r, n * PGSIZE), n * PGSIZE)

\* An entry that is valid belongs to the space and leads to its page.
LEMMA Find ==
  ASSUME NEW a, NEW rt, NEW o, Holds(a, rt, o, {}, {}), NEW s \in Spaces, rt[s] # NULL,
         NEW n \in Nat, n * PGSIZE < MAXVA, valid(Found(a, rt[s], n))
  PROVE  \E t \in Pages :
           LET i == PX(0, n * PGSIZE)
               pte == Found(a, rt[s], n)
           IN  /\ Looked(a, rt[s], n * PGSIZE) = return(a, t)
               /\ At(o, {}, t, 1, s, n \div WORDS) /\ i \in Words
               /\ pte = a.ram[t][i] /\ pte.flags \in SUBSET Flags /\ pte.pa \in Pages
               /\ leaf(pte) /\ At(o, {}, pte.pa, 0, s, n)
               /\ o[pte.pa].body = a.ram[pte.pa] /\ o[pte.pa].flags = pte.flags
<1> DEFINE va == n * PGSIZE
           w == Looked(a, rt[s], va)
           i == PX(0, va)
           pte == Found(a, rt[s], n)
<1>1. va \in Nat /\ VpnOf(va) = n /\ Settled(o, {})
  BY Multiples DEF Settled
<1> HIDE DEF va
<1>2. va < MAXVA
  BY DEF va
<1>3. PICK t \in Pages \cup {NULL} :
        w = return(a, t) /\ (t # NULL => At(o, {}, t, 1, s, n \div WORDS))
  BY <1>1, <1>2, Look
<1>4. i \in Words /\ Join(n \div WORDS, i) = n
  BY <1>1, <1>2, Digits
<1>5. w.ret = t /\ w.ram = a.ram
  <2>1. t \in Int
    BY Addresses
  <2> HIDE DEF w
  <2> QED
    BY <1>3, <2>1, Returns
<1>6. pte = entry(w, va)
  BY DEF Found, va
<1> HIDE DEF w, pte, i
<1>7. t # NULL
  <2>1. valid(pte)
    BY DEF pte
  <2> QED
    BY <1>5, <1>6, <2>1 DEF entry, valid, word
<1>8. pte = a.ram[t][i] /\ t \in Pages
  BY <1>5, <1>6, <1>7 DEF entry, i
<1>9. o[t].lev = 1 /\ o[t].sp = s /\ o[t].num = n \div WORDS
  BY <1>3, <1>7 DEF At
<1>10. /\ At(o, {}, pte.pa, 0, s, n) /\ leaf(pte)
       /\ o[pte.pa].tab = t /\ o[pte.pa].idx = i
  <2>1. valid(a.ram[t][i]) /\ o[t].lev \in 1..3
    BY <1>8, <1>9 DEF pte
  <2>2. /\ At(o, {}, a.ram[t][i].pa, o[t].lev - 1, o[t].sp, Join(o[t].num, i))
        /\ o[a.ram[t][i].pa].tab = t /\ o[a.ram[t][i].pa].idx = i
        /\ leaf(a.ram[t][i]) <=> o[t].lev = 1
    BY <1>4, <1>8, <2>1, Entries
  <2>3. o[t].lev - 1 = 0
    BY <1>9
  <2> QED
    BY <1>4, <1>8, <1>9, <2>2, <2>3
<1>11. pte.flags \in SUBSET Flags
  BY <1>4, <1>8 DEF Holds, Mem, Content, Word
<1>12. pte.pa \in Pages
  BY <1>10 DEF At
<1>13. o[pte.pa].body = a.ram[pte.pa] /\ o[pte.pa].flags = pte.flags
  <2>1. Shown(a.ram, o, {})
    BY DEF Holds, Tree
  <2>2. pte.pa \in Pages \ {} /\ o[pte.pa].lev = 0
    BY <1>10 DEF At
  <2> QED
    BY <1>8, <1>10, <2>1, <2>2 DEF Shown
<1> QED
  BY <1>3, <1>4, <1>7, <1>8, <1>10, <1>11, <1>12, <1>13 DEF w, va, i, pte

\* A page of the space is found by its number.
LEMMA FindAll ==
  ASSUME NEW a, NEW rt, NEW o, Holds(a, rt, o, {}, {}), NEW s \in Spaces, rt[s] # NULL,
         NEW n \in Nat, n * PGSIZE < MAXVA, NEW c \in Pages, At(o, {}, c, 0, s, n)
  PROVE  valid(Found(a, rt[s], n)) /\ Found(a, rt[s], n).pa = c
<1> DEFINE va == n * PGSIZE
           w == Looked(a, rt[s], va)
           i == PX(0, va)
<1>1. va \in Nat /\ VpnOf(va) = n /\ Settled(o, {})
  BY Multiples DEF Settled
<1>2. va < MAXVA
  OBVIOUS
<1> HIDE DEF va
<1>3. PICK t \in Pages \cup {NULL} :
        /\ w = return(a, t)
        /\ \A x \in Pages : At(o, {}, x, 0, s, n) =>
             t # NULL /\ valid(a.ram[t][i]) /\ a.ram[t][i].pa = x
  BY <1>1, <1>2, Look
<1>4. t # NULL /\ valid(a.ram[t][i]) /\ a.ram[t][i].pa = c
  BY <1>3
<1>5. w.ret = t /\ w.ram = a.ram
  <2>1. t \in Int
    BY Addresses
  <2> HIDE DEF w
  <2> QED
    BY <1>3, <2>1, Returns
<1>6. Found(a, rt[s], n) = entry(w, va)
  BY DEF Found, va
<1> HIDE DEF w
<1>7. entry(w, va) = a.ram[t][i]
  BY <1>4, <1>5 DEF entry, i
<1> QED
  BY <1>4, <1>6, <1>7

\* A page for the new space, with what kalloc() gave.
Duplicated(m, r, n, pte) ==
  IF m.ret = NULL THEN uvmcopy_err(m, r, n * PGSIZE)
  ELSE LET p == mappages([m EXCEPT !.ram[m.ret] = m.ram[PTE2PA(pte)]], r, n * PGSIZE,
                         PGSIZE, m.ret, pte.flags)
       IN  IF p.ret = 0 THEN p ELSE uvmcopy_err(kfree(p, m.ret), r, n * PGSIZE)

\* A round of uvmcopy(), at whichever kalloc() the memory runs out.
LEMMA Duplicate ==
  ASSUME NEW a, NEW rt, NEW o, Holds(a, rt, o, {}, {}),
         NEW s \in Spaces, rt[s] # NULL, NEW n \in Nat, n * PGSIZE < MAXVA,
         Below(o, {}, s, n), NEW pte, pte.pa \in Pages, pte.flags \in SUBSET Flags, leaf(pte),
         valid(pte), NEW u \in Spaces, u # s, Copies(o, u, s, n), At(o, {}, pte.pa, 0, u, n),
         o[pte.pa].flags = pte.flags, \A q \in Pages : At(o, {}, q, 0, u, n) => q = pte.pa
  PROVE  Copied(Duplicated(kalloc(a), rt[s], n, pte), rt, o, u, s, n + 1)
<1> DEFINE m == kalloc(a)
           r == rt[s]
           b == Duplicated(m, r, n, pte)
           c == m.ret
           e == [m EXCEPT !.ram[c] = m.ram[pte.pa]]
           o1 == [o EXCEPT ![c] = Held(m.ram[c])]
           o4 == [o1 EXCEPT ![c].body = m.ram[pte.pa]]
           p == mappages(e, r, n * PGSIZE, PGSIZE, c, pte.flags)
<1>1. Allocated(a, m, rt, o, {}, {})
  BY Kalloc
<1> HIDE DEF m
<1>2. CASE c = NULL
  <2>1. b = uvmcopy_err(m, r, n * PGSIZE)
    BY <1>2 DEF Duplicated
  <2>2. Holds(m, rt, o, {}, {})
    BY <1>1, <1>2, Numbers DEF Allocated
  <2>3. Keeps(o, o, s, 0)
    BY DEF Keeps
  <2> HIDE DEF b
  <2>4. Copied(uvmcopy_err(m, r, n * PGSIZE), rt, o, u, s, n + 1)
    BY <2>2, <2>3, CopyUndo
  <2> QED
    BY <2>1, <2>4 DEF b, m
<1>3. CASE c # NULL
  <2>1. c \in Pages /\ o[c].lev = 4 /\ Holds(m, rt, o1, {c}, {})
    <3>1. {} \cup {c} = {c}
      OBVIOUS
    <3> QED
      BY <1>1, <1>3, <3>1 DEF Allocated
  <2>2. o1[c] = Held(m.ram[c]) /\ \A q \in Pages \ {c} : o1[q] = o[q]
    BY <2>1 DEF Holds, Tree, Typed
  <2>10. m.ram[pte.pa] = o[pte.pa].body
    <3>1. Shown(m.ram, o1, {c})
      BY <2>1 DEF Holds, Tree
    <3>2. pte.pa # c /\ o1[pte.pa] = o[pte.pa] /\ o[pte.pa].lev = 0
      BY <2>1, <2>2 DEF At
    <3> QED
      BY <3>1, <3>2 DEF Shown
  <2>11. o4[c].lev = 0 /\ o4[c].body = o[pte.pa].body /\ \A q \in Pages \ {c} : o4[q] = o[q]
    <3>1. o1 \in [Pages -> Use]
      BY <2>1 DEF Holds, Tree, Typed
    <3>2. o4[c] = [o1[c] EXCEPT !.body = m.ram[pte.pa]]
      BY <2>1, <3>1
    <3> QED
      BY <2>1, <2>2, <2>10, <3>1, <3>2 DEF Held
  <2>3. Settled(o4, {c}) /\ c \in {c} /\ o1[c].lev = 0
    BY <2>2, <2>11 DEF Settled, Held
  <2>4. ASSUME NEW q \in Pages, At(o4, {c}, q, 0, s, n)
        PROVE  FALSE
    <3>1. q # c /\ o4[q] = o[q] /\ o[q].lev = 0 /\ o[q].sp = s /\ o[q].num = n
      BY <2>4, <2>11 DEF At
    <3> QED
      BY <3>1 DEF Below
  <2>12. o4 = [o1 EXCEPT ![c].body = m.ram[pte.pa]]
    OBVIOUS
  <2> HIDE DEF o1, o4
  <2>5. Holds(e, rt, o4, {c}, {})
    <3>1. m \in Mem /\ Tree(m.freelist, m.ram, rt, o1, {c}, {})
      BY <2>1 DEF Holds
    <3>2. m.ram[pte.pa] \in Content
      BY <3>1 DEF Mem
    <3>3. /\ e.ret = m.ret /\ e.freelist = m.freelist /\ e.panic = m.panic
          /\ e.ram = [m.ram EXCEPT ![c] = m.ram[pte.pa]]
          /\ e = [freelist |-> e.freelist, ram |-> e.ram, ret |-> e.ret, panic |-> e.panic]
      BY <3>1 DEF Mem
    <3> DEFINE x == m.ram[pte.pa]
    <3> HIDE DEF c, e, x
    <3>4. Tree(m.freelist, [m.ram EXCEPT ![c] = x], rt, o4, {c}, {})
      <4>1. x \in Content /\ o4 = [o1 EXCEPT ![c].body = x]
        BY <2>12, <3>2 DEF x
      <4> QED
        BY <2>1, <2>3, <3>1, <4>1, Fill
    <3>5. e.ram = [m.ram EXCEPT ![c] = x]
      BY <3>3 DEF x
    <3>6. e.ram \in [Pages -> Content]
      BY <3>4, <3>5 DEF Tree, Typed
    <3>7. e \in Mem
      BY <3>1, <3>3, <3>6 DEF Mem
    <3> QED
      BY <3>3, <3>4, <3>5, <3>7 DEF Holds
  <2> HIDE DEF p, e
  <2>6. MappedPage(p, rt, o4, {c}, s, n, c, pte.flags)
    <3> HIDE DEF c, r
    <3>1. \A q \in Pages : ~ At(o4, {c}, q, 0, s, n)
      BY <2>4
    <3>2. pte.flags \cap {"R", "W", "X"} # {}
      BY DEF leaf
    <3> QED
      BY <2>3, <2>5, <3>1, <3>2, MapPage DEF p, r
  <2>7. b = IF p.ret = 0 THEN p ELSE uvmcopy_err(kfree(p, c), r, n * PGSIZE)
    BY <1>3, Zenon DEF Duplicated, p, e, PTE2PA
  <2> HIDE DEF b
  <2>8. CASE p.ret = -1
    <3>1. PICK o2 : Holds(p, rt, o2, {c}, {}) /\ Grown(o4, o2, s)
      BY <2>6, <2>8 DEF MappedPage
    <3> DEFINE d == kfree(p, c)
               o3 == [o2 EXCEPT ![c] = Freed(p.freelist, o2)]
    <3>2. o2[c].lev = 0
      BY <2>1, <2>11, <3>1 DEF Grown, Grew
    <3>3. Holds(d, rt, o3, {}, {})
      <4>1. {c} \ {c} = {} /\ ~ (o2[c].lev > 0)
        BY <3>2
      <4>2. Holds(d, rt, o3, {c} \ {c}, {})
        BY <2>3, <3>1, <4>1, Kfree
      <4> QED
        BY <4>1, <4>2
    <3>4. o3[c].lev = 4 /\ \A q \in Pages \ {c} : o3[q] = o2[q]
      <4>1. o2 \in [Pages -> Use]
        BY <3>1 DEF Holds, Tree, Typed
      <4> QED
        BY <2>1, <4>1 DEF Freed
    <3> HIDE DEF d, o3
    <3>5. \A q \in Pages : o[q].lev = 0 \/ o3[q].lev = 0 => o3[q] = o[q]
      BY <2>1, <2>11, <3>1, <3>4 DEF Grown, Grew
    <3>6. Keeps(o, o3, s, 0) /\ Below(o3, {}, s, n)
      BY <3>5, KeepsAll DEF Below
    <3>7. Copied(uvmcopy_err(d, rt[s], n * PGSIZE), rt, o, u, s, n + 1)
      BY <3>3, <3>6, CopyUndo
    <3>8. b = uvmcopy_err(d, rt[s], n * PGSIZE)
      BY <2>7, <2>8 DEF d
    <3> QED
      BY <3>7, <3>8 DEF b, m
  <2>9. CASE p.ret = 0
    <3> HIDE DEF c
    <3>1. PICK o2 : /\ Holds(p, rt, o2, {c} \ {c}, {}) /\ At(o2, {c} \ {c}, c, 0, s, n)
                    /\ o2[c].body = o4[c].body /\ o2[c].flags = pte.flags \cup {"V"}
                    /\ \A q \in Pages \ {c} : Grew(o4, o2, s, q)
      <4>1. p.ret # -1
        BY <2>9
      <4> QED
        BY <2>6, <4>1, Zenon DEF MappedPage
    <3>2. {c} \ {c} = {}
      OBVIOUS
    <3>3. Holds(b, rt, o2, {}, {}) /\ b.ret = 0
      <4>1. b = p
        BY <2>7, <2>9
      <4>2. Holds(p, rt, o2, {}, {})
        BY <3>1, <3>2
      <4> QED
        BY <2>9, <4>1, <4>2
    <3>4. /\ o2[c].lev = 0 /\ o2[c].sp = s /\ o2[c].num = n
          /\ o2[c].body = o[pte.pa].body /\ o2[c].flags = pte.flags
      <4>1. pte.flags \cup {"V"} = pte.flags
        BY DEF valid
      <4> QED
        BY <2>11, <3>1, <4>1 DEF At
    <3>7. \A q \in Pages \ {c} : o[q].lev = 0 \/ o2[q].lev = 0 => o2[q] = o[q]
      BY <2>11, <3>1 DEF Grew
    <3>5. Keeps(o, o2, s, 0)
      BY <2>1, <3>4, <3>7 DEF Keeps, Low
    <3>6. Below(o2, {}, s, n + 1)
      <4>1. ASSUME NEW q \in Pages, o2[q].lev = 0, o2[q].sp = s
            PROVE  o2[q].num < n + 1
        <5>1. CASE q = c
          BY <3>4, <5>1
        <5>2. CASE q # c
          <6>1. o2[q] = o[q]
            BY <3>7, <4>1, <5>2
          <6>2. o2[q].num < n /\ o2[q].num \in Nat
            BY <3>3, <4>1, <6>1 DEF Below, Holds, Tree, Typed, Use
          <6> QED
            BY <6>2
        <5> QED
          BY <5>1, <5>2
      <4> QED
        BY <4>1 DEF Below
    <3>8. Copies(o2, u, s, n + 1)
      <4>1. \A q \in Pages : o2[q].num \in Nat
        BY <3>3 DEF Holds, Tree, Typed, Use
      <4>2. /\ pte.pa # c /\ o2[pte.pa] = o[pte.pa]
            /\ o[pte.pa].lev = 0 /\ o[pte.pa].sp = u /\ o[pte.pa].num = n
        BY <2>1, <3>7 DEF At
      <4>3. ASSUME NEW q \in Pages, o2[q].lev = 0, o2[q].sp = u, o2[q].num < n + 1
            PROVE  Has(o2, s, o2[q].num, o2[q].body, o2[q].flags)
        <5>1. o2[q] = o[q] /\ q # c
          BY <3>4, <3>7, <4>3
        <5>2. CASE o2[q].num = n
          <6>1. q = pte.pa
            BY <4>3, <5>1, <5>2 DEF At
          <6> QED
            BY <2>1, <3>4, <4>2, <6>1 DEF Has
        <5>3. CASE o2[q].num # n
          <6>1. o[q].num < n
            BY <4>1, <4>3, <5>1, <5>3
          <6>2. Has(o, s, o[q].num, o[q].body, o[q].flags)
            BY <4>3, <5>1, <6>1 DEF Copies
          <6> QED
            BY <2>1, <3>7, <5>1, <6>2 DEF Has
        <5> QED
          BY <5>2, <5>3
      <4>4. ASSUME NEW q \in Pages, o2[q].lev = 0, o2[q].sp = s
            PROVE  Has(o2, u, o2[q].num, o2[q].body, o2[q].flags)
        <5>1. CASE q = c
          BY <3>4, <4>2, <5>1 DEF Has
        <5>2. CASE q # c
          <6>1. o2[q] = o[q]
            BY <3>7, <4>4, <5>2
          <6>2. Has(o, u, o[q].num, o[q].body, o[q].flags)
            BY <4>4, <6>1 DEF Copies
          <6> QED
            BY <2>1, <3>7, <6>1, <6>2 DEF Has
        <5> QED
          BY <5>1, <5>2
      <4> QED
        BY <4>3, <4>4 DEF Copies
    <3> QED
      BY <3>3, <3>5, <3>6, <3>8 DEF Copied, b, m
  <2> QED
    BY <2>6, <2>8, <2>9 DEF MappedPage
<1> QED
  BY <1>2, <1>3

\* uvmcopy() maps all pages or none.
LEMMA Copy ==
  ASSUME NEW a, NEW rt, NEW o, Holds(a, rt, o, {}, {}),
         NEW s \in Spaces, rt[s] # NULL, NEW t \in Spaces, t # s, rt[t] # NULL,
         NEW size \in Nat, size <= MAXVA, Below(o, {}, t, 0)
  PROVE  Copied(uvmcopy(a, rt[s], rt[t], size), rt, o, s, t, Ceil(size))
<1> DEFINE old == rt[s]
           new == rt[t]
           base == return(a, 0)
           np == rounds(0, size)
           T == [j \in 0..np |-> {x \in Mem : Copied(x, rt, o, s, t, j)}]
           step(x, n) ==
             IF x.ret # 0 THEN x
             ELSE IF valid(Found(x, old, n)) THEN Duplicated(kalloc(x), new, n, Found(x, old, n))
             ELSE x
           R == [y \in (1..np) \X Mem |-> step(y[2], y[1] - 1)]
           mapped(p, mem, i) == IF p.ret = 0 THEN p ELSE uvmcopy_err(kfree(p, mem), new, i)
           got(m, i, pte) ==
             IF m.ret = NULL THEN uvmcopy_err(m, new, i)
             ELSE mapped(mappages([m EXCEPT !.ram[m.ret] = m.ram[PTE2PA(pte)]],
                                  new, i, PGSIZE, m.ret, pte.flags), m.ret, i)
           page(x, i, pte) == IF valid(pte) THEN got(kalloc(x), i, pte) ELSE x
           at(x, i) == page(x, i, entry(walk(x, old, i, FALSE), i))
           round(x, i) == IF x.ret # 0 THEN x ELSE at(x, (i - 1) * PGSIZE)
           eq(f) == f = [i \in 0..np |-> IF i = 0 THEN base ELSE round(f[i - 1], i)]
           h == CHOOSE f : eq(f)
<1>1. np \in Nat /\ np = Ceil(size)
  <2>1. 0 * PGSIZE = 0 /\ 0 \in Nat /\ 0 <= size
    BY PageAssumption
  <2>2. Ceil(0) = 0 /\ PGROUNDUP(0) = 0
    BY <2>1, Multiples
  <2>3. rounds(PGROUNDUP(0), size) \in Nat
        /\ Ceil(0) + rounds(PGROUNDUP(0), size) = Ceil(size)
    BY <2>1, Rounds
  <2> HIDE DEF Ceil
  <2> QED
    BY <2>2, <2>3
<1>2. uvmcopy(a, old, new, size) = Loop(round, base, np)
  BY Zenon DEF uvmcopy
<1>3. Loop(round, base, np) = h[np]
  BY DEF Loop
<1> HIDE DEF np
<1>4. ASSUME NEW i, NEW x
      PROVE  round(x, i) = step(x, i - 1)
  BY Zenon DEF Found, Looked, Duplicated
<1>5. ASSUME NEW i \in 1..np, NEW x \in T[i - 1]
      PROVE  step(x, i - 1) \in T[i]
  <2> DEFINE n == i - 1
             y == step(x, n)
  <2>1. n \in 0..np /\ i \in 0..np /\ n \in Nat /\ n < Ceil(size) /\ n + 1 = i
    BY <1>1
  <2>2. n * PGSIZE < MAXVA
    <3> HIDE DEF n
    <3>1. n * PGSIZE < size /\ n * PGSIZE \in Nat
      BY <2>1, Rounding, Multiples
    <3> QED
      BY <3>1, MaxvaInt
  <2>3. x \in Mem /\ Copied(x, rt, o, s, t, n)
    BY <2>1
  <2> HIDE DEF n
  <2>4. Copied(y, rt, o, s, t, n + 1)
    <3>1. PICK o1 : /\ Holds(x, rt, o1, {}, {}) /\ Keeps(o, o1, t, 0)
                    /\ \/ x.ret = 0 /\ Below(o1, {}, t, n) /\ Copies(o1, s, t, n)
                       \/ x.ret = -1 /\ Below(o1, {}, t, 0)
      BY <2>3 DEF Copied
    <3>2. CASE x.ret # 0
      BY <3>1, <3>2 DEF Copied
    <3>3. CASE x.ret = 0 /\ ~ valid(Found(x, old, n))
      <4>1. \A q \in Pages : o1[q].num \in Nat
        BY <3>1 DEF Holds, Tree, Typed, Use
      <4>2. \A m \in Nat : m < n => m < n + 1
        BY <2>1
      <4>3. Below(o1, {}, t, n) /\ Copies(o1, s, t, n)
        BY <3>1, <3>3
      <4>5. ASSUME NEW q \in Pages, o1[q].lev = 0, o1[q].sp = s, o1[q].num < n + 1
            PROVE  o1[q].num < n
        <5>1. o1[q].num # n
          <6>1. SUFFICES ASSUME o1[q].num = n
                         PROVE  FALSE
            OBVIOUS
          <6>2. At(o1, {}, q, 0, s, n)
            BY <4>5, <6>1 DEF At
          <6>3. valid(Found(x, rt[s], n))
            BY <2>1, <2>2, <3>1, <6>2, FindAll
          <6> QED
            BY <3>3, <6>3
        <5> QED
          BY <2>1, <4>1, <4>5, <5>1
      <4>6. Copies(o1, s, t, n + 1)
        BY <4>3, <4>5 DEF Copies
      <4>4. Below(o1, {}, t, n + 1)
        BY <4>1, <4>2, <4>3 DEF Below
      <4> QED
        BY <3>1, <3>3, <4>4, <4>6 DEF Copied
    <3>4. CASE x.ret = 0 /\ valid(Found(x, old, n))
      <4> DEFINE pte == Found(x, old, n)
      <4>1. /\ pte.pa \in Pages /\ pte.flags \in SUBSET Flags /\ leaf(pte)
            /\ At(o1, {}, pte.pa, 0, s, n) /\ o1[pte.pa].flags = pte.flags
        BY <2>1, <2>2, <3>1, <3>4, Find
      <4>7. valid(pte) /\ \A q \in Pages : At(o1, {}, q, 0, s, n) => q = pte.pa
        <5>1. ASSUME NEW q \in Pages, At(o1, {}, q, 0, s, n)
              PROVE  q = Found(x, rt[s], n).pa
          BY <2>1, <2>2, <3>1, <5>1, FindAll
        <5> QED
          BY <3>4, <5>1
      <4>2. y = Duplicated(kalloc(x), new, n, pte)
        BY <3>4
      <4> HIDE DEF pte, y
      <4>3. Below(o1, {}, t, n) /\ Copies(o1, s, t, n)
        BY <3>1, <3>4
      <4>4. Copied(y, rt, o1, s, t, n + 1)
        BY <2>1, <2>2, <3>1, <4>1, <4>2, <4>3, <4>7, Duplicate
      <4>5. PICK o2 : /\ Holds(y, rt, o2, {}, {}) /\ Keeps(o1, o2, t, 0)
                      /\ \/ y.ret = 0 /\ Below(o2, {}, t, n + 1) /\ Copies(o2, s, t, n + 1)
                         \/ y.ret = -1 /\ Below(o2, {}, t, 0)
        BY <4>4 DEF Copied
      <4>6. Keeps(o, o2, t, 0)
        BY <3>1, <4>5, KeepsTwice
      <4> QED
        BY <4>5, <4>6 DEF Copied
    <3> QED
      BY <3>2, <3>3, <3>4
  <2> HIDE DEF y
  <2>5. y \in Mem
    BY <2>4 DEF Copied, Holds
  <2> QED
    BY <2>1, <2>4, <2>5 DEF y, n
<1>6. base \in T[0]
  <2>1. Holds(base, rt, o, {}, {}) /\ base.ret = 0
    BY Returns
  <2> HIDE DEF base
  <2>2. Keeps(o, o, t, 0)
    BY DEF Keeps
  <2>4. Copies(o, s, t, 0)
    <3>1. \A q \in Pages : o[q].num \in Nat
      BY DEF Holds, Tree, Typed, Use
    <3>2. \A j \in Nat : ~ (j < 0)
      OBVIOUS
    <3> QED
      BY <3>1, <3>2 DEF Copies, Below
  <2>3. Copied(base, rt, o, s, t, 0) /\ base \in Mem
    BY <2>1, <2>2, <2>4 DEF Copied, Holds
  <2> QED
    BY <1>1, <2>3
<1>7. \A i \in 0..np : T[i] \subseteq Mem
  OBVIOUS
<1>8. \A x \in T[np] : Copied(x, rt, o, s, t, np)
  BY <1>1
<1> HIDE DEF T, step, round, base
<1>9. \A i \in 1..np : \A x \in T[i - 1] : R[<<i, x>>] = step(x, i - 1)
  BY <1>1, <1>7
<1> HIDE DEF R, h, eq
<1>10. PICK f : Path(np, T, base, R, f)
  <2>1. Leading(np, T, R)
    BY <1>5, <1>9 DEF Leading
  <2> QED
    BY <1>1, <1>6, <2>1, LoopExists
<1>11. eq(f)
  <2>1. ASSUME NEW i \in 1..np
        PROVE  R[<<i, f[i - 1]>>] = round(f[i - 1], i)
    BY <1>1, <1>4, <1>9, <1>10 DEF Path
  <2>2. f = [i \in 0..np |-> IF i = 0 THEN base ELSE round(f[i - 1], i)]
    <3>1. f = [i \in 0..np |-> IF i = 0 THEN base ELSE R[<<i, f[i - 1]>>]]
      BY <1>10 DEF Path
    <3>2. \A i \in 0..np : i = 0 \/ R[<<i, f[i - 1]>>] = round(f[i - 1], i)
      BY <1>1, <2>1
    <3> QED
      BY <3>1, <3>2
  <2> QED
    BY <2>2 DEF eq
<1>12. eq(h)
  BY <1>11 DEF h
<1>13. h[np] \in T[np]
  <2>1. h[0] = base /\ \A i \in 1..np : h[i] = round(h[i - 1], i)
    BY <1>1, <1>12 DEF eq
  <2>2. \A i \in 1..np : h[i - 1] \in T[i - 1] => h[i] \in T[i]
    BY <1>4, <1>5, <2>1
  <2> QED
    BY <1>1, <1>6, <2>1, <2>2, LoopStays
<1> HIDE DEF old, new
<1>14. Copied(uvmcopy(a, old, new, size), rt, o, s, t, np)
  BY <1>2, <1>3, <1>8, <1>13
<1> QED
  BY <1>1, <1>14 DEF old, new

------------------------------------------------------------------------------
(* The actions.                                                            *)

\* A space of so many bytes has no page beyond them.
Agrees(a, rt, size, o) ==
  /\ size \in [Spaces -> 0..MAXSIZE]
  /\ Holds(a, rt, o, {}, {})
  /\ \A s \in Spaces : Below(o, {}, s, Ceil(size[s]))
Kept(a, rt, size) == \E o : Agrees(a, rt, size, o)

\* A call changed no user memory.
Still(o, o1) == \A q \in Pages : o[q].lev = 0 \/ o1[q].lev = 0 => o1[q] = o[q]

\* A call that keeps all that there was and adds nothing changed nothing.
LEMMA KeepsStill ==
  ASSUME NEW o, NEW o1, NEW s, NEW C, Keeps(o, o1, s, C), Below(o, {}, s, C), Below(o1, {}, s, C)
  PROVE  Still(o, o1)
BY DEF Keeps, Below, Still, Low

\* A space has addresses for all its bytes.
LEMMA Sizes ==
  ASSUME NEW x, x \in 0..MAXSIZE
  PROVE  x \in Nat /\ x <= MAXVA
<1>1. MAXSIZE \in Nat /\ MAXSIZE <= MAXVA
  BY UserMemoryAssumption
<1> QED
  BY <1>1, MaxvaInt

\* What a call for space s does to the others.
LEMMA KeepsBelow ==
  ASSUME NEW a, NEW b, NEW rt, NEW rt1, NEW o, NEW o1, NEW s, s \in Spaces,
         NEW size, NEW n, n \in 0..MAXSIZE, NEW C,
         size \in [Spaces -> 0..MAXSIZE], Keeps(o, o1, s, C), Below(o1, {}, s, Ceil(n)),
         \A u \in Spaces : Below(o, {}, u, Ceil(size[u])), Holds(b, rt1, o1, {}, {})
  PROVE  Agrees(b, rt1, [size EXCEPT ![s] = n], o1)
<1> DEFINE size1 == [size EXCEPT ![s] = n]
<1>1. size1 \in [Spaces -> 0..MAXSIZE] /\ size1[s] = n
      /\ \A u \in Spaces : u # s => size1[u] = size[u]
  OBVIOUS
<1> HIDE DEF size1
<1>2. ASSUME NEW u \in Spaces, u # s
      PROVE  Below(o1, {}, u, Ceil(size1[u]))
  <2>1. Below(o, {}, u, Ceil(size1[u]))
    BY <1>1, <1>2
  <2> HIDE DEF Ceil
  <2> QED
    BY <1>2, <2>1 DEF Below, Keeps, Low
<1> HIDE DEF Ceil
<1>3. \A u \in Spaces : Below(o1, {}, u, Ceil(size1[u]))
  BY <1>1, <1>2
<1> QED
  BY <1>1, <1>3 DEF Agrees, size1

\* uvmcreate() makes a page the root of a space, or there is none.
LEMMA Create ==
  ASSUME NEW a, NEW rt, NEW size, NEW o, Agrees(a, rt, size, o), NEW s, s \in Spaces, rt[s] = NULL
  PROVE  LET b == uvmcreate(a)
         IN  \E o1 : Agrees(b, [rt EXCEPT ![s] = b.ret], size, o1) /\ Still(o, o1)
<1> DEFINE b == uvmcreate(a)
           c == b.ret
<1>1. Holds(a, rt, o, {}, {}) /\ \A u \in Spaces : Below(o, {}, u, Ceil(size[u]))
  BY DEF Agrees
<1>2. /\ Allocated(a, b, rt, o, {}, {})
      /\ c # NULL => \A i \in Words : ~ valid(b.ram[c][i])
  BY <1>1, KallocZeroed DEF uvmcreate
<1>3. rt \in [Spaces -> Pages \cup {NULL}] /\ size \in [Spaces -> 0..MAXSIZE]
  BY <1>1 DEF Holds, Tree, Typed, Agrees
<1> HIDE DEF b
<1>4. CASE c = NULL
  <2>1. [rt EXCEPT ![s] = c] = rt
    BY <1>3, <1>4
  <2>2. Holds(b, rt, o, {}, {})
    BY <1>2, <1>4, Numbers DEF Allocated
  <2>3. Agrees(b, [rt EXCEPT ![s] = c], size, o) /\ Still(o, o)
    BY <1>1, <1>3, <2>1, <2>2 DEF Agrees, Still
  <2> QED
    BY <2>3 DEF b
<1>5. CASE c # NULL
  <2> DEFINE o1 == [o EXCEPT ![c] = Held(b.ram[c])]
             o2 == [o1 EXCEPT ![c] = RootOf(s)]
  <2>1. c \in Pages /\ o[c].lev = 4 /\ Holds(b, rt, o1, {c}, {})
    <3>1. {} \cup {c} = {c}
      OBVIOUS
    <3> QED
      BY <1>2, <1>5, <3>1 DEF Allocated
  <2>2. /\ o1[c] = Held(b.ram[c]) /\ o2[c] = RootOf(s)
        /\ \A q \in Pages \ {c} : o2[q] = o[q]
    BY <2>1 DEF Holds, Tree, Typed
  <2> HIDE DEF o1, c
  <2>3. b \in Mem /\ Tree(b.freelist, b.ram, rt, o1, {c}, {})
    BY <2>1 DEF Holds
  <2>4. Tree(b.freelist, b.ram, [rt EXCEPT ![s] = c], o2, {c} \ {c}, {})
    <3>1. o1[c].lev = 0 /\ c \in {c}
      BY <2>2 DEF Held
    <3>2. \A j \in Words : ~ valid(b.ram[c][j])
      BY <1>2, <1>5 DEF c
    <3> QED
      BY <2>3, <3>1, <3>2, Plant
  <2> HIDE DEF o2
  <2>5. Holds(b, [rt EXCEPT ![s] = c], o2, {}, {})
    <3>1. {c} \ {c} = {}
      OBVIOUS
    <3> QED
      BY <2>3, <2>4, <3>1 DEF Holds
  <2>6. o2[c].lev = 3
    BY <2>2 DEF RootOf
  <2> HIDE DEF Ceil
  <2>7. \A u \in Spaces : Below(o2, {}, u, Ceil(size[u]))
    BY <1>1, <2>2, <2>6 DEF Below
  <2>8. Agrees(b, [rt EXCEPT ![s] = c], size, o2)
    BY <1>3, <2>5, <2>7 DEF Agrees
  <2>9. Still(o, o2)
    BY <2>1, <2>2, <2>6 DEF Still
  <2> QED
    BY <2>8, <2>9 DEF c, b
<1> QED
  BY <1>4, <1>5

\* uvmalloc(), called with the size that the space has.
LEMMA Grow ==
  ASSUME NEW a, NEW rt, NEW size, NEW o, Agrees(a, rt, size, o), NEW s, s \in Spaces, rt[s] # NULL,
         NEW n, n \in size[s] + 1 .. MAXSIZE
  PROVE  LET b == uvmalloc(a, rt[s], size[s], n, {"W"})
         IN  \/ b.ret = 0 /\ \E o1 : Agrees(b, rt, size, o1) /\ Still(o, o1)
             \/ /\ b.ret = n /\ b.ret # 0
                /\ \E o1 : /\ Agrees(b, rt, [size EXCEPT ![s] = n], o1)
                           /\ Keeps(o, o1, s, Ceil(size[s]))
                           /\ Blank(o1, s, Ceil(size[s]), Ceil(n), {"R", "U", "W"})
<1> DEFINE perm == {"W"}
           b == uvmalloc(a, rt[s], size[s], n, perm)
           old == size[s]
           all == {"R", "U"} \cup perm
<1>1. Holds(a, rt, o, {}, {}) /\ \A u \in Spaces : Below(o, {}, u, Ceil(size[u]))
  BY DEF Agrees
<1>2. size \in [Spaces -> 0..MAXSIZE] /\ old \in 0..MAXSIZE
  BY DEF Agrees
<1>3. /\ old \in Nat /\ n \in Nat /\ n <= MAXVA /\ old < n /\ n \in 0..MAXSIZE
  <2>1. old \in Nat /\ MAXSIZE \in Nat
    BY <1>2, UserMemoryAssumption
  <2>2. n \in 0..MAXSIZE /\ old < n
    BY <2>1
  <2> QED
    BY <2>1, <2>2, Sizes
<1>4. perm \in SUBSET Flags
  BY DEF Flags
<1> HIDE DEF perm
<1>5. Resized(b, rt, o, s, Ceil(n), Ceil(old), n, all)
  <2>1. Below(o, {}, s, Ceil(old))
    BY <1>1
  <2> HIDE DEF old
  <2>2. Resized(uvmalloc(a, rt[s], old, n, perm), rt, o, s, Ceil(n), Ceil(old), n, all)
    BY <1>1, <1>3, <1>4, <2>1, Alloc
  <2> QED
    BY <2>2 DEF old
<1> HIDE DEF b
<1>6. PICK o1 : /\ Holds(b, rt, o1, {}, {}) /\ Keeps(o, o1, s, Ceil(old))
                /\ \/ b.ret = 0 /\ Below(o1, {}, s, Ceil(old))
                   \/ b.ret = n /\ Below(o1, {}, s, Ceil(n)) /\ Blank(o1, s, Ceil(old), Ceil(n), all)
  BY <1>5 DEF Resized
<1>7. CASE b.ret = 0
  <2>1. Below(o1, {}, s, Ceil(old))
    <3>1. b.ret # n
      BY <1>3, <1>7
    <3> QED
      BY <1>6, <3>1
  <2>2. Agrees(b, rt, [size EXCEPT ![s] = old], o1)
    BY <1>1, <1>2, <1>6, <2>1, KeepsBelow
  <2>3. [size EXCEPT ![s] = old] = size
    BY <1>2
  <2>4. Still(o, o1)
    BY <1>1, <1>6, <2>1, KeepsStill
  <2> QED
    BY <1>7, <2>2, <2>3, <2>4 DEF b, perm
<1>8. CASE b.ret # 0
  <2>1. /\ b.ret = n /\ Below(o1, {}, s, Ceil(n))
        /\ Blank(o1, s, Ceil(old), Ceil(n), all)
    BY <1>6, <1>8
  <2>2. Agrees(b, rt, [size EXCEPT ![s] = n], o1)
    BY <1>1, <1>2, <1>3, <1>6, <2>1, KeepsBelow
  <2>3. all = {"R", "U", "W"}
    BY DEF perm
  <2> HIDE DEF all, Ceil
  <2> QED
    BY <1>6, <1>8, <2>1, <2>2, <2>3 DEF b, perm, old
<1> QED
  BY <1>7, <1>8

\* uvmdealloc(), called with the size that the space has.
LEMMA Shrink ==
  ASSUME NEW a, NEW rt, NEW size, NEW o, Agrees(a, rt, size, o), NEW s, s \in Spaces, rt[s] # NULL,
         NEW n, n \in 0 .. size[s] - 1
  PROVE  LET b == uvmdealloc(a, rt[s], size[s], n)
         IN  /\ b.ret = n
             /\ \E o1 : /\ Agrees(b, rt, [size EXCEPT ![s] = n], o1)
                        /\ Keeps(o, o1, s, Ceil(n))
<1> DEFINE old == size[s]
           b == uvmdealloc(a, rt[s], old, n)
<1>1. Holds(a, rt, o, {}, {}) /\ \A u \in Spaces : Below(o, {}, u, Ceil(size[u]))
  BY DEF Agrees
<1>2. size \in [Spaces -> 0..MAXSIZE] /\ old \in 0..MAXSIZE
  BY DEF Agrees
<1>3. /\ old \in Nat /\ n \in Nat /\ old <= MAXVA /\ ~ (n >= old) /\ n \in 0..MAXSIZE
  <2>1. old \in Nat /\ MAXSIZE \in Nat /\ old <= MAXSIZE
    BY <1>2, UserMemoryAssumption
  <2>2. n \in 0..MAXSIZE /\ ~ (n >= old)
    BY <2>1
  <2> QED
    BY <1>2, <2>1, <2>2, Sizes
<1>4. Settled(o, {}) /\ Below(o, {}, s, Ceil(old))
  BY <1>1 DEF Settled
<1> HIDE DEF old
<1>5. /\ \E o1 : /\ Holds(b, rt, o1, {}, {}) /\ Lost(o, o1, {}, s, Extra(n, old))
                 /\ Gone(o1, {}, s, Extra(n, old))
      /\ b.ret = IF n >= old THEN old ELSE n
  BY <1>1, <1>3, <1>4, Dealloc
<1> HIDE DEF b
<1>6. PICK o1 : /\ Holds(b, rt, o1, {}, {}) /\ Lost(o, o1, {}, s, Extra(n, old))
                /\ Gone(o1, {}, s, Extra(n, old))
  BY <1>5
<1>7. b.ret = n
  BY <1>3, <1>5
<1>9. Ceil(n) \in Nat /\ Ceil(old) \in Nat
  BY <1>3, Rounding
<1> HIDE DEF Ceil
<1>8. Keeps(o, o1, s, Ceil(n))
  <2>1. \A j \in Extra(n, old) : ~ (j < Ceil(n))
    BY <1>9 DEF Extra
  <2> QED
    BY <1>6, <2>1, LostKeeps
<1>10. Below(o1, {}, s, Ceil(n))
  <2>1. ASSUME NEW q \in Pages, o1[q].lev = 0, o1[q].sp = s
        PROVE  o1[q].num < Ceil(n)
    <3>1. o1[q] = o[q]
      BY <1>6, <2>1 DEF Lost
    <3>2. o1[q].num < Ceil(old)
      BY <1>4, <2>1, <3>1 DEF Below
    <3>3. o1[q].num \in Nat
      BY <1>6 DEF Holds, Tree, Typed, Use
    <3>4. ~ (o1[q].num \in Ceil(n) .. Ceil(old) - 1)
      BY <1>6, <2>1 DEF Gone, Extra
    <3> QED
      BY <1>9, <3>2, <3>3, <3>4
  <2> QED
    BY <2>1 DEF Below
<1>11. Agrees(b, rt, [size EXCEPT ![s] = n], o1)
  BY <1>1, <1>2, <1>3, <1>6, <1>8, <1>10, KeepsBelow
<1> QED
  BY <1>7, <1>8, <1>11 DEF b, old

\* uvmcopy() into an empty space.
LEMMA CopyKept ==
  ASSUME NEW a, NEW rt, NEW size, NEW o, Agrees(a, rt, size, o), NEW s, s \in Spaces, rt[s] # NULL,
         NEW t, t \in Spaces, t # s, rt[t] # NULL, size[t] = 0
  PROVE  LET b == uvmcopy(a, rt[s], rt[t], size[s])
         IN  \/ b.ret # 0 /\ \E o1 : Agrees(b, rt, size, o1) /\ Still(o, o1)
             \/ /\ b.ret = 0
                /\ \E o1 : /\ Agrees(b, rt, [size EXCEPT ![t] = size[s]], o1)
                           /\ Keeps(o, o1, t, 0) /\ Copies(o1, s, t, Ceil(size[s]))
<1> DEFINE n == size[s]
           b == uvmcopy(a, rt[s], rt[t], n)
<1>1. Holds(a, rt, o, {}, {}) /\ \A u \in Spaces : Below(o, {}, u, Ceil(size[u]))
  BY DEF Agrees
<1>2. size \in [Spaces -> 0..MAXSIZE] /\ n \in 0..MAXSIZE /\ 0 \in 0..MAXSIZE
  BY UserMemoryAssumption DEF Agrees
<1>3. n \in Nat /\ n <= MAXVA
  BY <1>2, Sizes
<1>4. Ceil(0) = 0
  <2>1. 0 * PGSIZE = 0 /\ 0 \in Nat
    BY PageAssumption
  <2> QED
    BY <2>1, Multiples
<1> HIDE DEF n
<1>9. Below(o, {}, t, 0)
  <2>1. Below(o, {}, t, Ceil(size[t]))
    BY <1>1
  <2> HIDE DEF Ceil
  <2> QED
    BY <1>4, <2>1
<1>5. Copied(b, rt, o, s, t, Ceil(n))
  BY <1>1, <1>3, <1>9, Copy
<1> HIDE DEF b
<1>6. PICK o1 : /\ Holds(b, rt, o1, {}, {}) /\ Keeps(o, o1, t, 0)
                /\ \/ b.ret = 0 /\ Below(o1, {}, t, Ceil(n)) /\ Copies(o1, s, t, Ceil(n))
                   \/ b.ret = -1 /\ Below(o1, {}, t, 0)
  BY <1>5 DEF Copied
<1>7. CASE b.ret = 0
  <2>1. Below(o1, {}, t, Ceil(n)) /\ Copies(o1, s, t, Ceil(n))
    BY <1>6, <1>7
  <2>2. Agrees(b, rt, [size EXCEPT ![t] = n], o1)
    BY <1>1, <1>2, <1>6, <2>1, KeepsBelow
  <2> HIDE DEF Ceil
  <2> QED
    BY <1>6, <1>7, <2>1, <2>2 DEF b, n
<1>8. CASE b.ret # 0
  <2>1. Below(o1, {}, t, Ceil(0))
    <3>1. Below(o1, {}, t, 0)
      BY <1>6, <1>8
    <3> HIDE DEF Ceil
    <3> QED
      BY <1>4, <3>1
  <2>2. Agrees(b, rt, [size EXCEPT ![t] = 0], o1)
    BY <1>1, <1>2, <1>6, <2>1, KeepsBelow
  <2>3. [size EXCEPT ![t] = 0] = size
    BY <1>2
  <2>4. Still(o, o1)
    BY <1>6, <1>8, <1>9, KeepsStill
  <2> QED
    BY <1>8, <2>2, <2>3, <2>4 DEF b, n
<1> QED
  BY <1>7, <1>8

\* uvmfree(), called with the size that the space has.
LEMMA FreeKept ==
  ASSUME NEW a, NEW rt, NEW size, NEW o, Agrees(a, rt, size, o), NEW s, s \in Spaces, rt[s] # NULL
  PROVE  \E o1 : /\ Agrees(uvmfree(a, rt[s], size[s]), [rt EXCEPT ![s] = NULL],
                           [size EXCEPT ![s] = 0], o1)
                 /\ Keeps(o, o1, s, 0)
<1> DEFINE n == size[s]
           b == uvmfree(a, rt[s], n)
           rt1 == [rt EXCEPT ![s] = NULL]
<1>1. Holds(a, rt, o, {}, {}) /\ \A u \in Spaces : Below(o, {}, u, Ceil(size[u]))
  BY DEF Agrees
<1>2. size \in [Spaces -> 0..MAXSIZE] /\ n \in 0..MAXSIZE /\ 0 \in 0..MAXSIZE
  BY UserMemoryAssumption DEF Agrees
<1>3. n \in Nat /\ n <= MAXVA
  BY <1>2, Sizes
<1>4. Below(o, {}, s, Ceil(n))
  BY <1>1
<1> HIDE DEF n
<1>5. PICK o1 : /\ Holds(b, rt1, o1, {}, {})
                /\ Keeps(o, o1, s, 0) /\ NoData(o1, s)
  BY <1>1, <1>3, <1>4, Free
<1> HIDE DEF b, rt1
<1>7. Below(o1, {}, s, Ceil(0))
  BY <1>5 DEF Below, NoData
<1>8. Agrees(b, rt1, [size EXCEPT ![s] = 0], o1)
  BY <1>1, <1>2, <1>5, <1>7, KeepsBelow
<1> QED
  BY <1>5, <1>8 DEF b, rt1, n

\* The pages of user memory have addresses.
LEMMA VpnAddress ==
  ASSUME NEW n, n \in Vpn
  PROVE  n \in Nat /\ n * PGSIZE < MAXVA
<1>1. MAXSIZE \in Nat /\ MAXSIZE <= MAXVA
  BY UserMemoryAssumption
<1>2. /\ PGROUNDUP(MAXSIZE) \div PGSIZE = Ceil(MAXSIZE) /\ Ceil(MAXSIZE) \in Nat
      /\ \A j \in Nat : j < Ceil(MAXSIZE) <=> j * PGSIZE < MAXSIZE
  BY <1>1, Rounding
<1> HIDE DEF Ceil
<1>3. n \in Nat /\ n < Ceil(MAXSIZE)
  BY <1>2 DEF Vpn
<1>4. n * PGSIZE < MAXSIZE /\ n * PGSIZE \in Nat
  BY <1>2, <1>3, Multiples
<1> QED
  BY <1>1, <1>3, <1>4, MaxvaInt

\* uvmclear() of a page that is there.
LEMMA ClearKept ==
  ASSUME NEW a, NEW rt, NEW size, NEW o, Agrees(a, rt, size, o), NEW s, s \in Spaces, rt[s] # NULL,
         NEW n, n \in Nat, n * PGSIZE < MAXVA, valid(Found(a, rt[s], n))
  PROVE  \E q \in Pages :
           /\ At(o, {}, q, 0, s, n)
           /\ Agrees(uvmclear(a, rt[s], n * PGSIZE), rt, size, [o EXCEPT ![q].flags = @ \ {"U"}])
<1> DEFINE va == n * PGSIZE
           w == Looked(a, rt[s], va)
           i == PX(0, va)
           b == uvmclear(a, rt[s], va)
           pte == Found(a, rt[s], n)
           v == [pte EXCEPT !.flags = @ \ {"U"}]
<1>1. Holds(a, rt, o, {}, {}) /\ \A u \in Spaces : Below(o, {}, u, Ceil(size[u]))
  BY DEF Agrees
<1>2. PICK t \in Pages :
        /\ w = return(a, t) /\ At(o, {}, t, 1, s, n \div WORDS) /\ i \in Words
        /\ pte = a.ram[t][i] /\ pte.flags \in SUBSET Flags /\ pte.pa \in Pages
        /\ leaf(pte) /\ At(o, {}, pte.pa, 0, s, n) /\ o[pte.pa].flags = pte.flags
  BY <1>1, Find
<1>3. b = clear_user(w, va)
  BY Zenon DEF uvmclear, Looked
<1> HIDE DEF w, b
<1>4. Holds(w, rt, o, {}, {}) /\ w.ret = t /\ w.ram = a.ram /\ w.freelist = a.freelist
  <2>1. t \in Int
    BY Addresses
  <2> QED
    BY <1>1, <1>2, <2>1, Returns
<1>5. w \in Mem /\ Tree(w.freelist, w.ram, rt, o, {}, {})
  BY <1>4 DEF Holds
<1>6. valid(pte)
  OBVIOUS
<1> HIDE DEF pte, va
<1>7. pte \in Word /\ o[t].lev \in 1..3
  <2>1. pte \in Word
    BY <1>2, <1>4, <1>5 DEF Mem, Content
  <2>2. o[t].lev = 1
    BY <1>2 DEF At
  <2> QED
    BY <2>1, <2>2
<1>8. v.pa = pte.pa /\ v.flags = pte.flags \ {"U"} /\ v \in Word
  BY <1>7 DEF Word
<1> HIDE DEF v
<1>9. valid(v) /\ leaf(v)
  <2>1. "V" \in pte.flags /\ pte.flags \cap {"R", "W", "X"} # {}
    BY <1>2, <1>6 DEF valid, leaf
  <2>2. \A x \in {"V", "R", "W", "X"} : x \in pte.flags => x \in v.flags
    BY <1>8
  <2> QED
    BY <2>1, <2>2 DEF valid, leaf
<1>10. b = [w EXCEPT !.ram[t][i] = v]
  <2>1. w.ret # NULL
    BY <1>2, <1>4, Numbers
  <2>2. b = [w EXCEPT !.ram[t][i].flags = @ \ {"U"}]
    BY <1>3, <1>4, <2>1 DEF clear_user
  <2>3. w.ram[t][i] = pte
    BY <1>2, <1>4
  <2> HIDE DEF i
  <2> QED
    BY <1>2, <1>5, <2>2, <2>3 DEF v
<1> HIDE DEF i
<1> DEFINE m1 == [w.ram EXCEPT ![t][i] = v]
           o1 == [o EXCEPT ![pte.pa].flags = @ \ {"U"}]
<1>14. o1 = [o EXCEPT ![pte.pa].flags = v.flags]
  BY <1>2, <1>8
<1> HIDE DEF o1
<1>11. Tree(w.freelist, m1, rt, o1, {}, {})
  <2>1. w.ram[t][i] = pte /\ o[t].lev = 1
    BY <1>2, <1>4 DEF At
  <2>2. /\ <<t, i>> \notin {} /\ v.pa = w.ram[t][i].pa /\ valid(w.ram[t][i])
        /\ leaf(v) <=> leaf(w.ram[t][i])
    BY <1>2, <1>6, <1>8, <1>9, <2>1
  <2>3. Tree(w.freelist, [w.ram EXCEPT ![t][i] = v], rt,
             [o EXCEPT ![w.ram[t][i].pa].flags = v.flags], {}, {})
    BY <1>2, <1>5, <1>8, <1>9, <2>1, <2>2, Flag
  <2> QED
    BY <1>14, <2>1, <2>3
<1>12. /\ b.ret = w.ret /\ b.freelist = w.freelist /\ b.panic = w.panic /\ b.ram = m1
       /\ b = [freelist |-> b.freelist, ram |-> b.ram, ret |-> b.ret, panic |-> b.panic]
  BY <1>5, <1>10 DEF Mem
<1> HIDE DEF m1
<1>13. Holds(b, rt, o1, {}, {})
  <2>1. m1 \in [Pages -> Content]
    BY <1>11 DEF Tree, Typed
  <2>2. b \in Mem
    BY <1>5, <1>12, <2>1 DEF Mem
  <2> QED
    BY <1>11, <1>12, <2>2 DEF Holds
<1>15. \A q \in Pages : o1[q].lev = o[q].lev /\ o1[q].sp = o[q].sp /\ o1[q].num = o[q].num
  <2>1. o \in [Pages -> Use]
    BY <1>1 DEF Holds, Tree, Typed
  <2> QED
    BY <1>2, <2>1 DEF o1, Use
<1> HIDE DEF Ceil
<1>16. \A u \in Spaces : Below(o1, {}, u, Ceil(size[u]))
  BY <1>1, <1>15 DEF Below
<1>17. Agrees(b, rt, size, o1)
  BY <1>13, <1>16 DEF Agrees
<1> QED
  BY <1>2, <1>17 DEF b, va, o1

\* A program writes into its own pages only.
LEMMA StoreKept ==
  ASSUME NEW a, NEW rt, NEW size, NEW o, Agrees(a, rt, size, o), NEW s, s \in Spaces, rt[s] # NULL,
         NEW n, n \in Nat, n * PGSIZE < MAXVA, NEW d, d \in Int,
         walkaddr(a, rt[s], n * PGSIZE) # NULL
  PROVE  \E q \in Pages :
           /\ At(o, {}, q, 0, s, n) /\ "U" \in o[q].flags
           /\ Agrees([a EXCEPT !.ram[walkaddr(a, rt[s], n * PGSIZE)] = Page(word(d, {}))],
                     rt, size, [o EXCEPT ![q].body = Page(word(d, {}))])
<1> DEFINE c == walkaddr(a, rt[s], n * PGSIZE)
           x == Page(word(d, {}))
           b == [a EXCEPT !.ram[c] = x]
           pte == Found(a, rt[s], n)
<1>1. Holds(a, rt, o, {}, {}) /\ \A u \in Spaces : Below(o, {}, u, Ceil(size[u]))
  BY DEF Agrees
<1>2. c = user_page(pte)
  <2>1. n * PGSIZE \in Nat
    BY Multiples
  <2>2. ~ (n * PGSIZE >= MAXVA)
    BY <2>1, MaxvaInt
  <2> QED
    BY <2>2, Zenon DEF walkaddr, Found, Looked
<1> HIDE DEF pte, c
<1>3. valid(pte) /\ c = pte.pa /\ "U" \in pte.flags
  <2>1. c # NULL
    BY DEF c
  <2> QED
    BY <1>2, <2>1 DEF user_page, valid, PTE2PA
<1>4. c \in Pages /\ o[c].lev = 0 /\ At(o, {}, c, 0, s, n) /\ "U" \in o[c].flags
  <2>1. /\ pte.pa \in Pages /\ At(o, {}, pte.pa, 0, s, n) /\ o[pte.pa].flags = pte.flags
    BY <1>1, <1>3, Find DEF pte
  <2> QED
    BY <1>3, <2>1 DEF At
<1>5. x \in Content
  <2>1. word(d, {}) \in Word
    BY DEF word, Word
  <2> QED
    BY <2>1 DEF Page, Content
<1>6. a \in Mem /\ Tree(a.freelist, a.ram, rt, o, {}, {})
  BY <1>1 DEF Holds
<1> HIDE DEF x
<1> DEFINE o1 == [o EXCEPT ![c].body = x]
<1>7. Tree(a.freelist, [a.ram EXCEPT ![c] = x], rt, o1, {}, {})
  BY <1>4, <1>5, <1>6, Fill
<1>8. /\ b.ret = a.ret /\ b.freelist = a.freelist /\ b.panic = a.panic
      /\ b.ram = [a.ram EXCEPT ![c] = x]
      /\ b = [freelist |-> b.freelist, ram |-> b.ram, ret |-> b.ret, panic |-> b.panic]
  BY <1>6 DEF Mem
<1> HIDE DEF b
<1> HIDE DEF o1
<1>9. Holds(b, rt, o1, {}, {})
  <2>1. b.ram \in [Pages -> Content]
    BY <1>7, <1>8 DEF Tree, Typed
  <2>2. b \in Mem
    BY <1>6, <1>8, <2>1 DEF Mem
  <2> QED
    BY <1>7, <1>8, <2>2 DEF Holds
<1>10. \A q \in Pages : o1[q].lev = o[q].lev /\ o1[q].sp = o[q].sp /\ o1[q].num = o[q].num
  <2>1. o \in [Pages -> Use]
    BY <1>1 DEF Holds, Tree, Typed
  <2> QED
    BY <1>4, <2>1 DEF o1, Use
<1> HIDE DEF Ceil
<1>11. \A u \in Spaces : Below(o1, {}, u, Ceil(size[u]))
  BY <1>1, <1>10 DEF Below
<1>12. Agrees(b, rt, size, o1)
  BY <1>9, <1>11 DEF Agrees
<1> QED
  BY <1>4, <1>12 DEF b, c, x, o1

\* kinit() frees page after page.
LEMMA Init ==
  \E o : /\ Agrees(kinit(PHYSTOP - END), [s \in Spaces |-> NULL], [s \in Spaces |-> 0], o)
         /\ \A q \in Pages : o[q].lev # 0
<1> DEFINE np == PHYSTOP - END
           rt == [s \in Spaces |-> NULL]
           Rest(j) == {p \in Pages : p >= END + j}
           Inv(x, j) == \E o : /\ Holds(x, rt, o, Rest(j), {})
                               /\ \A p \in Pages : o[p].lev = 0 \/ o[p].lev = 4
           T == [j \in 0..np |-> {x \in Mem : Inv(x, j)}]
           round(x, i) == kfree(x, END + i - 1)
           R == [y \in (1..np) \X Mem |-> round(y[2], y[1])]
           eq(f) == f = [i \in 0..np |-> IF i = 0 THEN Off ELSE round(f[i - 1], i)]
           h == CHOOSE f : eq(f)
<1>1. END \in Nat /\ PHYSTOP \in Nat /\ END <= PHYSTOP
  BY MemoryAssumption
<1>2. np \in Nat /\ END + np = PHYSTOP
  BY <1>1
<1>3. kinit(np) = Loop(round, Off, np)
  BY Zenon DEF kinit, freerange
<1>4. Loop(round, Off, np) = h[np]
  BY DEF Loop
<1> HIDE DEF np
<1>5. ASSUME NEW i \in 1..np, NEW x \in T[i - 1]
      PROVE  round(x, i) \in T[i]
  <2> DEFINE t == END + (i - 1)
             y == kfree(x, t)
  <2>1. /\ i - 1 \in 0..np /\ i \in 0..np /\ t \in Pages /\ t \in Rest(i - 1)
        /\ Rest(i - 1) \ {t} = Rest(i)
    BY <1>1, <1>2 DEF Pages
  <2>2. PICK o : /\ Holds(x, rt, o, Rest(i - 1), {})
                 /\ \A p \in Pages : o[p].lev = 0 \/ o[p].lev = 4
    BY <2>1
  <2> DEFINE o1 == [o EXCEPT ![t] = Freed(x.freelist, o)]
  <2> HIDE DEF t
  <2>3. ~ (o[t].lev > 0)
    <3>1. o[t].lev # 4
      <4>1. Orphans(o, Rest(i - 1)) /\ 4 > 3
        BY <2>2 DEF Holds, Tree
      <4>2. o[t].lev <= 3
        BY <2>1, <4>1 DEF Orphans
      <4> QED
        BY <4>1, <4>2
    <3> QED
      BY <2>1, <2>2, <3>1
  <2> HIDE DEF Rest, rt
  <2>4. Holds(y, rt, o1, Rest(i - 1) \ {t}, {})
    BY <2>1, <2>2, <2>3, Kfree
  <2>5. \A p \in Pages : o1[p].lev = 0 \/ o1[p].lev = 4
    <3>1. o \in [Pages -> Use]
      BY <2>2 DEF Holds, Tree, Typed
    <3> QED
      BY <2>1, <2>2, <3>1 DEF Freed
  <2> HIDE DEF y, o1
  <2>6. Inv(y, i)
    BY <2>1, <2>4, <2>5
  <2>7. y \in Mem
    BY <2>4 DEF Holds
  <2>8. round(x, i) = y
    <3>1. END + i - 1 = t
      BY <1>1 DEF t
    <3> QED
      BY <3>1 DEF y
  <2> HIDE DEF Inv, round
  <2> QED
    BY <2>1, <2>6, <2>7, <2>8
<1>6. Off \in T[0]
  <2> DEFINE o == [p \in Pages |-> Held(Zeros)]
  <2>1. Rest(0) = Pages
    BY <1>1 DEF Pages
  <2>2. /\ Off.freelist = NULL /\ Off.panic = "none" /\ Off.ret = NULL
        /\ Off.ram = [p \in Pages |-> Zeros]
        /\ Off = [freelist |-> Off.freelist, ram |-> Off.ram, ret |-> Off.ret,
                  panic |-> Off.panic]
    BY DEF Off
  <2>3. Off.ram \in [Pages -> Content]
    BY <2>2, PageTypes
  <2>4. Off \in Mem
    BY <2>2, <2>3, PageTypes DEF Mem
  <2>5. Typed(NULL, Off.ram, rt, o)
    BY <2>3, HeldUse, PageTypes DEF Typed
  <2>6. \A p \in Pages : o[p].lev = 0 /\ o[p].body = Zeros
    BY DEF Held
  <2> HIDE DEF o
  <2>7. FreeOK(NULL, Off.ram, o)
    BY <2>6 DEF FreeOK
  <2>8. Down(Off.ram, o, Pages, {})
    BY <2>6 DEF Down
  <2>9. Up(Off.ram, o, Pages, {})
    BY DEF Up
  <2>10. Roots(rt, o, Pages)
    BY DEF Roots
  <2>11. Orphans(o, Pages)
    BY <2>6 DEF Orphans
  <2>15. Shown(Off.ram, o, Pages)
    BY <2>2, <2>6 DEF Shown
  <2>12. Tree(NULL, Off.ram, rt, o, Pages, {})
    BY <2>5, <2>7, <2>8, <2>9, <2>10, <2>11, <2>15 DEF Tree
  <2> HIDE DEF rt, Rest
  <2>13. Holds(Off, rt, o, Rest(0), {})
    BY <2>1, <2>2, <2>4, <2>12 DEF Holds
  <2>14. Inv(Off, 0)
    BY <2>6, <2>13
  <2> HIDE DEF Inv
  <2> QED
    BY <1>2, <2>4, <2>14
<1>7. \A i \in 0..np : T[i] \subseteq Mem
  OBVIOUS
<1>8. \A x \in T[np] : Inv(x, np)
  BY <1>2
<1> HIDE DEF T, Inv, round
<1>9. \A i \in 1..np : \A x \in T[i - 1] : R[<<i, x>>] = round(x, i)
  BY <1>2, <1>7
<1> HIDE DEF R, h, eq
<1>10. PICK f : Path(np, T, Off, R, f)
  <2>1. Leading(np, T, R)
    BY <1>5, <1>9 DEF Leading
  <2> QED
    BY <1>2, <1>6, <2>1, LoopExists
<1>11. eq(f)
  <2>1. ASSUME NEW i \in 1..np
        PROVE  R[<<i, f[i - 1]>>] = round(f[i - 1], i)
    BY <1>2, <1>9, <1>10 DEF Path
  <2>2. f = [i \in 0..np |-> IF i = 0 THEN Off ELSE round(f[i - 1], i)]
    <3>1. f = [i \in 0..np |-> IF i = 0 THEN Off ELSE R[<<i, f[i - 1]>>]]
      BY <1>10 DEF Path
    <3>2. \A i \in 0..np : i = 0 \/ R[<<i, f[i - 1]>>] = round(f[i - 1], i)
      BY <1>2, <2>1
    <3> QED
      BY <3>1, <3>2
  <2> QED
    BY <2>2 DEF eq
<1>12. eq(h)
  BY <1>11 DEF h
<1>13. h[np] \in T[np]
  <2>1. h[0] = Off /\ \A i \in 1..np : h[i] = round(h[i - 1], i)
    BY <1>2, <1>12 DEF eq
  <2>2. \A i \in 1..np : h[i - 1] \in T[i - 1] => h[i] \in T[i]
    BY <1>5, <2>1
  <2> QED
    BY <1>2, <1>6, <2>1, <2>2, LoopStays
<1>14. Inv(kinit(np), np)
  BY <1>3, <1>4, <1>8, <1>13
<1> HIDE DEF rt
<1>15. PICK o : /\ Holds(kinit(np), rt, o, Rest(np), {})
                /\ \A p \in Pages : o[p].lev = 0 \/ o[p].lev = 4
  BY <1>14 DEF Inv
<1>16. Rest(np) = {}
  BY <1>1, <1>2 DEF Pages
<1> HIDE DEF Rest
<1>17. Holds(kinit(np), rt, o, {}, {})
  BY <1>15, <1>16
<1>18. \A q \in Pages : o[q].lev = 4
  <2>1. ASSUME NEW q \in Pages, o[q].lev = 0
        PROVE  FALSE
    <3>1. o[q].tab \in Pages /\ o[o[q].tab].lev = o[q].lev + 1
      BY <1>17, <2>1 DEF Holds, Tree, Up
    <3> QED
      BY <1>15, <2>1, <3>1
  <2> QED
    BY <1>15, <2>1
<1>19. \A s \in Spaces : Below(o, {}, s, Ceil([u \in Spaces |-> 0][s]))
  BY <1>18 DEF Below
<1>20. [s \in Spaces |-> 0] \in [Spaces -> 0..MAXSIZE]
  BY UserMemoryAssumption
<1> QED
  BY <1>17, <1>18, <1>19, <1>20 DEF Agrees, np, rt

\* What a call or a program makes of user memory: nothing, new empty pages, fewer
\* pages, a copy in an empty space, a page with a guard, or a page with other data.
Enlarging(o, size, o1, size1, s) ==
  \E n \in size[s] + 1 .. MAXSIZE :
    /\ size1 = [size EXCEPT ![s] = n] /\ Keeps(o, o1, s, Ceil(size[s]))
    /\ Blank(o1, s, Ceil(size[s]), Ceil(n), {"R", "U", "W"})
Shrinking(o, size, o1, size1, s) ==
  \E n \in 0 .. size[s] : size1 = [size EXCEPT ![s] = n] /\ Keeps(o, o1, s, Ceil(n))
Copying(o, size, o1, size1, s, t) ==
  /\ size[t] = 0 /\ size1 = [size EXCEPT ![t] = size[s]]
  /\ Keeps(o, o1, t, 0) /\ Copies(o1, s, t, Ceil(size[s]))
Guarding(o, size, o1, size1, s) ==
  \E q \in Pages, n \in Nat :
    At(o, {}, q, 0, s, n) /\ o1 = [o EXCEPT ![q].flags = @ \ {"U"}] /\ size1 = size
Storing(o, size, o1, size1, s) ==
  \E q \in Pages, n \in Nat, d \in Data :
    /\ At(o, {}, q, 0, s, n) /\ "U" \in o[q].flags
    /\ o1 = [o EXCEPT ![q].body = Page(word(d, {}))] /\ size1 = size
Moved(o, size, o1, size1) ==
  \/ Still(o, o1) /\ size1 = size
  \/ \E s \in Spaces : \/ Enlarging(o, size, o1, size1, s) \/ Shrinking(o, size, o1, size1, s)
                       \/ Guarding(o, size, o1, size1, s) \/ Storing(o, size, o1, size1, s)
  \/ \E s \in Spaces, t \in Spaces : s # t /\ Copying(o, size, o1, size1, s, t)

\* The inductive invariant: the free list and the trees share out the pages.
UMInv == Kept(k, root, sz)

\* Each step keeps the invariant, and what it does to user memory is a move.
LEMMA StepKept ==
  ASSUME NEW o, Agrees(k, root, sz, o), [UMNext]_umvars
  PROVE  \E o1 : Agrees(k', root', sz', o1) /\ Moved(o, sz, o1, sz')
<1> DEFINE Goal == \E o1 : Agrees(k', root', sz', o1) /\ Moved(o, sz, o1, sz')
<1>1. /\ root \in [Spaces -> Pages \cup {NULL}] /\ sz \in [Spaces -> 0..MAXSIZE]
      /\ MAXSIZE \in Nat
  BY UserMemoryAssumption DEF Agrees, Holds, Tree, Typed
<1> SUFFICES Goal
  OBVIOUS
<1>2. ASSUME NEW o1, Agrees(k', root', sz', o1), Still(o, o1), sz' = sz
      PROVE  Goal
  BY <1>2 DEF Moved
<1>3. ASSUME NEW o1, Agrees(k', root', sz', o1), NEW s \in Spaces, Shrinking(o, sz, o1, sz', s)
      PROVE  Goal
  BY <1>3 DEF Moved
<1>4. CASE UNCHANGED umvars
  <2>1. k' = k /\ root' = root /\ sz' = sz
    BY <1>4 DEF umvars
  <2>2. Agrees(k', root', sz', o) /\ Still(o, o)
    BY <2>1 DEF Still
  <2> QED
    BY <1>2, <2>1, <2>2
<1>5. ASSUME NEW s \in Spaces, create(s)
      PROVE  Goal
  <2>1. root[s] = NULL /\ k' = uvmcreate(k) /\ root' = [root EXCEPT ![s] = k'.ret] /\ sz' = sz
    BY <1>5 DEF create
  <2>2. \E o1 : Agrees(uvmcreate(k), [root EXCEPT ![s] = uvmcreate(k).ret], sz, o1) /\ Still(o, o1)
    BY <2>1, Create
  <2> HIDE DEF Goal
  <2> QED
    BY <1>2, <2>1, <2>2
<1>6. ASSUME NEW s \in Spaces, grow(s)
      PROVE  Goal
  <2>1. root[s] # NULL /\ root' = root
    BY <1>6 DEF grow
  <2>2. PICK n \in sz[s] + 1 .. MAXSIZE :
          /\ k' = uvmalloc(k, root[s], sz[s], n, {"W"})
          /\ sz' = IF k'.ret = 0 THEN sz ELSE [sz EXCEPT ![s] = k'.ret]
    BY <1>6 DEF grow
  <2> DEFINE b == uvmalloc(k, root[s], sz[s], n, {"W"})
  <2>3. \/ b.ret = 0 /\ \E o1 : Agrees(b, root, sz, o1) /\ Still(o, o1)
        \/ /\ b.ret = n /\ b.ret # 0
           /\ \E o1 : /\ Agrees(b, root, [sz EXCEPT ![s] = n], o1)
                      /\ Keeps(o, o1, s, Ceil(sz[s]))
                      /\ Blank(o1, s, Ceil(sz[s]), Ceil(n), {"R", "U", "W"})
    BY <2>1, Grow
  <2>4. k' = b
    BY <2>2
  <2> HIDE DEF b, Ceil, Goal
  <2>5. CASE b.ret = 0
    <3>1. sz' = sz
      BY <2>2, <2>4, <2>5
    <3>2. PICK o1 : Agrees(b, root, sz, o1) /\ Still(o, o1)
      BY <2>3, <2>5
    <3> QED
      BY <1>2, <2>1, <2>4, <3>1, <3>2
  <2>6. CASE b.ret # 0
    <3>1. b.ret = n /\ sz' = [sz EXCEPT ![s] = n]
      BY <2>2, <2>3, <2>4, <2>6
    <3>2. PICK o1 : /\ Agrees(b, root, [sz EXCEPT ![s] = n], o1)
                    /\ Keeps(o, o1, s, Ceil(sz[s]))
                    /\ Blank(o1, s, Ceil(sz[s]), Ceil(n), {"R", "U", "W"})
      BY <2>3, <2>6
    <3>3. Enlarging(o, sz, o1, sz', s)
      BY <3>1, <3>2 DEF Enlarging
    <3>4. Agrees(k', root', sz', o1)
      BY <2>1, <2>4, <3>1, <3>2
    <3> QED
      BY <3>3, <3>4 DEF Goal, Moved
  <2> QED
    BY <2>5, <2>6
<1>7. ASSUME NEW s \in Spaces, shrink(s)
      PROVE  Goal
  <2>1. root[s] # NULL /\ root' = root
    BY <1>7 DEF shrink
  <2>2. PICK n \in 0 .. sz[s] - 1 :
          /\ k' = uvmdealloc(k, root[s], sz[s], n)
          /\ sz' = [sz EXCEPT ![s] = k'.ret]
    BY <1>7 DEF shrink
  <2> DEFINE b == uvmdealloc(k, root[s], sz[s], n)
  <2>3. /\ b.ret = n
        /\ \E o1 : Agrees(b, root, [sz EXCEPT ![s] = n], o1) /\ Keeps(o, o1, s, Ceil(n))
    BY <2>1, Shrink
  <2>4. k' = b
    BY <2>2
  <2> HIDE DEF b, Ceil, Goal
  <2>5. PICK o1 : Agrees(b, root, [sz EXCEPT ![s] = n], o1) /\ Keeps(o, o1, s, Ceil(n))
    BY <2>3
  <2>6. sz' = [sz EXCEPT ![s] = n] /\ n \in 0 .. sz[s]
    <3>1. sz[s] \in Nat
      BY <1>1
    <3>2. n \in 0 .. sz[s]
      BY <2>2, <3>1
    <3>3. k'.ret = n
      BY <2>3, <2>4
    <3> QED
      BY <2>2, <3>2, <3>3
  <2>7. Shrinking(o, sz, o1, sz', s)
    BY <2>5, <2>6 DEF Shrinking
  <2> QED
    BY <1>3, <2>1, <2>4, <2>5, <2>6, <2>7
<1>8. ASSUME NEW s \in Spaces, clear(s)
      PROVE  Goal
  <2>1. PICK n \in Mapped(s) : k' = uvmclear(k, root[s], n * PGSIZE)
    BY <1>8 DEF clear
  <2>2. n \in Vpn /\ valid(Pte(s, n))
    BY <2>1 DEF Mapped
  <2>3. root[s] # NULL
    BY <2>2 DEF Pte, valid, word
  <2>4. Pte(s, n) = Found(k, root[s], n)
    BY <2>3, Zenon DEF Pte, Found, Looked
  <2>5. n \in Nat /\ n * PGSIZE < MAXVA
    BY <2>2, VpnAddress
  <2>6. root' = root /\ sz' = sz
    BY <1>8 DEF clear
  <2>7. valid(Found(k, root[s], n))
    BY <2>2, <2>4
  <2>8. PICK q \in Pages :
          /\ At(o, {}, q, 0, s, n)
          /\ Agrees(uvmclear(k, root[s], n * PGSIZE), root, sz,
                    [o EXCEPT ![q].flags = @ \ {"U"}])
    BY <2>3, <2>5, <2>7, ClearKept
  <2> DEFINE o1 == [o EXCEPT ![q].flags = @ \ {"U"}]
  <2>9. Guarding(o, sz, o1, sz', s)
    BY <2>5, <2>6, <2>8, Zenon DEF Guarding
  <2>10. Agrees(k', root', sz', o1)
    BY <2>1, <2>6, <2>8
  <2> HIDE DEF o1
  <2> QED
    BY <2>9, <2>10 DEF Moved
<1>9. ASSUME NEW s \in Spaces, free(s)
      PROVE  Goal
  <2>1. /\ root[s] # NULL /\ k' = uvmfree(k, root[s], sz[s])
        /\ root' = [root EXCEPT ![s] = NULL] /\ sz' = [sz EXCEPT ![s] = 0]
    BY <1>9 DEF free
  <2>2. PICK o1 : /\ Agrees(uvmfree(k, root[s], sz[s]), [root EXCEPT ![s] = NULL],
                            [sz EXCEPT ![s] = 0], o1)
                  /\ Keeps(o, o1, s, 0)
    BY <2>1, FreeKept
  <2>3. Ceil(0) = 0
    <3>1. 0 * PGSIZE = 0 /\ 0 \in Nat
      BY PageAssumption
    <3> QED
      BY <3>1, Multiples
  <2> HIDE DEF Ceil, Goal
  <2>4. Shrinking(o, sz, o1, sz', s)
    <3>1. 0 \in 0 .. sz[s]
      BY <1>1
    <3>2. Keeps(o, o1, s, Ceil(0))
      BY <2>2, <2>3
    <3> QED
      BY <2>1, <3>1, <3>2 DEF Shrinking
  <2> QED
    BY <1>3, <2>1, <2>2, <2>4
<1>10. ASSUME NEW s \in Spaces, store(s)
      PROVE  Goal
  <2>1. PICK n \in Vpn, d \in Data :
          /\ walkaddr(k, root[s], n * PGSIZE) # NULL
          /\ k' = [k EXCEPT !.ram[walkaddr(k, root[s], n * PGSIZE)] = Page(word(d, {}))]
    BY <1>10 DEF store
  <2>2. root[s] # NULL /\ root' = root /\ sz' = sz
    BY <1>10 DEF store
  <2>3. n \in Nat /\ n * PGSIZE < MAXVA /\ d \in Int
    BY VpnAddress, UserMemoryAssumption
  <2>4. PICK q \in Pages :
          /\ At(o, {}, q, 0, s, n) /\ "U" \in o[q].flags
          /\ Agrees([k EXCEPT !.ram[walkaddr(k, root[s], n * PGSIZE)] = Page(word(d, {}))],
                    root, sz, [o EXCEPT ![q].body = Page(word(d, {}))])
    BY <2>1, <2>2, <2>3, StoreKept
  <2> DEFINE o1 == [o EXCEPT ![q].body = Page(word(d, {}))]
  <2>5. Storing(o, sz, o1, sz', s)
    BY <2>2, <2>3, <2>4, Zenon DEF Storing
  <2>6. Agrees(k', root', sz', o1)
    BY <2>1, <2>2, <2>4
  <2> HIDE DEF o1
  <2> QED
    BY <2>5, <2>6 DEF Moved
<1>11. ASSUME NEW s \in Spaces, NEW t \in Spaces \ {s}, copy(s, t)
      PROVE  Goal
  <2>1. root[s] # NULL /\ root[t] # NULL /\ sz[t] = 0
        /\ k' = uvmcopy(k, root[s], root[t], sz[s])
        /\ sz' = (IF k'.ret = 0 THEN [sz EXCEPT ![t] = sz[s]] ELSE sz)
        /\ root' = root
    BY <1>11 DEF copy
  <2> DEFINE b == uvmcopy(k, root[s], root[t], sz[s])
  <2>2. t \in Spaces /\ t # s
    OBVIOUS
  <2>3. \/ b.ret # 0 /\ \E o1 : Agrees(b, root, sz, o1) /\ Still(o, o1)
        \/ /\ b.ret = 0
           /\ \E o1 : /\ Agrees(b, root, [sz EXCEPT ![t] = sz[s]], o1)
                      /\ Keeps(o, o1, t, 0) /\ Copies(o1, s, t, Ceil(sz[s]))
    BY <2>1, <2>2, CopyKept, Zenon
  <2> HIDE DEF b, Ceil, Goal
  <2>4. k' = b
    BY <2>1 DEF b
  <2>5. CASE b.ret # 0
    <3>1. sz' = sz
      BY <2>1, <2>4, <2>5
    <3>2. PICK o1 : Agrees(b, root, sz, o1) /\ Still(o, o1)
      BY <2>3, <2>5
    <3> QED
      BY <1>2, <2>1, <2>4, <3>1, <3>2
  <2>6. CASE b.ret = 0
    <3>1. sz' = [sz EXCEPT ![t] = sz[s]]
      BY <2>1, <2>4, <2>6
    <3>2. PICK o1 : /\ Agrees(b, root, [sz EXCEPT ![t] = sz[s]], o1)
                    /\ Keeps(o, o1, t, 0) /\ Copies(o1, s, t, Ceil(sz[s]))
      BY <2>3, <2>6
    <3>3. Copying(o, sz, o1, sz', s, t)
      BY <2>1, <3>1, <3>2 DEF Copying
    <3>4. Agrees(k', root', sz', o1)
      BY <2>1, <2>4, <3>1, <3>2
    <3> QED
      BY <2>2, <3>3, <3>4 DEF Goal, Moved
  <2> QED
    BY <2>5, <2>6
<1> HIDE DEF Goal
<1> QED
  BY <1>4, <1>5, <1>6, <1>7, <1>8, <1>9, <1>10, <1>11 DEF UMNext

\* The invariant holds always.
LEMMA Inductive == UMSpec => []UMInv
<1>1. UMInit => UMInv
  BY Init DEF UMInit, UMInv, Kept
<1>2. UMInv /\ [UMNext]_umvars => UMInv'
  BY StepKept DEF UMInv, Kept
<1> QED
  BY <1>1, <1>2, PTL DEF UMSpec

\* What is said of every variable: the pages hold words, and the tables of the
\* spaces are pages (kalloc.c:17-23, vm.c:6-9).
THEOREM UMTyping == UMSpec => []UMTypeOK
<1>1. UMInv => UMTypeOK
  <2> SUFFICES ASSUME UMInv
               PROVE  UMTypeOK
    OBVIOUS
  <2>1. PICK o : Holds(k, root, o, {}, {})
    BY DEF UMInv, Kept, Agrees
  <2>2. k \in Mem /\ root \in [Spaces -> Pages \cup {NULL}] /\ sz \in [Spaces -> 0..MAXSIZE]
    BY <2>1 DEF Holds, Tree, Typed, UMInv, Kept, Agrees
  <2>3. k.panic = "none"
    BY <2>2 DEF Mem
  <2>4. k.freelist \in Pages \cup {NULL}
        /\ k.ram \in [Pages -> [Words -> [pa : Int, flags : SUBSET Flags]]]
    BY <2>2 DEF Mem, Content, Word
  <2>5. k.panic \in Panics
    BY <2>3 DEF Panics
  <2> QED
    BY <2>2, <2>4, <2>5 DEF UMTypeOK
<1> QED
  BY <1>1, Inductive, PTL

\* No call panics, however often memory runs out and whatever is freed: no
\* remap in mappages(), no leaf in freewalk(), no bad address in kfree().
THEOREM NoPanic == UMSpec => []NoMemoryPanic
<1>1. UMInv => NoMemoryPanic
  BY DEF UMInv, Kept, Agrees, Holds, Mem, NoMemoryPanic
<1> QED
  BY <1>1, Inductive, PTL

------------------------------------------------------------------------------
(* Each page has one use.                                                  *)

\* The places of a page on the free list.
Places(a, p) == LET list == FreeList(a) IN {i \in DOMAIN list : list[i] = p}

\* A free page has one place on the list and any other page has none: ranks go down
\* by one from place to place, and there are no more of them than pages.
LEMMA PlacesOnce ==
  ASSUME NEW a, NEW rt, NEW o, Holds(a, rt, o, {}, {}), NEW p, p \in Pages
  PROVE  Cardinality(Places(a, p)) = IF o[p].lev = 4 THEN 1 ELSE 0
<1> DEFINE np == PHYSTOP - END
           f == a.freelist
           top == o[f].rank
           next(q) == IF q \in Pages THEN a.ram[q][0].pa ELSE NULL
           eq(at) == at = [i \in 0..np |-> IF i = 0 THEN f ELSE next(at[i - 1])]
           h == CHOOSE at : eq(at)
           g == [y \in Nat \X Int |-> next(y[2])]
           list == [i \in {j \in 0..np : h[j] \in Pages} |-> h[i]]
           There(x, i) == IF f # NULL /\ i <= top
                          THEN x \in Pages /\ o[x].lev = 4 /\ o[x].rank = top - i
                          ELSE x = NULL
<1>1. np \in Nat /\ Pages = END .. (END + np) - 1 /\ END \in Nat
  BY MemoryAssumption DEF Pages
<1>2. FreeList(a) = list
  BY Zenon DEF FreeList
<1>3. /\ a \in Mem /\ FreeOK(f, a.ram, o) /\ Typed(f, a.ram, rt, o)
  BY DEF Holds, Tree
<1>4. \A q \in Pages : o[q].lev \in 0..4 /\ o[q].rank \in Nat
  BY <1>3 DEF Typed, Use
<1>5. f \in Pages \cup {NULL} /\ f \in Int /\ NULL \in Int
  BY <1>3, Addresses DEF Typed
<1>6. \A q : next(q) \in Int
  <2>1. ASSUME NEW q \in Pages
        PROVE  a.ram[q][0].pa \in Int
    <3>1. a.ram[q] \in [Words -> Word] /\ 0 \in Words
      BY <1>3, Numbers DEF Mem, Content
    <3> QED
      BY <3>1 DEF Word
  <2> QED
    BY <1>5, <2>1
<1> HIDE DEF np, next
<1>7. g \in [Nat \X Int -> Int]
  BY <1>6
<1>8. PICK d : d \in Recursive(np, Int, f, g)
  <2> HIDE DEF g, f
  <2>1. Recursive(np, Int, f, g) # {}
    BY <1>1, <1>5, <1>7, Recursion
  <2> QED
    BY <2>1
<1>9. eq(d)
  <2>1. d \in [0..np -> Int] /\ d[0] = f /\ \A i \in 1..np : d[i] = g[<<i, d[i - 1]>>]
    BY <1>8 DEF Recursive
  <2>2. ASSUME NEW i \in 1..np
        PROVE  d[i] = next(d[i - 1])
    <3>1. i - 1 \in 0..np /\ i \in Nat /\ <<i, d[i - 1]>> \in Nat \X Int
      BY <1>1, <2>1
    <3> QED
      BY <2>1, <3>1
  <2> QED
    BY <1>1, <2>1, <2>2
<1>10. eq(h)
  BY <1>9
<1> HIDE DEF h, eq
<1>11. h[0] = f /\ \A i \in 1..np : h[i] = next(h[i - 1])
  BY <1>1, <1>10 DEF eq
<1>12. \A i \in 0..np : There(h[i], i)
  <2> DEFINE A == {i \in 0..np : There(h[i], i)}
  <2>1. 0 \in A
    <3>1. CASE f = NULL
      BY <1>1, <1>11, <3>1
    <3>2. CASE f # NULL
      BY <1>1, <1>3, <1>4, <1>5, <1>11, <3>2 DEF FreeOK
    <3> QED
      BY <3>1, <3>2
  <2>2. ASSUME NEW i \in 1..np, i - 1 \in A
        PROVE  i \in A
    <3> DEFINE x == h[i - 1]
               y == h[i]
    <3>1. y = next(x) /\ There(x, i - 1) /\ i \in 0..np
      BY <1>1, <1>11, <2>2
    <3> HIDE DEF x, y
    <3>2. CASE ~ (f # NULL /\ i - 1 <= top)
      <4>1. x = NULL /\ ~ (f # NULL /\ i <= top)
        BY <1>4, <1>5, <3>1, <3>2
      <4>2. y = NULL
        BY <3>1, <4>1, Numbers DEF next
      <4> QED
        BY <3>1, <4>1, <4>2 DEF y
    <3>3. CASE f # NULL /\ i - 1 <= top
      <4>1. /\ x \in Pages /\ o[x].lev = 4 /\ o[x].rank = top - (i - 1) /\ top \in Nat
            /\ y = a.ram[x][0].pa
        BY <1>4, <1>5, <3>1, <3>3 DEF next
      <4>2. CASE o[x].rank = 0
        <5>1. y = NULL
          BY <1>3, <4>1, <4>2 DEF FreeOK
        <5>2. ~ (i <= top)
          BY <4>1, <4>2
        <5> QED
          BY <3>1, <5>1, <5>2 DEF y
      <4>3. CASE o[x].rank > 0
        <5>1. y \in Pages /\ o[y].lev = 4 /\ o[y].rank = o[x].rank - 1
          BY <1>3, <4>1, <4>3 DEF FreeOK
        <5>2. i <= top /\ o[y].rank = top - i
          BY <4>1, <4>3, <5>1
        <5> QED
          BY <3>1, <3>3, <5>1, <5>2 DEF y
      <4> QED
        BY <1>4, <4>1, <4>2, <4>3
    <3> QED
      BY <3>2, <3>3
  <2> HIDE DEF A, There
  <2>3. \A i \in 0..np : i \in A
    BY <1>1, <2>1, <2>2, UpTo
  <2> QED
    BY <2>3 DEF A
\* More ranks than pages there cannot be.
<1>13. f # NULL => top \in Nat /\ top <= np
  <2>1. SUFFICES ASSUME f # NULL, ~ (top <= np)
                 PROVE  FALSE
    BY <1>4, <1>5
  <2>2. top \in Nat /\ \A i \in 0..np : h[i] \in Pages /\ o[h[i]].rank = top - i
    BY <1>1, <1>4, <1>5, <1>12, <2>1
  <2> DEFINE e == [i \in 0..np |-> h[i]]
  <2>3. e \in [0..np -> Pages]
    BY <2>2
  <2>4. IsFiniteSet(0..np) /\ Cardinality(0..np) = np + 1
    BY <1>1, FS_Interval
  <2>5. IsFiniteSet(Pages) /\ Cardinality(Pages) = np
    BY <1>1, FS_Interval
  <2> HIDE DEF e
  <2>6. PICK i \in 0..np, j \in 0..np : i # j /\ e[i] = e[j]
    BY <1>1, <2>3, <2>4, <2>5, FS_PigeonHole
  <2>7. h[i] = h[j]
    BY <2>6 DEF e
  <2> HIDE DEF top
  <2>8. top - i = top - j
    BY <2>2, <2>6, <2>7
  <2> QED
    BY <1>1, <2>2, <2>6, <2>8
<1>14. Places(a, p) = {i \in 0..np : h[i] = p}
  <2> HIDE DEF list
  <2>1. Places(a, p) = {i \in DOMAIN list : list[i] = p}
    BY <1>2 DEF Places
  <2> QED
    BY <2>1 DEF list
<1> HIDE DEF list
<1>15. CASE o[p].lev = 4
  <2>1. f # NULL /\ top \in Nat /\ top <= np /\ o[p].rank \in Nat /\ o[p].rank <= top
    BY <1>3, <1>4, <1>13, <1>15 DEF FreeOK
  <2> DEFINE j == top - o[p].rank
  <2>2. j \in 0..np /\ j <= top
    BY <1>1, <2>1
  <2>3. h[j] = p
    <3>1. h[j] \in Pages /\ o[h[j]].lev = 4 /\ o[h[j]].rank = top - j
      BY <1>12, <2>1, <2>2
    <3>2. top - j = o[p].rank
      BY <2>1
    <3> QED
      BY <1>3, <1>15, <3>1, <3>2 DEF FreeOK
  <2>4. ASSUME NEW i \in 0..np, h[i] = p
        PROVE  i = j
    <3>1. p # NULL
      BY Numbers
    <3>2. o[p].rank = top - i
      BY <1>12, <2>4, <3>1
    <3> QED
      BY <1>1, <2>1, <3>2
  <2>5. Places(a, p) = {j}
    BY <1>14, <2>2, <2>3, <2>4
  <2> HIDE DEF j
  <2>6. Cardinality(Places(a, p)) = 1
    BY <2>5, FS_Singleton, Zenon
  <2> HIDE DEF Places
  <2> QED
    BY <1>15, <2>6, Zenon
<1>16. CASE o[p].lev # 4
  <2>1. ASSUME NEW i \in 0..np, h[i] = p
        PROVE  FALSE
    BY <1>12, <1>16, <2>1, Numbers
  <2>2. Places(a, p) = {}
    BY <1>14, <2>1
  <2> QED
    BY <1>16, <2>2, FS_EmptySet
<1> QED
  BY <1>15, <1>16

\* The spaces that have a page as their root.
Rooted(rt, p) == {s \in Spaces : rt[s] = p}

\* A page of level 3 is the root of one space.
LEMMA RootsOnce ==
  ASSUME NEW a, NEW rt, NEW o, Holds(a, rt, o, {}, {}), NEW p, p \in Pages
  PROVE  Cardinality(Rooted(rt, p)) = IF o[p].lev = 3 THEN 1 ELSE 0
<1>1. Roots(rt, o, {}) /\ p # NULL
  BY Numbers DEF Holds, Tree
<1>2. CASE o[p].lev = 3
  <2>1. Rooted(rt, p) = {o[p].sp}
    BY <1>1, <1>2 DEF Roots, Rooted
  <2> QED
    BY <1>2, <2>1, FS_Singleton
<1>3. CASE o[p].lev # 3
  <2>1. Rooted(rt, p) = {}
    BY <1>1, <1>3 DEF Roots, Rooted
  <2> QED
    BY <1>3, <2>1, FS_EmptySet
<1> QED
  BY <1>2, <1>3

\* The tables in use, and their entries that lead to a page.
InUse == UNION {Tables(s) : s \in Spaces}
EntriesTo(p) == {e \in {y \in InUse \X Words : valid(k.ram[y[1]][y[2]])} :
                   k.ram[e[1]][e[2]].pa = p}

\* Valid entries that are no leaves lead one level down.
LEMMA ChildLevel ==
  ASSUME NEW o, Holds(k, root, o, {}, {}), NEW t, t \in Pages, o[t].lev \in {2, 3},
         NEW c, c \in Children(t)
  PROVE  c \in Pages /\ o[c].lev = o[t].lev - 1
<1>1. PICK i \in Words : valid(k.ram[t][i]) /\ c = k.ram[t][i].pa
  BY DEF Children
<1>2. Down(k.ram, o, {}, {})
  BY DEF Holds, Tree
<1>3. o[t].lev \in 1..3
  OBVIOUS
<1> QED
  BY <1>1, <1>2, <1>3 DEF Down, Leads

\* A table that is no root is a child of the one with the entry for it.
LEMMA ChildOf ==
  ASSUME NEW o, Holds(k, root, o, {}, {}), NEW c, c \in Pages, o[c].lev \in {1, 2}
  PROVE  \E t \in Pages : o[t].lev = o[c].lev + 1 /\ c \in Children(t)
<1>1. Up(k.ram, o, {}, {}) /\ Down(k.ram, o, {}, {}) /\ Typed(k.freelist, k.ram, root, o)
  BY DEF Holds, Tree
<1> DEFINE t == o[c].tab
           i == o[c].idx
<1>2. /\ t \in Pages /\ o[t].lev = o[c].lev + 1 /\ valid(k.ram[t][i]) /\ k.ram[t][i].pa = c
      /\ i \in Words
  <2>1. o[c].lev <= 2 /\ c \in Pages \ {} /\ i \in Words
    BY <1>1 DEF Typed, Use
  <2> QED
    BY <1>1, <2>1 DEF Up
<1> HIDE DEF t, i
<1>3. ~ leaf(k.ram[t][i])
  <2>1. o[t].lev \in 1..3 /\ o[t].lev # 1
    BY <1>2
  <2> QED
    BY <1>1, <1>2, <2>1 DEF Down, Leads
<1>4. c \in Children(t)
  BY <1>2, <1>3 DEF Children
<1> QED
  BY <1>2, <1>4

\* The tables that can be reached from a root are all that there are.
LEMMA TablesLevel ==
  ASSUME NEW o, Holds(k, root, o, {}, {})
  PROVE  InUse = {t \in Pages : o[t].lev \in 1..3}
<1>1. Roots(root, o, {}) /\ root \in [Spaces -> Pages \cup {NULL}]
  BY DEF Holds, Tree, Typed
<1>2. ASSUME NEW s \in Spaces, NEW t \in Tables(s)
      PROVE  t \in Pages /\ o[t].lev \in 1..3
  <2>1. root[s] # NULL
    BY <1>2 DEF Tables
  <2>2. root[s] \in Pages /\ o[root[s]].lev = 3
    BY <1>1, <2>1 DEF Roots
  <2>3. \A c \in Children(root[s]) : c \in Pages /\ o[c].lev = 2
    BY <2>2, ChildLevel
  <2>4. ASSUME NEW u \in Children(root[s]), NEW c \in Children(u)
        PROVE  c \in Pages /\ o[c].lev = 1
    <3>1. u \in Pages /\ o[u].lev = 2
      BY <2>3
    <3> QED
      BY <3>1, ChildLevel
  <2>5. \/ t = root[s] \/ t \in Children(root[s])
        \/ \E u \in Children(root[s]) : t \in Children(u)
    BY <1>2, <2>1 DEF Tables
  <2> QED
    BY <2>2, <2>3, <2>4, <2>5
<1>3. ASSUME NEW t \in Pages, o[t].lev = 3
      PROVE  \E s \in Spaces : root[s] # NULL /\ t = root[s]
  BY <1>1, <1>3, Numbers DEF Roots
<1>4. ASSUME NEW t \in Pages, o[t].lev = 2
      PROVE  \E s \in Spaces : root[s] # NULL /\ t \in Children(root[s])
  <2>1. PICK u \in Pages : o[u].lev = 3 /\ t \in Children(u)
    BY <1>4, ChildOf
  <2> QED
    BY <1>3, <2>1
<1>5. ASSUME NEW t \in Pages, o[t].lev = 1
      PROVE  \E s \in Spaces : /\ root[s] # NULL
                               /\ \E u \in Children(root[s]) : t \in Children(u)
  <2>1. PICK u \in Pages : o[u].lev = 2 /\ t \in Children(u)
    BY <1>5, ChildOf
  <2> QED
    BY <1>4, <2>1
<1>6. ASSUME NEW t \in Pages, o[t].lev \in 1..3
      PROVE  \E s \in Spaces : t \in Tables(s)
  <2>1. o[t].lev = 1 \/ o[t].lev = 2 \/ o[t].lev = 3
    BY <1>6
  <2>2. \A s \in Spaces : root[s] # NULL =>
          Tables(s) = {root[s]} \cup Children(root[s])
                        \cup UNION {Children(u) : u \in Children(root[s])}
    BY DEF Tables
  <2> QED
    BY <1>3, <1>4, <1>5, <2>1, <2>2
<1> QED
  BY <1>2, <1>6 DEF InUse

\* A page below a root has one entry that leads to it, and no other page has any.
LEMMA EntriesOnce ==
  ASSUME NEW o, Holds(k, root, o, {}, {}), NEW p, p \in Pages
  PROVE  Cardinality(EntriesTo(p)) = IF o[p].lev <= 2 THEN 1 ELSE 0
<1>1. Up(k.ram, o, {}, {}) /\ Down(k.ram, o, {}, {}) /\ Typed(k.freelist, k.ram, root, o)
  BY DEF Holds, Tree
<1>2. \A q \in Pages : o[q].lev \in 0..4 /\ o[q].idx \in Words
  BY <1>1 DEF Typed, Use
<1>3. ASSUME NEW t, NEW i
      PROVE  <<t, i>> \in EntriesTo(p) <=>
               /\ t \in Pages /\ o[t].lev \in 1..3 /\ i \in Words
               /\ valid(k.ram[t][i]) /\ k.ram[t][i].pa = p
  BY TablesLevel DEF EntriesTo
<1>4. \A e \in EntriesTo(p) : e = <<e[1], e[2]>>
  BY DEF EntriesTo
<1>5. ASSUME NEW e \in EntriesTo(p)
      PROVE  e = <<o[p].tab, o[p].idx>> /\ o[p].lev <= 2
  <2>1. /\ e[1] \in Pages /\ o[e[1]].lev \in 1..3 /\ e[2] \in Words
        /\ valid(k.ram[e[1]][e[2]]) /\ k.ram[e[1]][e[2]].pa = p
    BY <1>3, <1>4
  <2>2. Leads(k.ram, o, {}, e[1], e[2])
    BY <1>1, <2>1 DEF Down
  <2>3. o[p].lev = o[e[1]].lev - 1 /\ o[p].tab = e[1] /\ o[p].idx = e[2]
    BY <2>1, <2>2 DEF Leads
  <2> QED
    BY <1>4, <2>1, <2>3
<1>6. CASE o[p].lev <= 2
  <2>1. <<o[p].tab, o[p].idx>> \in EntriesTo(p)
    <3>1. /\ o[p].tab \in Pages /\ o[o[p].tab].lev = o[p].lev + 1
          /\ valid(k.ram[o[p].tab][o[p].idx]) /\ k.ram[o[p].tab][o[p].idx].pa = p
      BY <1>1, <1>6 DEF Up
    <3>2. o[o[p].tab].lev \in 1..3
      BY <1>2, <1>6, <3>1
    <3> QED
      BY <1>2, <1>3, <3>1, <3>2
  <2>2. EntriesTo(p) = {<<o[p].tab, o[p].idx>>}
    BY <1>5, <2>1
  <2>3. Cardinality(EntriesTo(p)) = 1
    BY <2>2, FS_Singleton, Zenon
  <2> QED
    BY <1>6, <2>3, Zenon
<1>7. CASE ~ (o[p].lev <= 2)
  <2>1. EntriesTo(p) = {}
    BY <1>5, <1>7
  <2>2. Cardinality(EntriesTo(p)) = 0
    BY <2>1, FS_EmptySet, Zenon
  <2> QED
    BY <1>7, <2>2, Zenon
<1> QED
  BY <1>6, <1>7, Zenon

\* Each page is referred to exactly once, from the free list, as the root of a
\* space or by an entry of a table in use: no call loses a page or gives it two
\* uses, at whichever kalloc() the memory runs out (kalloc.c:40-43, vm.c:289).
THEOREM PagesOnce == UMSpec => []EachPageOnce
<1>1. UMInv => EachPageOnce
  <2>1. SUFFICES ASSUME UMInv, NEW p \in Pages
                 PROVE  Cardinality(Places(k, p)) + Cardinality(Rooted(root, p))
                          + Cardinality(EntriesTo(p)) = 1
    BY Zenon DEF EachPageOnce, Places, Rooted, EntriesTo, InUse
  <2>2. PICK o : Holds(k, root, o, {}, {})
    BY <2>1 DEF UMInv, Kept, Agrees
  <2>3. o[p].lev \in 0..4
    BY <2>1, <2>2 DEF Holds, Tree, Typed, Use
  <2>4. /\ Cardinality(Places(k, p)) = IF o[p].lev = 4 THEN 1 ELSE 0
        /\ Cardinality(Rooted(root, p)) = IF o[p].lev = 3 THEN 1 ELSE 0
        /\ Cardinality(EntriesTo(p)) = IF o[p].lev <= 2 THEN 1 ELSE 0
    BY <2>2, PlacesOnce, RootsOnce, EntriesOnce
  <2> QED
    BY <2>3, <2>4
<1> QED
  BY <1>1, Inductive, PTL

------------------------------------------------------------------------------
(* The trees are address spaces.                                           *)

\* What a page is to its space.
Seen(u) == [value |-> u.body[0].pa, user |-> "U" \in u.flags]

\* f is the map of the pages of space s.
Draws(o, s, f) ==
  /\ f = [n \in DOMAIN f |-> f[n]]
  /\ \A n \in DOMAIN f : \E q \in Pages : At(o, {}, q, 0, s, n)
  /\ \A q \in Pages : o[q].lev = 0 /\ o[q].sp = s =>
       o[q].num \in DOMAIN f /\ f[o[q].num] = Seen(o[q])

\* The map of a space, as it is read from the memory.
PteOf(a, rt, s, n) ==
  IF rt[s] = NULL THEN word(NULL, {}) ELSE entry(walk(a, rt[s], n * PGSIZE, FALSE), n * PGSIZE)
There(a, rt, s) == {n \in Vpn : valid(PteOf(a, rt, s, n))}
MapOf(a, rt, s) ==
  [n \in There(a, rt, s) |-> [value |-> a.ram[PteOf(a, rt, s, n).pa][0].pa,
                              user |-> "U" \in PteOf(a, rt, s, n).flags]]

\* The page numbers below the size of a space are those that a space may have.
LEMMA VpnBelow ==
  ASSUME NEW x, x \in 0..MAXSIZE, NEW n, n \in Nat, n < Ceil(x)
  PROVE  n \in Vpn /\ n \in 0 .. Ceil(MAXSIZE)
<1>1. MAXSIZE \in Nat /\ MAXSIZE <= MAXVA /\ x \in Nat /\ x <= MAXSIZE
  BY UserMemoryAssumption
<1>2. /\ PGROUNDUP(MAXSIZE) \div PGSIZE = Ceil(MAXSIZE) /\ Ceil(MAXSIZE) \in Nat
      /\ \A j \in Nat : j < Ceil(MAXSIZE) <=> j * PGSIZE < MAXSIZE
  BY <1>1, Rounding
<1>3. \A j \in Nat : j < Ceil(x) <=> j * PGSIZE < x
  BY <1>1, Rounding
<1> HIDE DEF Ceil
<1>4. n * PGSIZE < x /\ n * PGSIZE \in Nat
  BY <1>3, Multiples
<1>5. n < Ceil(MAXSIZE)
  BY <1>1, <1>2, <1>4
<1> QED
  BY <1>2, <1>5 DEF Vpn

\* The maps that are read are those of the uses.
LEMMA Drawn ==
  ASSUME NEW a, NEW rt, NEW size, NEW o, Agrees(a, rt, size, o), NEW s, s \in Spaces
  PROVE  Draws(o, s, MapOf(a, rt, s))
<1> DEFINE f == MapOf(a, rt, s)
<1>1. Holds(a, rt, o, {}, {}) /\ Below(o, {}, s, Ceil(size[s])) /\ size[s] \in 0..MAXSIZE
  BY DEF Agrees
<1>2. f = [n \in DOMAIN f |-> f[n]] /\ DOMAIN f = There(a, rt, s)
  BY Zenon DEF MapOf
<1>3. ASSUME NEW n, n \in There(a, rt, s)
      PROVE  LET c == PteOf(a, rt, s, n).pa
             IN  c \in Pages /\ At(o, {}, c, 0, s, n) /\ f[n] = Seen(o[c])
  <2>1. n \in Vpn /\ valid(PteOf(a, rt, s, n))
    BY <1>3 DEF There
  <2>2. rt[s] # NULL
    BY <2>1 DEF PteOf, valid, word
  <2>3. PteOf(a, rt, s, n) = Found(a, rt[s], n)
    BY <2>2, Zenon DEF PteOf, Found, Looked
  <2>4. n \in Nat /\ n * PGSIZE < MAXVA
    BY <2>1, VpnAddress
  <2> DEFINE pte == Found(a, rt[s], n)
  <2>5. /\ pte.pa \in Pages /\ At(o, {}, pte.pa, 0, s, n)
        /\ o[pte.pa].body = a.ram[pte.pa] /\ o[pte.pa].flags = pte.flags
    <3>1. valid(pte)
      BY <2>1, <2>3
    <3> QED
      BY <1>1, <2>2, <2>4, <3>1, Find
  <2>6. f[n] = [value |-> a.ram[pte.pa][0].pa, user |-> "U" \in pte.flags]
    BY <1>3, <2>3, Zenon DEF MapOf
  <2>7. f[n] = Seen(o[pte.pa])
    BY <2>5, <2>6, Zenon DEF Seen
  <2> QED
    BY <2>3, <2>5, <2>7
<1>4. ASSUME NEW q \in Pages, o[q].lev = 0, o[q].sp = s
      PROVE  o[q].num \in There(a, rt, s) /\ PteOf(a, rt, s, o[q].num).pa = q
  <2> DEFINE n == o[q].num
  <2>1. n \in Nat
    BY <1>1 DEF Holds, Tree, Typed, Use
  <2>2. n < Ceil(size[s])
    BY <1>1, <1>4 DEF Below
  <2> HIDE DEF Ceil, n
  <2>3. n \in Vpn
    BY <1>1, <2>1, <2>2, VpnBelow
  <2>4. n * PGSIZE < MAXVA
    BY <2>3, VpnAddress
  <2>5. rt[s] # NULL
    <3> DEFINE va == n * PGSIZE
    <3>1. va \in Nat /\ VpnOf(va) = n /\ Settled(o, {}) /\ va < MAXVA
      BY <2>1, <2>4, Multiples DEF Settled
    <3> HIDE DEF va
    <3>2. q \in Pages \ {} /\ o[q].num = VpnOf(va)
      BY <3>1 DEF n
    <3>3. rt[o[q].sp] \in Pages
      BY <1>1, <1>4, <3>1, <3>2, Climb
    <3> QED
      BY <1>4, <3>3, Numbers
  <2>6. At(o, {}, q, 0, s, n)
    BY <1>4 DEF At, n
  <2>7. valid(Found(a, rt[s], n)) /\ Found(a, rt[s], n).pa = q
    BY <1>1, <2>1, <2>4, <2>5, <2>6, FindAll
  <2>8. PteOf(a, rt, s, n) = Found(a, rt[s], n)
    BY <2>5, Zenon DEF PteOf, Found, Looked
  <2> QED
    BY <2>3, <2>7, <2>8 DEF There, n
<1> HIDE DEF f
<1>5. ASSUME NEW q \in Pages, o[q].lev = 0, o[q].sp = s
      PROVE  o[q].num \in DOMAIN f /\ f[o[q].num] = Seen(o[q])
  BY <1>2, <1>3, <1>4, <1>5
<1>6. \A n \in DOMAIN f : \E q \in Pages : At(o, {}, q, 0, s, n)
  BY <1>2, <1>3
<1> QED
  BY <1>2, <1>5, <1>6 DEF Draws, f

\* What can be said of the map of a space is what its pages show.
LEMMA Drawing ==
  ASSUME NEW o, NEW s, NEW f, Draws(o, s, f)
  PROVE  /\ f = [n \in DOMAIN f |-> f[n]]
         /\ \A n \in DOMAIN f : \E q \in Pages : At(o, {}, q, 0, s, n) /\ f[n] = Seen(o[q])
         /\ \A q \in Pages : \A n : At(o, {}, q, 0, s, n) => n \in DOMAIN f /\ f[n] = Seen(o[q])
<1>1. \A q \in Pages : \A n : At(o, {}, q, 0, s, n) => n \in DOMAIN f /\ f[n] = Seen(o[q])
  BY DEF Draws, At
<1> QED
  BY <1>1 DEF Draws

\* The same pages make the same map.
LEMMA SameDraw ==
  ASSUME NEW o, NEW o1, NEW s, NEW f, NEW f1, Draws(o, s, f), Draws(o1, s, f1),
         \A q \in Pages :
           (o[q].lev = 0 /\ o[q].sp = s) \/ (o1[q].lev = 0 /\ o1[q].sp = s) => o1[q] = o[q]
  PROVE  f1 = f
<1>1. \A q \in Pages : \A n : At(o, {}, q, 0, s, n) <=> At(o1, {}, q, 0, s, n)
  BY DEF At
<1>2. \A q \in Pages : \A n : At(o, {}, q, 0, s, n) => o1[q] = o[q]
  BY DEF At
<1>3. /\ f = [n \in DOMAIN f |-> f[n]]
      /\ \A n \in DOMAIN f : \E q \in Pages : At(o, {}, q, 0, s, n) /\ f[n] = Seen(o[q])
      /\ \A q \in Pages : \A n : At(o, {}, q, 0, s, n) => n \in DOMAIN f /\ f[n] = Seen(o[q])
  BY Drawing
<1>4. /\ f1 = [n \in DOMAIN f1 |-> f1[n]]
      /\ \A n \in DOMAIN f1 : \E q \in Pages : At(o1, {}, q, 0, s, n) /\ f1[n] = Seen(o1[q])
      /\ \A q \in Pages : \A n : At(o1, {}, q, 0, s, n) => n \in DOMAIN f1 /\ f1[n] = Seen(o1[q])
  BY Drawing
<1>5. \A n \in DOMAIN f : n \in DOMAIN f1 /\ f1[n] = f[n]
  BY <1>1, <1>2, <1>3, <1>4
<1>6. \A n \in DOMAIN f1 : n \in DOMAIN f
  BY <1>1, <1>3, <1>4
<1> QED
  BY <1>3, <1>4, <1>5, <1>6

\* A call for space s leaves the maps of the others.
LEMMA OthersDraw ==
  ASSUME NEW o, NEW o1, NEW s, NEW C, Keeps(o, o1, s, C), NEW u, u # s,
         NEW f, NEW f1, Draws(o, u, f), Draws(o1, u, f1)
  PROVE  f1 = f
<1>1. \A q \in Pages :
        (o[q].lev = 0 /\ o[q].sp = u) \/ (o1[q].lev = 0 /\ o1[q].sp = u) => o1[q] = o[q]
  BY DEF Keeps, Low
<1> QED
  BY <1>1, SameDraw

\* A page that the user may use.
LEMMA SeenUser ==
  ASSUME NEW u, "U" \in u.flags
  PROVE  Seen(u).user
BY DEF Seen

\* What a new page shows.
LEMMA SeenFresh ==
  ASSUME NEW u, u.body = Zeros, u.flags = {"R", "U", "W"} \cup {"V"}
  PROVE  Seen(u) = Abstract!Fresh
<1>1. Zeros[0].pa = 0
  BY Numbers DEF Zeros, Page, word, NULL
<1>2. "U" \in u.flags
  OBVIOUS
<1> QED
  BY <1>1, <1>2 DEF Seen, Abstract!Fresh

\* The map with fresh pages up to y, without those from y on, and with a page changed.
GrownMap(f, x, y) ==
  [n \in DOMAIN f \cup (Abstract!Before(y) \ Abstract!Before(x)) |->
     IF n \in DOMAIN f THEN f[n] ELSE Abstract!Fresh]
ShrunkMap(f, y) == [n \in DOMAIN f \cap Abstract!Before(y) |-> f[n]]
ChangedMap(f, n, v) == [f EXCEPT ![n] = v]

\* uvmalloc() makes fresh pages.
LEMMA DrawGrow ==
  ASSUME NEW o, NEW o1, NEW s, NEW x \in 0..MAXSIZE, NEW y \in 0..MAXSIZE, x <= y,
         Keeps(o, o1, s, Ceil(x)), Blank(o1, s, Ceil(x), Ceil(y), {"R", "U", "W"}),
         Below(o, {}, s, Ceil(x)), Below(o1, {}, s, Ceil(y)), \A q \in Pages : o1[q].num \in Nat,
         NEW f, NEW f1, Draws(o, s, f), Draws(o1, s, f1)
  PROVE  f1 = GrownMap(f, x, y)
<1> DEFINE New == Abstract!Before(y) \ Abstract!Before(x)
<1>1. x \in Nat /\ y \in Nat /\ Ceil(x) \in Nat /\ Ceil(y) \in Nat /\ Ceil(MAXSIZE) \in Nat
  BY UserMemoryAssumption, Rounding
<1>2. \A n : n \in New <=> n \in Nat /\ Ceil(x) <= n /\ n < Ceil(y)
  <2>1. Abstract!Before(x) = {n \in 0 .. Ceil(MAXSIZE) : n < Ceil(x)}
        /\ Abstract!Before(y) = {n \in 0 .. Ceil(MAXSIZE) : n < Ceil(y)}
    BY DEF Abstract!Before, Abstract!Ceil, Ceil
  <2>2. \A n \in Nat : n < Ceil(y) => n \in 0 .. Ceil(MAXSIZE)
    BY VpnBelow
  <2> HIDE DEF Ceil
  <2> QED
    BY <1>1, <2>1, <2>2
<1> HIDE DEF Ceil, New
<1>3. /\ f = [n \in DOMAIN f |-> f[n]]
      /\ \A n \in DOMAIN f : \E q \in Pages : At(o, {}, q, 0, s, n) /\ f[n] = Seen(o[q])
      /\ \A q \in Pages : \A n : At(o, {}, q, 0, s, n) => n \in DOMAIN f /\ f[n] = Seen(o[q])
  BY Drawing
<1>4. /\ f1 = [n \in DOMAIN f1 |-> f1[n]]
      /\ \A n \in DOMAIN f1 : \E q \in Pages : At(o1, {}, q, 0, s, n) /\ f1[n] = Seen(o1[q])
      /\ \A q \in Pages : \A n : At(o1, {}, q, 0, s, n) => n \in DOMAIN f1 /\ f1[n] = Seen(o1[q])
  BY Drawing
<1>5. ASSUME NEW n \in DOMAIN f
      PROVE  n \in DOMAIN f1 /\ f1[n] = f[n] /\ n < Ceil(x)
  <2>1. PICK q \in Pages : At(o, {}, q, 0, s, n) /\ f[n] = Seen(o[q])
    BY <1>3
  <2>2. n < Ceil(x) /\ Low(o, s, Ceil(x), q)
    BY <2>1 DEF Below, At, Low
  <2>3. o1[q] = o[q] /\ At(o1, {}, q, 0, s, n)
    BY <2>1, <2>2 DEF Keeps, At
  <2> QED
    BY <1>4, <2>1, <2>2, <2>3
<1>6. ASSUME NEW n \in New
      PROVE  n \in DOMAIN f1 /\ f1[n] = Abstract!Fresh
  <2>1. Has(o1, s, n, Zeros, {"R", "U", "W"} \cup {"V"})
    BY <1>2 DEF Blank
  <2>2. PICK q \in Pages : /\ o1[q].lev = 0 /\ o1[q].sp = s /\ o1[q].num = n
                           /\ o1[q].body = Zeros /\ o1[q].flags = {"R", "U", "W"} \cup {"V"}
    BY <2>1 DEF Has
  <2>3. At(o1, {}, q, 0, s, n)
    BY <2>2 DEF At
  <2>4. Seen(o1[q]) = Abstract!Fresh
    BY <2>2, SeenFresh
  <2> QED
    BY <1>4, <2>3, <2>4
<1>7. ASSUME NEW n \in DOMAIN f1
      PROVE  n \in DOMAIN f \/ n \in New
  <2>1. PICK q \in Pages : At(o1, {}, q, 0, s, n)
    BY <1>4
  <2>2. n \in Nat /\ n < Ceil(y)
    BY <2>1 DEF Below, At
  <2>3. CASE n < Ceil(x)
    <3>1. Low(o1, s, Ceil(x), q)
      BY <2>1, <2>3 DEF At, Low
    <3>2. o1[q] = o[q] /\ At(o, {}, q, 0, s, n)
      BY <2>1, <3>1 DEF Keeps, At
    <3> QED
      BY <1>3, <3>2
  <2>4. CASE ~ (n < Ceil(x))
    BY <1>1, <1>2, <2>2, <2>4
  <2> QED
    BY <2>3, <2>4
<1>8. \A n \in New : n \notin DOMAIN f
  BY <1>1, <1>2, <1>5
<1>9. DOMAIN f1 = DOMAIN f \cup New
  BY <1>5, <1>6, <1>7
<1>10. \A n \in DOMAIN f1 : f1[n] = IF n \in DOMAIN f THEN f[n] ELSE Abstract!Fresh
  BY <1>5, <1>6, <1>7
<1>11. f1 = [n \in DOMAIN f \cup New |-> IF n \in DOMAIN f THEN f[n] ELSE Abstract!Fresh]
  BY <1>4, <1>9, <1>10
<1> QED
  BY <1>11 DEF New, GrownMap

\* uvmdealloc() and uvmfree() take the pages beyond the size.
LEMMA DrawShrink ==
  ASSUME NEW o, NEW o1, NEW s, NEW y \in 0..MAXSIZE, Keeps(o, o1, s, Ceil(y)),
         Below(o1, {}, s, Ceil(y)), \A q \in Pages : o1[q].num \in Nat,
         NEW f, NEW f1, Draws(o, s, f), Draws(o1, s, f1)
  PROVE  f1 = ShrunkMap(f, y)
<1> DEFINE Rest == Abstract!Before(y)
<1>1. Rest = {n \in 0 .. Ceil(MAXSIZE) : n < Ceil(y)}
  BY DEF Abstract!Before, Abstract!Ceil, Ceil
<1>2. \A n \in Nat : n < Ceil(y) => n \in 0 .. Ceil(MAXSIZE)
  BY VpnBelow
<1> HIDE DEF Ceil, Rest
<1>3. /\ f = [n \in DOMAIN f |-> f[n]]
      /\ \A n \in DOMAIN f : \E q \in Pages : At(o, {}, q, 0, s, n) /\ f[n] = Seen(o[q])
      /\ \A q \in Pages : \A n : At(o, {}, q, 0, s, n) => n \in DOMAIN f /\ f[n] = Seen(o[q])
  BY Drawing
<1>4. /\ f1 = [n \in DOMAIN f1 |-> f1[n]]
      /\ \A n \in DOMAIN f1 : \E q \in Pages : At(o1, {}, q, 0, s, n) /\ f1[n] = Seen(o1[q])
      /\ \A q \in Pages : \A n : At(o1, {}, q, 0, s, n) => n \in DOMAIN f1 /\ f1[n] = Seen(o1[q])
  BY Drawing
<1>5. ASSUME NEW n \in DOMAIN f1
      PROVE  n \in DOMAIN f /\ n \in Rest /\ f1[n] = f[n]
  <2>1. PICK q \in Pages : At(o1, {}, q, 0, s, n) /\ f1[n] = Seen(o1[q])
    BY <1>4
  <2>2. n \in Nat /\ n < Ceil(y) /\ Low(o1, s, Ceil(y), q)
    BY <2>1 DEF Below, At, Low
  <2>3. o1[q] = o[q] /\ At(o, {}, q, 0, s, n)
    BY <2>1, <2>2 DEF Keeps, At
  <2> QED
    BY <1>1, <1>2, <1>3, <2>1, <2>2, <2>3
<1>6. ASSUME NEW n \in DOMAIN f, n \in Rest
      PROVE  n \in DOMAIN f1
  <2>1. PICK q \in Pages : At(o, {}, q, 0, s, n)
    BY <1>3
  <2>2. Low(o, s, Ceil(y), q)
    BY <1>1, <1>6, <2>1 DEF At, Low
  <2>3. At(o1, {}, q, 0, s, n)
    BY <2>1, <2>2 DEF Keeps, At
  <2> QED
    BY <1>4, <2>3
<1>7. DOMAIN f1 = DOMAIN f \cap Rest
  BY <1>5, <1>6
<1>8. f1 = [n \in DOMAIN f \cap Rest |-> f[n]]
  BY <1>4, <1>5, <1>7
<1> QED
  BY <1>8 DEF Rest, ShrunkMap

\* uvmcopy() makes the same map for the other space.
LEMMA DrawCopy ==
  ASSUME NEW o1, NEW s, NEW t, NEW C, Copies(o1, s, t, C), Below(o1, {}, s, C),
         NEW f, NEW f1, Draws(o1, s, f), Draws(o1, t, f1)
  PROVE  f1 = f
<1>1. /\ f = [n \in DOMAIN f |-> f[n]]
      /\ \A n \in DOMAIN f : \E q \in Pages : At(o1, {}, q, 0, s, n) /\ f[n] = Seen(o1[q])
      /\ \A q \in Pages : \A n : At(o1, {}, q, 0, s, n) => n \in DOMAIN f /\ f[n] = Seen(o1[q])
  BY Drawing
<1>2. /\ f1 = [n \in DOMAIN f1 |-> f1[n]]
      /\ \A n \in DOMAIN f1 : \E q \in Pages : At(o1, {}, q, 0, t, n) /\ f1[n] = Seen(o1[q])
      /\ \A q \in Pages : \A n : At(o1, {}, q, 0, t, n) => n \in DOMAIN f1 /\ f1[n] = Seen(o1[q])
  BY Drawing
<1>3. \A p \in Pages, q \in Pages :
        o1[p].body = o1[q].body /\ o1[p].flags = o1[q].flags => Seen(o1[p]) = Seen(o1[q])
  BY Zenon DEF Seen
<1>4. ASSUME NEW n \in DOMAIN f
      PROVE  n \in DOMAIN f1 /\ f1[n] = f[n]
  <2>1. PICK q \in Pages : At(o1, {}, q, 0, s, n) /\ f[n] = Seen(o1[q])
    BY <1>1
  <2>2. Has(o1, t, n, o1[q].body, o1[q].flags)
    BY <2>1 DEF Copies, Below, At
  <2>3. PICK p \in Pages : /\ At(o1, {}, p, 0, t, n)
                           /\ o1[p].body = o1[q].body /\ o1[p].flags = o1[q].flags
    BY <2>2 DEF Has, At
  <2> QED
    BY <1>2, <1>3, <2>1, <2>3
<1>5. ASSUME NEW n \in DOMAIN f1
      PROVE  n \in DOMAIN f
  <2>1. PICK q \in Pages : At(o1, {}, q, 0, t, n)
    BY <1>2
  <2>2. Has(o1, s, n, o1[q].body, o1[q].flags)
    BY <2>1 DEF Copies, At
  <2>3. PICK p \in Pages : At(o1, {}, p, 0, s, n)
    BY <2>2 DEF Has, At
  <2> QED
    BY <1>1, <2>3
<1> QED
  BY <1>1, <1>2, <1>4, <1>5

\* A change to what one page shows, in the map of its space.
LEMMA DrawOne ==
  ASSUME NEW o, NEW o1, NEW q \in Pages, NEW s, NEW n, At(o, {}, q, 0, s, n),
         At(o1, {}, q, 0, s, n), \A p \in Pages \ {q} : o1[p] = o[p],
         NEW f, NEW f1, Draws(o, s, f), Draws(o1, s, f1)
  PROVE  /\ n \in DOMAIN f /\ f[n] = Seen(o[q])
         /\ f1 = ChangedMap(f, n, Seen(o1[q]))
<1>1. /\ f = [j \in DOMAIN f |-> f[j]]
      /\ \A j \in DOMAIN f : \E p \in Pages : At(o, {}, p, 0, s, j) /\ f[j] = Seen(o[p])
      /\ \A p \in Pages : \A j : At(o, {}, p, 0, s, j) => j \in DOMAIN f /\ f[j] = Seen(o[p])
  BY Drawing
<1>2. /\ f1 = [j \in DOMAIN f1 |-> f1[j]]
      /\ \A j \in DOMAIN f1 : \E p \in Pages : At(o1, {}, p, 0, s, j) /\ f1[j] = Seen(o1[p])
      /\ \A p \in Pages : \A j : At(o1, {}, p, 0, s, j) => j \in DOMAIN f1 /\ f1[j] = Seen(o1[p])
  BY Drawing
<1>3. n \in DOMAIN f /\ f[n] = Seen(o[q]) /\ n \in DOMAIN f1 /\ f1[n] = Seen(o1[q])
  BY <1>1, <1>2
<1>4. ASSUME NEW j \in DOMAIN f, j # n
      PROVE  j \in DOMAIN f1 /\ f1[j] = f[j]
  <2>1. PICK p \in Pages : At(o, {}, p, 0, s, j) /\ f[j] = Seen(o[p])
    BY <1>1
  <2>2. p # q
    BY <1>4, <2>1 DEF At
  <2>3. o1[p] = o[p] /\ At(o1, {}, p, 0, s, j)
    BY <2>1, <2>2 DEF At
  <2> QED
    BY <1>2, <2>1, <2>3
<1>5. ASSUME NEW j \in DOMAIN f1, j # n
      PROVE  j \in DOMAIN f
  <2>1. PICK p \in Pages : At(o1, {}, p, 0, s, j)
    BY <1>2
  <2>2. p # q
    BY <1>5, <2>1 DEF At
  <2>3. At(o, {}, p, 0, s, j)
    BY <2>1, <2>2 DEF At
  <2> QED
    BY <1>1, <2>3
<1>6. DOMAIN f1 = DOMAIN f
  BY <1>3, <1>4, <1>5
<1>7. f1 = [f EXCEPT ![n] = Seen(o1[q])]
  BY <1>1, <1>2, <1>3, <1>4, <1>6
<1> QED
  BY <1>3, <1>7 DEF ChangedMap

\* The other maps stay.
LEMMA OneDraw ==
  ASSUME NEW o, NEW o1, NEW q \in Pages, NEW s, NEW n, At(o, {}, q, 0, s, n),
         At(o1, {}, q, 0, s, n), \A p \in Pages \ {q} : o1[p] = o[p], NEW u, u # s,
         NEW f, NEW f1, Draws(o, u, f), Draws(o1, u, f1)
  PROVE  f1 = f
<1>1. \A p \in Pages :
        (o[p].lev = 0 /\ o[p].sp = u) \/ (o1[p].lev = 0 /\ o1[p].sp = u) => o1[p] = o[p]
  BY DEF At
<1> QED
  BY <1>1, SameDraw

\* A guard changes one part of a page.
LEMMA SeenGuard ==
  ASSUME NEW u, u \in Use
  PROVE  Seen([u EXCEPT !.flags = @ \ {"U"}]) = [Seen(u) EXCEPT !.user = FALSE]
<1> DEFINE u1 == [u EXCEPT !.flags = @ \ {"U"}]
<1>1. u1.body = u.body /\ u1.flags = u.flags \ {"U"}
  BY DEF Use
<1> HIDE DEF u1
<1>2. ("U" \in u1.flags) = FALSE
  BY <1>1
<1>3. Seen(u1) = [value |-> u.body[0].pa, user |-> FALSE]
  BY <1>1, <1>2, Zenon DEF Seen
<1>4. Seen(u) = [value |-> u.body[0].pa, user |-> "U" \in u.flags]
  BY Zenon DEF Seen
<1> DEFINE no == FALSE
<1> HIDE DEF no
<1>5. [Seen(u) EXCEPT !.user = no] = [value |-> u.body[0].pa, user |-> no]
  BY <1>4
<1> QED
  BY <1>3, <1>5, Zenon DEF u1, no

\* So does a write.
LEMMA SeenWrite ==
  ASSUME NEW u, u \in Use, NEW d
  PROVE  Seen([u EXCEPT !.body = Page(word(d, {}))]) = [Seen(u) EXCEPT !.value = d]
<1> DEFINE u1 == [u EXCEPT !.body = Page(word(d, {}))]
<1>1. u1.body = Page(word(d, {})) /\ u1.flags = u.flags
  BY DEF Use
<1> HIDE DEF u1
<1>2. u1.body[0].pa = d
  BY <1>1, Numbers DEF Page, word
<1>3. Seen(u1) = [value |-> d, user |-> "U" \in u.flags]
  BY <1>1, <1>2, Zenon DEF Seen
<1>4. Seen(u) = [value |-> u.body[0].pa, user |-> "U" \in u.flags]
  BY Zenon DEF Seen
<1>5. [Seen(u) EXCEPT !.value = d] = [value |-> d, user |-> "U" \in u.flags]
  BY <1>4
<1> QED
  BY <1>3, <1>5 DEF u1

\* The maps of all spaces, as the abstract specification has them.
maps == [s \in Spaces |-> [n \in Mapped(s) |->
           [value |-> k.ram[Pte(s, n).pa][0].pa, user |-> "U" \in Pte(s, n).flags]]]

\* They are those that the uses draw.
LEMMA MapsDrawn ==
  ASSUME NEW o, Agrees(k, root, sz, o)
  PROVE  maps = [s \in Spaces |-> maps[s]] /\ \A s \in Spaces : Draws(o, s, maps[s])
<1>1. ASSUME NEW s \in Spaces
      PROVE  maps[s] = MapOf(k, root, s)
  <2>1. \A n : Pte(s, n) = PteOf(k, root, s, n)
    BY Zenon DEF Pte, PteOf
  <2>2. Mapped(s) = There(k, root, s)
    BY <2>1 DEF Mapped, There
  <2>3. maps[s] = [n \in Mapped(s) |->
                     [value |-> k.ram[Pte(s, n).pa][0].pa, user |-> "U" \in Pte(s, n).flags]]
    BY Zenon DEF maps
  <2> QED
    BY <2>1, <2>2, <2>3, Zenon DEF MapOf
<1>2. maps = [s \in Spaces |-> maps[s]]
  BY Zenon DEF maps
<1> QED
  BY <1>1, <1>2, Drawn, Zenon

\* The same after a step.
LEMMA MapsDrawnNext ==
  ASSUME NEW o, Agrees(k', root', sz', o)
  PROVE  maps' = [s \in Spaces |-> maps'[s]] /\ \A s \in Spaces : Draws(o, s, maps'[s])
<1>1. ASSUME NEW s \in Spaces
      PROVE  maps'[s] = MapOf(k', root', s)
  <2>1. \A n : Pte(s, n)' = PteOf(k', root', s, n)
    BY Zenon DEF Pte, PteOf
  <2>2. Mapped(s)' = There(k', root', s)
    BY <2>1 DEF Mapped, There
  <2>3. maps'[s] = [n \in Mapped(s)' |->
                      [value |-> k'.ram[Pte(s, n)'.pa][0].pa, user |-> "U" \in Pte(s, n)'.flags]]
    BY Zenon DEF maps
  <2> QED
    BY <2>1, <2>2, <2>3, Zenon DEF MapOf
<1>2. maps' = [s \in Spaces |-> maps'[s]]
  BY Zenon DEF maps
<1> QED
  BY <1>1, <1>2, Drawn, Zenon

\* One map changes.
LEMMA OneMap ==
  ASSUME NEW M, NEW M1, M = [s \in Spaces |-> M[s]], M1 = [s \in Spaces |-> M1[s]],
         NEW s \in Spaces, \A u \in Spaces \ {s} : M1[u] = M[u]
  PROVE  M1 = [M EXCEPT ![s] = M1[s]]
OBVIOUS

\* What is to be shown of a step that changes one space.
LEMMA SetOf ==
  ASSUME NEW s, NEW n, NEW g, sz' = [sz EXCEPT ![s] = n], maps' = [maps EXCEPT ![s] = g]
  PROVE  Abstract!set(s, n, g)
BY Zenon DEF Abstract!set, maps

\* Each step of the memory is one of the abstract specification, or none.
LEMMA AbstractStep ==
  ASSUME UMInv, [UMNext]_umvars
  PROVE  [Abstract!ASNext]_<<sz, maps>>
<1>1. PICK o : Agrees(k, root, sz, o)
  BY DEF UMInv, Kept
<1>2. PICK o1 : Agrees(k', root', sz', o1) /\ Moved(o, sz, o1, sz')
  BY <1>1, StepKept
<1>3. /\ o \in [Pages -> Use] /\ o1 \in [Pages -> Use]
      /\ sz \in [Spaces -> 0..MAXSIZE] /\ sz' \in [Spaces -> 0..MAXSIZE]
      /\ \A s \in Spaces : Below(o, {}, s, Ceil(sz[s])) /\ Below(o1, {}, s, Ceil(sz'[s]))
  BY <1>1, <1>2 DEF Agrees, Holds, Tree, Typed
<1>4. \A q \in Pages : o1[q].num \in Nat
  BY <1>3 DEF Use
<1>5. maps = [s \in Spaces |-> maps[s]] /\ \A s \in Spaces : Draws(o, s, maps[s])
  BY <1>1, MapsDrawn
<1>6. maps' = [s \in Spaces |-> maps'[s]] /\ \A s \in Spaces : Draws(o1, s, maps'[s])
  BY <1>2, MapsDrawnNext
<1> HIDE DEF maps, Ceil
<1>7. CASE Still(o, o1) /\ sz' = sz
  <2>1. ASSUME NEW s \in Spaces
        PROVE  maps'[s] = maps[s]
    <3>1. \A q \in Pages :
            (o[q].lev = 0 /\ o[q].sp = s) \/ (o1[q].lev = 0 /\ o1[q].sp = s) => o1[q] = o[q]
      BY <1>7 DEF Still
    <3>2. Draws(o, s, maps[s]) /\ Draws(o1, s, maps'[s])
      BY <1>5, <1>6
    <3> QED
      BY <3>1, <3>2, SameDraw
  <2>2. maps' = maps
    BY <1>5, <1>6, <2>1
  <2> QED
    BY <1>7, <2>2
<1>8. ASSUME NEW s \in Spaces, NEW C, Keeps(o, o1, s, C)
      PROVE  maps' = [maps EXCEPT ![s] = maps'[s]]
  <2>1. ASSUME NEW u \in Spaces \ {s}
        PROVE  maps'[u] = maps[u]
    <3>1. Draws(o, u, maps[u]) /\ Draws(o1, u, maps'[u]) /\ u # s
      BY <1>5, <1>6
    <3> QED
      BY <1>8, <3>1, OthersDraw
  <2> QED
    BY <1>5, <1>6, <2>1, OneMap
<1>9. ASSUME NEW s \in Spaces, Enlarging(o, sz, o1, sz', s)
      PROVE  Abstract!Grow(s)
  <2>1. PICK n \in sz[s] + 1 .. MAXSIZE :
          /\ sz' = [sz EXCEPT ![s] = n] /\ Keeps(o, o1, s, Ceil(sz[s]))
          /\ Blank(o1, s, Ceil(sz[s]), Ceil(n), {"R", "U", "W"})
    BY <1>9 DEF Enlarging
  <2>2. /\ sz[s] \in 0..MAXSIZE /\ n \in 0..MAXSIZE /\ sz[s] <= n /\ sz'[s] = n
        /\ n \in sz[s] .. MAXSIZE
    BY <1>3, <2>1, UserMemoryAssumption
  <2>3. maps'[s] = GrownMap(maps[s], sz[s], n)
    <3>1. Below(o, {}, s, Ceil(sz[s])) /\ Below(o1, {}, s, Ceil(n))
      BY <1>3, <2>2
    <3>2. Draws(o, s, maps[s]) /\ Draws(o1, s, maps'[s])
      BY <1>5, <1>6
    <3>3. PICK f, f1 : f = maps[s] /\ f1 = maps'[s]
      OBVIOUS
    <3> QED
      BY <1>4, <2>1, <2>2, <3>1, <3>2, <3>3, DrawGrow
  <2>4. maps' = [maps EXCEPT ![s] = maps'[s]]
    BY <1>8, <2>1
  <2>5. Abstract!set(s, n, GrownMap(maps[s], sz[s], n))
    BY <2>1, <2>3, <2>4, SetOf
  <2> QED
    BY <2>2, <2>5, Zenon DEF Abstract!Grow, maps, GrownMap
<1>10. ASSUME NEW s \in Spaces, Shrinking(o, sz, o1, sz', s)
       PROVE  Abstract!Shrink(s)
  <2>1. PICK n \in 0 .. sz[s] : sz' = [sz EXCEPT ![s] = n] /\ Keeps(o, o1, s, Ceil(n))
    BY <1>10 DEF Shrinking
  <2>2. n \in 0..MAXSIZE /\ sz'[s] = n
    <3>1. sz[s] \in 0..MAXSIZE /\ MAXSIZE \in Nat
      BY <1>3, UserMemoryAssumption
    <3> QED
      BY <1>3, <2>1, <3>1
  <2>3. maps'[s] = ShrunkMap(maps[s], n)
    <3>1. Below(o1, {}, s, Ceil(n))
      BY <1>3, <2>2
    <3>2. Draws(o, s, maps[s]) /\ Draws(o1, s, maps'[s])
      BY <1>5, <1>6
    <3> QED
      BY <1>4, <2>1, <2>2, <3>1, <3>2, DrawShrink, Zenon
  <2>4. maps' = [maps EXCEPT ![s] = maps'[s]]
    BY <1>8, <2>1
  <2>5. Abstract!set(s, n, ShrunkMap(maps[s], n))
    BY <2>1, <2>3, <2>4, SetOf
  <2> QED
    BY <2>1, <2>5, Zenon DEF Abstract!Shrink, maps, ShrunkMap
<1>11. ASSUME NEW s \in Spaces, NEW t \in Spaces, s # t, Copying(o, sz, o1, sz', s, t)
       PROVE  Abstract!Copy(s, t)
  <2>1. /\ sz[t] = 0 /\ sz' = [sz EXCEPT ![t] = sz[s]] /\ Keeps(o, o1, t, 0)
        /\ Copies(o1, s, t, Ceil(sz[s]))
    BY <1>11 DEF Copying
  <2>2. sz'[s] = sz[s]
    BY <1>3, <1>11, <2>1
  <2>3. maps' = [maps EXCEPT ![t] = maps'[t]]
    BY <1>8, <2>1
  <2>4. maps'[s] = maps[s]
    BY <1>5, <1>11, <2>3
  <2>5. maps'[t] = maps[s]
    <3>1. Below(o1, {}, s, Ceil(sz[s]))
      BY <1>3, <2>2
    <3>2. Draws(o1, s, maps[s]) /\ Draws(o1, t, maps'[t])
      BY <1>6, <2>4
    <3> QED
      BY <2>1, <3>1, <3>2, DrawCopy, Zenon
  <2>6. Abstract!set(t, sz[s], maps[s])
    BY <2>1, <2>3, <2>5, SetOf
  <2> QED
    BY <2>1, <2>6, Zenon DEF Abstract!Copy, maps
<1>12. ASSUME NEW s \in Spaces, NEW q \in Pages, NEW n, At(o, {}, q, 0, s, n),
              At(o1, {}, q, 0, s, n), \A p \in Pages \ {q} : o1[p] = o[p], sz' = sz
       PROVE  /\ n \in DOMAIN maps[s] /\ maps[s][n] = Seen(o[q])
              /\ sz' = [sz EXCEPT ![s] = sz[s]]
              /\ maps' = [maps EXCEPT ![s] = ChangedMap(maps[s], n, Seen(o1[q]))]
  <2>1. /\ n \in DOMAIN maps[s] /\ maps[s][n] = Seen(o[q])
        /\ maps'[s] = ChangedMap(maps[s], n, Seen(o1[q]))
    <3>1. Draws(o, s, maps[s]) /\ Draws(o1, s, maps'[s])
      BY <1>5, <1>6
    <3>2. PICK f, f1 : f = maps[s] /\ f1 = maps'[s]
      OBVIOUS
    <3>3. n \in DOMAIN f /\ f[n] = Seen(o[q]) /\ f1 = ChangedMap(f, n, Seen(o1[q]))
      BY <1>12, <3>1, <3>2, DrawOne
    <3> QED
      BY <3>2, <3>3
  <2>2. ASSUME NEW u \in Spaces \ {s}
        PROVE  maps'[u] = maps[u]
    <3>1. Draws(o, u, maps[u]) /\ Draws(o1, u, maps'[u]) /\ u # s
      BY <1>5, <1>6
    <3> QED
      BY <1>12, <3>1, OneDraw
  <2>3. maps' = [maps EXCEPT ![s] = maps'[s]]
    BY <1>5, <1>6, <2>2, OneMap
  <2>4. sz' = [sz EXCEPT ![s] = sz[s]]
    BY <1>3, <1>12
  <2> QED
    BY <2>1, <2>3, <2>4
<1>13. ASSUME NEW s \in Spaces, Guarding(o, sz, o1, sz', s)
       PROVE  Abstract!Guard(s)
  <2>1. PICK q \in Pages, n \in Nat :
          At(o, {}, q, 0, s, n) /\ o1 = [o EXCEPT ![q].flags = @ \ {"U"}] /\ sz' = sz
    BY <1>13 DEF Guarding
  <2>2. o[q] \in Use /\ o1[q] = [o[q] EXCEPT !.flags = @ \ {"U"}]
        /\ \A p \in Pages \ {q} : o1[p] = o[p]
    BY <1>3, <2>1
  <2>3. At(o1, {}, q, 0, s, n)
    BY <2>1, <2>2 DEF At, Use
  <2>4. Seen(o1[q]) = [Seen(o[q]) EXCEPT !.user = FALSE]
    BY <2>2, SeenGuard, Zenon
  <2>5. /\ n \in DOMAIN maps[s] /\ maps[s][n] = Seen(o[q])
        /\ sz' = [sz EXCEPT ![s] = sz[s]]
        /\ maps' = [maps EXCEPT ![s] = ChangedMap(maps[s], n, Seen(o1[q]))]
    BY <1>12, <2>1, <2>2, <2>3
  <2>6. Seen(o1[q]) = [maps[s][n] EXCEPT !.user = FALSE]
    BY <2>4, <2>5, Zenon
  <2>7. maps' = [maps EXCEPT ![s] = ChangedMap(maps[s], n, [maps[s][n] EXCEPT !.user = FALSE])]
    BY <2>5, <2>6, Zenon
  <2>8. Abstract!set(s, sz[s], ChangedMap(maps[s], n, [maps[s][n] EXCEPT !.user = FALSE]))
    BY <2>5, <2>7, SetOf
  <2> QED
    BY <2>5, <2>8, Zenon DEF Abstract!Guard, maps, ChangedMap
<1>14. ASSUME NEW s \in Spaces, Storing(o, sz, o1, sz', s)
       PROVE  Abstract!Store(s)
  <2>1. PICK q \in Pages, n \in Nat, d \in Data :
          /\ At(o, {}, q, 0, s, n) /\ "U" \in o[q].flags
          /\ o1 = [o EXCEPT ![q].body = Page(word(d, {}))] /\ sz' = sz
    BY <1>14 DEF Storing
  <2>2. o[q] \in Use /\ o1[q] = [o[q] EXCEPT !.body = Page(word(d, {}))]
        /\ \A p \in Pages \ {q} : o1[p] = o[p]
    BY <1>3, <2>1
  <2>3. At(o1, {}, q, 0, s, n)
    BY <2>1, <2>2 DEF At, Use
  <2>4. Seen(o1[q]) = [Seen(o[q]) EXCEPT !.value = d]
    BY <2>2, SeenWrite, Zenon
  <2>5. /\ n \in DOMAIN maps[s] /\ maps[s][n] = Seen(o[q])
        /\ sz' = [sz EXCEPT ![s] = sz[s]]
        /\ maps' = [maps EXCEPT ![s] = ChangedMap(maps[s], n, Seen(o1[q]))]
    BY <1>12, <2>1, <2>2, <2>3
  <2>6. Seen(o1[q]) = [maps[s][n] EXCEPT !.value = d]
    BY <2>4, <2>5, Zenon
  <2>7. maps' = [maps EXCEPT ![s] = ChangedMap(maps[s], n, [maps[s][n] EXCEPT !.value = d])]
    BY <2>5, <2>6, Zenon
  <2>8. Abstract!set(s, sz[s], ChangedMap(maps[s], n, [maps[s][n] EXCEPT !.value = d]))
    BY <2>5, <2>7, SetOf
  <2>9. maps[s][n].user
    BY <2>1, <2>5, SeenUser
  <2> QED
    BY <2>5, <2>8, <2>9, Zenon DEF Abstract!Store, maps, ChangedMap
<1> QED
  BY <1>2, <1>7, <1>9, <1>10, <1>11, <1>13, <1>14 DEF Moved, Abstract!ASNext

\* The first state is the abstract one.
LEMMA AbstractInit ==
  UMInit => Abstract!ASInit
<1> SUFFICES ASSUME UMInit
             PROVE  Abstract!ASInit
  OBVIOUS
<1>1. PICK o : Agrees(k, root, sz, o) /\ \A q \in Pages : o[q].lev # 0
  BY Init DEF UMInit
<1>2. maps = [s \in Spaces |-> maps[s]] /\ \A s \in Spaces : Draws(o, s, maps[s])
  BY <1>1, MapsDrawn
<1> HIDE DEF maps
<1>3. ASSUME NEW s \in Spaces
      PROVE  maps[s] = <<>>
  <2>1. /\ maps[s] = [n \in DOMAIN maps[s] |-> maps[s][n]]
        /\ \A n \in DOMAIN maps[s] : \E q \in Pages : At(o, {}, q, 0, s, n)
    BY <1>2 DEF Draws
  <2>2. DOMAIN maps[s] = {}
    BY <1>1, <2>1 DEF At
  <2> QED
    BY <2>1, <2>2
<1>4. maps = [s \in Spaces |-> <<>>]
  BY <1>2, <1>3
<1> QED
  BY <1>4, Zenon DEF UMInit, Abstract!ASInit, maps

\* For every number of spaces, every size of the memory and of its pages, the
\* trees of vm.c are address spaces: what one does to its pages shows in no other,
\* new pages are blank, and a call that ran out of memory leaves no trace.
THEOREM Refinement == UMSpec => ImplementsAddressSpaces
<1>1. UMInit => Abstract!ASInit
  BY AbstractInit
<1>2. UMInv /\ [UMNext]_umvars => [Abstract!ASNext]_<<sz, maps>>
  BY AbstractStep
<1> QED
  BY <1>1, <1>2, Inductive, PTL DEF UMSpec, ImplementsAddressSpaces, Abstract!ASSpec, maps

=============================================================================
