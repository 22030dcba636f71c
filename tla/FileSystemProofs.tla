-------------------------- MODULE FileSystemProofs --------------------------
(***************************************************************************)
(* The safety of the simple file system, and that it keeps the promise of  *)
(* FileStore, for every set of names and of contents, every number of      *)
(* entries and every size of the memory.                                   *)
(*                                                                         *)
(* The table in flash is one that the program has had in memory: what is   *)
(* proved of the page (WellFormed) is therefore kept for both, and carries *)
(* over whether a page is copied back whole, torn or read again.           *)
(***************************************************************************)
EXTENDS FileSystem, SequenceTheorems, WellFoundedInduction, TLAPS

-----------------------------------------------------------------------------
(* The inductive invariant.                                                 *)

Table == [Indices -> Entry]
Memory == [1 .. MemorySize -> Unit \cup {Erased, Zero}]
Page == [crc : Table \cup {Torn}, entries : Table, memory : Memory]

\* The lengths of what can be written.
Length == {Len(content) : content \in Content}

\* Two entries of a table neither have one name nor share a byte.
Apart(t) ==
  \A i, j \in Indices : t[i].name # Free /\ t[j].name # Free /\ i # j =>
    /\ t[i].name # t[j].name
    /\ End(t[i]) <= t[j].start \/ End(t[j]) <= t[i].start

\* An entry that is in use is that of a content, one that is not is as Format leaves it.
Whole(t) == \A i \in Indices : t[i] = NoEntry \/ (t[i].name \in Name /\ t[i].size \in Length)

Below(t, n) == \A i \in Indices : t[i].name # Free => End(t[i]) <= n

WellFormed(pg) == pg \in Page /\ Apart(pg.entries) /\ Whole(pg.entries)

IInv ==
  /\ WellFormed(page) /\ WellFormed(flash)
  /\ Below(page.entries, used)
  /\ used \in 0 .. MemorySize /\ dirty \in BOOLEAN
  /\ pc \in {"closed", "open", "erased"}

-----------------------------------------------------------------------------
(* The operators.                                                           *)

LEMMA Sizes1 == Indices \subseteq Nat /\ 1 \in Indices /\ MemorySize \in Nat /\ 0 < MemorySize
BY FileAssumption DEF FileAssumption, Indices

LEMMA LengthOf ==
  ASSUME NEW content \in Content
  PROVE  /\ Len(content) \in Length
         /\ Len(content) \in Nat /\ 0 < Len(content)
         /\ content \in Seq(Unit)
         /\ content \in [1 .. Len(content) -> Unit]
<1>1. PICK s \in Sizes : content \in [1 .. s -> Unit]
  BY DEF Content
<1>2. s \in Nat /\ 0 < s
  BY FileAssumption DEF FileAssumption
<1>3. content \in Seq(Unit)
  BY <1>1, <1>2, SeqDef
<1>4. Len(content) = s
  BY <1>1, <1>2, <1>3, LenProperties
<1> QED BY <1>1, <1>2, <1>3, <1>4 DEF Length

LEMMA LengthNat == Length \subseteq Nat /\ 0 \notin Length
BY LengthOf DEF Length

\* The first entry of a name, or none.
LEMMA EntryFound ==
  ASSUME NEW pg, NEW name
  PROVE  /\ FindEntry(pg, name) = 0 <=> \A i \in Indices : pg.entries[i].name # name
         /\ FindEntry(pg, name) # 0 =>
              /\ FindEntry(pg, name) \in Indices
              /\ pg.entries[FindEntry(pg, name)].name = name
<1> DEFINE found == {i \in Indices : pg.entries[i].name = name}
<1>1. found \subseteq Nat /\ 0 \notin found
  BY Sizes1 DEF Indices
<1>2. ASSUME found # {}
      PROVE  \E i \in found : \A j \in found : i <= j
  <2>1. PICK x \in found : \A y \in found : ~(<<y, x>> \in OpToRel(<, Nat))
    BY <1>1, <1>2, NatLessThanWellFounded, WFMin
  <2>2. ASSUME NEW y \in found, ~(x <= y) PROVE FALSE
    <3>1. x \in Nat /\ y \in Nat /\ y < x
      BY <1>1, <2>2
    <3>2. <<y, x>> \in OpToRel(<, Nat)
      BY <3>1 DEF OpToRel
    <3> QED BY <2>1, <3>2
  <2> QED BY <2>2
<1>3. found = {} => FindEntry(pg, name) = 0
  BY DEF FindEntry
<1>4. found # {} => FindEntry(pg, name) \in found
  <2> SUFFICES ASSUME found # {} PROVE FindEntry(pg, name) \in found
    OBVIOUS
  <2>1. FindEntry(pg, name) = CHOOSE i \in found : \A j \in found : i <= j
    BY DEF FindEntry
  <2> QED BY <1>2, <2>1
<1> QED BY <1>1, <1>3, <1>4

\* An entry of a table where every name is used once is the one that is found.
LEMMA EntryIs ==
  ASSUME NEW pg, Apart(pg.entries), NEW i \in Indices, pg.entries[i].name # Free
  PROVE  FindEntry(pg, pg.entries[i].name) = i
<1> DEFINE f == FindEntry(pg, pg.entries[i].name)
<1>1. f # 0 /\ f \in Indices /\ pg.entries[f].name = pg.entries[i].name
  BY EntryFound
<1>2. f = i
  <2> HIDE DEF f
  <2> QED BY <1>1 DEF Apart
<1> QED BY <1>2

\* There is a last byte in use, and the entries end before or at it.
LEMMA UsedByIs ==
  ASSUME NEW pg \in Page, IsValid(pg)
  PROVE  UsedBy(pg) \in 0 .. MemorySize /\ Below(pg.entries, UsedBy(pg))
<1> DEFINE ends == {End(pg.entries[i]) : i \in Indices}
           rests == {MemorySize - e : e \in ends}
<1>1. \A i \in Indices : pg.entries[i].start \in Nat /\ pg.entries[i].size \in Nat
  BY Sizes1 DEF Page, Table, Entry
<1>2. ends \subseteq 0 .. MemorySize
  BY <1>1, Sizes1 DEF IsValid, End
<1>3. rests \subseteq Nat /\ rests # {}
  <2>1. End(pg.entries[1]) \in ends
    BY Sizes1
  <2> HIDE DEF ends
  <2>2. MemorySize - End(pg.entries[1]) \in rests
    BY <2>1
  <2>3. \A e \in ends : MemorySize - e \in Nat
    BY <1>2, Sizes1
  <2> QED BY <2>2, <2>3
<1>4. \E n \in ends : \A e \in ends : e <= n
  <2> HIDE DEF ends
  <2>1. PICK x \in rests : \A y \in rests : ~(<<y, x>> \in OpToRel(<, Nat))
    BY <1>3, NatLessThanWellFounded, WFMin
  <2>2. PICK n \in ends : x = MemorySize - n
    OBVIOUS
  <2>3. ASSUME NEW e \in ends, ~(e <= n) PROVE FALSE
    <3>1. MemorySize - e \in rests /\ MemorySize - e \in Nat /\ x \in Nat
      BY <1>3
    <3>2. MemorySize - e < x
      BY <2>2, <2>3, <1>2, Sizes1
    <3>3. <<MemorySize - e, x>> \in OpToRel(<, Nat)
      BY <3>1, <3>2 DEF OpToRel
    <3> QED BY <2>1, <3>1, <3>3
  <2> QED BY <2>3
<1>5. UsedBy(pg) \in ends /\ \A i \in Indices : End(pg.entries[i]) <= UsedBy(pg)
  BY <1>4 DEF UsedBy
<1> QED BY <1>2, <1>5 DEF Below

LEMMA BlankWellFormed ==
  /\ WellFormed(BlankPage) /\ WellFormed(ErasedPage)
  /\ \A n : Below(BlankPage.entries, n)
  /\ ~IsValid(ErasedPage)
<1>1. NoEntry \in Entry
  BY Sizes1 DEF NoEntry, Entry
<1>2. [i \in Indices |-> NoEntry] \in Table
  BY <1>1 DEF Table
<1>3. BlankPage \in Page /\ ErasedPage \in Page
  BY <1>2 DEF Page, BlankPage, ErasedPage, Memory
<1>4. Torn # [i \in Indices |-> NoEntry]
  <2>1. DOMAIN Torn = {}
    BY DEF Torn
  <2>2. DOMAIN [i \in Indices |-> NoEntry] # {}
    BY Sizes1
  <2> QED BY <2>1, <2>2
<1> QED BY <1>3, <1>4
       DEF WellFormed, Apart, Whole, Below, BlankPage, ErasedPage, NoEntry, IsValid

\* memcpy leaves a memory, with the content at its place and the rest as it was.
LEMMA CopiedIs ==
  ASSUME NEW memory \in Memory, NEW start \in Nat, NEW content \in Content,
         start + Len(content) <= MemorySize
  PROVE  /\ Copied(memory, start, content) \in Memory
         /\ \A k \in 1 .. Len(content) : Copied(memory, start, content)[start + k] = content[k]
         /\ \A k \in 1 .. MemorySize : k <= start \/ start + Len(content) < k =>
              Copied(memory, start, content)[k] = memory[k]
<1> DEFINE n == Len(content)
<1>1. n \in Nat /\ content \in [1 .. n -> Unit]
  BY LengthOf
<1>2. MemorySize \in Nat
  BY Sizes1
<1> HIDE DEF n
<1>3. \A k \in 1 .. MemorySize :
        Copied(memory, start, content)[k] =
          IF k > start /\ k <= start + n THEN content[k - start] ELSE memory[k]
  BY DEF Copied, n
<1>4. Copied(memory, start, content) \in Memory
  <2>1. \A k \in 1 .. MemorySize : Copied(memory, start, content)[k] \in Unit \cup {Erased, Zero}
    BY <1>1, <1>2, <1>3 DEF Memory
  <2>2. Copied(memory, start, content)
          = [k \in 1 .. MemorySize |-> Copied(memory, start, content)[k]]
    BY DEF Copied
  <2> QED BY <2>1, <2>2 DEF Memory
<1>5. \A k \in 1 .. n : Copied(memory, start, content)[start + k] = content[k]
  <2> TAKE k \in 1 .. n
  <2>1. start + k \in 1 .. MemorySize /\ start + k > start /\ start + k <= start + n
    BY <1>1, <1>2 DEF n
  <2>2. start + k - start = k
    BY <1>1
  <2> QED BY <1>3, <2>1, <2>2
<1> QED BY <1>1, <1>2, <1>3, <1>4, <1>5 DEF n

\* An entry that is in use lies in the memory.
LEMMA EntryTyped ==
  ASSUME NEW pg, WellFormed(pg), NEW i \in Indices
  PROVE  /\ pg.entries[i] \in Entry
         /\ pg.entries[i].start \in 0 .. MemorySize /\ pg.entries[i].size \in 0 .. MemorySize
         /\ End(pg.entries[i]) \in Nat
         /\ pg.entries[i].name # Free =>
              pg.entries[i].name \in Name /\ pg.entries[i].size \in Length
<1>1. pg.entries[i] \in Entry
  BY DEF WellFormed, Page, Table
<1>2. /\ pg.entries[i].start \in 0 .. MemorySize /\ pg.entries[i].size \in 0 .. MemorySize
      /\ End(pg.entries[i]) \in Nat
  BY <1>1, Sizes1 DEF Entry, End
<1> QED BY <1>1, <1>2 DEF WellFormed, Whole, NoEntry

-----------------------------------------------------------------------------
(* The steps.                                                               *)

\* WriteFile of a file that is there leaves the table.
LEMMA OverwriteKeeps ==
  ASSUME IInv, NEW name \in Name, NEW content \in Content, Overwrite(name, content)
  PROVE  /\ page.entries[FindEntry(page, name)].size = Len(content)
         /\ FindEntry(page, name) \in Indices
         /\ page.entries[FindEntry(page, name)].name = name
         /\ page.entries[FindEntry(page, name)].start + Len(content) <= MemorySize
         /\ page' \in Page /\ page'.entries = page.entries
         /\ page'.memory =
              Copied(page.memory, page.entries[FindEntry(page, name)].start, content)
         /\ IInv'
<1> DEFINE i == FindEntry(page, name)
           start == page.entries[i].start
<1>1. i \in Indices /\ page.entries[i].name = name
  BY EntryFound DEF Overwrite
<1>2. name # Free
  BY FileAssumption DEF FileAssumption
<1>3. /\ page.entries[i].size = Len(content)
      /\ page' = [page EXCEPT !.memory = Copied(@, start, content)]
  BY DEF Overwrite
<1>4. dirty' \in BOOLEAN /\ UNCHANGED <<flash, used, pc>>
  BY DEF Overwrite
<1>5. page \in Page /\ WellFormed(page) /\ used \in 0 .. MemorySize
  BY DEF IInv, WellFormed
<1> HIDE DEF i
<1>6. start \in Nat /\ start + Len(content) <= MemorySize
  <2>1. End(page.entries[i]) <= used
    BY <1>1, <1>2 DEF IInv, Below
  <2>2. start \in Nat
    BY <1>1, <1>5, EntryTyped
  <2>3. Len(content) \in Nat /\ MemorySize \in Nat
    BY LengthOf, Sizes1
  <2> HIDE DEF start
  <2>4. start + Len(content) <= used
    BY <2>1, <1>3 DEF End, start
  <2> QED BY <2>2, <2>3, <2>4, <1>5
<1>7. page.memory \in Memory
  BY <1>5 DEF Page
<1>8. Copied(page.memory, start, content) \in Memory
  BY <1>6, <1>7, CopiedIs
<1> HIDE DEF start
<1>9. /\ page' \in Page /\ page'.entries = page.entries
      /\ page'.memory = Copied(page.memory, start, content)
  BY <1>3, <1>5, <1>8 DEF Page
<1>10. IInv'
  BY <1>4, <1>9 DEF IInv, WellFormed
<1> QED BY <1>1, <1>3, <1>6, <1>9, <1>10 DEF i, start

\* WriteFile of a new one adds an entry behind all others.
LEMMA CreateKeeps ==
  ASSUME IInv, NEW name \in Name, NEW content \in Content, Create(name, content)
  PROVE  LET i == FindEntry(page, Free)
         IN  /\ i \in Indices /\ page.entries[i].name = Free
             /\ \A j \in Indices : page.entries[j].name # name
             /\ used + Len(content) <= MemorySize
             /\ page'.entries = [page.entries EXCEPT
                  ![i] = [name |-> name, start |-> used, size |-> Len(content)]]
             /\ page'.memory = Copied(page.memory, used, content)
             /\ IInv'
<1> DEFINE i == FindEntry(page, Free)
           new == [name |-> name, start |-> used, size |-> Len(content)]
           size == Len(content)
<1>1. i \in Indices /\ page.entries[i].name = Free
  BY EntryFound DEF Create
<1>2. \A j \in Indices : page.entries[j].name # name
  BY EntryFound DEF Create
<1>3. page' = [page EXCEPT !.entries[i] = new, !.memory = Copied(@, used, content)]
  BY DEF Create
<1>4. /\ size <= MemorySize - used
      /\ used' = used + size /\ dirty' = TRUE /\ UNCHANGED <<flash, pc>>
  BY DEF Create, HasRoom
<1>5. page \in Page /\ used \in 0 .. MemorySize /\ page.entries \in Table /\ page.memory \in Memory
  BY DEF IInv, WellFormed, Page
<1>6. size \in Nat /\ 0 < size /\ size \in Length /\ MemorySize \in Nat /\ name # Free
  BY LengthOf, Sizes1, FileAssumption DEF FileAssumption
<1>7. used + size <= MemorySize /\ used \in Nat
  BY <1>4, <1>5, <1>6
<1> HIDE DEF i
<1>8. Copied(page.memory, used, content) \in Memory
  BY <1>5, <1>7, CopiedIs
<1>9. new \in Entry
  <2>1. used \in 0 .. MemorySize /\ size \in 0 .. MemorySize
    BY <1>5, <1>6, <1>7
  <2> QED BY <2>1 DEF Entry
<1> HIDE DEF new, size
<1>10. [page.entries EXCEPT ![i] = new] \in Table
  BY <1>5, <1>9 DEF Table
<1>11. /\ page' \in Page
       /\ page'.entries = [page.entries EXCEPT ![i] = new]
       /\ page'.memory = Copied(page.memory, used, content)
  BY <1>3, <1>5, <1>8, <1>10 DEF Page
<1>12. new.name = name /\ new.start = used /\ new.size = size /\ End(new) = used'
  BY <1>4 DEF new, size, End
<1>13. /\ page'.entries[i] = new
       /\ \A j \in Indices \ {i} : page'.entries[j] = page.entries[j]
  BY <1>1, <1>5, <1>11 DEF Table
<1>14. \A j \in Indices : page.entries[j].name # Free => End(page.entries[j]) <= used
  BY DEF IInv, Below
<1>15. \A j \in Indices : End(page.entries[j]) \in Nat
  BY EntryTyped DEF IInv
<1>16. Apart(page'.entries)
  <2> SUFFICES ASSUME NEW j \in Indices, NEW k \in Indices, j # k,
                      page'.entries[j].name # Free, page'.entries[k].name # Free
               PROVE  /\ page'.entries[j].name # page'.entries[k].name
                      /\ \/ End(page'.entries[j]) <= page'.entries[k].start
                         \/ End(page'.entries[k]) <= page'.entries[j].start
    BY DEF Apart
  <2>1. CASE j = i
    BY <2>1, <1>2, <1>12, <1>13, <1>14
  <2>2. CASE k = i
    BY <2>2, <1>2, <1>12, <1>13, <1>14
  <2>3. CASE j # i /\ k # i
    BY <2>3, <1>13 DEF IInv, WellFormed, Apart
  <2> QED BY <2>1, <2>2, <2>3
<1>17. Whole(page'.entries)
  <2>1. Whole(page.entries)
    BY DEF IInv, WellFormed
  <2> QED BY <2>1, <1>6, <1>12, <1>13 DEF Whole
<1>18. Below(page'.entries, used')
  <2> SUFFICES ASSUME NEW j \in Indices, page'.entries[j].name # Free
               PROVE  End(page'.entries[j]) <= used'
    BY DEF Below
  <2>1. CASE j = i
    BY <2>1, <1>4, <1>6, <1>7, <1>12, <1>13
  <2>2. CASE j # i
    BY <2>2, <1>4, <1>6, <1>7, <1>13, <1>14, <1>15
  <2> QED BY <2>1, <2>2
<1>19. IInv'
  <2>1. used' \in 0 .. MemorySize
    BY <1>4, <1>6, <1>7
  <2> QED BY <2>1, <1>4, <1>11, <1>16, <1>17, <1>18 DEF IInv, WellFormed
<1> QED BY <1>1, <1>2, <1>7, <1>11, <1>19 DEF i, new, size

\* The page is written as far as n: its table whole, its memory in part.
LEMMA WrittenIs ==
  ASSUME WellFormed(page), NEW n \in Nat
  PROVE  /\ WellFormed(Written(n))
         /\ Written(n).entries = page.entries /\ Written(n).crc = page.entries
         /\ \A k \in 1 .. MemorySize :
              Written(n).memory[k] = IF k <= n THEN page.memory[k] ELSE Erased
<1>1. /\ Written(n).entries = page.entries /\ Written(n).crc = page.entries
      /\ \A k \in 1 .. MemorySize :
           Written(n).memory[k] = IF k <= n THEN page.memory[k] ELSE Erased
  BY DEF Written
<1>2. page.entries \in Table /\ page.memory \in Memory
  BY DEF WellFormed, Page
<1>3. Written(n) \in Page
  <2>1. [k \in 1 .. MemorySize |-> IF k <= n THEN page.memory[k] ELSE Erased] \in Memory
    BY <1>2 DEF Memory
  <2> QED BY <2>1, <1>2 DEF Written, Page
<1> QED BY <1>1, <1>3 DEF WellFormed

LEMMA InitIInv == Init => IInv
<1>1. 0 \in 0 .. MemorySize
  BY Sizes1
<1> QED BY <1>1, BlankWellFormed DEF Init, IInv

LEMMA NextIInv == IInv /\ [Next]_vars => IInv'
<1> SUFFICES ASSUME IInv, [Next]_vars PROVE IInv'
  OBVIOUS
<1>0. 0 \in 0 .. MemorySize
  BY Sizes1
<1>1. CASE Open
  <2>1. UNCHANGED flash /\ pc' = "open" /\ WellFormed(flash)
    BY <1>1 DEF Open, IInv
  <2>2. CASE IsValid(flash) /\ page' = flash /\ used' = UsedBy(flash) /\ dirty' = FALSE
    BY <2>1, <2>2, UsedByIs DEF IInv, WellFormed
  <2>3. CASE page' = BlankPage /\ used' = 0 /\ dirty' = TRUE
    BY <1>0, <2>1, <2>3, BlankWellFormed DEF IInv
  <2> QED BY <1>1, <2>2, <2>3 DEF Open
<1>2. CASE Format
  BY <1>0, <1>2, BlankWellFormed DEF Format, IInv
<1>3. CASE Close
  BY <1>0, <1>3, BlankWellFormed DEF Close, Closed, IInv
<1>4. CASE Erase
  BY <1>4, BlankWellFormed DEF Erase, IInv
<1>5. CASE Write
  <2>1. WellFormed(Written(MemorySize))
    BY WrittenIs, Sizes1 DEF IInv
  <2> QED BY <1>0, <1>5, <2>1, BlankWellFormed DEF Write, Closed, IInv
<1>6. CASE WriteTorn
  <2>1. \A n \in 0 .. MemorySize - 1 : WellFormed(Written(n))
    BY WrittenIs, Sizes1 DEF IInv
  <2>2. WellFormed(flash')
    BY <1>6, <2>1 DEF WriteTorn, IInv
  <2> QED BY <1>0, <1>6, <2>2, BlankWellFormed DEF WriteTorn, Closed, IInv
<1>7. ASSUME NEW name \in Name, NEW content \in Content, Overwrite(name, content)
      PROVE  IInv'
  BY <1>7, OverwriteKeeps
<1>8. ASSUME NEW name \in Name, NEW content \in Content, Create(name, content)
      PROVE  IInv'
  BY <1>8, CreateKeeps
<1>9. CASE UNCHANGED vars
  BY <1>9 DEF vars, IInv
<1> QED BY <1>1, <1>2, <1>3, <1>4, <1>5, <1>6, <1>7, <1>8, <1>9 DEF Next

THEOREM FileSystemInv == Spec => []IInv
BY InitIInv, NextIInv, PTL DEF Spec

\* The types of the page and of the state of the file system.
THEOREM FileSystemTypes == Spec => []TypeOK
<1>1. IInv => TypeOK
  BY DEF IInv, TypeOK, WellFormed, Page, Table, Memory
<1> QED BY <1>1, FileSystemInv, PTL

\* However often the page is written and power lost, the table names a file once, and no two
\* files share a byte; what WriteFile takes for free lies behind them all.
THEOREM FileSystemTable == Spec => []TableOK
<1>1. IInv => TableOK
  <2> SUFFICES ASSUME IInv PROVE TableOK
    OBVIOUS
  <2>1. \A i \in Named(page) : i \in Indices /\ page.entries[i].name # Free
    BY DEF Named
  <2> QED BY <2>1 DEF IInv, TableOK, WellFormed, Apart, Below
<1> QED BY <1>1, FileSystemInv, PTL

-----------------------------------------------------------------------------
(* The files of a page, as FileStore has them.                              *)

Byte == Unit \cup {Erased, Zero}

\* What ReadFile reads of an entry that is in use.
LEMMA FileIs ==
  ASSUME NEW pg, WellFormed(pg), NEW m \in 0 .. MemorySize, Below(pg.entries, m),
         NEW i \in Indices, NEW n, pg.entries[i].name = n, n # Free
  PROVE  /\ n \in DOMAIN FilesOf(pg)
         /\ FilesOf(pg)[n] \in Seq(Byte)
         /\ Len(FilesOf(pg)[n]) = pg.entries[i].size
         /\ \A k \in 1 .. pg.entries[i].size :
              /\ pg.entries[i].start + k \in 1 .. MemorySize
              /\ FilesOf(pg)[n][k] = pg.memory[pg.entries[i].start + k]
<1> DEFINE start == pg.entries[i].start
           size == pg.entries[i].size
           content == SubSeq(pg.memory, start + 1, start + size)
<1>1. n \in DOMAIN FilesOf(pg)
  BY DEF FilesOf, Named
<1>2. FilesOf(pg)[n] = content
  BY <1>1, EntryIs DEF FilesOf, WellFormed, Contents, End
<1>3. start \in Nat /\ size \in Nat /\ MemorySize \in Nat
  BY EntryTyped, Sizes1
<1>4. start + size <= MemorySize
  BY <1>3 DEF Below, End
<1>5. pg.memory \in Memory
  BY DEF WellFormed, Page
<1> HIDE DEF start, size
<1>6. \A k \in start + 1 .. start + size : pg.memory[k] \in Byte
  BY <1>3, <1>4, <1>5 DEF Memory, Byte
<1>7. /\ content \in Seq(Byte)
      /\ Len(content) =
           IF start + 1 <= start + size THEN (start + size) - (start + 1) + 1 ELSE 0
      /\ \A k \in 1 .. (start + size) - (start + 1) + 1 :
           content[k] = pg.memory[(start + 1) + k - 1]
  BY <1>3, <1>6, SubSeqProperties
<1> HIDE DEF content
<1>8. Len(content) = size
  BY <1>3, <1>7
<1>9. \A k \in 1 .. size : start + k \in 1 .. MemorySize /\ content[k] = pg.memory[start + k]
  <2> TAKE k \in 1 .. size
  <2>1. k \in 1 .. (start + size) - (start + 1) + 1 /\ (start + 1) + k - 1 = start + k
    BY <1>3
  <2>2. start + k \in 1 .. MemorySize
    BY <1>3, <1>4
  <2> QED BY <1>7, <2>1, <2>2
<1> QED BY <1>1, <1>2, <1>7, <1>8, <1>9 DEF start, size

\* The names of the files are those of the entries.
LEMMA NamesAre ==
  ASSUME NEW pg
  PROVE  /\ DOMAIN FilesOf(pg) = {pg.entries[i].name : i \in Named(pg)}
         /\ \A n \in DOMAIN FilesOf(pg) : \E i \in Indices :
              pg.entries[i].name = n /\ n # Free
         /\ FilesOf(pg) = [n \in DOMAIN FilesOf(pg) |-> FilesOf(pg)[n]]
BY DEF FilesOf, Named

\* A formatted page has no files, and neither has one that is refused.
LEMMA NoFiles == FilesOf(BlankPage) = Store!Empty
<1>1. Named(BlankPage) = {}
  BY DEF Named, BlankPage, NoEntry
<1> QED BY <1>1 DEF FilesOf, Store!Empty

\* The page that has been written is accepted again, cut short or not.
LEMMA WrittenValid ==
  ASSUME IInv, NEW n \in Nat
  PROVE  IsValid(Written(n))
<1>1. Written(n).crc = page.entries /\ Written(n).entries = page.entries
  BY WrittenIs DEF IInv
<1>2. ASSUME NEW i \in Indices
      PROVE  page.entries[i].start < MemorySize /\ End(page.entries[i]) <= MemorySize
  <2> DEFINE e == page.entries[i]
  <2>1. CASE e.name = Free
    <3>1. e = NoEntry
      BY <2>1, FileAssumption DEF IInv, WellFormed, Whole, FileAssumption
    <3>2. e.start = 0 /\ e.size = 0
      BY <3>1 DEF NoEntry
    <3> QED BY <3>2, Sizes1 DEF End
  <2>2. CASE e.name # Free
    <3>1. End(e) <= used /\ e.size \in Length /\ e.start \in Nat /\ e.size \in Nat
      BY <2>2, EntryTyped DEF IInv, Below
    <3>2. 0 < e.size /\ used \in 0 .. MemorySize
      BY <3>1, LengthNat DEF IInv
    <3> HIDE DEF e
    <3>3. e.start + e.size <= used
      BY <3>1 DEF End
    <3>4. e.start < MemorySize /\ End(e) <= MemorySize
      BY <3>1, <3>2, <3>3, Sizes1 DEF End
    <3> QED BY <3>4 DEF e
  <2> QED BY <2>1, <2>2
<1> QED BY <1>1, <1>2 DEF IsValid

\* WriteFile of a file that is there changes that file and no other.
LEMMA OverwriteFiles ==
  ASSUME IInv, NEW name \in Name, NEW content \in Content, Overwrite(name, content)
  PROVE  /\ name \in DOMAIN FilesOf(page) /\ Len(FilesOf(page)[name]) = Len(content)
         /\ FilesOf(page') = [m \in DOMAIN FilesOf(page) \cup {name} |->
                                IF m = name THEN content ELSE FilesOf(page)[m]]
<1> DEFINE i == FindEntry(page, name)
           start == page.entries[i].start
<1>1. /\ i \in Indices /\ page.entries[i].name = name
      /\ page.entries[i].size = Len(content)
      /\ start + Len(content) <= MemorySize
      /\ page'.entries = page.entries
      /\ page'.memory = Copied(page.memory, start, content)
      /\ IInv'
  BY OverwriteKeeps
<1>2. name # Free
  BY FileAssumption DEF FileAssumption
<1>3. /\ WellFormed(page) /\ WellFormed(page') /\ used \in 0 .. MemorySize
      /\ Below(page.entries, used)
  BY <1>1 DEF IInv
<1> HIDE DEF i
<1>4. /\ name \in DOMAIN FilesOf(page)
      /\ Len(FilesOf(page)[name]) = Len(content)
  BY <1>1, <1>2, <1>3, FileIs
<1>5. start \in Nat /\ page.memory \in Memory
  BY <1>1, <1>3, EntryTyped DEF WellFormed, Page
<1>6. /\ \A k \in 1 .. Len(content) : page'.memory[start + k] = content[k]
      /\ \A k \in 1 .. MemorySize : k <= start \/ start + Len(content) < k =>
           page'.memory[k] = page.memory[k]
  <2> DEFINE copied == Copied(page.memory, start, content)
  <2>1. page.memory \in Memory /\ start \in Nat /\ start + Len(content) <= MemorySize
    BY <1>1, <1>5
  <2>2. page'.memory = copied
    BY <1>1
  <2> HIDE DEF start
  <2>3. /\ \A k \in 1 .. Len(content) : copied[start + k] = content[k]
        /\ \A k \in 1 .. MemorySize : k <= start \/ start + Len(content) < k =>
             copied[k] = page.memory[k]
    BY <2>1, CopiedIs
  <2> HIDE DEF copied
  <2> QED BY <2>2, <2>3
<1>7. DOMAIN FilesOf(page') = DOMAIN FilesOf(page)
  <2>1. Named(page') = Named(page)
    BY <1>1 DEF Named
  <2>2. /\ DOMAIN FilesOf(page') = {page'.entries[j].name : j \in Named(page')}
        /\ DOMAIN FilesOf(page) = {page.entries[j].name : j \in Named(page)}
    BY NamesAre
  <2> QED BY <1>1, <2>1, <2>2
<1>8. FilesOf(page')[name] = content
  <2>1. /\ FilesOf(page')[name] \in Seq(Byte)
        /\ Len(FilesOf(page')[name]) = Len(content)
        /\ \A k \in 1 .. Len(content) :
             FilesOf(page')[name][k] = page'.memory[start + k]
    <3>1. /\ page'.entries[i].name = name /\ page'.entries[i].start = start
          /\ page'.entries[i].size = Len(content)
          /\ Below(page'.entries, used)
      BY <1>1, <1>3
    <3>2. i \in Indices
      BY <1>1
    <3> HIDE DEF start
    <3>3. /\ FilesOf(page')[name] \in Seq(Byte)
          /\ Len(FilesOf(page')[name]) = page'.entries[i].size
          /\ \A k \in 1 .. page'.entries[i].size :
               FilesOf(page')[name][k] = page'.memory[page'.entries[i].start + k]
      BY <1>2, <1>3, <3>1, <3>2, FileIs
    <3> QED BY <3>1, <3>3
  <2>2. content \in Seq(Byte)
    BY LengthOf, SeqMonotonic DEF Byte
  <2>3. \A k \in 1 .. Len(content) : FilesOf(page')[name][k] = content[k]
    BY <2>1, <1>6
  <2> QED BY <2>1, <2>2, <2>3, SeqEqual
<1>9. ASSUME NEW m \in DOMAIN FilesOf(page), m # name
      PROVE  FilesOf(page')[m] = FilesOf(page)[m]
  <2>1. PICK j \in Indices : page.entries[j].name = m /\ m # Free
    BY NamesAre
  <2>2. /\ FilesOf(page)[m] \in Seq(Byte)
        /\ Len(FilesOf(page)[m]) = page.entries[j].size
        /\ \A k \in 1 .. page.entries[j].size :
             /\ page.entries[j].start + k \in 1 .. MemorySize
             /\ FilesOf(page)[m][k] = page.memory[page.entries[j].start + k]
    BY <1>3, <2>1, FileIs
  <2>3. /\ FilesOf(page')[m] \in Seq(Byte)
        /\ Len(FilesOf(page')[m]) = page.entries[j].size
        /\ \A k \in 1 .. page.entries[j].size :
             FilesOf(page')[m][k] = page'.memory[page.entries[j].start + k]
    <3>1. page'.entries[j] = page.entries[j] /\ Below(page'.entries, used)
      BY <1>1, <1>3
    <3>2. /\ FilesOf(page')[m] \in Seq(Byte)
          /\ Len(FilesOf(page')[m]) = page'.entries[j].size
          /\ \A k \in 1 .. page'.entries[j].size :
               FilesOf(page')[m][k] = page'.memory[page'.entries[j].start + k]
      BY <1>3, <2>1, <3>1, FileIs
    <3> QED BY <3>1, <3>2
  <2>4. End(page.entries[i]) <= page.entries[j].start \/ End(page.entries[j]) <= start
    BY <1>1, <1>2, <1>3, <1>9, <2>1 DEF WellFormed, Apart
  <2>5. page.entries[j].start \in Nat /\ page.entries[j].size \in Nat /\ Len(content) \in Nat
    BY <1>3, EntryTyped, LengthOf
  <2>6. ASSUME NEW k \in 1 .. page.entries[j].size
        PROVE  \/ page.entries[j].start + k <= start
               \/ start + Len(content) < page.entries[j].start + k
    <3> DEFINE from == page.entries[j].start
               size == page.entries[j].size
               length == Len(content)
    <3>1. start + length <= from \/ from + size <= start
      BY <1>1, <2>4 DEF End
    <3>2. from \in Nat /\ size \in Nat /\ start \in Nat /\ length \in Nat /\ k \in 1 .. size
      BY <1>5, <2>5
    <3> HIDE DEF from, size, length, start
    <3>3. from + k <= start \/ start + length < from + k
      BY <3>1, <3>2
    <3> QED BY <3>3 DEF from, length
  <2>7. \A k \in 1 .. page.entries[j].size : FilesOf(page')[m][k] = FilesOf(page)[m][k]
    BY <1>6, <2>2, <2>3, <2>6
  <2> QED BY <2>2, <2>7, <2>3, SeqEqual
<1>10. FilesOf(page') = [m \in DOMAIN FilesOf(page') |-> FilesOf(page')[m]]
  BY NamesAre
<1>11. DOMAIN FilesOf(page) \cup {name} = DOMAIN FilesOf(page')
  BY <1>4, <1>7
<1> QED BY <1>4, <1>7, <1>8, <1>9, <1>10, <1>11

\* WriteFile of a new one adds that file and changes no other.
LEMMA CreateFiles ==
  ASSUME IInv, NEW name \in Name, NEW content \in Content, Create(name, content)
  PROVE  /\ name \notin DOMAIN FilesOf(page)
         /\ FilesOf(page') = [m \in DOMAIN FilesOf(page) \cup {name} |->
                                IF m = name THEN content ELSE FilesOf(page)[m]]
<1> DEFINE i == FindEntry(page, Free)
           new == [name |-> name, start |-> used, size |-> Len(content)]
<1>1. /\ i \in Indices /\ page.entries[i].name = Free
      /\ \A j \in Indices : page.entries[j].name # name
      /\ used + Len(content) <= MemorySize
      /\ page'.entries = [page.entries EXCEPT ![i] = new]
      /\ page'.memory = Copied(page.memory, used, content)
      /\ IInv'
  BY CreateKeeps
<1>2. name # Free
  BY FileAssumption DEF FileAssumption
<1>3. /\ WellFormed(page) /\ WellFormed(page') /\ used \in 0 .. MemorySize
      /\ used' \in 0 .. MemorySize
      /\ Below(page.entries, used) /\ Below(page'.entries, used')
      /\ page.memory \in Memory /\ page.entries \in Table
  BY <1>1 DEF IInv, WellFormed, Page
<1> HIDE DEF i
<1>4. /\ page'.entries[i] = new
      /\ \A j \in Indices \ {i} : page'.entries[j] = page.entries[j]
  BY <1>1, <1>3 DEF Table
<1>5. new.name = name /\ new.start = used /\ new.size = Len(content)
  OBVIOUS
<1> HIDE DEF new
<1>6. name \notin DOMAIN FilesOf(page)
  <2> SUFFICES ASSUME name \in DOMAIN FilesOf(page) PROVE FALSE
    OBVIOUS
  <2>1. PICK j \in Indices : page.entries[j].name = name
    BY NamesAre
  <2> QED BY <1>1, <2>1
<1>7. DOMAIN FilesOf(page') = DOMAIN FilesOf(page) \cup {name}
  <2>1. Named(page') = Named(page) \cup {i}
    BY <1>1, <1>2, <1>4, <1>5 DEF Named
  <2>2. i \notin Named(page) /\ Named(page) \subseteq Indices
    BY <1>1 DEF Named
  <2>3. /\ DOMAIN FilesOf(page') = {page'.entries[j].name : j \in Named(page')}
        /\ DOMAIN FilesOf(page) = {page.entries[j].name : j \in Named(page)}
    BY NamesAre
  <2> QED BY <2>1, <2>2, <2>3, <1>1, <1>4, <1>5
<1>8. used \in Nat /\ Len(content) \in Nat
  BY <1>3, LengthOf
<1>9. /\ \A k \in 1 .. Len(content) : page'.memory[used + k] = content[k]
      /\ \A k \in 1 .. MemorySize : k <= used => page'.memory[k] = page.memory[k]
  <2> DEFINE copied == Copied(page.memory, used, content)
  <2>1. page.memory \in Memory /\ used \in Nat /\ used + Len(content) <= MemorySize
    BY <1>1, <1>3, <1>8
  <2>2. /\ \A k \in 1 .. Len(content) : copied[used + k] = content[k]
        /\ \A k \in 1 .. MemorySize : k <= used => copied[k] = page.memory[k]
    BY <2>1, CopiedIs
  <2>3. page'.memory = copied
    BY <1>1
  <2> HIDE DEF copied
  <2> QED BY <2>2, <2>3
<1>10. FilesOf(page')[name] = content
  <2>1. /\ FilesOf(page')[name] \in Seq(Byte)
        /\ Len(FilesOf(page')[name]) = Len(content)
        /\ \A k \in 1 .. Len(content) :
             FilesOf(page')[name][k] = page'.memory[used + k]
    <3>1. /\ page'.entries[i].name = name /\ page'.entries[i].start = used
          /\ page'.entries[i].size = Len(content)
      BY <1>4, <1>5
    <3>2. i \in Indices
      BY <1>1
    <3>3. WellFormed(page') /\ used' \in 0 .. MemorySize /\ Below(page'.entries, used')
      BY <1>3
    <3>4. /\ FilesOf(page')[name] \in Seq(Byte)
          /\ Len(FilesOf(page')[name]) = page'.entries[i].size
          /\ \A k \in 1 .. page'.entries[i].size :
               FilesOf(page')[name][k] = page'.memory[page'.entries[i].start + k]
      BY <1>2, <3>1, <3>2, <3>3, FileIs
    <3> QED BY <3>1, <3>4
  <2>2. content \in Seq(Byte)
    BY LengthOf, SeqMonotonic DEF Byte
  <2>3. \A k \in 1 .. Len(content) : FilesOf(page')[name][k] = content[k]
    BY <2>1, <1>9
  <2> QED BY <2>1, <2>2, <2>3, SeqEqual
<1>11. ASSUME NEW m \in DOMAIN FilesOf(page)
       PROVE  FilesOf(page')[m] = FilesOf(page)[m]
  <2>1. PICK j \in Indices : page.entries[j].name = m /\ m # Free
    BY NamesAre
  <2>2. j # i /\ page'.entries[j] = page.entries[j]
    BY <1>1, <1>4, <2>1
  <2>3. /\ FilesOf(page)[m] \in Seq(Byte)
        /\ Len(FilesOf(page)[m]) = page.entries[j].size
        /\ \A k \in 1 .. page.entries[j].size :
             /\ page.entries[j].start + k \in 1 .. MemorySize
             /\ FilesOf(page)[m][k] = page.memory[page.entries[j].start + k]
    BY <1>3, <2>1, FileIs
  <2>4. page'.entries[j].name = m
    BY <2>1, <2>2
  <2>5. /\ FilesOf(page')[m] \in Seq(Byte)
        /\ Len(FilesOf(page')[m]) = page'.entries[j].size
        /\ \A k \in 1 .. page'.entries[j].size :
             FilesOf(page')[m][k] = page'.memory[page'.entries[j].start + k]
    BY <1>3, <2>1, <2>4, FileIs
  <2>6. page.entries[j].start + page.entries[j].size <= used
    BY <1>3, <2>1 DEF Below, End
  <2>7. page.entries[j].start \in Nat /\ page.entries[j].size \in Nat
    BY <1>3, EntryTyped
  <2>8. \A k \in 1 .. page.entries[j].size : page.entries[j].start + k <= used
    BY <1>8, <2>6, <2>7
  <2>9. \A k \in 1 .. page.entries[j].size : FilesOf(page')[m][k] = FilesOf(page)[m][k]
    BY <1>9, <2>2, <2>3, <2>8, <2>5
  <2> QED BY <2>2, <2>3, <2>9, <2>5, SeqEqual
<1>12. FilesOf(page') = [m \in DOMAIN FilesOf(page') |-> FilesOf(page')[m]]
  BY NamesAre
<1> QED BY <1>6, <1>7, <1>10, <1>11, <1>12

\* A page written as far as n has all the files, each short of what lies behind n.
LEMMA WrittenFiles ==
  ASSUME IInv, NEW n \in Nat
  PROVE  \E k \in [DOMAIN FilesOf(page) -> Store!Lengths] :
           FilesOf(Written(n)) =
             [m \in DOMAIN FilesOf(page) |-> Store!Cut(FilesOf(page)[m], k[m])]
<1> DEFINE F == FilesOf(page)
           e(m) == page.entries[FindEntry(page, m)]
           cut(m) == IF n <= e(m).start THEN 0
                     ELSE IF n - e(m).start > e(m).size THEN e(m).size
                     ELSE n - e(m).start
           k == [m \in DOMAIN F |-> cut(m)]
           pg == Written(n)
<1>1. /\ WellFormed(pg)
      /\ pg.entries = page.entries
      /\ \A j \in 1 .. MemorySize :
           pg.memory[j] = IF j <= n THEN page.memory[j] ELSE Erased
  BY WrittenIs DEF IInv
<1>2. WellFormed(page) /\ used \in 0 .. MemorySize /\ Below(page.entries, used)
  BY DEF IInv
<1> HIDE DEF pg
<1>3. DOMAIN FilesOf(pg) = DOMAIN F
  <2>1. Named(pg) = Named(page)
    BY <1>1 DEF Named
  <2>2. /\ DOMAIN FilesOf(pg) = {pg.entries[j].name : j \in Named(pg)}
        /\ DOMAIN FilesOf(page) = {page.entries[j].name : j \in Named(page)}
    BY NamesAre
  <2> QED BY <1>1, <2>1, <2>2
<1>4. ASSUME NEW m \in DOMAIN F
      PROVE  cut(m) \in Store!Lengths /\ FilesOf(pg)[m] = Store!Cut(F[m], cut(m))
  <2>1. PICK i \in Indices : page.entries[i].name = m /\ m # Free
    BY NamesAre
  <2> DEFINE start == page.entries[i].start
             size == page.entries[i].size
             c == cut(m)
             cuts == Store!Cut(F[m], c)
  <2>2. e(m) = page.entries[i]
    BY <1>2, <2>1, EntryIs DEF WellFormed
  <2>3. start \in Nat /\ size \in Nat /\ size \in Length
    BY <1>2, <2>1, EntryTyped
  <2>4. c = IF n <= start THEN 0 ELSE IF n - start > size THEN size ELSE n - start
    BY <2>2
  <2> HIDE DEF c, e
  <2>5. /\ F[m] \in Seq(Byte) /\ Len(F[m]) = size
        /\ \A j \in 1 .. size : start + j \in 1 .. MemorySize /\ F[m][j] = page.memory[start + j]
    BY <1>2, <2>1, FileIs
  <2>6. /\ FilesOf(pg)[m] \in Seq(Byte) /\ Len(FilesOf(pg)[m]) = size
        /\ \A j \in 1 .. size : FilesOf(pg)[m][j] = pg.memory[start + j]
    BY <1>1, <1>2, <2>1, FileIs
  <2> HIDE DEF start, size, F
  <2>7. c \in 0 .. size /\ \A j \in 1 .. size : j <= c <=> start + j <= n
    BY <2>3, <2>4
  <2>8. cuts = [j \in 1 .. size |-> IF j <= c THEN F[m][j] ELSE Erased]
    BY <2>5 DEF Store!Cut
  <2>9. cuts \in Seq(Byte) /\ Len(cuts) = size
    <3>1. \A j \in 1 .. size : F[m][j] \in Byte
      BY <2>5, ElementOfSeq
    <3>2. cuts \in [1 .. size -> Byte]
      BY <2>8, <3>1 DEF Byte
    <3> HIDE DEF cuts
    <3>3. cuts \in Seq(Byte)
      BY <2>3, <3>2, SeqDef
    <3> QED BY <2>3, <3>2, <3>3, LenProperties
  <2>10. \A j \in 1 .. size : FilesOf(pg)[m][j] = cuts[j]
    <3> TAKE j \in 1 .. size
    <3>1. /\ cuts[j] = IF j <= c THEN page.memory[start + j] ELSE Erased
          /\ FilesOf(pg)[m][j] = pg.memory[start + j]
          /\ start + j \in 1 .. MemorySize
      BY <2>5, <2>6, <2>8
    <3>2. j <= c <=> start + j <= n
      BY <2>7
    <3> HIDE DEF cuts
    <3> QED BY <1>1, <3>1, <3>2
  <2>11. FilesOf(pg)[m] = cuts
    <3> HIDE DEF cuts
    <3> QED BY <2>6, <2>9, <2>10, SeqEqual
  <2>12. c \in Store!Lengths
    BY <2>3, <2>7 DEF Length, Store!Lengths
  <2> QED BY <2>11, <2>12 DEF c, F
<1> HIDE DEF cut
<1>5. k \in [DOMAIN F -> Store!Lengths]
  BY <1>4
<1>6. FilesOf(pg) = [m \in DOMAIN F |-> Store!Cut(F[m], k[m])]
  <2>1. FilesOf(pg) = [m \in DOMAIN FilesOf(pg) |-> FilesOf(pg)[m]]
    BY NamesAre
  <2> QED BY <1>3, <1>4, <2>1
<1> QED BY <1>5, <1>6 DEF pg

-----------------------------------------------------------------------------
(* The refinement.                                                          *)

\* Once the whole page is written, what is kept are the files.
LEMMA WrittenWhole ==
  ASSUME IInv
  PROVE  FilesOf(Written(MemorySize)) = FilesOf(page)
<1>1. page.memory \in Memory
  BY DEF IInv, WellFormed, Page
<1>2. Written(MemorySize).memory = page.memory
  BY <1>1, Sizes1 DEF Written, Memory
<1>3. Written(MemorySize).entries = page.entries
  BY DEF Written
<1> QED BY <1>2, <1>3 DEF FilesOf, Named, Contents, FindEntry

\* What Store has for its files.
Files == IF pc = "closed" THEN Kept ELSE FilesOf(page)

\* One action of the file system is a step of its promise, or leaves it as it is.
LEMMA StepImplements ==
  ASSUME IInv, IInv', [Next]_vars
  PROVE  [Store!Next]_(Store!vars)
<1> USE DEF Files
<1>1. Files = IF pc = "closed" THEN Kept ELSE FilesOf(page)
  OBVIOUS
<1>2. UNCHANGED flash => Kept' = Kept
  BY DEF Kept
<1>3. Kept = IF IsValid(flash) THEN FilesOf(flash) ELSE Store!Empty
  BY NoFiles DEF Kept
<1>4. CASE Open
  <2>1. pc = "closed" /\ pc' = "open" /\ UNCHANGED flash
    BY <1>4 DEF Open
  <2>2. Kept' = Kept
    BY <1>2, <2>1
  <2>3. CASE IsValid(flash) /\ page' = flash
    <3>1. Files' = Files
      BY <1>3, <2>1, <2>3
    <3> QED BY <2>1, <2>2, <3>1 DEF Store!vars, Files
  <2>4. CASE page' = BlankPage
    <3>1. Files' = Store!Empty
      BY <2>1, <2>4, NoFiles
    <3> QED BY <2>1, <2>2, <3>1 DEF Store!Next, Store!Format, Files
  <2> QED BY <1>4, <2>3, <2>4 DEF Open
<1>5. CASE Format
  <2>1. pc = "open" /\ pc' = "open" /\ Kept' = Kept
    BY <1>2, <1>5 DEF Format
  <2>2. Files' = Store!Empty
    BY <1>5, <2>1, NoFiles DEF Format
  <2> QED BY <2>1, <2>2 DEF Store!Next, Store!Format, Files
<1>6. CASE Close
  <2>1. pc = "open" /\ pc' = "closed" /\ Kept' = Kept
    BY <1>2, <1>6 DEF Close, Closed
  <2>2. Files' = Kept'
    BY <2>1
  <2> QED BY <2>1, <2>2 DEF Store!Next, Store!Lose, Files
<1>7. CASE Erase
  <2>1. pc = "open" /\ pc' = "erased" /\ UNCHANGED page /\ flash' = ErasedPage
    BY <1>7 DEF Erase
  <2>2. Files' = Files
    BY <2>1
  <2>3. Kept' = Store!Empty
    <3>1. ~IsValid(flash)'
      BY <2>1, BlankWellFormed
    <3> QED BY <3>1, NoFiles DEF Kept
  <2> QED BY <2>1, <2>2, <2>3 DEF Store!Next, Store!BeginWriteBack, Files
<1>8. CASE Write
  <2>1. pc = "erased" /\ pc' = "closed" /\ flash' = Written(MemorySize)
    BY <1>8 DEF Write, Closed
  <2>2. Kept' = FilesOf(page)
    <3>1. IsValid(flash')
      BY <2>1, WrittenValid, Sizes1
    <3>2. Kept' = FilesOf(flash')
      BY <3>1 DEF Kept
    <3> QED BY <2>1, <3>2, WrittenWhole
  <2>3. Files' = Files /\ Kept' = Files
    BY <2>1, <2>2
  <2> QED BY <2>1, <2>3 DEF Store!Next, Store!EndWriteBack, Files
<1>9. CASE WriteTorn
  <2>1. pc = "erased" /\ pc' = "closed" /\ Files' = Kept' /\ Files = FilesOf(page)
    BY <1>9 DEF WriteTorn, Closed
  <2>2. CASE UNCHANGED flash
    BY <1>2, <2>1, <2>2 DEF Store!Next, Store!Lose, Files
  <2>3. ASSUME NEW n \in 0 .. MemorySize - 1, flash' = Written(n)
        PROVE  Store!Lose
    <3>0. n \in Nat
      BY Sizes1
    <3>1. Kept' = FilesOf(Written(n))
      <4>1. IsValid(flash')
        BY <2>3, <3>0, WrittenValid
      <4>2. Kept' = FilesOf(flash')
        BY <4>1 DEF Kept
      <4> QED BY <2>3, <4>2
    <3>2. PICK k \in [DOMAIN Files -> Store!Lengths] :
            Kept' = [m \in DOMAIN Files |-> Store!Cut(Files[m], k[m])]
      BY <2>1, <3>0, <3>1, WrittenFiles
    <3> QED BY <2>1, <3>2 DEF Store!Lose, Files
  <2> QED BY <1>9, <2>2, <2>3 DEF WriteTorn, Store!Next
<1>10. ASSUME NEW name \in Name, NEW content \in Content,
              Overwrite(name, content) \/ Create(name, content)
       PROVE  Store!Write(name, content)
  <2>1. pc = "open" /\ pc' = "open" /\ Kept' = Kept
    BY <1>2, <1>10 DEF Overwrite, Create
  <2>2. Files = FilesOf(page) /\ Files' = FilesOf(page')
    BY <2>1
  <2>3. /\ name \in DOMAIN Files => Len(Files[name]) = Len(content)
        /\ Files' = [m \in DOMAIN Files \cup {name} |->
                       IF m = name THEN content ELSE Files[m]]
    <3> HIDE DEF Files
    <3>1. CASE Overwrite(name, content)
      <4>1. /\ name \in DOMAIN FilesOf(page) /\ Len(FilesOf(page)[name]) = Len(content)
            /\ FilesOf(page') = [m \in DOMAIN FilesOf(page) \cup {name} |->
                                   IF m = name THEN content ELSE FilesOf(page)[m]]
        BY <3>1, OverwriteFiles
      <4> QED BY <2>2, <4>1
    <3>2. CASE Create(name, content)
      <4>1. /\ name \notin DOMAIN FilesOf(page)
            /\ FilesOf(page') = [m \in DOMAIN FilesOf(page) \cup {name} |->
                                   IF m = name THEN content ELSE FilesOf(page)[m]]
        BY <3>2, CreateFiles
      <4> QED BY <2>2, <4>1
    <3> QED BY <1>10, <3>1, <3>2
  <2> QED BY <2>1, <2>3 DEF Store!Write, Files
<1>11. CASE UNCHANGED vars
  <2>1. UNCHANGED <<flash, page, pc>>
    BY <1>11 DEF vars
  <2>2. Kept' = Kept
    BY <1>2, <2>1
  <2> QED BY <2>1, <2>2 DEF Store!vars
<1> QED BY <1>4, <1>5, <1>6, <1>7, <1>8, <1>9, <1>10, <1>11 DEF Next, Store!Next

\* The file system keeps the promise of FileStore: a file is as it was last written, or gone
\* or cut short in the ways the promise names, whenever power fails or flash is refused.
THEOREM FileSystemImplements == Spec => ImplementsFileStore
<1>1. Init => Store!Init
  <2> SUFFICES ASSUME Init PROVE Store!Init
    OBVIOUS
  <2>1. Kept = Store!Empty
    BY BlankWellFormed, NoFiles DEF Kept, Init
  <2> QED BY <2>1 DEF Store!Init, Init
<1>2. IInv /\ IInv' /\ [Next]_vars => [Store!Next]_(Store!vars)
  BY StepImplements
<1> QED BY <1>1, <1>2, FileSystemInv, PTL DEF Spec, ImplementsFileStore
=============================================================================
