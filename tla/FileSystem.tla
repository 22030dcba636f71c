----------------------------- MODULE FileSystem -----------------------------
(***************************************************************************)
(* CSimpleFileSystem (hb_homekit.h, hb_homekit.cpp) on a page of flash     *)
(* (homekit_storage_common_read and _write, storage.c).  An instance reads *)
(* the whole page when it is made, works on its copy and writes the page   *)
(* back when it is destroyed: erase, then write from the front.  Power may *)
(* fail between and within the two, and every call of the flash may fail.  *)
(***************************************************************************)
EXTENDS Integers, Sequences

CONSTANTS
  Name,             \* the names of files that are used
  Unit,             \* what a byte of a file may be
  Sizes,            \* the sizes of files that are used
  MaxTableEntries,
  MemorySize,       \* sizeof(CPage::Memory)
  Free, Erased, Zero    \* the name of an unused entry; erased and zeroed bytes

\* With files of size 0 an entry could start behind the memory, and the page be refused.
ASSUME FileAssumption ==
  /\ Sizes \subseteq Nat \ {0}
  /\ MaxTableEntries \in Nat \ {0} /\ MemorySize \in Nat \ {0}
  /\ Free \notin Name /\ Erased \notin Unit

VARIABLES
  flash,    \* the page in flash: [crc, entries, memory]
  page,     \* mPage
  used,     \* mUsedMemorySize
  dirty,    \* mWriteBackNeeded
  pc        \* "closed", "open", or "erased" in the middle of a write-back

vars == <<flash, page, used, dirty, pc>>

Entry == [name : Name \cup {Free}, start : 0 .. MemorySize, size : 0 .. MemorySize]
Content == UNION {[1 .. s -> Unit] : s \in Sizes}

NoEntry == [name |-> Free, start |-> 0, size |-> 0]
Indices == 1 .. MaxTableEntries

\* The check sum stands for the table it is of; torn is that of no table.
Torn == << >>
ErasedPage ==
  [crc |-> Torn, entries |-> [i \in Indices |-> NoEntry],
   memory |-> [k \in 1 .. MemorySize |-> Erased]]

BlankPage ==
  [crc |-> Torn, entries |-> [i \in Indices |-> NoEntry],
   memory |-> [k \in 1 .. MemorySize |-> Zero]]

-----------------------------------------------------------------------------

\* FindEntry: the first entry of that name, 0 if there is none.
FindEntry(pg, name) ==
  LET found == {i \in Indices : pg.entries[i].name = name}
  IN  IF found = {} THEN 0 ELSE CHOOSE i \in found : \A j \in found : i <= j

End(e) == e.start + e.size

\* ReadPage: the page is accepted.
IsValid(pg) ==
  /\ pg.crc = pg.entries
  /\ \A i \in Indices : pg.entries[i].start < MemorySize /\ End(pg.entries[i]) <= MemorySize

\* A wrong UsedBy: as far as the file of the last entry.
UsedByLast(pg) ==
  LET last == {i \in Indices : pg.entries[i].name # Free}
  IN  IF last = {} THEN 0 ELSE End(pg.entries[CHOOSE i \in last : \A j \in last : i <= j])

UsedBy(pg) == CHOOSE n \in {End(pg.entries[i]) : i \in Indices} :
                 \A i \in Indices : End(pg.entries[i]) <= n

\* ReadFile.
Contents(pg, i) == SubSeq(pg.memory, pg.entries[i].start + 1, End(pg.entries[i]))

\* memcpy to the memory of a page.
Copied(memory, start, content) ==
  [k \in 1 .. MemorySize |->
     IF k > start /\ k <= start + Len(content) THEN content[k - start] ELSE memory[k]]

-----------------------------------------------------------------------------

Init ==
  /\ flash = ErasedPage
  /\ page = BlankPage /\ used = 0 /\ dirty = FALSE
  /\ pc = "closed"

\* Constructor: ReadPageOrFormat.
Open ==
  /\ pc = "closed"
  /\ pc' = "open"
  /\ \/ /\ IsValid(flash)
        /\ page' = flash /\ used' = UsedBy(flash) /\ dirty' = FALSE
     \/ \* the page is refused, or cannot be read
        page' = BlankPage /\ used' = 0 /\ dirty' = TRUE
  /\ UNCHANGED flash

\* A wrong Overwrite: a file of another size is written over in place.
OverwriteAnySize(name, content) ==
  LET i == FindEntry(page, name)
      e == page.entries[i]
  IN  /\ pc = "open" /\ i # 0
      /\ page' = [page EXCEPT !.memory = Copied(@, e.start, content)]
      /\ dirty' = (dirty \/ page' # page)
      /\ UNCHANGED <<flash, used, pc>>

\* WriteFile of a file that is there.
Overwrite(name, content) ==
  LET i == FindEntry(page, name)
      e == page.entries[i]
  IN  /\ pc = "open" /\ i # 0
      /\ e.size = Len(content)
      /\ page' = [page EXCEPT !.memory = Copied(@, e.start, content)]
      /\ dirty' = (dirty \/ page' # page)
      /\ UNCHANGED <<flash, used, pc>>

\* A wrong HasRoom: one byte more than there is.
RoomToSpare(size) == size <= MemorySize - used + 1

HasRoom(size) == size <= MemorySize - used

\* WriteFile of a new one, in the first unused entry.
Create(name, content) ==
  LET i == FindEntry(page, Free)
  IN  /\ pc = "open" /\ FindEntry(page, name) = 0 /\ i # 0
      /\ HasRoom(Len(content))
      /\ page' = [page EXCEPT
           !.entries[i] = [name |-> name, start |-> used, size |-> Len(content)],
           !.memory = Copied(@, used, content)]
      /\ used' = used + Len(content)
      /\ dirty' = TRUE
      /\ UNCHANGED <<flash, pc>>

Format ==
  /\ pc = "open"
  /\ page' = BlankPage /\ used' = 0 /\ dirty' = TRUE
  /\ UNCHANGED <<flash, pc>>

Closed == page' = BlankPage /\ used' = 0 /\ dirty' = FALSE /\ pc' = "closed"

\* Destructor with nothing to write back; or one whose flash refuses to be erased, which drops
\* mWriteBackNeeded all the same; or power fails.
Close ==
  /\ pc = "open"
  /\ Closed
  /\ UNCHANGED flash

\* Destructor, Sync, WritePage: the sector is erased ...
Erase ==
  /\ pc = "open" /\ dirty
  /\ flash' = ErasedPage
  /\ pc' = "erased"
  /\ UNCHANGED <<page, used, dirty>>

\* ... and the page is written, from its front, as far as the power lasts: no more than a
\* part of the table, or the table and n bytes of the memory.
Written(n) ==
  [crc |-> page.entries, entries |-> page.entries,
   memory |-> [k \in 1 .. MemorySize |-> IF k <= n THEN page.memory[k] ELSE Erased]]

Write ==
  /\ pc = "erased"
  /\ flash' = Written(MemorySize)
  /\ Closed

WriteTorn ==
  /\ pc = "erased"
  /\ \/ UNCHANGED flash
     \/ \E n \in 0 .. MemorySize - 1 : flash' = Written(n)
  /\ Closed

Next ==
  \/ Open \/ Format \/ Close \/ Erase \/ Write \/ WriteTorn
  \/ \E name \in Name, content \in Content : Overwrite(name, content) \/ Create(name, content)

Spec == Init /\ [][Next]_vars
-----------------------------------------------------------------------------

TypeOK ==
  /\ page.entries \in [Indices -> Entry]
  /\ page.memory \in [1 .. MemorySize -> Unit \cup {Erased, Zero}]
  /\ used \in 0 .. MemorySize /\ dirty \in BOOLEAN
  /\ pc \in {"closed", "open", "erased"}

Named(pg) == {i \in Indices : pg.entries[i].name # Free}

\* However often it is written and power lost, the table names a file once, and two files
\* never share a byte; what is free lies behind them all.
TableOK ==
  \A i \in Named(page) :
    /\ End(page.entries[i]) <= used
    /\ \A j \in Named(page) \ {i} :
         /\ page.entries[i].name # page.entries[j].name
         /\ \/ End(page.entries[i]) <= page.entries[j].start
            \/ End(page.entries[j]) <= page.entries[i].start

FilesOf(pg) ==
  [n \in {pg.entries[i].name : i \in Named(pg)} |-> Contents(pg, FindEntry(pg, n))]

Kept == IF IsValid(flash) THEN FilesOf(flash) ELSE FilesOf(BlankPage)

Store == INSTANCE FileStore WITH
  files <- IF pc = "closed" THEN Kept ELSE FilesOf(page),
  kept <- Kept,
  writing <- pc = "erased"

\* The files are those last written, in their order, or gone in the ways the promise names.
ImplementsFileStore == Store!Init /\ [][Store!Next]_(Store!vars)
=============================================================================
