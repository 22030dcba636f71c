----------------------------- MODULE FileStore -----------------------------
(***************************************************************************)
(* What the simple file system promises: named files whose contents keep   *)
(* the length they were created with, and a copy of them that outlives the *)
(* power.  The copy is replaced as a whole; while that goes on power may   *)
(* fail, and then files may be gone or end in erased bytes.                *)
(***************************************************************************)
EXTENDS Sequences, Naturals

CONSTANTS
  Name,     \* names of files
  Content,  \* what may be written to one
  Erased    \* an erased byte of flash

VARIABLES
  files,    \* what a user of the file system reads
  kept,     \* what it will read after a restart
  writing   \* the copy is being replaced

vars == <<files, kept, writing>>

Empty == [n \in {} |-> << >>]

\* The first k bytes of a content, and erased ones behind.
Cut(content, k) == [i \in 1 .. Len(content) |-> IF i <= k THEN content[i] ELSE Erased]

Lengths == UNION {0 .. Len(content) : content \in Content}

Init == files = kept /\ kept = Empty /\ writing = FALSE

Write(n, content) ==
  /\ n \in DOMAIN files => Len(files[n]) = Len(content)
  /\ files' = [m \in DOMAIN files \cup {n} |-> IF m = n THEN content ELSE files[m]]
  /\ UNCHANGED <<kept, writing>>

\* Asked for, or because the copy could not be read.
Format ==
  /\ files' = Empty
  /\ UNCHANGED <<kept, writing>>

BeginWriteBack ==
  /\ ~writing
  /\ writing' = TRUE
  /\ kept' = Empty
  /\ UNCHANGED files

EndWriteBack ==
  /\ writing
  /\ writing' = FALSE
  /\ kept' = files
  /\ UNCHANGED files

\* Power fails, or the flash refuses: what is not in the copy is gone, and a copy that was
\* being replaced is gone too, or short of its ends.
Lose ==
  /\ \/ UNCHANGED kept
     \/ /\ writing
        /\ \E k \in [DOMAIN files -> Lengths] :
             kept' = [n \in DOMAIN files |-> Cut(files[n], k[n])]
  /\ files' = kept'
  /\ writing' = FALSE

Next ==
  \/ \E n \in Name, content \in Content : Write(n, content)
  \/ Format \/ BeginWriteBack \/ EndWriteBack \/ Lose

Spec == Init /\ [][Next]_vars
=============================================================================
