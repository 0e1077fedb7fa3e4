--------------------------- MODULE BlockIterator ---------------------------
(***************************************************************************)
(* The chunks of a file: BlockIterator of tema1/client/src/file/mod.rs,    *)
(* which every transport drives.  The data is its length; an iterator is   *)
(* the position current_pos.                                               *)
(***************************************************************************)
EXTENDS Naturals

\* next returns Some: the position is before the end of the data.
HasNext(pos, len) == pos < len

\* Where the chunk that starts at pos ends, and where the next one starts.
ChunkEnd(pos, block, len) == IF pos + block < len THEN pos + block ELSE len

\* What the iterator is for, by counting: len bytes in blocks of block bytes.
NumChunks(len, block) == (len + block - 1) \div block

=============================================================================
