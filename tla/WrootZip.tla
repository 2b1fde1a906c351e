-------------------------------- MODULE WrootZip --------------------------------
(***************************************************************************)
(* inlib::wroot::file::compress_buffer and inlib::rroot::key::             *)
(* get_object_buffer: the bytes of an object or a basket are compressed in *)
(* chunks of at most MAXBUF bytes, each behind a header of HDRSIZE bytes   *)
(* that tells its two sizes; they are stored as they are if a chunk does   *)
(* not get smaller.  Nothing in the record says which was done: the reader *)
(* compares the two sizes in the key.                                      *)
(*                                                                         *)
(* zlib is external: deflate gives any size, or finds no room for it.  A   *)
(* chunk is described by where it starts in the object and how long it is. *)
(***************************************************************************)
EXTENDS Integers, Sequences

CONSTANTS
  MAXBUF,      \* kMAXBUF, 0xffffff
  HDRSIZE,     \* 9
  Smallest,    \* objects up to this size are not compressed, 256
  MaxBytes     \* bound: size of an object

ASSUME WrootZipAssumption ==
  /\ {MAXBUF, HDRSIZE} \subseteq Nat \ {0}
  /\ Smallest \in Nat /\ MaxBytes \in Nat \ {0} /\ HDRSIZE < MAXBUF

VARIABLES
  nbytes,     \* length of the object, fObjlen in its key
  i, nzip,    \* the loop of compress_buffer, the bytes it has passed
  target,     \* a_kbuf: the chunks compressed so far
  klen,       \* a_klen: bytes of the record behind the key
  raw,        \* does a_kbuf point to the object itself?
  stage,      \* "zip", "read", "read_chunks", "done", "refused" or "overrun"
  bufcur,     \* the reader: chunks taken from the record
  out,        \* the reader: the pieces of the object it got, in order
  noutot      \* the reader: their bytes

writeVars == <<i, nzip, target, klen, raw>>
vars == <<nbytes, writeVars, stage, bufcur, out, noutot>>

Init ==
  /\ nbytes \in 1..MaxBytes /\ i = 0 /\ nzip = 0 /\ target = <<>>
  /\ raw = (nbytes <= Smallest)
  /\ klen = IF raw THEN nbytes ELSE 0
  /\ stage = IF raw THEN "read" ELSE "zip"
  /\ bufcur = 0 /\ out = <<>> /\ noutot = 0

--------------------------------------------------------------------------------
(* compress_buffer *)

nbuffers == nbytes \div MAXBUF
buflen == nbytes + HDRSIZE * (nbuffers + 1)

AtLastChunk == i = nbuffers

\* The last chunk is what remains, and may be empty.  The mutant makes every
\* chunk MAXBUF bytes long.
BufmaxMutant == MAXBUF
Bufmax == IF AtLastChunk THEN nbytes - nzip ELSE MAXBUF

\* zip() gives deflate as much room as the chunk had bytes, and the header
\* must fit too.  The mutant forgets the header.
FitsMutant(size) == size <= Bufmax
Fits(size) == HDRSIZE <= Bufmax /\ HDRSIZE + size <= Bufmax

ZipChunk ==
  /\ stage = "zip"
  /\ \E size \in 1..MAXBUF :
       /\ Fits(size)
       /\ target' = Append(target, [from |-> nzip, length |-> Bufmax, size |-> size])
       /\ klen' = klen + HDRSIZE + size
  /\ stage' = IF AtLastChunk THEN "read" ELSE "zip"
  /\ i' = i + 1 /\ nzip' = nzip + MAXBUF
  /\ UNCHANGED <<nbytes, raw, bufcur, out, noutot>>

\* zip() returned false: the object is stored as it is.  The mutant keeps the
\* chunks that it has.
ZipFailsMutant ==
  /\ stage = "zip" /\ stage' = "read"
  /\ UNCHANGED <<nbytes, writeVars, bufcur, out, noutot>>
ZipFails ==
  /\ stage = "zip" /\ stage' = "read" /\ raw' = TRUE /\ target' = <<>> /\ klen' = nbytes
  /\ UNCHANGED <<nbytes, i, nzip, bufcur, out, noutot>>

--------------------------------------------------------------------------------
(* get_object_buffer *)

\* m_object_size <= m_nbytes - m_key_length
TakenAsRaw == nbytes <= klen

\* The bytes are taken as they are: those of the object, or of its chunks.
NoPlace == -1
ReadRaw ==
  /\ stage = "read" /\ TakenAsRaw /\ stage' = "done"
  /\ out' = <<[from |-> IF raw THEN 0 ELSE NoPlace, length |-> nbytes]>>
  /\ UNCHANGED <<nbytes, writeVars, bufcur, noutot>>

StartUnzip ==
  /\ stage = "read" /\ ~TakenAsRaw /\ stage' = "read_chunks"
  /\ UNCHANGED <<nbytes, writeVars, bufcur, out, noutot>>

\* unzip(): the loop ends when enough bytes came out.  Only their number ends
\* it: behind the last chunk it goes on with whatever lies behind the record,
\* and what comes of that is undefined.
StageAfter(total) ==
  CASE total = nbytes -> "done"
    [] total > nbytes -> "refused"
    [] total < nbytes -> IF bufcur + 1 = Len(target) THEN "overrun" ELSE stage

UnzipChunk ==
  /\ stage = "read_chunks" /\ bufcur < Len(target)
  /\ \E c \in {target[bufcur + 1]} :
       /\ out' = Append(out, [from |-> c.from, length |-> c.length])
       /\ noutot' = noutot + c.length
       /\ stage' = StageAfter(noutot')
  /\ bufcur' = bufcur + 1
  /\ UNCHANGED <<nbytes, writeVars>>

Next == ZipChunk \/ ZipFails \/ ReadRaw \/ StartUnzip \/ UnzipChunk

Spec == Init /\ [][Next]_vars /\ WF_vars(Next)

--------------------------------------------------------------------------------
(* Properties *)

Chunk == [from : Nat, length : Nat, size : 1..MAXBUF]

\* What the loops of the writer and the reader hold.
TypeOK ==
  /\ nbytes \in 1..MaxBytes /\ nzip \in Nat /\ klen \in Nat
  /\ i \in 0..nbuffers + (IF stage = "zip" THEN 0 ELSE 1)
  /\ raw \in BOOLEAN /\ stage \in {"zip", "read", "read_chunks", "done", "refused", "overrun"}
  /\ target \in Seq(Chunk)
  /\ bufcur \in 0..Len(target) /\ noutot \in Nat

\* deflate is given as much room as the chunk has bytes behind its header.
TargetFits == stage = "zip" => klen + HDRSIZE + Bufmax <= buflen

\* The buffer of the key was allocated for the uncompressed bytes.
NeverLarger == stage # "zip" => klen <= nbytes

\* Nothing is written or read past the end of a buffer: not by deflate into
\* the target (file::compress_buffer), nor when the compressed bytes are copied
\* to the key's buffer (directory::write_object, basket::write_on_file), nor by
\* the reader, whose loop does not know where the record ends.
BuffersSuffice == TargetFits /\ NeverLarger /\ stage # "overrun"

IsObject(pieces) ==
  /\ Len(pieces) > 0 /\ pieces[1].from = 0
  /\ pieces[Len(pieces)].from + pieces[Len(pieces)].length = nbytes
  /\ \A j \in 1..Len(pieces) - 1 : pieces[j + 1].from = pieces[j].from + pieces[j].length

\* What the reader accepts is the object: all of its bytes in order, for every
\* number of chunks and whatever deflate makes of them, except where the
\* compressed bytes are exactly as many as the uncompressed ones.
AcceptedIsObject == stage = "done" /\ (raw \/ klen # nbytes) => IsObject(out)

\* The reader accepts every record that the writer makes.
EveryRecordIsRead == <>(stage = "done")

\* "The Key class includes functions [...] to compress/uncompress data
\* buffers" (wroot/key:306-308): uncompressing gives what was compressed.
UncompressGivesTheObject == stage = "done" => IsObject(out)

================================================================================
