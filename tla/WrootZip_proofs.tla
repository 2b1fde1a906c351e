----------------------------- MODULE WrootZip_proofs -----------------------------
(***************************************************************************)
(* Proofs about WrootZip, for every chunk size, header size and object     *)
(* size: the buffers of compress_buffer are large enough, and what the     *)
(* reader accepts is the object.                                           *)
(*                                                                         *)
(* The argument: chunk j starts at byte (j - 1) * MAXBUF and all but the   *)
(* last are MAXBUF bytes long, so that the chunks of a finished loop cover *)
(* the object; and each became no larger than it was, header included, so  *)
(* that the bytes written never pass the bytes read.                       *)
(***************************************************************************)
EXTENDS WrootZip, TLAPS

--------------------------------------------------------------------------------
(* Arithmetic of the chunks *)

\* The quotient of a division: nbuffers whole chunks fit in the object.
LEMMA QuotientIsNat ==
  ASSUME NEW n \in Nat, NEW m \in Nat \ {0}
  PROVE  n \div m \in Nat /\ (n \div m) * m <= n
OBVIOUS

\* A chunk that is not the last ends before the last one starts.
LEMMA EarlierChunkEndsFirst ==
  ASSUME NEW j \in Nat, NEW n \in Nat, NEW m \in Nat, j < n
  PROVE  j * m \in Nat /\ n * m \in Nat /\ (j + 1) * m = j * m + m /\ j * m + m <= n * m
OBVIOUS

--------------------------------------------------------------------------------
(* The inductive invariant *)

\* Chunk k, counted from 0.
Start(k) == k * MAXBUF
ChunkLength(k) == IF k = nbuffers THEN nbytes - Start(nbuffers) ELSE MAXBUF

Piece == [from : Int, length : Nat]

InPlace(pieces) ==
  \A j \in 1..Len(pieces) : /\ pieces[j].from = Start(j - 1)
                            /\ pieces[j].length = ChunkLength(j - 1)

WriterInv ==
  /\ nzip = Start(i)
  /\ raw => klen = nbytes
  /\ stage = "zip" => ~raw /\ Len(target) = i /\ klen <= nzip
  /\ stage # "zip" /\ ~raw => Len(target) = nbuffers + 1 /\ klen <= nbytes
  /\ InPlace(target)

ReaderInv ==
  /\ out \in Seq(Piece)
  /\ stage \in {"zip", "read"} => bufcur = 0 /\ out = <<>> /\ noutot = 0
  /\ stage = "read_chunks" =>
       /\ ~raw /\ Len(out) = bufcur /\ bufcur <= nbuffers
       /\ noutot = Start(bufcur) /\ InPlace(out)
  /\ stage \notin {"refused", "overrun"}
  /\ AcceptedIsObject

IInv == TypeOK /\ WriterInv /\ ReaderInv

\* What the proofs use of the places of the chunks.
LEMMA Places ==
  ASSUME nbytes \in Nat
  PROVE  /\ nbuffers \in Nat /\ Start(0) = 0 /\ Start(nbuffers) <= nbytes
         /\ \A k \in Nat : Start(k) \in Nat /\ Start(k + 1) = Start(k) + MAXBUF
         /\ \A k \in Nat : k < nbuffers => Start(k) + MAXBUF <= Start(nbuffers)
         /\ \A k \in Nat : k <= nbuffers =>
              /\ ChunkLength(k) \in Nat /\ Start(k) + ChunkLength(k) <= nbytes
              /\ k < nbuffers => Start(k) + ChunkLength(k) = Start(k + 1)
              /\ k = nbuffers => Start(k) + ChunkLength(k) = nbytes
<1> MAXBUF \in Nat \ {0}
  BY WrootZipAssumption
<1>1. nbuffers \in Nat /\ Start(nbuffers) <= nbytes
  BY QuotientIsNat DEF nbuffers, Start
<1>2. \A k \in Nat : Start(k) \in Nat /\ Start(k + 1) = Start(k) + MAXBUF
  <2> TAKE k \in Nat
  <2> QED  BY EarlierChunkEndsFirst, k < k + 1 DEF Start
<1>3. \A k \in Nat : k < nbuffers => Start(k) + MAXBUF <= Start(nbuffers)
  BY <1>1, EarlierChunkEndsFirst DEF Start
<1>4. Start(0) = 0
  BY DEF Start
<1> HIDE DEF Start, nbuffers
<1>5. \A k \in Nat : k <= nbuffers =>
        /\ ChunkLength(k) \in Nat /\ Start(k) + ChunkLength(k) <= nbytes
        /\ k < nbuffers => Start(k) + ChunkLength(k) = Start(k + 1)
        /\ k = nbuffers => Start(k) + ChunkLength(k) = nbytes
  BY <1>1, <1>2, <1>3 DEF ChunkLength
<1> QED  BY <1>1, <1>2, <1>3, <1>4, <1>5

\* Pieces in place that end with the object are the object.
LEMMA CoverIsObject ==
  ASSUME nbytes \in Nat, NEW pieces \in Seq(Piece),
         Len(pieces) \in 1..nbuffers + 1, InPlace(pieces),
         Len(pieces) = nbuffers + 1 \/ Start(Len(pieces)) = nbytes
  PROVE  IsObject(pieces)
<1>0. nbuffers \in Nat /\ Len(pieces) \in Nat /\ Start(0) = 0
  BY Places
<1>1. \A j \in 1..Len(pieces) - 1 : pieces[j + 1].from = pieces[j].from + pieces[j].length
  <2> TAKE j \in 1..Len(pieces) - 1
  <2>1. j - 1 \in Nat /\ j - 1 < nbuffers /\ (j - 1) + 1 = j /\ (j + 1) - 1 = j
    BY <1>0
  <2>2. pieces[j].from = Start(j - 1) /\ pieces[j].length = ChunkLength(j - 1)
    BY DEF InPlace
  <2>3. pieces[j + 1].from = Start(j)
    BY <2>1 DEF InPlace
  <2> QED  BY <2>1, <2>2, <2>3, Places
<1>2. pieces[1].from = 0
  <2>1. 1 \in 1..Len(pieces) /\ 1 - 1 = 0
    BY <1>0
  <2>2. pieces[1].from = Start(1 - 1)
    BY <2>1 DEF InPlace
  <2> QED  BY <1>0, <2>1, <2>2
<1>3. pieces[Len(pieces)].from + pieces[Len(pieces)].length = nbytes
  <2> DEFINE k == Len(pieces) - 1
  <2>1. k \in Nat /\ k <= nbuffers /\ k + 1 = Len(pieces)
    BY <1>0
  <2>2. /\ pieces[Len(pieces)].from = Start(k)
        /\ pieces[Len(pieces)].length = ChunkLength(k)
    BY <1>0 DEF InPlace
  <2> HIDE DEF k
  <2>3. CASE k = nbuffers
    BY <2>1, <2>2, <2>3, Places
  <2>4. CASE k < nbuffers
    <3>1. Start(k + 1) = nbytes
      BY <1>0, <2>1, <2>4
    <3>2. Start(k) + ChunkLength(k) = Start(k + 1)
      BY <2>1, <2>4, Places
    <3> QED  BY <2>2, <3>1, <3>2
  <2> QED  BY <1>0, <2>1, <2>3, <2>4
<1> QED  BY <1>0, <1>1, <1>2, <1>3 DEF IsObject

\* A piece put behind the others is in its place (the loops of both sides).
LEMMA AppendInPlace ==
  ASSUME nbytes \in Nat, NEW T, NEW pieces \in Seq(T), NEW piece \in T, InPlace(pieces),
         piece.from = Start(Len(pieces)), piece.length = ChunkLength(Len(pieces))
  PROVE  InPlace(Append(pieces, piece))
<1> SUFFICES ASSUME NEW j \in 1..Len(pieces) + 1
             PROVE  /\ Append(pieces, piece)[j].from = Start(j - 1)
                    /\ Append(pieces, piece)[j].length = ChunkLength(j - 1)
  BY DEF InPlace
<1>1. CASE j \in 1..Len(pieces)
  BY <1>1 DEF InPlace
<1>2. CASE j = Len(pieces) + 1
  <2>1. Append(pieces, piece)[j] = piece /\ j - 1 = Len(pieces)
    BY <1>2
  <2> QED  BY <2>1
<1> QED  BY <1>1, <1>2

--------------------------------------------------------------------------------
(* The invariant is inductive *)

LEMMA InitInvariant == Init => IInv
<1> SUFFICES ASSUME Init PROVE IInv
  OBVIOUS
<1>0. MAXBUF \in Nat \ {0} /\ MaxBytes \in Nat
  BY WrootZipAssumption
<1>1. nbytes \in Nat /\ nbytes \in 1..MaxBytes /\ raw \in BOOLEAN
  BY <1>0 DEF Init
<1>2. nbuffers \in Nat /\ Start(0) = 0
  BY <1>1, Places
<1>3. TypeOK
  BY <1>0, <1>1, <1>2 DEF Init, TypeOK
<1>4. WriterInv
  BY <1>0, <1>1, <1>2 DEF Init, WriterInv, InPlace
<1>5. ReaderInv
  BY <1>1 DEF Init, ReaderInv, AcceptedIsObject
<1> QED  BY <1>3, <1>4, <1>5 DEF IInv

\* The bounds of the loop hold as long as the object's length stays.
LEMMA BoundsStay ==
  ASSUME nbytes' = nbytes
  PROVE  /\ nbuffers' = nbuffers
         /\ \A k \in Nat : ChunkLength(k)' = ChunkLength(k)
BY DEF nbuffers, ChunkLength, Start

LEMMA ZipChunkInvariant == IInv /\ ZipChunk => IInv'
<1> SUFFICES ASSUME IInv, ZipChunk PROVE IInv'
  OBVIOUS
<1> USE DEF IInv
<1>0. /\ MAXBUF \in Nat \ {0} /\ HDRSIZE \in Nat \ {0} /\ nbytes \in Nat /\ i \in Nat
      /\ nzip \in Nat /\ klen \in Nat /\ nbuffers \in Nat
      /\ stage = "zip" /\ nbytes' = nbytes /\ i <= nbuffers
  BY WrootZipAssumption, Places DEF TypeOK, ZipChunk
<1>1. PICK size \in 1..MAXBUF :
        /\ Fits(size)
        /\ target' = Append(target, [from |-> nzip, length |-> Bufmax, size |-> size])
        /\ klen' = klen + HDRSIZE + size
  BY DEF ZipChunk
<1>2. /\ Len(target) = i /\ nzip = Start(i) /\ ~raw /\ klen <= nzip
      /\ InPlace(target) /\ bufcur = 0 /\ out = <<>> /\ noutot = 0
  BY <1>0 DEF WriterInv, ReaderInv
<1>3. Bufmax = ChunkLength(i) /\ Bufmax \in Nat /\ nzip + Bufmax <= nbytes
  <2>1. Bufmax = ChunkLength(i)
    BY <1>2 DEF Bufmax, AtLastChunk, ChunkLength
  <2> QED  BY <1>0, <1>2, <2>1, Places
<1> DEFINE chunk == [from |-> nzip, length |-> Bufmax, size |-> size]
<1>4. chunk \in Chunk /\ target \in Seq(Chunk) /\ target' = Append(target, chunk)
  BY <1>0, <1>1, <1>3 DEF TypeOK, Chunk
<1> HIDE DEF chunk
<1>5. target' \in Seq(Chunk) /\ Len(target') = i + 1 /\ InPlace(target')
  <2>1. chunk.from = Start(Len(target)) /\ chunk.length = ChunkLength(Len(target))
    BY <1>2, <1>3 DEF chunk
  <2>2. InPlace(Append(target, chunk))
    BY <1>0, <1>2, <1>4, <2>1, AppendInPlace
  <2> QED  BY <1>2, <1>4, <2>2
<1>6. klen' \in Nat /\ klen' <= nzip + Bufmax
  BY <1>0, <1>1, <1>2, <1>3 DEF Fits
<1>7. /\ i' = i + 1 /\ nzip' = nzip + MAXBUF /\ raw' = raw /\ out' = out
      /\ bufcur' = bufcur /\ noutot' = noutot
      /\ stage' = IF i = nbuffers THEN "read" ELSE "zip"
  BY DEF ZipChunk, AtLastChunk
<1>8. nbuffers' = nbuffers /\ nzip' = Start(i')
  BY <1>0, <1>2, <1>7, BoundsStay, Places
<1>9. InPlace(target)'
  <2>1. \A j \in 1..Len(target') : j - 1 \in Nat
    BY <1>0, <1>5
  <2> QED  BY <1>0, <1>5, <2>1, BoundsStay DEF InPlace, Start
<1>10. TypeOK'
  <2>1. i' \in 0..nbuffers' + (IF stage' = "zip" THEN 0 ELSE 1)
    BY <1>0, <1>7, <1>8
  <2> QED  BY <1>0, <1>2, <1>5, <1>6, <1>7, <2>1 DEF TypeOK
<1>11. i # nbuffers => klen' <= nzip'
  BY <1>0, <1>6, <1>7 DEF Bufmax, AtLastChunk
<1>12. WriterInv'
  BY <1>0, <1>2, <1>3, <1>5, <1>6, <1>7, <1>8, <1>9, <1>11 DEF WriterInv
<1>13. ReaderInv'
  BY <1>2, <1>7 DEF ReaderInv, AcceptedIsObject
<1> QED  BY <1>10, <1>12, <1>13

LEMMA ZipFailsInvariant == IInv /\ ZipFails => IInv'
<1> SUFFICES ASSUME IInv, ZipFails PROVE IInv'
  OBVIOUS
<1> USE DEF IInv
<1>1. nbuffers' = nbuffers /\ nbytes \in Nat /\ nbuffers \in Nat
  BY BoundsStay, Places DEF ZipFails, TypeOK
<1>2. TypeOK'
  <2>1. bufcur = 0 /\ i \in 0..nbuffers + 1
    BY <1>1 DEF ZipFails, ReaderInv, TypeOK
  <2>2. bufcur' \in 0..Len(target')
    BY <2>1 DEF ZipFails
  <2> QED  BY <1>1, <2>1, <2>2 DEF ZipFails, TypeOK
<1>3. WriterInv'
  BY <1>1 DEF ZipFails, WriterInv, InPlace, Start
<1>4. ReaderInv'
  BY DEF ZipFails, ReaderInv, AcceptedIsObject
<1> QED  BY <1>2, <1>3, <1>4

\* The reader changes nothing of the record.
LEMMA RecordStays ==
  ASSUME TypeOK, WriterInv, UNCHANGED <<nbytes, writeVars>>, stage # "zip", stage' # "zip"
  PROVE  nbuffers' = nbuffers /\ WriterInv'
<1>1. nbuffers' = nbuffers /\ nbytes' = nbytes
  BY BoundsStay
<1>2. InPlace(target)'
  <2>1. target' = target /\ target \in Seq(Chunk)
    BY DEF TypeOK, writeVars
  <2>2. \A j \in 1..Len(target) : j - 1 \in Nat
    BY <2>1
  <2> QED  BY <1>1, <2>1, <2>2, BoundsStay DEF InPlace, Start, WriterInv
<1> QED  BY <1>1, <1>2 DEF WriterInv, writeVars, Start

LEMMA ReadRawInvariant == IInv /\ ReadRaw => IInv'
<1> SUFFICES ASSUME IInv, ReadRaw PROVE IInv'
  OBVIOUS
<1> USE DEF IInv
<1>1. nbuffers' = nbuffers /\ WriterInv' /\ nbytes \in Nat /\ nbytes' = nbytes
  BY RecordStays DEF ReadRaw, TypeOK
<1>2. TypeOK'
  BY <1>1, Places DEF ReadRaw, TypeOK, writeVars
<1>3. AcceptedIsObject'
  <2> SUFFICES ASSUME raw \/ klen # nbytes PROVE IsObject(out)'
    BY <1>1 DEF ReadRaw, AcceptedIsObject, writeVars
  <2>1. raw
    BY <1>1 DEF ReadRaw, TakenAsRaw, WriterInv, TypeOK
  <2>2. out' = <<[from |-> 0, length |-> nbytes]>>
    BY <2>1 DEF ReadRaw
  <2> QED  BY <1>1, <2>2 DEF IsObject
<1>4. ReaderInv'
  <2>1. out' \in Seq(Piece)
    BY <1>1 DEF ReadRaw, NoPlace, Piece
  <2> QED  BY <1>3, <2>1 DEF ReadRaw, ReaderInv
<1> QED  BY <1>1, <1>2, <1>4

LEMMA StartUnzipInvariant == IInv /\ StartUnzip => IInv'
<1> SUFFICES ASSUME IInv, StartUnzip PROVE IInv'
  OBVIOUS
<1> USE DEF IInv
<1>1. nbuffers' = nbuffers /\ WriterInv' /\ nbytes \in Nat /\ nbytes' = nbytes
  BY RecordStays DEF StartUnzip, TypeOK
<1>2. TypeOK'
  BY <1>1 DEF StartUnzip, TypeOK, writeVars
<1>3. ~raw /\ bufcur = 0 /\ out = <<>> /\ noutot = Start(0) /\ 0 <= nbuffers
  <2>1. ~raw
    BY <1>1 DEF StartUnzip, TakenAsRaw, WriterInv
  <2> QED  BY <1>1, <2>1, Places DEF StartUnzip, ReaderInv
<1>4. ReaderInv'
  BY <1>1, <1>3 DEF StartUnzip, ReaderInv, AcceptedIsObject, InPlace, writeVars, Start
<1> QED  BY <1>1, <1>2, <1>4

LEMMA UnzipChunkInvariant == IInv /\ UnzipChunk => IInv'
<1> SUFFICES ASSUME IInv, UnzipChunk PROVE IInv'
  OBVIOUS
<1> USE DEF IInv
<1>0. /\ MAXBUF \in Nat \ {0} /\ nbytes \in Nat /\ bufcur \in Nat /\ noutot \in Nat
      /\ nbuffers \in Nat /\ bufcur <= nbuffers /\ stage = "read_chunks" /\ ~raw
  BY WrootZipAssumption, Places DEF TypeOK, UnzipChunk, ReaderInv
<1>1. /\ Len(target) = nbuffers + 1 /\ InPlace(target) /\ Len(out) = bufcur
      /\ noutot = Start(bufcur) /\ InPlace(out) /\ out \in Seq(Piece)
      /\ target \in Seq(Chunk)
  BY <1>0 DEF WriterInv, ReaderInv, TypeOK
<1> DEFINE c     == target[bufcur + 1]
           piece == [from |-> c.from, length |-> c.length]
<1>2. /\ out' = Append(out, piece) /\ noutot' = noutot + c.length
      /\ stage' = StageAfter(noutot')
      /\ bufcur' = bufcur + 1 /\ UNCHANGED <<nbytes, writeVars>>
  BY DEF UnzipChunk
<1>3. /\ c.from = Start(bufcur) /\ c.length = ChunkLength(bufcur)
      /\ c.from \in Int /\ c.length \in Nat
  <2>1. bufcur + 1 \in 1..Len(target) /\ (bufcur + 1) - 1 = bufcur
    BY <1>0, <1>1
  <2>2. c.from = Start(bufcur) /\ c.length = ChunkLength(bufcur)
    BY <1>1, <2>1 DEF InPlace
  <2>3. c \in Chunk
    BY <1>1, <2>1
  <2> QED  BY <2>2, <2>3 DEF Chunk
<1> HIDE DEF c
<1>4. piece \in Piece
  BY <1>3 DEF Piece
<1>5. piece.from = Start(Len(out)) /\ piece.length = ChunkLength(Len(out))
  BY <1>1, <1>3
<1> HIDE DEF piece
<1>6. /\ out' \in Seq(Piece) /\ Len(out') = bufcur + 1
      /\ InPlace(out')
  <2>1. InPlace(Append(out, piece))
    BY <1>0, <1>1, <1>4, <1>5, AppendInPlace
  <2> QED  BY <1>1, <1>2, <1>4, <2>1
<1>7. /\ noutot' \in Nat /\ noutot' <= nbytes
      /\ bufcur < nbuffers => noutot' = Start(bufcur + 1)
      /\ bufcur = nbuffers => noutot' = nbytes
  <2>1. noutot' = Start(bufcur) + ChunkLength(bufcur)
    BY <1>1, <1>2, <1>3
  <2>2. /\ Start(bufcur) \in Nat /\ ChunkLength(bufcur) \in Nat
        /\ Start(bufcur) + ChunkLength(bufcur) <= nbytes
        /\ bufcur < nbuffers => Start(bufcur) + ChunkLength(bufcur) = Start(bufcur + 1)
        /\ bufcur = nbuffers => Start(bufcur) + ChunkLength(bufcur) = nbytes
    BY <1>0, Places
  <2> QED  BY <2>1, <2>2
<1>8. nbuffers' = nbuffers /\ nbytes' = nbytes /\ WriterInv'
  <2>1. stage' # "zip"
    BY <1>0, <1>2, <1>7 DEF StageAfter
  <2> QED  BY <1>0, <1>2, <2>1, RecordStays
<1>9. InPlace(out)'
  <2>1. \A j \in 1..Len(out') : j - 1 \in Nat
    BY <1>0, <1>6
  <2> QED  BY <1>6, <1>8, <2>1, BoundsStay DEF InPlace, Start
<1>10. \/ stage' = "read_chunks" /\ bufcur < nbuffers
       \/ stage' = "done" /\ (bufcur = nbuffers \/ Start(bufcur + 1) = nbytes)
  <2>1. CASE bufcur = nbuffers
    BY <1>0, <1>1, <1>2, <1>7, <2>1 DEF StageAfter
  <2>2. CASE bufcur < nbuffers
    <3>1. bufcur + 1 # Len(target) /\ noutot' = Start(bufcur + 1)
      BY <1>0, <1>1, <1>7, <2>2
    <3>2. noutot' >= nbytes => noutot' = nbytes
      BY <1>0, <1>7
    <3> QED  BY <1>0, <1>2, <1>7, <2>2, <3>1, <3>2 DEF StageAfter
  <2> QED  BY <1>0, <2>1, <2>2
<1>11. TypeOK'
  <2>1. target' = target /\ bufcur' \in 0..Len(target')
    BY <1>0, <1>1, <1>2 DEF writeVars
  <2> QED  BY <1>0, <1>2, <1>7, <1>8, <1>10, <2>1 DEF TypeOK, writeVars
<1>12. AcceptedIsObject'
  <2> SUFFICES ASSUME stage' = "done" PROVE IsObject(out)'
    BY DEF AcceptedIsObject
  <2>1. Len(out') \in 1..nbuffers + 1
    BY <1>0, <1>6
  <2>2. Len(out') = nbuffers + 1 \/ Start(Len(out')) = nbytes
    BY <1>6, <1>10
  <2>3. IsObject(out')
    BY <1>0, <1>6, <2>1, <2>2, CoverIsObject
  <2> QED  BY <1>8, <2>3 DEF IsObject
<1>13. ReaderInv'
  <2>1. stage' = "read_chunks" =>
          /\ ~raw' /\ Len(out') = bufcur' /\ bufcur' <= nbuffers'
          /\ noutot' = Start(bufcur')
    BY <1>0, <1>2, <1>6, <1>7, <1>8, <1>10 DEF writeVars
  <2>2. (stage' = "read_chunks" => noutot' = Start(bufcur)')
    BY <2>1 DEF Start
  <2> QED  BY <1>6, <1>9, <1>10, <1>12, <2>1, <2>2 DEF ReaderInv
<1> QED  BY <1>8, <1>11, <1>13

LEMMA StutterInvariant == IInv /\ UNCHANGED vars => IInv'
<1> SUFFICES ASSUME IInv, UNCHANGED vars PROVE IInv'
  OBVIOUS
<1> USE DEF IInv, vars, writeVars
<1>1. nbuffers' = nbuffers
  BY BoundsStay
<1>2. TypeOK'
  BY <1>1 DEF TypeOK
<1>3. WriterInv'
  BY <1>1 DEF WriterInv, InPlace, ChunkLength, Start
<1>4. ReaderInv'
  BY <1>1 DEF ReaderInv, InPlace, ChunkLength, Start, AcceptedIsObject, IsObject
<1> QED  BY <1>2, <1>3, <1>4

LEMMA NextInvariant == IInv /\ [Next]_vars => IInv'
BY ZipChunkInvariant, ZipFailsInvariant, ReadRawInvariant, StartUnzipInvariant,
   UnzipChunkInvariant, StutterInvariant DEF Next

\* The writer's two promises about its buffers follow.
LEMMA BuffersAreLargeEnough == IInv => BuffersSuffice
<1> SUFFICES ASSUME IInv PROVE TargetFits /\ NeverLarger /\ stage # "overrun"
  BY DEF BuffersSuffice
<1> USE DEF IInv
<1>0. /\ HDRSIZE \in Nat /\ nbytes \in Nat /\ nbuffers \in Nat /\ i \in Nat /\ nzip \in Nat
      /\ klen \in Nat /\ MAXBUF \in Nat
  <2>1. nbytes \in Nat /\ nbuffers \in Nat
    BY Places DEF TypeOK
  <2> QED  BY WrootZipAssumption, <2>1 DEF TypeOK
<1>1. nbytes + HDRSIZE <= buflen
  <2>1. (nbuffers + 1) * HDRSIZE = nbuffers * HDRSIZE + HDRSIZE /\ nbuffers * HDRSIZE \in Nat
    BY <1>0, EarlierChunkEndsFirst, nbuffers < nbuffers + 1
  <2>2. HDRSIZE * (nbuffers + 1) = (nbuffers + 1) * HDRSIZE
    BY <1>0
  <2> QED  BY <1>0, <2>1, <2>2 DEF buflen
<1>2. TargetFits
  <2> SUFFICES ASSUME stage = "zip" PROVE klen + HDRSIZE + Bufmax <= buflen
    BY DEF TargetFits
  <2>1. nzip = Start(i) /\ klen <= nzip /\ i <= nbuffers
    BY <1>0 DEF WriterInv, TypeOK
  <2>2. Bufmax = ChunkLength(i)
    BY <2>1 DEF Bufmax, AtLastChunk, ChunkLength
  <2>3. Bufmax \in Nat /\ nzip + Bufmax <= nbytes
    BY <1>0, <2>1, <2>2, Places
  <2>4. buflen \in Int
    BY <1>0 DEF buflen
  <2> QED  BY <1>0, <1>1, <2>1, <2>3, <2>4
<1>3. NeverLarger
  BY <1>0 DEF NeverLarger, WriterInv
<1>4. stage # "overrun"
  BY DEF ReaderInv
<1> QED  BY <1>2, <1>3, <1>4

--------------------------------------------------------------------------------
(* The theorems *)

LEMMA InvariantHolds == Spec => []IInv
BY InitInvariant, NextInvariant, PTL DEF Spec

\* The counters and the chunks of file::compress_buffer and of
\* key::get_object_buffer keep their types.
THEOREM TypeCorrect == Spec => []TypeOK
BY InvariantHolds, PTL DEF IInv

\* Neither the buffer that compress_buffer allocates nor that of the key is
\* ever too small, whatever the sizes of the object and of its chunks, and the
\* loop of get_object_buffer ends before the record does.
THEOREM NothingOverflows == Spec => []BuffersSuffice
BY InvariantHolds, BuffersAreLargeEnough, PTL

\* get_object_buffer gives back the object that compress_buffer was given, or
\* the two sizes in the key are equal though the bytes are compressed.
THEOREM ReaderGetsTheObject == Spec => []AcceptedIsObject
BY InvariantHolds, PTL DEF IInv, ReaderInv

\* Decompression never fails on a record that compress_buffer made.
THEOREM NeverRefused == Spec => [](stage # "refused")
<1>1. IInv => stage # "refused"
  BY DEF IInv, ReaderInv
<1> QED  BY <1>1, InvariantHolds, PTL

================================================================================
