-------------------------------- MODULE BootCode --------------------------------
(* The functions of the boot server: the CRC and the whitening of the boot        *)
(* protocol (hub/boot_proto.go), the reading of Intel hex files (hub/boot_data.go)*)
(* and the cutting of the software into the chunks a node asks for.  Sizes are     *)
(* constants, so that their limits are within reach of small inputs.              *)
EXTENDS Integers, Sequences, SequencesExt, FiniteSetsExt

CONSTANTS
  Word,    \* 2^16: the address space of a hex file and the range of uint16
  Chunk,   \* BOOT_DATA_MAX (64)
  Round    \* BOOT_SIZE_ROUND (16)

ASSUME BootCodeAssumption ==
  /\ Word \in Nat \ {0} /\ Chunk \in Nat \ {0} /\ Round \in Nat \ {0}
  /\ Word % Chunk = 0 /\ Chunk % Round = 0

-----------------------------------------------------------------------------
(* A byte or a word is the set of the numbers of its bits that are 1.      *)

Place == <<1, 2, 4, 8, 16, 32, 64, 128, 256, 512, 1024, 2048, 4096, 8192, 16384, 32768>>

Bits(n) == {i \in 0 .. 15 : (n \div Place[i + 1]) % 2 = 1}

Nibbles == SUBSET (0 .. 3)
Bytes == SUBSET (0 .. 7)
Words == SUBSET (0 .. 15)

Ones == 0 .. 15   \* 0xFFFF

Xor(x, y) == (x \ y) \cup (y \ x)

\* x >> n
Shift(x, n) == {i - n : i \in {j \in x : j >= n}}

\* x & 0x0F
Low(x) == x \cap (0 .. 3)

-----------------------------------------------------------------------------
(* CRC-16, four bits at a time.                                            *)

crcValues == <<0, 52225, 55297, 5120, 61441, 15360, 10240, 58369,
               40961, 27648, 30720, 46081, 20480, 39937, 34817, 17408>>

\* The number of a nibble, and the table.
Number(m) == CHOOSE n \in 0 .. 15 : Bits(n) = m
crcTable == [m \in Nibbles |-> Bits(crcValues[Number(m) + 1])]

BugNibble(crc, m) == Xor(Xor(Shift(crc, 4), crcTable[Low(crc)]), crcTable[(0 .. 3) \ m])
Nibble(crc, m) == Xor(Xor(Shift(crc, 4), crcTable[Low(crc)]), crcTable[m])

CrcByte(crc, b) == Nibble(Nibble(crc, Low(b)), Shift(b, 4))

Crc16(sw) ==
  LET crc[n \in 0 .. Len(sw)] == IF n = 0 THEN Ones ELSE CrcByte(crc[n - 1], sw[n])
  IN crc[Len(sw)]

\* The reference implementation: one bit at a time.
Bit(crc) == IF 0 \in crc THEN Xor(Shift(crc, 1), Bits(40961)) ELSE Shift(crc, 1)
FourBits(crc) == Bit(Bit(Bit(Bit(crc))))

CrcByteb(crc, b) == FourBits(FourBits(Xor(crc, b)))

Crc16b(sw) ==
  LET crc[n \in 0 .. Len(sw)] == IF n = 0 THEN Ones ELSE CrcByteb(crc[n - 1], sw[n])
  IN crc[Len(sw)]

-----------------------------------------------------------------------------
(* Hex files.  A record is a data record, one of another type, or broken   *)
(* (digits, length, checksum).  The bytes of the n-th record are          *)
(* Byte(n, i).                                                             *)

Byte(n, i) == Bits((16 * n + i) % 256)

\* readHex fills the array mem from the records, of which the first size bytes
\* are the software; it stops at an error and panics beyond the array.
Start == [mem |-> [a \in 0 .. Word - 1 |-> {}], size |-> 0, ended |-> "no"]

BugSize(size, r) == r.addr + r.len
Size(size, r) == IF r.addr + r.len - 1 > size THEN r.addr + r.len ELSE size

ReadRecord(s, r, n) ==
  IF s.ended # "no" \/ r.kind = "other" THEN s
  ELSE IF r.kind = "bad" THEN [s EXCEPT !.ended = "error"]
  ELSE IF r.addr + r.len > Word THEN [s EXCEPT !.ended = "panic"]
  ELSE [s EXCEPT
          !.mem = [a \in DOMAIN @ |->
                     IF a \in r.addr .. r.addr + r.len - 1 THEN Byte(n, a - r.addr) ELSE @[a]],
          !.size = Size(@, r)]

Read(hex) ==
  LET s[n \in 0 .. Len(hex)] == IF n = 0 THEN Start ELSE ReadRecord(s[n - 1], hex[n], n)
  IN s[Len(hex)]

RoundUp(n) == n + ((Round - (n % Round)) % Round)

\* The software as a sequence, filled up with zeros.
Filled(mem, size) ==
  [k \in 1 .. RoundUp(size) |-> IF k <= size THEN mem[k - 1] ELSE {}]

ReadHex(hex) == LET s == Read(hex) IN Filled(s.mem, s.size)

-----------------------------------------------------------------------------
(* Upgrade and Download.                                                   *)

SwSize(sw) == (Len(sw) \div Round) % Word

DeWhiten(data) == [k \in DOMAIN data |-> Xor(data[k], Bits((211 * (k - 1)) % 256))]

\* The chunk with number ix, or nothing: the offset and the length are uint16.
Offset(ix) == (ix * Chunk) % Word

Download(sw, ix) ==
  IF Offset(ix) >= Len(sw) % Word THEN <<>>
  ELSE DeWhiten(SubSeq(sw, Offset(ix) + 1, Min({Offset(ix) + Chunk, Len(sw)})))

\* What a node puts together that asks for chunks up to the announced size.
Chunks(sw) == (SwSize(sw) * Round + Chunk - 1) \div Chunk

Downloaded(sw) ==
  LET got[n \in 0 .. Chunks(sw)] ==
        IF n = 0 THEN <<>> ELSE got[n - 1] \o DeWhiten(Download(sw, n - 1))
  IN got[Chunks(sw)]

-----------------------------------------------------------------------------
(* The meaning of a hex file: each address has the byte the last record     *)
(* gave it.                                                                *)

Reach(r) == IF r.kind = "data" THEN r.addr + r.len ELSE 0

\* Where the first n records end.
Extent(hex, n) == Max({0} \cup {Reach(hex[k]) : k \in 1 .. n})

Image(hex) ==
  [a \in 0 .. Word - 1 |->
     LET from == {n \in DOMAIN hex : hex[n].kind = "data"
                                       /\ a \in hex[n].addr .. hex[n].addr + hex[n].len - 1}
     IN IF from = {} THEN {} ELSE Byte(Max(from), a - hex[Max(from)].addr)]

\* Whether the record that first reaches the end adds one byte only.
OneByteEnd(hex) ==
  \E n \in DOMAIN hex : Extent(hex, n) = Extent(hex, Len(hex))
                          /\ Extent(hex, n - 1) = Extent(hex, n) - 1
=================================================================================
