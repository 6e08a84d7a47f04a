------------------------------- MODULE FossilDelta -------------------------------
(***************************************************************************)
(* delta.rs: applying a fossil delta to the data it was made from.  Data   *)
(* and deltas are sequences of bytes.  The program tells its errors apart  *)
(* only to log them; here they are one value.                              *)
(***************************************************************************)
EXTENDS Integers, Sequences, SequencesExt

Byte    == 0 .. 255
Newline == 10
Comma   == 44
Colon   == 58
Semicolon == 59
At      == 64

\* A result: the target, or one of the errors of DeltaError.
Error == [ok |-> FALSE, data |-> <<>>]
Ok(data) == [ok |-> TRUE, data |-> data]

-------------------------------------------------------------------------------
(* u32, as two halves: TLC's integers are too short for it.                   *)

Half == 65536
Word == [hi : 0 .. Half - 1, lo : 0 .. Half - 1]
Zero == [hi |-> 0, lo |-> 0]

\* wrapping_add().
Plus(v, w) ==
  LET low == v.lo + w.lo
  IN  [hi |-> (v.hi + w.hi + low \div Half) % Half, lo |-> low % Half]

\* (v << 6) + c, for c below 64: what leaves the word on the left is lost.
ShiftIn(v, c) ==
  [hi |-> (v.hi * 64 + v.lo \div 1024) % Half, lo |-> ((v.lo * 64) % Half) + c]

\* b << (8 * k), for a byte b.
Lane(b, k) ==
  CASE k = 0 -> [hi |-> 0, lo |-> b]
    [] k = 1 -> [hi |-> 0, lo |-> b * 256]
    [] k = 2 -> [hi |-> b, lo |-> 0]
    [] k = 3 -> [hi |-> b * 256, lo |-> 0]

\* As a length, cut at a value no data reaches: a length of 64 KiB or more fails every
\* check it meets, as its exact value would.
Size(w) == IF w.hi > 0 THEN Half ELSE w.lo

-------------------------------------------------------------------------------
(* Z_VALUE and DeltaReader.                                                    *)

\* 0-9, A-Z, _, a-z, ~ in ASCII.
Z_VALUE ==
  [b \in Byte |->
     CASE b \in 48 .. 57  -> b - 48
       [] b \in 65 .. 90  -> b - 55
       [] b = 95          -> 36
       [] b \in 97 .. 122 -> b - 60
       [] b = 126         -> 63
       [] OTHER           -> -1]

\* The longest run of digits from position p on, which may be empty, ends before RunEnd.
RunEnd(d, p) ==
  CHOOSE q \in p .. Len(d) + 1 :
    /\ \A k \in p .. q - 1 : Z_VALUE[d[k]] >= 0
    /\ q <= Len(d) => Z_VALUE[d[q]] < 0

\* The integer of the digits d[p .. next - 1]; bad stands for InvalidByte.
IntBefore(d, p, next) ==
  LET value[k \in 0 .. next - p] ==
        IF k = 0 THEN Zero ELSE ShiftIn(value[k - 1], Z_VALUE[d[p + k - 1]])
  IN  [v |-> value[next - p], next |-> next, bad |-> next <= Len(d) /\ d[next] >= 128]

\* get_int() at position p.
GetInt(d, p) == IntBefore(d, p, RunEnd(d, p))

-------------------------------------------------------------------------------
\* wrapping_add() over a list, from 0.
SumOf(words) ==
  LET sum[k \in 0 .. Len(words)] == IF k = 0 THEN Zero ELSE Plus(sum[k - 1], words[k])
  IN  sum[Len(words)]

\* checksum(): four lanes over the whole chunks of four bytes, then the bytes left over.
Checksum(data) ==
  LET chunks    == Len(data) \div 4
      Column(i) == SumOf([n \in 1 .. chunks |-> Lane(data[4 * (n - 1) + i], 4 - i)])
      Left(i)   == IF 4 * chunks + i <= Len(data) THEN Lane(data[4 * chunks + i], 4 - i) ELSE Zero
  IN  SumOf(<<Column(4), Column(3), Column(2), Column(1), Left(3), Left(2), Left(1)>>)

\* &source[ofst..ofst + cnt].
Copied(source, offset, count) == SubSeq(source, offset + 1, offset + count)

\* What a command leads to: the end, or the next command with the output before it.
Stop(result) == [more |-> FALSE, result |-> result, next |-> 0, out |-> <<>>]
Continue(next, out) == [more |-> TRUE, result |-> Error, next |-> next, out |-> out]

\* '@', ':' and ';' at position q, after the number count or sum.  The length of the output
\* so far is the program's total.
CopyCommand(source, limit, d, q, count, out) ==
  LET o == GetInt(d, q + 1)
  IN  IF \/ o.bad
         \/ o.next <= Len(d) /\ d[o.next] # Comma
         \/ Len(out) + count > limit
         \/ Size(o.v) + count > Len(source)
      THEN Stop(Error)
      ELSE Continue(o.next + 1, out \o Copied(source, Size(o.v), count))

InsertCommand(limit, d, q, count, out) ==
  IF Len(out) + count > limit \/ q + count > Len(d)
  THEN Stop(Error)
  ELSE Continue(q + 1 + count, out \o SubSeq(d, q + 1, q + count))

ChecksumCommand(limit, sum, out) ==
  Stop(IF sum = Checksum(out) /\ Len(out) = limit THEN Ok(out) ELSE Error)

\* The command at position p.
Command(source, limit, d, p, out) ==
  LET n == GetInt(d, p)
      q == n.next
  IN  IF n.bad \/ q > Len(d) THEN Stop(Error)
      ELSE CASE d[q] = At        -> CopyCommand(source, limit, d, q, Size(n.v), out)
             [] d[q] = Colon     -> InsertCommand(limit, d, q, Size(n.v), out)
             [] d[q] = Semicolon -> ChecksumCommand(limit, n.v, out)
             [] OTHER            -> Stop(Error)  \* UnknownOperator

\* The commands from position p on.  A delta that ends without a checksum is an error.
RunFrom(source, limit, d, start) ==
  LET Run[p \in 1 .. Len(d) + 2] ==
        [out \in Seq(Byte) |->
           IF p > Len(d) THEN Error  \* Unterminated
           ELSE LET c == Command(source, limit, d, p, out)
                IN  IF c.more THEN Run[c.next][c.out] ELSE c.result]
  IN  Run[start][<<>>]

\* apply_delta().
ApplyDelta(source, d) ==
  LET size == GetInt(d, 1)
  IN  IF size.bad \/ size.next > Len(d) \/ d[size.next] # Newline
      THEN Error  \* MissingNewline, UnexpectedEnd
      ELSE RunFrom(source, Size(size.v), d, size.next + 1)

-------------------------------------------------------------------------------
(* The encoder is the server's: external.                                      *)

\* A command of a delta, before it is written down.
Copy(offset, count) == [kind |-> "copy", offset |-> offset, count |-> count, bytes |-> <<>>]
Insert(bytes) == [kind |-> "insert", offset |-> 0, count |-> Len(bytes), bytes |-> bytes]

DigitOf(c) == CHOOSE b \in Byte : Z_VALUE[b] = c

\* An integer in base 64, highest digit first.
Digits(w) ==
  LET digit == <<w.hi \div 16384, (w.hi \div 256) % 64, (w.hi \div 4) % 64,
                 (w.hi % 4) * 16 + w.lo \div 4096, (w.lo \div 64) % 64, w.lo % 64>>
      first == CHOOSE k \in 1 .. 6 : (k = 6 \/ digit[k] # 0) /\ \A j \in 1 .. k - 1 : digit[j] = 0
  IN  [k \in 1 .. 7 - first |-> DigitOf(digit[first + k - 1])]

Number(n) == Digits([hi |-> 0, lo |-> n])

\* What a list of commands says.
Meaning(source, commands) ==
  FlattenSeq([k \in DOMAIN commands |->
    IF commands[k].kind = "copy"
    THEN SubSeq(source, commands[k].offset + 1, commands[k].offset + commands[k].count)
    ELSE commands[k].bytes])

Written(c) ==
  IF c.kind = "copy" THEN Number(c.count) \o <<At>> \o Number(c.offset) \o <<Comma>>
  ELSE Number(c.count) \o <<Colon>> \o c.bytes

\* The n-th big-endian word of a text, which zeros fill up, and the sum of them all.
BigEndian(data, n) ==
  LET byte(k) == IF k <= Len(data) THEN data[k] ELSE 0
  IN  [hi |-> byte(4 * n - 3) * 256 + byte(4 * n - 2), lo |-> byte(4 * n - 1) * 256 + byte(4 * n)]

WordSum(data) == SumOf([n \in 1 .. (Len(data) + 3) \div 4 |-> BigEndian(data, n)])

Encode(source, commands) ==
  LET target == Meaning(source, commands)
  IN  Number(Len(target)) \o <<Newline>>
        \o FlattenSeq([k \in DOMAIN commands |-> Written(commands[k])])
        \o Digits(WordSum(target)) \o <<Semicolon>>

\* A delta from one text to another: the common prefix is copied, the rest inserted.
DeltaOf(source, target) ==
  LET shared == CHOOSE n \in 0 .. Len(target) :
                  /\ n <= Len(source) /\ SubSeq(source, 1, n) = SubSeq(target, 1, n)
                  /\ n = Len(source) \/ n = Len(target) \/ source[n + 1] # target[n + 1]
  IN  Encode(source, <<Copy(0, shared), Insert(SubSeq(target, shared + 1, Len(target)))>>)
===============================================================================
