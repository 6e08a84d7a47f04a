-------------------------------- MODULE Framing --------------------------------
(***************************************************************************)
(* codec.rs: how commands share a message and how a message is taken apart *)
(* into replies, and how transport_io.rs joins the entries of a batch.     *)
(* A command or reply is its bytes; serde and prost are external, and all  *)
(* they say is whether the bytes parse.                                    *)
(***************************************************************************)
EXTENDS Integers, Sequences, SequencesExt

CONSTANTS
  Parses(_),  \* whether bytes are a reply
  Enough      \* a length no message has

Newline    == 10
Whitespace == {9, 11, 12, 13, 32}

Error       == [ok |-> FALSE, replies |-> <<>>]
Ok(replies) == [ok |-> TRUE, replies |-> replies]

-------------------------------------------------------------------------------
(* JsonCodec.                                                                  *)

Join(parts) ==
  FlattenSeq([k \in DOMAIN parts |-> IF k = 1 THEN parts[k] ELSE <<Newline>> \o parts[k]])

\* text.split('\n').
Lines(data) ==
  FoldLeft(LAMBDA lines, b : IF b = Newline THEN Append(lines, <<>>)
                             ELSE [lines EXCEPT ![Len(lines)] = Append(@, b)],
           <<<<>>>>, data)

Trim(line) ==
  LET kept == {k \in DOMAIN line : line[k] \notin Whitespace}
  IN  IF kept = {} THEN <<>>
      ELSE SubSeq(line, CHOOSE k \in kept : \A j \in kept : k <= j,
                        CHOOSE k \in kept : \A j \in kept : j <= k)

JsonEncode(commands) == Join(commands)

JsonDecode(data) ==
  LET lines   == Lines(data)
      replies == SelectSeq([k \in DOMAIN lines |-> Trim(lines[k])], LAMBDA line : line # <<>>)
  IN  IF \A k \in DOMAIN replies : Parses(replies[k]) THEN Ok(replies) ELSE Error

-------------------------------------------------------------------------------
(* ProtobufCodec.                                                              *)

\* encode_varint(): seven bits a byte, lowest first, the top bit for "more".
Varint(n) ==
  LET Groups[v \in Nat] == IF v < 128 THEN <<v>> ELSE <<128 + (v % 128)>> \o Groups[v \div 128]
  IN  Groups[n]

\* decode_varint() at position p: at most ten bytes, 64 bits.
ReadVarint(d, p) ==
  LET ends == {q \in p .. Len(d) : d[q] < 128}
      last == CHOOSE q \in ends : \A r \in ends : q <= r
      Cut(v) == IF v < Enough THEN v ELSE Enough
  IN  IF ends = {} \/ last - p > 9 \/ (last - p = 9 /\ d[last] > 1)
      THEN [ok |-> FALSE, value |-> 0, next |-> p]
      ELSE [ok    |-> TRUE,
            value |-> FoldRight(LAMBDA b, v : Cut(v * 128 + (b % 128)), SubSeq(d, p, last), 0),
            next  |-> last + 1]

ProtobufEncode(commands) ==
  FlattenSeq([k \in DOMAIN commands |-> Varint(Len(commands[k])) \o commands[k]])

\* One reply that does not parse or is cut off spoils the whole message.
ProtobufDecode(d) ==
  LET Run[p \in Nat, replies \in Seq(Seq(Nat))] ==
        IF p > Len(d) THEN Ok(replies)
        ELSE LET len  == ReadVarint(d, p)
                 next == len.next + len.value
                 body == SubSeq(d, len.next, next - 1)
             IN  IF ~len.ok \/ next > Len(d) + 1 THEN Error
                 ELSE IF ~Parses(body) THEN Error
                 ELSE Run[next, Append(replies, body)]
  IN  Run[1, <<>>]

-------------------------------------------------------------------------------
(* flush_batch(): the entries, each encoded on its own.                        *)

Encode(json, commands) == IF json THEN JsonEncode(commands) ELSE ProtobufEncode(commands)
Decode(json, data) == IF json THEN JsonDecode(data) ELSE ProtobufDecode(data)
Combined(json, queue) == IF json THEN Join(queue) ELSE FlattenSeq(queue)
===============================================================================
