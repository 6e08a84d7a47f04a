--------------------------- MODULE MCConnectionActor ---------------------------
(* ConnectionActor for TLC: requesters are interchangeable.  With it, the     *)
(* delays before its attempts, for short integers, and the messages in which  *)
(* its commands and replies travel.                                           *)
EXTENDS ConnectionActor, TLC

RequesterSymmetry == Permutations(Requesters)

-------------------------------------------------------------------------------
MCMaxU128 == 1000
Retry == INSTANCE Backoff WITH MaxU128 <- MCMaxU128, U64 <- 256

\* Milliseconds: none, a few, more than `as u64` keeps here, more than u128 holds here.
Delays == {0, 1, 3, 255, 256, 300, 1000}

\* A delay never exceeds the maximum, for any number of attempts, and is 0 only by chance
\* unless a bound is 0.
ASSUME DelaysWithinBounds ==
  \A attempts \in 0 .. 14, a, b \in Delays :
    LET delays == Retry!DelayAfter(attempts, a, b) IN
    /\ 0 \in delays /\ delays \subseteq 0 .. b
    /\ a > 0 /\ b > 0 => 1 \in delays

\* Saturation does not show: the cap is min(max_delay, min_delay * 2^attempt).
ASSUME SaturationHarmless ==
  \A attempt \in 0 .. 14, a, b \in Delays :
    Retry!Capped(attempt, a, b) = Retry!Smaller(a * 2^attempt, b)

-------------------------------------------------------------------------------
MCParses(body) == body # <<255>>
Wire == INSTANCE Framing WITH Parses <- MCParses, Enough <- 100000

\* JSON texts have no line break and no space at the ends; protobuf bodies are any bytes,
\* empty ones and those whose length takes two bytes included.
Bodies(json) ==
  IF json THEN {<<123, 125>>, <<123, 32, 125>>, <<34>>}
  ELSE {<<>>, <<10>>, <<2, 128, 0>>, [k \in 1 .. 200 |-> k]}

Batches(json) == UNION {[1 .. n -> Bodies(json)] : n \in 0 .. 3}

\* A flushed batch is one message with all its commands, as if they were encoded together,
\* and the other side reads them back in order.
ASSUME BatchesReadBack ==
  \A json \in BOOLEAN : \A batch \in Batches(json) :
    LET message == Wire!Combined(json, [k \in DOMAIN batch |-> Wire!Encode(json, <<batch[k]>>)])
    IN  /\ message = Wire!Encode(json, batch)
        /\ Wire!Decode(json, message) = Wire!Ok(batch)

\* A protobuf message that is cut short yields no reply it did not hold.
ASSUME NoInventedReplies ==
  \A batch \in Batches(FALSE) :
    LET message == Wire!Encode(FALSE, batch) IN
    \A n \in {0, 1, 2, Len(message) - 1} \intersect (0 .. Len(message)) :
      LET read == Wire!Decode(FALSE, SubSeq(message, 1, n))
      IN  read.ok => SubSeq(batch, 1, Len(read.replies)) = read.replies

\* Blank lines and a line break at the end are no replies; a reply that does not parse
\* spoils its message.
ASSUME BlankLinesIgnored ==
  /\ Wire!Decode(TRUE, <<10, 32, 123, 125, 13, 10, 9, 10>>) = Wire!Ok(<<<<123, 125>>>>)
  /\ Wire!Decode(TRUE, <<123, 125, 10, 255>>) = Wire!Error
  /\ Wire!Decode(FALSE, <<1, 10, 1, 255>>) = Wire!Error
  /\ Wire!Decode(FALSE, <<1, 10, 128>>) = Wire!Error

\* Ten bytes are the longest integer, and its value may exceed every message.
ASSUME LongestLengths ==
  /\ ~Wire!ReadVarint([k \in 1 .. 11 |-> IF k < 11 THEN 128 ELSE 0], 1).ok
  /\ ~Wire!ReadVarint([k \in 1 .. 10 |-> IF k < 10 THEN 255 ELSE 2], 1).ok
  /\ Wire!ReadVarint([k \in 1 .. 10 |-> IF k < 10 THEN 255 ELSE 1], 1).value = 100000
===============================================================================
