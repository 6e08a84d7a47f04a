------------------------------- MODULE MCStreams -------------------------------
(* Streams for TLC: texts that share a prefix, one of them quoted itself; and *)
(* the delta decoder against what the format's commands mean.                 *)
EXTENDS Streams

MCPayload(e, n) ==
  <<34, 64 + e>> \o (CASE n = 1 -> <<49>> [] n = 2 -> <<34>> [] OTHER -> <<34, 48 + n>>)

\* Token expired, for which another attempt is made, and permission denied.
MCRefusals == {[code |-> TOKEN_EXPIRED, temporary |-> FALSE], [code |-> 103, temporary |-> FALSE]}

-------------------------------------------------------------------------------
\* A text whose length takes two digits, texts with bytes beyond ASCII, and commands
\* within their source, at its end and past it.
Long == [k \in 1 .. 70 |-> 65 + (k % 26)]

Sources == {<<>>, <<65>>, <<65, 66, 67>>, <<200, 255, 255, 255, 255, 3>>, Long}

Cmds(s) ==
  {Copy(o, c) : o \in {0, 1, Len(s)}, c \in {0, 1, 2, 66}}
    \union {Insert(b) : b \in {<<>>, <<255>>, <<64, 59, 10>>, <<255, 255, 255, 255, 7>>}}

Fits(s, cs) == \A k \in DOMAIN cs : cs[k].kind = "copy" => cs[k].offset + cs[k].count <= Len(s)

\* A written delta is applied as its commands mean, and refused when one leaves its source.
ASSUME AppliedAsMeant ==
  \A s \in Sources : \A a, b \in Cmds(s) :
    ApplyDelta(s, Encode(s \o Long \o Long, <<a, b>>)) =
      IF Fits(s, <<a, b>>) THEN Ok(Meaning(s, <<a, b>>)) ELSE Error

\* A delta of t against s turns s into t.
ASSUME RoundTrip == \A s, t \in Sources : ApplyDelta(s, DeltaOf(s, t)) = Ok(t)

\* A delta that is cut short is refused.
ASSUME CutShort ==
  \A s, t \in Sources \ {Long} :
    LET d == DeltaOf(s, t)
    IN  \A n \in 0 .. Len(d) - 1 : ApplyDelta(s, SubSeq(d, 1, n)) = Error

\* The checksum, unrolled in the code, is the sum of the text's 32-bit words.
ASSUME ChecksumOfWords == \A s \in Sources : Checksum(s) = WordSum(s)
===============================================================================
