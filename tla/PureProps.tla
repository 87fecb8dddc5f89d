-------------------------------- MODULE PureProps --------------------------------
(* The functions of BootCode and Interpol8 against their meaning, for inputs that  *)
(* grow by one byte, one record or one point in each step.                        *)
EXTENDS BootCode, Interpol8

CONSTANTS
  MaxBytes, SomeBytes, \* the software for the CRC: its length; its bytes but the first
  MaxRecords, Lens,   \* hex files: their records, the lengths of these
  MaxPoints, Times, Values, \* time series
  Queries             \* what is asked of interpol8: [start, end, step, maxFill]

ASSUME PureAssumption ==
  /\ MaxBytes \in Nat /\ SomeBytes \subseteq Bytes
  /\ MaxRecords \in Nat /\ Lens \subseteq Nat
  /\ MaxPoints \in Nat /\ Times \subseteq Nat /\ Values \subseteq Int
  /\ \A q \in Queries :
       /\ q.start \in Nat /\ q.end \in Nat /\ q.start < q.end
       /\ q.step \in Nat /\ q.step >= 2 /\ q.maxFill \in Nat /\ q.maxFill >= q.step

\* The interpolation divides without a remainder.
ASSUME ExactValues ==
  \A s, t \in Times, v, w \in Values : s < t => (w - v) % (t - s) = 0

VARIABLES bytes, hex, raw

vars == <<bytes, hex, raw>>

Init == bytes = <<>> /\ hex = <<>> /\ raw = <<>>

AddByte ==
  /\ hex = <<>> /\ raw = <<>> /\ Len(bytes) < MaxBytes
  /\ \E b \in IF bytes = <<>> THEN Bytes ELSE SomeBytes : bytes' = Append(bytes, b)
  /\ UNCHANGED <<hex, raw>>

Record == [kind : {"data"}, addr : 0 .. Word - 1, len : Lens]
            \cup [kind : {"bad", "other"}, addr : {0}, len : {0}]

AddRecord ==
  /\ bytes = <<>> /\ raw = <<>> /\ Len(hex) < MaxRecords
  /\ \E r \in Record : hex' = Append(hex, r)
  /\ UNCHANGED <<bytes, raw>>

\* Raw refuses points that are not in the order of time.
AddPoint ==
  /\ bytes = <<>> /\ hex = <<>> /\ Len(raw) < MaxPoints
  /\ \E p \in [t : Times, v : Values] :
       /\ raw # <<>> => Last(raw).t <= p.t
       /\ raw' = Append(raw, p)
  /\ UNCHANGED <<bytes, hex>>

Next == AddByte \/ AddRecord \/ AddPoint

Spec == Init /\ [][Next]_vars

-----------------------------------------------------------------------------
\* The CRC of the table is that of the reference implementation in the comment at
\* the end of boot_proto.go.
CrcMatchesReference == Crc16(bytes) = Crc16b(bytes)

\* readHex and Download: a node that asks for all chunks gets the image in the hex
\* file - without its last byte if the code's comparison of ends misses it, which can
\* be only if the first record that reaches the end adds this byte alone.  It gets
\* nothing if the image fills the address space (uint16(len) is 0), and no software
\* comes of a file with an error, or with a record beyond the address space.
DownloadIsImage ==
  LET s == Read(hex)
      sw == ReadHex(hex)
      got == Downloaded(sw)
      whole == Extent(hex, Len(hex))
  IN IF \E n \in DOMAIN hex : hex[n].kind = "bad" \/ Reach(hex[n]) > Word
     THEN s.ended # "no"
     ELSE /\ s.ended = "no"
          /\ IF Len(sw) = Word THEN got = <<>>
             ELSE \/ got = Filled(Image(hex), whole)
                  \/ OneByteEnd(hex) /\ got = Filled(Image(hex), whole - 1)

-----------------------------------------------------------------------------
(* The meaning of a time series: it is known in the units of time between    *)
(* two consecutive points that are not more than maxFill apart, and linear    *)
(* there.                                                                   *)

Over(u, maxFill) ==
  {x \in 1 .. Len(raw) - 1 :
     raw[x].t <= u /\ u < raw[x + 1].t /\ raw[x + 1].t - raw[x].t <= maxFill}

Known(ts, te, maxFill) == {u \in ts .. te - 1 : Over(u, maxFill) # {}}

\* The pair of points over unit u, and the value at its start and its end.
Pair(u, maxFill) == CHOOSE x \in Over(u, maxFill) : TRUE
ValueAt(u, t, maxFill) == At(raw[Pair(u, maxFill)], raw[Pair(u, maxFill) + 1], t)

Distinct == \A x \in 1 .. Len(raw) - 1 : raw[x].t < raw[x + 1].t
Counter == \A x \in 1 .. Len(raw) - 1 : raw[x].v <= raw[x + 1].v

\* A result is the average num / denom and the extremes of vals.
Is(res, num, denom, vals) ==
  /\ res.denom # 0 /\ res.num * denom = num * res.denom
  /\ Distinct => res.min = Min(vals) /\ res.max = Max(vals)

IsNaN(res) == res.denom = 0 /\ res.min = NaN /\ res.max = NaN

\* Sums over the units of time that are known.
Time(ts, te, maxFill) ==
  Total([u \in ts .. te - 1 |-> IF u \in Known(ts, te, maxFill) THEN 1 ELSE 0], ts, te - 1)

TwiceIntegral(ts, te, maxFill) ==
  Total([u \in ts .. te - 1 |->
           IF u \in Known(ts, te, maxFill)
           THEN ValueAt(u, u, maxFill) + ValueAt(u, u + 1, maxFill) ELSE 0], ts, te - 1)

Slope(u, maxFill) == ValueAt(u, u + 1, maxFill) - ValueAt(u, u, maxFill)

Growth(ts, te, maxFill) ==
  Total([u \in ts .. te - 1 |-> IF u \in Known(ts, te, maxFill) THEN Slope(u, maxFill) ELSE 0],
        ts, te - 1)

AbsoluteRight(res, ts, te, maxFill) ==
  LET us == Known(ts, te, maxFill)
      in == {x \in DOMAIN raw : raw[x].t \in ts .. te}
      alone == {x \in in : raw[x].t < te}
  IN IF us # {}
     THEN Is(res, TwiceIntegral(ts, te, maxFill), 2 * Time(ts, te, maxFill),
             {raw[x].v : x \in in} \cup {ValueAt(u, u, maxFill) : u \in us}
               \cup {ValueAt(u, u + 1, maxFill) : u \in us})
     ELSE IF alone # {} THEN \E x \in alone : Is(res, raw[x].v, 1, {raw[x].v})
     ELSE IsNaN(res)

RateRight(res, ts, te, maxFill) ==
  LET us == Known(ts, te, maxFill)
  IN IF us # {} THEN Is(res, Growth(ts, te, maxFill), Time(ts, te, maxFill),
                        {Slope(u, maxFill) : u \in us})
     ELSE IsNaN(res)

\* interpol8.Raw: for each interval the average, minimum and maximum of what is known
\* of an absolute value (or its only point), or of the rate of a counter that is never
\* reset, and NaN if nothing is known, whatever has been trimmed.  Extremes only if no
\* two points have one time.
RawIsRight ==
  \A q \in Queries :
    LET at(r) == q.start + (r - 1) * q.step
        absolute == Raw(raw, "absolute", q.start, q.end, q.step, q.maxFill)
        rate == Raw(raw, "rate", q.start, q.end, q.step, q.maxFill)
    IN raw # <<>> /\ hex = <<>> =>
         /\ at(Len(absolute)) < q.end /\ at(Len(absolute) + 1) >= q.end
         /\ \A r \in DOMAIN absolute :
              /\ AbsoluteRight(absolute[r], at(r), at(r + 1), q.maxFill)
              /\ Counter => RateRight(rate[r], at(r), at(r + 1), q.maxFill)
=================================================================================
