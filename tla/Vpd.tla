--------------------------------- MODULE Vpd ---------------------------------
(***************************************************************************)
(* src/src/ls-vpd.c: cap_vpd walks the vital product data of a device and  *)
(* checks their sum.                                                       *)
(*                                                                         *)
(* The data are bytes at addresses from 0 up; a read that goes past them   *)
(* fails.  A walk in progress is [vpd, mode, at, len, part, csum, walk]:   *)
(* the data, the loop it is in - over resources, the pieces of a name or   *)
(* fields, or "end" - res_addr, res_len and part_pos, the sum so far, and  *)
(* the reads that succeeded with the verdicts printed about the sum.       *)
(***************************************************************************)
EXTENDS Integers, Sequences

CONSTANT VpdMask   \* PCI_VPD_ADDR_MASK, the last address

ASSUME VpdMaskAssumption == VpdMask \in Nat

VpdBuffer == 256

\* The tags of resources with a meaning, and the id of the reserved field.
NameTag   == 130
FieldTags == {144, 145}
RV        == <<82, 86>>

Word16(vpd, at) == vpd[at] + 256 * vpd[at + 1]

\* read_vpd succeeds.
Readable(vpd, pos, len) == pos .. pos + len - 1 \subseteq DOMAIN vpd

\* The sum of the bytes at pos .. pos + len - 1, in a byte; by halves, which a
\* long name does not make deep.
ByteSum(vpd, pos, len) ==
  LET Span == {s \in (pos .. pos + len) \X (pos .. pos + len) : s[1] <= s[2]}
      Part[s \in Span] ==
        LET mid == (s[1] + s[2]) \div 2
        IN  CASE s[2] = s[1]     -> 0
              [] s[2] = s[1] + 1 -> vpd[s[1]]
              [] OTHER           -> (Part[<<s[1], mid>>] + Part[<<mid, s[2]>>]) % 256
  IN  Part[<<pos, pos + len>>]

\* A read adds its bytes to the sum.
VpdRead(v, pos, len) ==
  [v EXCEPT !.csum = (@ + ByteSum(v.vpd, pos, len)) % 256,
            !.walk = Append(@, [what |-> "read", pos |-> pos, len |-> len])]

Verdict(v) == [v EXCEPT !.walk = Append(@, [what |-> "verdict", good |-> v.csum = 0])]

\* The turns end the walk, leave a resource for the one behind it, or go on.
EndWalk(v) == [v EXCEPT !.mode = "end"]

NextResource(v) == [v EXCEPT !.mode = "resource", !.at = @ + v.len]

\* A resource that can be walked; any other - the end tag, one that does not fit
\* or is not known - ends the walk.
VpdResource(v) ==
  LET a     == v.at
      large == v.vpd[a] >= 128
      tag   == IF large THEN v.vpd[a] ELSE v.vpd[a] \div 8
      len   == IF large THEN Word16(v.vpd, a + 1) ELSE v.vpd[a] % 8
      at    == IF large THEN a + 3 ELSE a + 1
      first == VpdRead(v, a, 1)
      head  == IF large THEN VpdRead(first, a + 1, 2) ELSE first
  IN  IF a > VpdMask \/ ~Readable(v.vpd, a, 1) THEN EndWalk(v)
      ELSE IF large /\ (a > VpdMask + 1 - 3 \/ ~Readable(v.vpd, a + 1, 2)) THEN EndWalk(first)
      ELSE IF len > VpdMask + 1 - at \/ tag \notin FieldTags \cup {NameTag} THEN EndWalk(head)
      ELSE [head EXCEPT !.mode = IF tag = NameTag THEN "name" ELSE "fields",
                        !.at = at, !.len = len, !.part = 0]

\* A piece of a product's name that fits the buffer; a read that fails ends it.
VpdName(v) ==
  LET left == v.len - v.part
      n    == IF left > VpdBuffer THEN VpdBuffer ELSE left
  IN  IF left = 0 \/ ~Readable(v.vpd, v.at + v.part, n) THEN NextResource(v)
      ELSE [VpdRead(v, v.at + v.part, n) EXCEPT !.part = @ + n]

\* A faulty variant: all of the reserved field is read.
FieldReadAll(id, len) == len

\* "Only read the first byte of the RV field because the remaining bytes are not
\* included in the checksum."
FieldRead(id, len) == IF id = RV THEN 1 ELSE len

\* A field of a read-only or read-write resource, until one is not there or longer
\* than what is left of the resource.
VpdField(v) ==
  LET p    == v.at + v.part
      id   == <<v.vpd[p], v.vpd[p + 1]>>
      size == v.vpd[p + 2]
      n    == FieldRead(id, size)
      head == VpdRead(v, p, 3)
      data == VpdRead(head, p + 3, n)
  IN  IF v.part + 3 > v.len \/ ~Readable(v.vpd, p, 3) THEN NextResource(v)
      ELSE IF size > v.len - (v.part + 3) \/ ~Readable(v.vpd, p + 3, n) THEN NextResource(head)
      ELSE [(IF id = RV THEN Verdict(data) ELSE data) EXCEPT !.part = @ + 3 + size]
=============================================================================
