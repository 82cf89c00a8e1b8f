----------------------------- MODULE PciFilter -----------------------------
(***************************************************************************)
(* src/lib/filter.c: filters that select devices by address and by id,     *)
(* and the strings they are parsed from.                                   *)
(*                                                                         *)
(* A string is a sequence of tokens: the separators, the star, and         *)
(* literals.  A literal that strtol reads to its end is in the domain of   *)
(* Number, which gives its value; any other is refused like a number out   *)
(* of range.                                                               *)
(***************************************************************************)
EXTENDS Integers, SequencesExt

CONSTANTS
  Number   \* value of each literal that is a hexadecimal number

Colon == ":"
Dot   == "."
Star  == "*"

ASSUME NumberAssumption ==
  /\ Number \in [DOMAIN Number -> Int]
  /\ {Colon, Dot, Star} \cap DOMAIN Number = {}

AddressField == {"domain", "bus", "slot", "func"}
IdentField   == {"vendor", "device"}
OldField     == AddressField \cup IdentField
Field        == OldField \cup {"class"}

Largest ==
  [domain |-> 2147483647, bus |-> 255, slot |-> 31, func |-> 7,
   vendor |-> 65535, device |-> 65535, class |-> 65535]

Device == {d \in [Field -> Nat] : \A k \in Field : d[k] <= Largest[k]}

\* A field of -1 selects any value.
AnyDevice == [k \in Field |-> -1]

(***************************************************************************)
(* Parsing.  A result is a filter, which keeps the fields set before an    *)
(* error, and whether there was an error.                                  *)
(***************************************************************************)

Ok(f) == [filter |-> f, error |-> FALSE]

At(text, i) == [before |-> SubSeq(text, 1, i - 1), after |-> SubSeq(text, i + 1, Len(text))]

\* The parts of text around its first separator; all of it is before one that
\* is missing.
Cut(text, sep) ==
  LET i == SelectInSeq(text, LAMBDA t : t = sep)
  IN  IF i = 0 THEN At(text, Len(text) + 1) ELSE At(text, i)

\* A part the filter need not match.
Open(part) == part \in {<<>>, <<Star>>}

\* Does strtol read the part to its end, to a value the field may have?
Fits(part, k) ==
  Len(part) = 1 /\ part[1] \in DOMAIN Number /\ Number[part[1]] \in 0 .. Largest[k]

SetField(r, k, part) ==
  IF Fits(part, k) THEN [r EXCEPT !.filter[k] = Number[part[1]]]
  ELSE [r EXCEPT !.error = TRUE]

\* One field of a filter string, skipped after an error and when it is open.
ParseField(r, k, part) == IF r.error \/ Open(part) THEN r ELSE SetField(r, k, part)

\* A faulty variant: the first colon ends the bus, as if there were no domain.
SlotPartsByFirstColon(text) ==
  LET top == Cut(text, Colon)
      last == Cut(top.after, Dot)
  IN  [domain |-> <<>>, bus |-> top.before, slot |-> last.before, func |-> last.after]

\* The last colon ends the bus, the first one before it the domain; the first
\* dot after the last colon ends the slot.
SlotParts(text) ==
  LET i    == SelectLastInSeq(text, LAMBDA t : t = Colon)
      head == SubSeq(text, 1, i - 1)
      last == Cut(SubSeq(text, i + 1, Len(text)), Dot)
      j    == SelectInSeq(head, LAMBDA t : t = Colon)
  IN  [domain |-> SubSeq(head, 1, j - 1), bus |-> SubSeq(head, j + 1, Len(head)),
       slot |-> last.before, func |-> last.after]

\* pci_filter_parse_slot_v33
ParseSlot(f, text) ==
  LET parts == SlotParts(text)
      r1 == ParseField(Ok(f), "domain", parts.domain)
      r2 == ParseField(r1, "bus", parts.bus)
      r3 == ParseField(r2, "slot", parts.slot)
  IN  ParseField(r3, "func", parts.func)

\* The class is skipped where the part before it is a star, not where it is one
\* itself.
ParseClass(r, device, class) ==
  IF r.error \/ class = <<>> \/ device = <<Star>> THEN r ELSE SetField(r, "class", class)

\* pci_filter_parse_id_v33
ParseId(f, text) ==
  LET i    == SelectInSeq(text, LAMBDA t : t = Colon)
      rest == Cut(SubSeq(text, i + 1, Len(text)), Colon)
      r1   == ParseField(Ok(f), "vendor", SubSeq(text, 1, i - 1))
      r2   == ParseField(r1, "device", rest.before)
  IN  IF text = <<>> THEN Ok(f)
      ELSE IF i = 0 THEN [Ok(f) EXCEPT !.error = TRUE]
      ELSE ParseClass(r2, rest.before, rest.after)

(***************************************************************************)
(* Matching, and the ABI of pciutils before 3.3, without the class.        *)
(***************************************************************************)

\* pci_filter_match_v33
Match(f, d) == \A k \in Field : f[k] >= 0 => f[k] = d[k]

Import(old) == [k \in Field |-> IF k = "class" THEN -1 ELSE old[k]]

Export(f) == [k \in OldField |-> f[k]]

\* pci_filter_parse_slot_v30: after an error the caller's filter is as it was.
ParseSlotOld(old, text) ==
  LET r == ParseSlot(Import(old), text)
  IN  IF r.error THEN [Ok(old) EXCEPT !.error = TRUE] ELSE Ok(Export(r.filter))

\* pci_filter_parse_id_v30
ParseIdOld(old, text) ==
  LET r == ParseId(Import(old), text)
  IN  IF r.error \/ r.filter["class"] >= 0 THEN [Ok(old) EXCEPT !.error = TRUE]
      ELSE Ok(Export(r.filter))

\* pci_filter_match_v30
MatchOld(old, d) == Match(Import(old), d)

(***************************************************************************)
(* save_to_adna_list: the filter of a device, made in memory that held m.  *)
(***************************************************************************)

\* snprintf with %04x and the like.
Literal(n) == CHOOSE t \in DOMAIN Number : Number[t] = n

SlotText(d) ==
  <<Literal(d["domain"]), Colon, Literal(d["bus"]), Colon, Literal(d["slot"]), Dot,
    Literal(d["func"])>>

IdText(d) ==
  <<Literal(d["vendor"]), Colon, Literal(d["device"]), Colon, Literal(d["class"])>>

FilterOf(m, d) == ParseId(ParseSlot(m, SlotText(d)).filter, IdText(d)).filter
============================================================================
