------------------------------- MODULE Setpci -------------------------------
(***************************************************************************)
(* src/src/setpci.c: operations on registers, as they are parsed from the  *)
(* command line and applied to the devices their filters select.           *)
(*                                                                         *)
(* Strings are sequences of tokens as in PciFilter.  Numbers that are      *)
(* parsed have 32 bits: an address is written in two's complement, so that *)
(* only what is below 16#80000000 is not negative; a value or a mask is    *)
(* the set of its bits, and so is a register.                              *)
(***************************************************************************)
EXTENDS PciFilter

CONSTANTS
  Hex32,      \* number of each literal that parse_x32 reads to its end
  Register    \* pci_reg_names: [type, id, offset, width] of each name

FitsInt32(i) == i \div 65536 \in -32768 .. 32767
Int32 == {i \in Int : FitsInt32(i)}

ASSUME Hex32Assumption == Hex32 \in [DOMAIN Hex32 -> Int32]
ASSUME RegisterAssumption ==
  Register \in [DOMAIN Register -> [type : {"none", "CAP", "ECAP"}, id : Nat, offset : Nat,
                                    width : {0, 1, 2, 4}]]
ASSUME WordsAssumption ==
  {"=", "@", "+", ",", Colon, Dot} \cap ((DOMAIN Hex32) \cup DOMAIN Register) = {}

Size == 4096

Has(text, sep) == \E i \in DOMAIN text : text[i] = sep

IsHex(part) == Len(part) = 1 /\ part[1] \in DOMAIN Hex32

AllBits == 0 .. 31

\* A number has the bits for which it is odd after as many halvings.
BitsOf(n) ==
  LET Half[i \in AllBits] == IF i = 0 THEN n ELSE Half[i - 1] \div 2
  IN  {i \in AllBits : Half[i] % 2 = 1}

WidthOf == [B |-> 1, W |-> 2, L |-> 4]

\* How many numbers a capability may have, by the prefix of its name.
CapLimit == [CAP |-> 256, ECAP |-> 4096]

\* parse_register: what a base may mean, nothing where it is unknown.
Meaning(base) ==
  IF IsHex(base) THEN {[type |-> "none", id |-> 0, offset |-> Hex32[base[1]], width |-> 0]}
  ELSE {Register[t] : t \in {u \in DOMAIN Register : base = <<u>>}}
         \cup {[type |-> p[1], id |-> Hex32[p[2]], offset |-> 0, width |-> 0] :
                 p \in {q \in (DOMAIN CapLimit) \X DOMAIN Hex32 :
                          base = q /\ Hex32[q[2]] \in 0 .. CapLimit[q[1]] - 1}}

\* The values of an operation, separated by commas.
Pieces32(text) ==
  FoldLeft(LAMBDA ps, t : IF t = "," THEN Append(ps, <<>>)
                          ELSE [ps EXCEPT ![Len(ps)] = Append(@, t)],
           <<<<>>>>, text)

\* A faulty variant: negative numbers do not fit.
InWidthUnsigned(bits, width) == bits \cap (8 * width .. 31) = {}

\* Bits above the width are none, or all: a negative number.
InWidth(bits, width) ==
  LET above == 8 * width .. 31 IN bits \cap above \in {{}, above}

\* A piece is a number, or one before the colon and a mask; strtoul reads none
\* before a colon as 0.
Bits(part) == IF part = <<>> THEN {} ELSE BitsOf(Hex32[part[1]])

IsValue(piece, width) ==
  LET parts == Cut(piece, Colon)
  IN  IF Has(piece, Colon)
      THEN /\ IsHex(parts.before) \/ parts.before = <<>>
           /\ IsHex(parts.after)
           /\ InWidth(Bits(parts.before), width) /\ InWidth(Bits(parts.after), width)
      ELSE IsHex(piece) /\ InWidth(Bits(piece), width)

Masked(n, mask) == [value |-> n \cap mask, mask |-> mask]

Value(piece) ==
  LET parts == Cut(piece, Colon)
  IN  Masked(Bits(parts.before), IF Has(piece, Colon) THEN Bits(parts.after) ELSE AllBits)

NoOp == [type |-> "none", id |-> 0, number |-> 0, addr |-> 0, width |-> 0, values |-> <<>>]

\* A faulty variant: one value is checked, as when it is executed.
InRangeFirst(addr, width, n) == addr \in 0 .. Size - 1 /\ addr + width <= Size

\* All values of an operation are inside the configuration space.
InRange(addr, width, n) ==
  addr \in 0 .. Size - 1 /\ addr + width * (IF n = 0 THEN 1 ELSE n) <= Size

\* The base of an operation, and what follows each separator, with it: the values
\* are split off first, the offset last.
OpParts(text) ==
  FoldLeft(LAMBDA p, sep :
             LET c == Cut(p["base"], sep)
             IN  [p EXCEPT !["base"] = c.before, ![sep] = IF Has(p["base"], sep) THEN <<sep>> \o c.after ELSE <<>>],
           [x \in {"base", "=", "@", Dot, "+"} |-> IF x = "base" THEN text ELSE <<>>],
           <<"=", "@", Dot, "+">>)

NumberIn(part) == IF part = <<>> THEN 0 ELSE Hex32[part[2]]

WellFormed(p) ==
  /\ p["="] # <<"=">>
  /\ p[Dot] \in {<<>>} \cup {<<Dot, w>> : w \in DOMAIN WidthOf}
  /\ \A sep \in {"@", "+"} : p[sep] # <<>> => IsHex(Tail(p[sep])) /\ NumberIn(p[sep]) >= 0
  /\ NumberIn(p["+"]) < Size

RefusedOp == [error |-> TRUE, op |-> NoOp]

\* The checks of the range, the alignment and the values of an operation, whose
\* values are still pieces.
CheckOp(op) ==
  IF /\ op.width # 0
     /\ InRange(op.addr, op.width, Len(op.values)) /\ op.addr % op.width = 0
     /\ \A j \in DOMAIN op.values : IsValue(op.values[j], op.width)
  THEN [error |-> FALSE, op |-> [op EXCEPT !.values = [j \in DOMAIN op.values |-> Value(op.values[j])]]]
  ELSE RefusedOp

\* The width of a named register counts where none is given.
OpOn(reg, p) ==
  CheckOp([type |-> reg.type, id |-> reg.id, number |-> NumberIn(p["@"]),
           addr |-> reg.offset + NumberIn(p["+"]),
           width |-> IF p[Dot] = <<>> THEN reg.width ELSE WidthOf[p[Dot][2]],
           values |-> IF p["="] = <<>> THEN <<>> ELSE Pieces32(Tail(p["="]))])

ParseParts(p) ==
  IF WellFormed(p) /\ Meaning(p["base"]) # {} THEN OpOn(CHOOSE r \in Meaning(p["base"]) : TRUE, p)
  ELSE RefusedOp

\* parse_op
ParseOp(text) == ParseParts(OpParts(text))

----------------------------------------------------------------------------
(* A device is [id, caps]: what filters see of it and its capabilities in  *)
(* the order of its list.  Its registers are a function; what is not in    *)
(* its domain reads as all ones and is not written.                        *)

ReadReg(mem, addr, width) ==
  {n \in 0 .. 8 * width - 1 :
     addr + n \div 8 \in DOMAIN mem => n % 8 \in mem[addr + n \div 8]}

WriteReg(mem, addr, width, x) ==
  [r \in DOMAIN mem |->
     IF r \in addr .. addr + width - 1 THEN {b \in 0 .. 7 : 8 * (r - addr) + b \in x} ELSE mem[r]]

\* A faulty variant: a mask that covers a byte is taken to cover the register.
NewValueByte(mem, addr, width, v) ==
  IF 0 .. 7 \subseteq v.mask THEN v.value
  ELSE (ReadReg(mem, addr, width) \ v.mask) \cup v.value

\* What is written: with a full mask, the register is not read.
NewValue(mem, addr, width, v) ==
  IF 0 .. 8 * width - 1 \subseteq v.mask THEN v.value
  ELSE (ReadReg(mem, addr, width) \ v.mask) \cup v.value

\* "addressing relative to capabilities can change the address": the check is
\* repeated, for the first value.
ReachableReg(addr, width) == addr % width = 0 /\ addr + width <= Size

\* pci_find_cap_nr: the one with as many of its kind before it.
FindCapNr(caps, op) ==
  LET Same(i) == caps[i].type = op.type /\ caps[i].id = op.id
  IN  {i \in DOMAIN caps : Same(i) /\ Cardinality({j \in 1 .. i - 1 : Same(j)}) = op.number}

\* exec_op: the registers it leaves, the accesses it makes, and whether it died.
ExecOp(op, dev, mem, demo) ==
  LET found == op.type = "none" \/ FindCapNr(dev.caps, op) # {}
      cap   == CHOOSE i \in FindCapNr(dev.caps, op) : TRUE
      addr  == op.addr + (IF op.type = "none" THEN 0 ELSE dev.caps[cap].addr)
      at(j) == addr + op.width * (j - 1)
      last  == IF op.values = <<>> THEN 1 ELSE Len(op.values)
  IN  IF ~found \/ ~ReachableReg(addr, op.width) THEN [mem |-> mem, accesses |-> {}, died |-> TRUE]
      ELSE [died |-> FALSE,
            accesses |-> {at(j) : j \in 1 .. last},
            mem |-> IF demo THEN mem
                    ELSE FoldLeftDomain(
                           LAMBDA m, j :
                             WriteReg(m, at(j), op.width, NewValue(m, at(j), op.width, op.values[j])),
                           mem, op.values)]

----------------------------------------------------------------------------
(* An argument is [kind, text]: "s" and "d" are filters, "op" operations.  *)

NewGroup == [filter |-> AnyDevice, ops |-> <<>>]

\* A faulty variant: every filter narrows the first group.
StartsGroupOnce(groups) == groups = <<>>

\* A filter after operations starts a group; more filters narrow it.
StartsGroup(groups) == groups = <<>> \/ Last(groups).ops # <<>>

AddFilter(st, arg) ==
  LET groups == IF StartsGroup(st.groups) THEN Append(st.groups, NewGroup) ELSE st.groups
      f == Last(groups).filter
      r == IF arg.kind = "s" THEN ParseSlot(f, arg.text) ELSE ParseId(f, arg.text)
  IN  [groups |-> [groups EXCEPT ![Len(groups)].filter = r.filter], error |-> r.error]

AddOp(st, arg) ==
  LET r == ParseOp(arg.text)
  IN  IF st.groups = <<>> \/ r.error THEN [st EXCEPT !.error = TRUE]
      ELSE [st EXCEPT !.groups[Len(st.groups)].ops = Append(@, r.op)]

\* parse_ops: an error ends the process before anything is executed.
ParseOps(args) ==
  LET st == FoldLeft(LAMBDA s, arg : IF s.error THEN s
                                     ELSE IF arg.kind = "op" THEN AddOp(s, arg) ELSE AddFilter(s, arg),
                     [groups |-> <<>>, error |-> FALSE], args)
  IN  [st EXCEPT !.error = @ \/ st.groups = <<>>]

MatchesSingle(f) == \A k \in AddressField : f[k] >= 0

\* scan_ops
NeedsScan(groups, raw) ==
  \E i \in DOMAIN groups : groups[i].ops # <<>> /\ ~(raw /\ MatchesSingle(groups[i].filter))

\* select_devices: without a scan the list is empty, and a device is made from
\* its address.
Selected(group, scanned, dev) ==
  Match(group.filter, dev.id) /\ (scanned \/ MatchesSingle(group.filter))

\* execute: group after group, device after device, operation after operation,
\* until one dies.
ExecOps(s, group, d, devs, demo) ==
  FoldLeft(LAMBDA t, op :
             LET r == ExecOp(op, devs[d], t.mem[d], demo)
             IN  IF t.died THEN t ELSE [mem |-> [t.mem EXCEPT ![d] = r.mem], died |-> r.died],
           s, group.ops)

ExecGroup(s, group, scanned, devs, demo) ==
  FoldLeftDomain(LAMBDA t, d : IF Selected(group, scanned, devs[d])
                               THEN ExecOps(t, group, d, devs, demo) ELSE t,
                 s, devs)

Execute(groups, scanned, devs, mem, demo) ==
  FoldLeft(LAMBDA s, group : ExecGroup(s, group, scanned, devs, demo),
           [mem |-> mem, died |-> FALSE], groups)

RunParsed(parsed, opts, devs, mem) ==
  IF parsed.error THEN [mem |-> mem, died |-> TRUE]
  ELSE Execute(parsed.groups, NeedsScan(parsed.groups, opts.raw), devs, mem, opts.demo)

\* setpci, with the options demo and raw.
RunSetpci(args, opts, devs, mem) == RunParsed(ParseOps(args), opts, devs, mem)
=============================================================================
