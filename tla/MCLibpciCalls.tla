--------------------------- MODULE MCLibpciCalls ---------------------------
(***************************************************************************)
(* Arguments for the run of LibpciCalls: for each field the values at its  *)
(* bounds and one past them.                                               *)
(***************************************************************************)
EXTENDS LibpciCalls, TLC

HexNumber ==
  "0" :> 0 @@ "7" :> 7 @@ "8" :> 8 @@ "1f" :> 31 @@ "20" :> 32 @@ "ff" :> 255 @@
  "100" :> 256 @@ "ffff" :> 65535 @@ "10000" :> 65536 @@ "7fffffff" :> 2147483647 @@
  "-1" :> -1

Bad == <<"0x">>

Options(S) == {<<>>, <<Star>>, Bad} \cup {<<t>> : t \in S}

Heads ==
  {<<>>} \cup {b \o <<Colon>> : b \in Options({"ff", "100"})}
    \cup {d \o <<Colon>> \o b \o <<Colon>> :
            d \in Options({"0", "7fffffff", "-1"}), b \in Options({"ff", "100"})}
    \cup {<<"0", Colon, "0", Colon, "0", Colon>>, <<"0", Dot, "0", Colon>>}

Tails ==
  LET slots == Options({"0", "1f", "20"})
  IN  slots \cup {s \o <<Dot>> \o f : s \in slots, f \in Options({"7", "8"})}
        \cup {<<"0", Dot, "0", Dot, "0">>}

SomeSlotStrings == {h \o t : h \in Heads, t \in Tails}

SomeIdStrings ==
  LET ids == Options({"0", "ffff", "10000"})
  IN  ids \cup {v \o <<Colon>> \o d : v, d \in ids}
        \cup {v \o <<Colon>> \o d \o <<Colon>> \o c : v, d, c \in ids}
        \cup {<<"0", Colon, "0", Colon, "0", Colon, "0">>}

\* Every field at its smallest or largest value.
SomeDevices == {[k \in Field |-> IF k \in S THEN Largest[k] ELSE 0] : S \in SUBSET Field}

\* After pci_filter_init, after memset, and in memory malloc returned.
SomeFilters == {AnyDevice, [k \in Field |-> 0], [k \in Field |-> 9]}

\* Around the start of the registers and around each method's limit.
SomeRequests ==
  [op : {"read", "write"}, domain : {0, 1}, dev : {1, 16}, size : {64, 256},
   pos : (0 .. 5) \cup {62} \cup (251 .. 257) \cup {4092, 4095, 4096}, len : 0 .. 9,
   rw : BOOLEAN, twin : BOOLEAN]

Slots(b, d, f, multis) ==
  {{}} \cup {{[bus |-> b, dev |-> d, fn |-> f, multi |-> m, sec |-> s]} :
               m \in multis, s \in {None, 0, 1, 2}}

SomeTopologies ==
  {w \cup x \cup y \cup z :
     w \in Slots(0, 0, 0, BOOLEAN), x \in Slots(0, 0, 1, {FALSE}),
     y \in Slots(1, 0, 0, {FALSE}), z \in Slots(2, 3, 0, {FALSE})}

\* pci_generic_scan, and AIX and SylixOS with several buses.
SomeRoots == {<<0>>, <<0, 1, 2>>, <<2, 0>>}

\* A normal device has six registers, a bridge two, a CardBus bridge one.
SomeBarLists == UNION {[1 .. n -> BarKind] : n \in {1, 2, 6}}

(***************************************************************************)
(* setpci.                                                                 *)
(***************************************************************************)

Word32 ==
  "0" :> 0 @@ "1" :> 1 @@ "4" :> 4 @@ "5" :> 5 @@ "f" :> 15 @@ "ff" :> 255 @@ "100" :> 256 @@
  "fff" :> 4095 @@ "1000" :> 4096 @@ "a5a5" :> 42405 @@ "ff0f" :> 65295 @@ "ff00ff" :> 16711935 @@
  "ffffff00" :> -256 @@ "fffffeff" :> -257 @@ "80000000" :> -2147483647 - 1

SomeRegisters ==
  "COMMAND" :> [type |-> "none", id |-> 0, offset |-> 4, width |-> 2] @@
  "CAP_PM" :> [type |-> "CAP", id |-> 1, offset |-> 0, width |-> 0]

Joined(bases, offsets, widths, numbers, values) ==
  {b \o o \o w \o n \o v :
     b \in bases, o \in offsets, w \in widths, n \in numbers, v \in values}

Endings(sep, S) == {<<>>, <<sep>>} \cup {<<sep, t>> : t \in S}

\* All bases, offsets and widths; all numbers and values; separators out of order.
SomeOpStrings ==
  Joined({<<"4">>, <<"fff">>, <<"1000">>, <<"ffffff00">>, <<"COMMAND">>, <<"CAP_PM">>, <<"CAP", "1">>,
          <<"CAP", "100">>, <<"ECAP", "100">>, Bad},
         Endings("+", {"0", "1", "fff", "1000", "0x"}), Endings(Dot, {"B", "W", "L", "0x"}),
         {<<>>, <<"@", "1">>}, {<<>>, <<"=", "ff">>, <<"=", "1", ",", "1">>})
  \cup
  Joined({<<"4">>, <<"CAP_PM">>}, {<<>>, <<"+", "4">>}, {<<Dot, w>> : w \in {"B", "W", "L"}},
         Endings("@", {"1", "80000000", "0x"}),
         Endings("=", {"100", "ffffff00", "fffffeff", "a5a5", "0x"}) \cup
         {<<"=", "5", Colon, "f">>, <<"=", Colon, "f">>, <<"=", "1", Colon>>, <<"=", "1", ",">>,
          <<"=", "a5a5", Colon, "ff0f">>, <<"=", "a5a5", Colon, "ff00ff", ",", "5", Colon, "ffffff00">>,
          <<"=", "ff", ",", "0", Colon, "5">>, <<"=", "1", Colon, "1", Colon, "1">>})
  \cup
  {<<"4", Dot, "B", "+", "1">>, <<"4", "@", "1", Dot, "B">>, <<"4", "=", "1", Dot, "B">>,
   <<"4", Dot, "B", "=", "1", "=", "1">>, <<"4", "+", "1", "+", "1", Dot, "B">>}

SomeOperations == {ParseOp(t).op : t \in {u \in SomeOpStrings : ~ParseOp(u).error}}

Ident(bus, device) == [k \in Field |-> IF k = "bus" THEN bus ELSE IF k = "device" THEN device ELSE 0]

\* One with two capabilities of the same id, one with none, one with one at an
\* odd address.
SomeTargets ==
  << [id |-> Ident(0, 7), caps |-> <<[type |-> "CAP", id |-> 1, addr |-> 16],
                                     [type |-> "CAP", id |-> 1, addr |-> 4084]>>],
     [id |-> Ident(7, 8), caps |-> <<>>],
     [id |-> Ident(8, 7), caps |-> <<[type |-> "CAP", id |-> 1, addr |-> 17]>>] >>

SomeMemory ==
  [d \in 1 .. 3 |-> [r \in (0 .. 31) \cup (4080 .. 4095) |->
                       {b \in 0 .. 7 : (b + r + d) % 3 # 0}]]

\* Each device by its address, two by their ids, none; a filter that names another
\* field; operations that do not commute, one that two of the devices die of, and
\* what is malformed.
SomeArguments ==
  {[kind |-> "s", text |-> <<"0", Colon, b, Colon, "0", Dot, "0">>] : b \in {"0", "7"}} \cup
  {[kind |-> "d", text |-> <<"0", Colon, "7">>],
   [kind |-> "s", text |-> <<Dot, "0">>],
   [kind |-> "s", text |-> <<"100", Colon, "0", Dot, "0">>],
   [kind |-> "op", text |-> <<"4", Dot, "B", "=", "5", Colon, "f">>],
   [kind |-> "op", text |-> <<"COMMAND", "=", "a5a5">>],
   [kind |-> "op", text |-> <<"CAP_PM", "+", "4", Dot, "W", "=", "0">>],
   [kind |-> "op", text |-> <<"4", "=", "0">>]}

SomeCommandLines == UNION {[1 .. n -> SomeArguments] : n \in 0 .. 4}

(***************************************************************************)
(* lspci.                                                                  *)
(***************************************************************************)

\* No function, a plain one, or a bridge with any range of these buses.
Nodes(b, d, f, multis) ==
  {{}} \cup {{[bus |-> b, dev |-> d, fn |-> f, multi |-> m, sec |-> r[1], sub |-> r[2]]} :
               m \in multis, r \in {<<None, None>>} \cup (0 .. 2) \X (0 .. 2)}

SomeMaps ==
  {w \cup x \cup y \cup z :
     w \in Nodes(0, 0, 0, BOOLEAN), x \in Nodes(0, 0, 1, {FALSE}),
     y \in Nodes(1, 0, 0, {FALSE}), z \in Nodes(2, 3, 0, {FALSE})}

\* None, one bus, one slot, the first function and another one.
SomeMapFilters ==
  {AnyDevice} \cup {[AnyDevice EXCEPT ![k] = 0] : k \in {"bus", "slot", "func"}}
    \cup {[AnyDevice EXCEPT ![k] = 1] : k \in {"bus", "func"}}

\* The image so far with another byte that makes its sum come out right.
Summed(image) == Append(image, (256 - ByteSum(image, 1, Len(image))) % 256)

Sevens(n) == [i \in 1 .. n |-> 7]

\* What may follow an image: a field with a part number, a reserved field that is
\* right, wrong, empty or has room behind the sum, and one of 9 bytes.
WithField(image, kind) ==
  CASE kind = "PN"    -> image \o <<80, 78, 2, 65, 66>>
    [] kind = "PN0"   -> image \o <<80, 78, 0>>
    [] kind = "good"  -> Summed(image \o <<82, 86, 3>>) \o <<1, 2>>
    [] kind = "bad"   -> image \o <<82, 86, 1, 3>>
    [] kind = "empty" -> image \o <<82, 86, 0>>
    [] kind = "long"  -> image \o <<82, 86, 9, 1>>

FieldKinds == {"PN", "PN0", "good", "bad", "empty", "long"}

\* The length a resource of these fields has.
FieldsLength(kinds) == FoldLeft(LAMBDA n, k : n + Len(WithField(<<>>, k)), 0, kinds)

\* An image with a resource of fields whose stated length is off by some bytes.
WithFields(image, tag, kinds, off) ==
  LET n == FieldsLength(kinds) + off
  IN  IF n < 0 THEN image
      ELSE FoldLeft(WithField, image \o <<tag, n, 0>>, kinds)

Names == {<<>>, <<130, 2, 0, 65, 66>>, <<130, 44, 1>> \o Sevens(300)}

Kinds == UNION {[1 .. n -> FieldKinds] : n \in 0 .. 2}

\* The end tag, one that is not known, a length that takes two bytes, a small
\* resource that does not fit, nothing.
EndTails == {<<120>>, <<112>>, <<144, 0, 1>>, <<39>>, <<>>}

ByteFrom0(image) == [i \in 0 .. Len(image) - 1 |-> image[i + 1]]

SomeVpdImages ==
  {ByteFrom0(WithFields(name, 144, kinds, off) \o tail) :
     name \in Names, kinds \in Kinds, off \in {-2, 0, 1}, tail \in EndTails}
  \cup
  {ByteFrom0(WithFields(WithFields(name, 144, kinds, 0), 145, more, off) \o <<120>>) :
     name \in Names, kinds \in Kinds, more \in {<<>>} \cup {<<k>> : k \in FieldKinds}, off \in {-1, 0}}
============================================================================
