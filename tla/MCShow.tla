------------------------------- MODULE MCShow -------------------------------
(***************************************************************************)
(* Devices for the run of Show.                                            *)
(***************************************************************************)
EXTENDS Show

\* Capabilities whose number is not bounded: what opens the second walk, and nothing.
CommonIds ==
  [std |-> {CapId.NULL, CapId.EXP}, ext |-> {ExtCapId.NULL}]

Types == {ExpType.ENDPOINT, ExpType.ROOT_PORT, ExpType.DOWNSTREAM, ExpType.ROOT_INT_EP,
          ExpType.ROOT_EC}

Entry(n, base, offset) == [es |-> n, baseHigh |-> base, offsetHigh |-> offset]

Entries ==
  {<<>>, <<Entry(2, FALSE, FALSE), Entry(4, TRUE, TRUE)>>, <<Entry(3, TRUE, TRUE)>>,
   <<Entry(3, FALSE, TRUE)>>, <<Entry(0, FALSE, FALSE)>>}
=============================================================================
