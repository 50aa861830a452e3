------------------------------- MODULE MCIndex -------------------------------
(* A small ledger for Index: one policy with two asset names of which one is *)
(* a prefix of the other, two addresses with the same payment credential, a  *)
(* script address, and a short and a long Byron address.                     *)
EXTENDS Index

A1 == [network |-> 1, payment |-> <<0, 1>>, delegation |-> <<0, 96>>]
A2 == [network |-> 1, payment |-> <<0, 1>>, delegation |-> <<3>>]
A3 == [network |-> 1, payment |-> <<1, 2>>, delegation |-> <<2, 96, 0, 1>>]
B1 == [byron |-> <<96, 1>>]
B2 == [byron |-> <<96, 1, 2>>]

MCBlake2b(bytes) == 1000 + Len(bytes)

Short == <<96>>
Long == <<96, 97>>

Out(a, coin) == [address |-> a, coin |-> coin, assets |-> <<>>, datum |-> NoDatum, script |-> NoScript]
Holding(short, long) ==
  << [policy |-> 30,
      assets |-> (IF short = 0 THEN <<>> ELSE << [name |-> Short, amount |-> short] >>)
                 \o (IF long = 0 THEN <<>> ELSE << [name |-> Long, amount |-> long] >>)] >>

Tx(hash) ==
  [hash |-> hash, valid |-> TRUE, inputs |-> <<>>, collateral |-> <<>>, outputs |-> <<>>,
   collret |-> NoOutput, mint |-> <<>>, metadata |-> NoMetadata, fee |-> 0, data |-> <<>>,
   scripts |-> <<>>, signers |-> <<>>, withdrawals |-> <<>>, redeemers |-> <<>>]

\* metadata with a label 721 that describes the named assets
Label721(bytes, names) ==
  [label721 |-> [named |-> {<<30, n>> : n \in names}, bytes |-> bytes], bytes |-> bytes + 10]

D1(bytes) == [hash |-> 50, bytes |-> bytes]
S1 == [kind |-> 2, hash |-> 60, bytes |-> 61]

\* mints both assets; the datum of its output is only known by hash
T1 == [Tx(1) EXCEPT !.inputs = << <<0, 0>> >>,
         !.outputs = << [Out(A1, 5) EXCEPT !.assets = Holding(2, 1), !.datum = D1(Absent)], Out(B2, 1) >>,
         !.mint = Holding(2, 1), !.metadata = Label721(71, {Short, Long})]
\* a transfer between two addresses of one credential that shows the datum
T2 == [Tx(2) EXCEPT !.inputs = << <<1, 0>> >>,
         !.outputs = << [Out(A2, 3) EXCEPT !.assets = Holding(2, 1)], Out(B1, 2) >>,
         !.data = << D1(51) >>, !.signers = <<1, 9>>]
\* burns one unit, pays to a script with the datum by hash and a reference script
T3 == [Tx(3) EXCEPT !.inputs = << <<2, 0>>, <<2, 1>> >>,
         !.outputs = << [Out(A3, 4) EXCEPT !.assets = Holding(2, 0), !.datum = D1(Absent), !.script = S1] >>,
         !.mint = << [policy |-> 30, assets |-> << [name |-> Long, amount |-> -1] >>] >>,
         !.metadata = [label721 |-> Absent, bytes |-> 73], !.fee = 1,
         !.redeemers = << [mem |-> 1, steps |-> 2] >>]
\* fails: takes its collateral, which holds assets, and returns part of it
T4 == [Tx(4) EXCEPT !.valid = FALSE, !.inputs = << <<2, 1>> >>, !.collateral = << <<2, 0>> >>,
         !.outputs = << Out(A3, 2) >>, !.mint = Holding(7, 7), !.fee = 1,
         !.metadata = Label721(74, {Short, Long}), !.scripts = << S1 >>,
         !.collret = [Out(A1, 2) EXCEPT !.assets = Holding(2, 1)],
         !.redeemers = << [mem |-> 3, steps |-> 4] >>]
\* burns everything the failed transaction returned
T5 == [Tx(5) EXCEPT !.inputs = << <<4, 1>> >>, !.outputs = << Out(B2, 2) >>,
         !.mint = << [policy |-> 30, assets |-> << [name |-> Short, amount |-> -2],
                                                  [name |-> Long, amount |-> -1] >>] >>]
\* mints again, with new metadata that describe the other asset, and pays twice to one address
T6 == [Tx(6) EXCEPT !.inputs = << <<0, 1>> >>,
         !.outputs = << [Out(A3, 1) EXCEPT !.assets = Holding(1, 0)], Out(A3, 2) >>,
         !.mint = Holding(1, 0), !.metadata = Label721(76, {Long}), !.scripts = << S1 >>]

MCTxPool == {T1, T2, T3, T4, T5, T6}
MCGenesis == {<<0, 0>>, <<0, 1>>}

\* distinct for distinct blocks of chains within the bounds
MCBlockHash(parent, slot, ts) ==
  parent * 200 + slot * 49 + FoldLeft(LAMBDA code, t : code * 7 + t.hash, 0, ts)

MCEncoder == <<73, 96>>

Pattern(exact, payment, script) ==
  [exact |-> exact, payment |-> payment, stake |-> {}, is_script |-> script]

NoFilters ==
  [r \in {"BalanceByAddress", "DatumByHash", "TxByHash", "TxCountByAddress", "TxsByAddress",
          "TxsByPayCred"} |-> NoFilter]

\* a filter that names every address but B2, each in another way
MCFollowed == {A1, A2, A3, B1}
MCFilters ==
  [NoFilters EXCEPT !["BalanceByAddress"] =
     [kind |-> "all_of",
      of |-> << [kind |-> "block", of |-> [slot_after |-> 0, slot_before |-> Absent]],
                [kind |-> "any_of",
                 of |-> << [kind |-> "address", of |-> Pattern({B1}, {<<0, 1>>}, Absent)],
                           [kind |-> "address", of |-> Pattern({}, {}, TRUE)] >>] >>]]
=============================================================================
