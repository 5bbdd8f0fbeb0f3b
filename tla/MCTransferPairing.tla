------------------------- MODULE MCTransferPairing --------------------------
(* Two new rows of account 7 within two ticks, and three transactions: one *)
(* of account 8 at any of four dates with one of two amounts, one that may *)
(* be paired already, and one whose account may be that of the import, a   *)
(* third one or unknown. The window is one tick, the tolerance one cent.   *)
EXTENDS TransferPairing

CONSTANTS usd, eur

MCNew == {2, 3}
MCExisting == {1, 4, 5}

Row(a, d, m, c, p) == [account |-> a, date |-> d, amount |-> m, currency |-> c, pairing |-> p]

MCLedgers ==
    {[t \in MCNew \cup MCExisting |->
        CASE t = 1 -> Row(8, d1, m, eur, None)
          [] t = 2 -> Row(7, d2, -10, usd, None)
          [] t = 3 -> Row(7, d3, -11, usd, None)
          [] t = 4 -> Row(8, d4, 10, usd, p)
          [] t = 5 -> Row(a, 1, 10, usd, None)] :
      d1 \in 0..3, m \in {10, 12}, d2 \in 0..2, d3 \in 0..2,
      d4 \in 0..3, p \in {None, 1}, a \in {7, 9, NoAccount}}
=============================================================================
