----------------------------- MODULE MCPayment ------------------------------
(***************************************************************************)
(* Small instances of Payment for TLC: requests of one user that share     *)
(* their key, their token or their inquiry.                                *)
(***************************************************************************)
EXTENDS Payment, TLC

CONSTANTS ana, k1, k2, k3, t1, t2, t3, i1, i2, i3

(* The workers are interchangeable; used where no liveness is checked.     *)
WorkerSymmetry == Permutations(Workers)

MCTokens == {t1, t2}
MCInquiries == {i1}
TwoInquiries == {i1, i2}
ThreeTokens == {t1, t2, t3}
ThreeInquiries == {i1, i2, i3}
MCInquiryOf == [i \in MCInquiries |-> ana]
ThreeInquiryOf == [i \in ThreeInquiries |-> ana]
TwoInquiryOf == [i \in TwoInquiries |-> ana]
MCTokenFor == [t \in MCTokens |-> <<ana, "TRANSFER">>]
MixedTokenFor == [t \in MCTokens |-> IF t = t1 THEN <<ana, "TRANSFER">> ELSE <<ana, "QRIS">>]
RailTokenFor == [t \in ThreeTokens |-> <<ana, CASE t = t1 -> "TRANSFER" [] t = t2 -> "QRIS" [] t = t3 -> "EWALLET">>]

Order(rail, k, t, i) == [user |-> ana, key |-> k, rail |-> rail, token |-> t, inq |-> i]

(* The same order again; with a new PIN entry; and under a new key.        *)
Retries == {Order("TRANSFER", k1, t1, i1), Order("TRANSFER", k1, t2, i1),
            Order("TRANSFER", k2, t2, i1)}

(* One transfer, and its retry with the same items.                        *)
OneTransfer == {Order("TRANSFER", k1, t1, i1)}

(* A transfer and a payment of one user that share a key, and a token used *)
(* for the wrong purpose.                                                  *)
MixedRails == {Order("TRANSFER", k1, t1, i1), Order("QRIS", k1, t2, i2),
               Order("QRIS", k2, t1, i2)}

(* Orders that share nothing but the cache.                                *)
OwnKeys == {Order("TRANSFER", k1, t1, i1), Order("QRIS", k2, t2, i2),
            Order("EWALLET", k3, t3, i3)}
=============================================================================
