------------------------------ MODULE MCLedger ------------------------------
(***************************************************************************)
(* Two concurrent requests over small sets of documents that share the     *)
(* accounts of one customer or one vendor.                                 *)
(***************************************************************************)
EXTENDS Ledger, TLC

CONSTANTS s1, s2, customer, vendor, sales, purchases, gst, cash, rounding, withheld

MCSessions == {s1, s2}
MCAccounts == {customer, vendor, sales, purchases, gst, cash, rounding, withheld}
MCOpening == [x \in MCAccounts |-> IF x = cash THEN 500 ELSE IF x = vendor THEN -500 ELSE 0]

MCTypeOf == [inv |-> "invoice", inv2 |-> "invoice", bill |-> "bill", bill2 |-> "bill",
           exp |-> "expense", exp2 |-> "expense", rcpt |-> "receipt", pay |-> "disbursement",
           cn |-> "credit_note", cn2 |-> "credit_note", dn |-> "debit_note",
           sr |-> "sales_return", pr |-> "purchase_return"]
MCDocs == DOMAIN MCTypeOf

\* One expense names its bank account, the other is paid from the default one; the
\* receipt is pushed by a device.
MCBanked == {"exp", "rcpt"}

\* Party and nominal account by type; round-off and withholding are shared.
Party(type) == IF type \in {"bill", "disbursement", "purchase_return"} THEN vendor
               ELSE IF type = "expense" THEN cash ELSE customer
Nominal(type) == IF type \in {"bill", "purchase_return", "expense"} THEN purchases
                 ELSE IF type \in {"receipt", "disbursement"} THEN cash ELSE sales

MCAccountOf == [d \in MCDocs |->
    LET type == MCTypeOf[d]
    IN  [r \in Roles |->
            CASE r \in {"party", "partyRoundOff"} -> Party(type)
              [] r \in {"nominal", "shipping"} -> Nominal(type)
              [] r = "tax" -> gst
              [] r = "roundOff" -> rounding
              [] r \in {"tds", "tcs"} -> withheld]]

None == [net |-> 0, shipping |-> 0, tax |-> 0, tds |-> 0, tcs |-> 0, roundOff |-> 0]
Plain == [None EXCEPT !.net = 1000]
Taxed == [None EXCEPT !.net = 1000, !.tax = 200]
Shipped == [Taxed EXCEPT !.shipping = 300]
\* As another program exports it: a total of whole paise rounded further.
Rounded == [Shipped EXCEPT !.roundOff = 400]
\* Eleven paise with one and a half withheld: the two halves round apart.
Tied == [None EXCEPT !.net = 1000, !.tax = 100, !.tds = 150]
\* Dust below a paisa, which would become a line of zero.
Dusty == [None EXCEPT !.net = 1050, !.roundOff = -50]

\* An invoice entered here has no shipping, which POST /invoices/{id}/cancel
\* forgets, and an imported bill no round-off, which its reversal doubles.
MCEntered == [type \in Types |->
    CASE type = "invoice" -> {Taxed, Tied}
      [] type = "bill" -> {Shipped, Plain}
      [] type = "expense" -> {Taxed, Dusty}
      [] OTHER -> {Plain}]
MCImported == [type \in Types |-> IF type = "invoice" THEN {Rounded} ELSE {Shipped}]

\* A document and the spare for its replacement, and pairs that share accounts.
MCScenarios == {{"inv", "inv2"}, {"bill", "bill2"}, {"exp", "exp2"}, {"inv", "rcpt"},
                {"bill", "exp"}, {"rcpt", "pay"}, {"cn", "cn2"}, {"dn", "sr"}, {"pr", "pay"}}

\* The amounts the assumptions above leave out.
ShippedInvoices == [type \in Types |-> {Shipped}]
RoundedImports == [type \in Types |-> {Rounded}]
OneInvoice == {{"inv"}}
OneBill == {{"bill"}}
=============================================================================
