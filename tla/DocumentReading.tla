--------------------------- MODULE DocumentReading ---------------------------
(***************************************************************************)
(* Reading a document line by line and checking it against what it         *)
(* declares (services/importer.py, services/reconciliation.py).  A Nubank  *)
(* statement opens days and sections, a movement ends in an amount, on its *)
(* own line or at the end of one with text, and text without an amount is  *)
(* the next movement's description or the last one's metadata.  A card     *)
(* invoice starts a row with a date and ends it with an amount, whose sign *)
(* and component follow from the words beside it.                          *)
(*                                                                         *)
(* A line is its kind; its words are its number.                           *)
(***************************************************************************)
EXTENDS Integers, Sequences, FiniteSets

CONSTANTS MaxLines,  \* bound: lines of a document
          Amounts    \* printed amounts of an invoice, signed

ASSUME ReadingBounds == MaxLines \in Nat /\ Amounts \subseteq Int

VARIABLES form,     \* "statement" or "invoice"
          at,       \* lines read
          day,      \* the open day, 0 for none
          sign,     \* the open section: 1 entries, -1 exits, 0 none
          pending,  \* text not yet a description
          trailing, \* whether it belongs to the row before it
          rows,     \* ParsedTransactions
          layouts,  \* history: the ways movements ended
          described \* history: amounts with words, no disclosure's, before them

drVars == <<form, at, day, sign, pending, trailing, rows, layouts, described>>

Words == {"plain", "payment", "refund", "fee"}

DrTypeOK ==
    /\ form \in {"statement", "invoice"}
    /\ at \in 0 .. MaxLines /\ day \in {0, 1} /\ sign \in {-1, 0, 1}
    /\ pending \in Seq(1 .. MaxLines) /\ trailing \in BOOLEAN
    /\ \A n \in DOMAIN rows : rows[n].amount \in Int /\ rows[n].line \in 1 .. MaxLines
    /\ layouts \subseteq {"bare", "inline"} /\ described \subseteq 1 .. MaxLines

-----------------------------------------------------------------------------
(* Text left over at a boundary goes to the last row, or nowhere.          *)
Attached ==
    IF rows = <<>> \/ pending = <<>> THEN rows
    ELSE [rows EXCEPT ![Len(rows)].text = @ \o pending]

DrInit ==
    /\ form \in {"statement", "invoice"}
    /\ at = 0 /\ day = 0 /\ sign = 0 /\ pending = <<>> /\ trailing = FALSE
    /\ rows = <<>> /\ layouts = {} /\ described = {}

StatementLine == form = "statement" /\ at < MaxLines /\ at' = at + 1 /\ UNCHANGED form
Boundary == rows' = Attached /\ pending' = <<>> /\ trailing' = FALSE

(* A day whose month cannot be read closes the block.                      *)
DayHeader(d, direction) ==
    /\ StatementLine /\ Boundary
    /\ day' = d /\ sign' = direction
    /\ UNCHANGED <<layouts, described>>

SectionHeader(direction) ==
    /\ StatementLine
    /\ IF day = 0 THEN UNCHANGED <<sign, rows, pending, trailing>>
       ELSE Boundary /\ sign' = direction
    /\ UNCHANGED <<day, layouts, described>>

BalanceLine ==
    /\ StatementLine
    /\ IF day = 0 THEN UNCHANGED <<rows, pending, trailing>> ELSE Boundary
    /\ UNCHANGED <<day, sign, layouts, described>>

FooterLine ==
    /\ StatementLine
    /\ UNCHANGED <<day, sign, rows, pending, trailing, layouts, described>>

TextLine ==
    /\ StatementLine
    /\ pending' = IF day = 0 THEN pending ELSE Append(pending, at')
    /\ UNCHANGED <<day, sign, trailing, rows, layouts, described>>

(* After a movement that shared its line, more text is that movement's.    *)
(* A mutant: after any movement.                                           *)
TrailsAlways(layout) == TRUE
Trails(layout) == layout = "inline"

(* What an amount closes: its own text, after that of lines before it      *)
(* which is not the last row's.  Without a description it is dropped, and  *)
(* so is one whose words are those of a disclosure (a limit, simulated     *)
(* interest, a minimum payment).  A text joins at most one description, so *)
(* whether the joined words are a disclosure's is free at each amount.     *)
AmountLine(layout, disclosure) ==
    LET base == IF trailing THEN Attached ELSE rows
        own == IF layout = "inline" THEN <<at + 1>> ELSE <<>>
        text == (IF trailing THEN <<>> ELSE pending) \o own
        kept == text # <<>> /\ ~disclosure /\ sign # 0 IN
    /\ StatementLine
    /\ IF day = 0 THEN UNCHANGED <<rows, pending, trailing, layouts, described>>
       ELSE /\ rows' = IF kept THEN Append(base, [line |-> at', amount |-> sign,
                                                  text |-> text, word |-> "plain"])
                       ELSE base
            /\ pending' = <<>>
            /\ trailing' = (kept /\ Trails(layout))
            /\ layouts' = layouts \cup {layout}
            /\ described' = IF pending \o own # <<>> /\ ~disclosure /\ sign # 0
                            THEN described \cup {at'} ELSE described
    /\ UNCHANGED <<day, sign>>

-----------------------------------------------------------------------------
(* The sign a card's amount is given: payments and refunds are credits,    *)
(* and of the others what is printed as negative.                          *)
Normalized(word, a) ==
    LET size == IF a < 0 THEN -a ELSE a IN
    IF word \in {"payment", "refund"} \/ a < 0 THEN size ELSE -size

InvoiceLine == form = "invoice" /\ at < MaxLines /\ at' = at + 1
               /\ UNCHANGED <<form, sign, trailing, layouts, described>>

(* A row starts with a date; its words and amount may come on later lines, *)
(* and a new date drops one without an amount.                             *)
StartRow ==
    /\ InvoiceLine /\ day' = 1 /\ pending' = <<at'>> /\ UNCHANGED rows

ContinueRow ==
    /\ InvoiceLine
    /\ pending' = IF day = 0 THEN pending ELSE Append(pending, at')
    /\ UNCHANGED <<day, rows>>

(* The line that brings the amount may be the one with the date.           *)
Joined(dated) == IF dated THEN <<at + 1>> ELSE Append(pending, at + 1)
Closed == day' = 0 /\ pending' = <<>>

EndRow(word, a, dated) ==
    /\ InvoiceLine /\ (dated \/ day = 1)
    /\ rows' = Append(rows, [line |-> at', amount |-> Normalized(word, a),
                             text |-> Joined(dated), word |-> word])
    /\ Closed

(* An amount without words, or with those of a disclosure, ends the row    *)
(* without a movement.                                                     *)
SkipRow(dated) == InvoiceLine /\ (dated \/ day = 1) /\ Closed /\ UNCHANGED rows

DrNext ==
    \/ \E direction \in {1, -1} :
          SectionHeader(direction) \/ \E d \in {0, 1} : DayHeader(d, direction)
    \/ BalanceLine \/ FooterLine \/ TextLine
    \/ \E layout \in {"bare", "inline"}, disclosure \in BOOLEAN :
          AmountLine(layout, disclosure)
    \/ StartRow \/ ContinueRow
    \/ \E dated \in BOOLEAN :
          SkipRow(dated) \/ \E word \in Words, a \in Amounts : EndRow(word, a, dated)

DrSpec == DrInit /\ [][DrNext]_drVars

-----------------------------------------------------------------------------
Summed(f(_)) ==
    LET upTo[n \in 0 .. Len(rows)] ==
            IF n = 0 THEN 0 ELSE upTo[n - 1] + f(rows[n])
    IN  upTo[Len(rows)]

Magnitude(r) == IF r.amount < 0 THEN -r.amount ELSE r.amount
Credits == LET of(r) == IF r.amount > 0 THEN Magnitude(r) ELSE 0 IN Summed(of)
Debits == LET of(r) == IF r.amount < 0 THEN Magnitude(r) ELSE 0 IN Summed(of)

(* The component a row of a card counts in.                                *)
(* A mutant: a credit without a word for it counts nowhere.                *)
ComponentByWord(r) ==
    IF r.word # "plain" THEN r.word ELSE IF r.amount < 0 THEN "purchase" ELSE "none"
Component(r) ==
    IF r.word # "plain" THEN r.word ELSE IF r.amount < 0 THEN "purchase" ELSE "payment"
In(c) == LET of(r) == IF Component(r) = c THEN Magnitude(r) ELSE 0 IN Summed(of)

Reconstructed(opening) ==
    IF form = "statement" THEN opening + Credits - Debits
    ELSE opening + In("purchase") + In("fee") - In("refund") - In("payment")

(* What the rows make of an opening balance: owed to a card, owned else.   *)
Net == LET of(r) == r.amount IN Summed(of)
Followed(opening) == IF form = "statement" THEN opening + Net ELSE opening - Net

FeeCredited == \E n \in DOMAIN rows : rows[n].word = "fee" /\ rows[n].amount > 0

(* The total a document is compared with is the one its own rows lead to:  *)
(* every credit and charge counts once and in its direction, whatever      *)
(* words it carries, but for a fee given back.                             *)
TotalFollowsTheRows == FeeCredited \/ Reconstructed(0) = Followed(0)

(* In a statement laid out one way or the other every amount with words    *)
(* becomes a row, unless the words, or text left before them, are those of *)
(* a disclosure.                                                           *)
UniformLayoutReadsEverything ==
    Cardinality(layouts) = 1 =>
        \A n \in described : \E k \in DOMAIN rows : rows[k].line = n

(* Both together: no movement is dropped but for its words, and none is    *)
(* counted the wrong way (the readers of importer.py, reconciliation.py).  *)
NothingIsMisread == TotalFollowsTheRows /\ UniformLayoutReadsEverything

(* "Both shapes are therefore supported by the same state machine": after  *)
(* a movement on one line, one whose words and amount are on two lines     *)
(* loses its words to the former, and is dropped for having none.          *)
EveryMovementIsRead ==
    \A n \in described : \E k \in DOMAIN rows : rows[k].line = n

(* The comment of _transaction_components speaks of "every credit on the   *)
(* statement": a fee given back is added to the fees.                      *)
EveryCreditCounts == Reconstructed(0) = Followed(0)
=============================================================================
